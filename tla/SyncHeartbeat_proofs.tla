------------------------- MODULE SyncHeartbeat_proofs -------------------------
(***************************************************************************)
(* The outbox of completion-clear heartbeats, for every set of route ends  *)
(* and any number of failures, timeouts, changes of session and restarts:  *)
(* what a caller was told is stored, only observed entries are closed, and *)
(* no sequence is handed out twice.                                        *)
(***************************************************************************)
EXTENDS SyncHeartbeat, TLAPS

Phases == {"idle", "access", "numbering", "numbered", "sent", "answered", "storing"}
Attempt == [phase : Phases, entry : Entries \cup {None}, seq : Nat,
            answer : {None, "accepted", "conflict", "unauthorized"},
            waiting : BOOLEAN, current : BOOLEAN, wrote : BOOLEAN, again : BOOLEAN,
            epoch : Nat]

HeartbeatTypeOK ==
    /\ owed \subseteq Entries /\ marked \subseteq owed /\ saved \subseteq owed
    /\ told \subseteq Entries /\ observed \subseteq Entries
    /\ queue \in {"clean", "dirty", "degraded"}
    /\ account \in [bound : BOOLEAN, epoch : Nat,
                    load : {"binding", "loading", "done", "failed", "out"}]
    /\ identity \in [memory : [Entries -> Nat], disk : [Entries -> Nat]]
    /\ attempts \in [Attempts -> Attempt]
    /\ budget \in [direct : Nat, trouble : Nat]

(* An attempt that is under way has an entry; only one that waits for the     *)
(* queue has written a marker, and its caller waits with it.                  *)
AttemptsAreShaped ==
    \A a \in Attempts :
        /\ attempts[a].phase # "idle" => attempts[a].entry \in Entries
        /\ attempts[a].phase = "storing" <=> attempts[a].wrote
        /\ attempts[a].wrote => attempts[a].waiting
        /\ a \in Entries /\ attempts[a].phase # "idle" => attempts[a].entry = a

(* A marker belongs to one attempt until its caller was told.                  *)
MarkersAreOwned ==
    /\ \A a \in Attempts : attempts[a].wrote => attempts[a].entry \in marked \ told
    /\ \A a, b \in Attempts :
          attempts[a].wrote /\ attempts[b].wrote /\ a # b => attempts[a].entry # attempts[b].entry

(* What a clean queue holds is what is stored.                                *)
CleanIsStored == queue = "clean" => saved = marked

AcceptedIsObserved ==
    \A a \in Attempts : attempts[a].answer = "accepted" => attempts[a].entry \in observed

(* One attempt has a number written that is not in memory yet; nothing that    *)
(* was handed out is above what is written.                                   *)
NumbersAreWritten ==
    /\ \A a, b \in Attempts : At(a, "numbered") /\ At(b, "numbered") => a = b
    /\ \A a \in Attempts :
          At(a, "numbered")
          => identity.memory[attempts[a].entry] < identity.disk[attempts[a].entry]
    /\ \A e \in Entries : identity.memory[e] <= identity.disk[e]
    /\ issued \subseteq Entries \X Nat
    /\ \A n \in issued : n[2] <= identity.memory[n[1]]

HeartbeatInv ==
    /\ HeartbeatTypeOK /\ AttemptsAreShaped /\ MarkersAreOwned /\ CleanIsStored
    /\ ToldIsStored /\ AcceptedIsObserved /\ ClosedOnlyIfObserved /\ NumbersAreWritten
    /\ HealthOfThisAccount

--------------------------------------------------------------------------------
(* What the parts of the invariant ask of a step.                             *)

(* Nobody but the writer of a sequence becomes the one whose number is written. *)
NumbersRest ==
    /\ UNCHANGED <<identity, issued>>
    /\ \A b \in Attempts :
          attempts'[b].phase = "numbered"
          => attempts[b].phase = "numbered" /\ attempts'[b].entry = attempts[b].entry

LEMMA NumbersKept ==
    ASSUME HeartbeatInv, NumbersRest
    PROVE  NumbersAreWritten'
BY DEF HeartbeatInv, NumbersAreWritten, NumbersRest, At

(* No new marker and no new answer of the server; an attempt whose marker is   *)
(* taken back no longer counts as its writer.                                 *)
OutboxStep(reopened) ==
    /\ Reopens(reopened) /\ UNCHANGED <<owed, saved, told>>
    /\ observed \subseteq observed' /\ observed' \subseteq Entries
    /\ \A e \in reopened : \E b \in Attempts :
          attempts[b].wrote /\ attempts[b].entry = e /\ ~attempts'[b].wrote
    /\ \A b \in Attempts :
          /\ attempts'[b].wrote => attempts[b].wrote /\ attempts'[b].entry = attempts[b].entry
          /\ attempts'[b].answer = "accepted"
             => attempts[b].answer = "accepted" /\ attempts'[b].entry = attempts[b].entry

OutboxInv ==
    /\ MarkersAreOwned /\ CleanIsStored /\ ToldIsStored /\ AcceptedIsObserved
    /\ ClosedOnlyIfObserved

LEMMA OutboxKept ==
    ASSUME HeartbeatInv, NEW reopened, OutboxStep(reopened)
    PROVE  /\ OutboxInv'
           /\ marked' \subseteq owed' /\ saved' \subseteq owed'
           /\ queue' \in {"clean", "dirty", "degraded"}
<1> USE DEF HeartbeatInv, OutboxStep
<1>1. \A b \in Attempts : attempts'[b].wrote => attempts'[b].entry \notin reopened
  BY DEF MarkersAreOwned
<1>2. marked' = marked \ reopened /\ told \cap reopened = {}
  BY DEF Reopens, MarkersAreOwned
<1>3. MarkersAreOwned'
  BY <1>1, <1>2 DEF MarkersAreOwned
<1>4. CleanIsStored' /\ queue' \in {"clean", "dirty", "degraded"}
  BY DEF CleanIsStored, Reopens, Touched, HeartbeatTypeOK
<1>5. ToldIsStored'
  BY <1>2 DEF ToldIsStored
<1>6. AcceptedIsObserved'
  BY DEF AcceptedIsObserved
<1>7. ClosedOnlyIfObserved'
  BY <1>2 DEF ClosedOnlyIfObserved
<1>8. marked' \subseteq owed' /\ saved' \subseteq owed'
  BY <1>2 DEF HeartbeatTypeOK
<1> QED BY <1>3, <1>4, <1>5, <1>6, <1>7, <1>8 DEF OutboxInv

(* The display shows an answer to this account or nothing.                     *)
LEMMA HealthShown ==
    ASSUME HeartbeatInv, NEW a \in Attempts, account'.epoch = account.epoch,
           Shows(a) \/ ShowsWhatWasRead(a) \/ UNCHANGED health
    PROVE  HealthOfThisAccount'
BY DEF HeartbeatInv, HealthOfThisAccount, Shows, ShowsWhatWasRead, Project, OfOldEpoch, Answer,
       NoHealth

LEMMA HealthCleared ==
    ASSUME Clears(account'.epoch)
    PROVE  HealthOfThisAccount'
BY DEF Clears, ReadBefore, OfOldEpoch, Answer, HealthOfThisAccount, NoHealth

(* One attempt changes.                                                       *)
OneChanges(a, r) ==
    /\ attempts' \in [Attempts -> Attempt]
    /\ attempts'[a] = r /\ \A b \in Attempts \ {a} : attempts'[b] = attempts[b]

LEMMA Changed ==
    ASSUME HeartbeatTypeOK, NEW a \in Attempts, NEW r \in Attempt,
           attempts' = [attempts EXCEPT ![a] = r]
    PROVE  OneChanges(a, r)
BY DEF HeartbeatTypeOK, OneChanges

Shaped(a, r) ==
    /\ r.phase # "idle" => r.entry \in Entries
    /\ r.phase = "storing" <=> r.wrote
    /\ r.wrote => r.waiting
    /\ a \in Entries /\ r.phase # "idle" => r.entry = a

LEMMA ShapeKept ==
    ASSUME HeartbeatInv, NEW a \in Attempts, NEW r, OneChanges(a, r), Shaped(a, r)
    PROVE  AttemptsAreShaped'
BY DEF HeartbeatInv, AttemptsAreShaped, OneChanges, Shaped

LEMMA RestingIsShaped ==
    Resting \in Attempt /\ \A a \in Attempts : Shaped(a, Resting)
BY DEF Resting, Attempt, Phases, Shaped, None

LEMMA DetachedIsShaped ==
    ASSUME HeartbeatInv, NEW a \in Attempts
    PROVE  /\ Detached(a) \in Attempt /\ Shaped(a, Detached(a)) /\ ~Detached(a).wrote
           /\ Detached(a).phase = "numbered"
              => attempts[a].phase = "numbered" /\ Detached(a).entry = attempts[a].entry
           /\ Detached(a).answer = "accepted"
              => attempts[a].answer = "accepted" /\ Detached(a).entry = attempts[a].entry
<1> DEFINE r == attempts[a]
<1>1. r \in Attempt /\ Shaped(a, r)
  BY DEF HeartbeatInv, HeartbeatTypeOK, AttemptsAreShaped, Shaped
<1>2. CASE r.phase \in {"numbering", "numbered", "answered"}
  <2>1. Detached(a) = [r EXCEPT !.waiting = FALSE, !.wrote = FALSE]
    BY <1>2 DEF Detached
  <2> QED BY <2>1, <1>1, <1>2 DEF Attempt, Shaped
<1>3. CASE r.phase \notin {"numbering", "numbered", "answered"}
  <2>1. Detached(a) = Resting
    BY <1>3 DEF Detached
  <2> QED BY <2>1, RestingIsShaped DEF Resting, None
<1> QED BY <1>2, <1>3

--------------------------------------------------------------------------------
(* The steps of one attempt.                                                  *)

BudgetTyped == budget' \in [direct : Nat, trouble : Nat]

LEMMA BudgetKept ==
    ASSUME HeartbeatInv, UNCHANGED budget \/ Trouble
    PROVE  BudgetTyped
<1>1. budget \in [direct : Nat, trouble : Nat]
  BY DEF HeartbeatInv, HeartbeatTypeOK
<1>2. CASE Trouble
  BY <1>1, <1>2 DEF Trouble, BudgetTyped
<1> QED BY <1>1, <1>2 DEF BudgetTyped

(* Everything but the numbers.                                                *)
LEMMA OneStepButNumbers ==
    ASSUME HeartbeatInv, NEW a \in Attempts, NEW r, OneChanges(a, r), Shaped(a, r),
           OutboxInv', marked' \subseteq owed', saved' \subseteq owed',
           queue' \in {"clean", "dirty", "degraded"}, told' \subseteq Entries,
           observed' \subseteq Entries,
           NumbersAreWritten', identity' \in [memory : [Entries -> Nat], disk : [Entries -> Nat]],
           HealthOfThisAccount', UNCHANGED <<owed, account>>, BudgetTyped
    PROVE  HeartbeatInv'
<1>1. AttemptsAreShaped' BY ShapeKept
<1>2. HeartbeatTypeOK'
  BY DEF HeartbeatInv, HeartbeatTypeOK, OneChanges, BudgetTyped
<1> QED BY <1>1, <1>2 DEF HeartbeatInv, OutboxInv

LEMMA OneStep ==
    ASSUME HeartbeatInv, NEW a \in Attempts, NEW r, OneChanges(a, r), Shaped(a, r),
           NEW reopened, OutboxStep(reopened), NumbersRest, HealthOfThisAccount',
           UNCHANGED account, BudgetTyped
    PROVE  HeartbeatInv'
<1>1. NumbersAreWritten' BY NumbersKept
<1>2. /\ OutboxInv' /\ marked' \subseteq owed' /\ saved' \subseteq owed'
      /\ queue' \in {"clean", "dirty", "degraded"}
  BY OutboxKept
<1>3. /\ told' \subseteq Entries /\ observed' \subseteq Entries /\ UNCHANGED owed
      /\ identity' \in [memory : [Entries -> Nat], disk : [Entries -> Nat]]
  BY DEF OutboxStep, NumbersRest, HeartbeatInv, HeartbeatTypeOK
<1> QED BY <1>1, <1>2, <1>3, OneStepButNumbers

(* An outbox nobody touches.                                                  *)
LEMMA OutboxRests ==
    ASSUME HeartbeatInv, NEW a \in Attempts, NEW r, OneChanges(a, r),
           UNCHANGED <<owed, marked, saved, queue, told>>,
           observed \subseteq observed', observed' \subseteq Entries,
           r.wrote => attempts[a].wrote /\ r.entry = attempts[a].entry,
           r.answer = "accepted" => attempts[a].answer = "accepted" /\ r.entry = attempts[a].entry
    PROVE  OutboxStep({})
BY DEF OutboxStep, Reopens, OneChanges

LEMMA NumbersUntouched ==
    ASSUME HeartbeatInv, NEW a \in Attempts, NEW r, OneChanges(a, r),
           UNCHANGED <<identity, issued>>,
           r.phase = "numbered" => attempts[a].phase = "numbered" /\ r.entry = attempts[a].entry
    PROVE  NumbersRest
BY DEF NumbersRest, OneChanges

(* An attempt that failed: its caller takes back the marker it wrote.          *)
LEMMA Failed ==
    ASSUME HeartbeatInv, NEW a \in Attempts, Fails(a) \/ Vanishes(a),
           UNCHANGED <<account, told>>, observed \subseteq observed', observed' \subseteq Entries
    PROVE  /\ OneChanges(a, Resting)
           /\ \E reopened : OutboxStep(reopened)
           /\ HealthOfThisAccount'
           /\ UNCHANGED <<identity, issued>> => NumbersRest
<1>1. OneChanges(a, Resting)
  BY Changed, RestingIsShaped DEF HeartbeatInv, Fails, Vanishes, Rests
<1>2. ~Resting.wrote /\ Resting.phase = "idle" /\ Resting.answer # "accepted"
  BY DEF Resting, None
<1>3. \E reopened : OutboxStep(reopened)
  <2>1. CASE Fails(a)
    <3>1. Reopens(Reopened(a)) /\ UNCHANGED <<owed, saved>>
      BY <2>1 DEF Fails
    <3>2. OutboxStep(Reopened(a))
      BY <1>1, <1>2, <3>1 DEF OutboxStep, OneChanges, Reopened
    <3> QED BY <3>2
  <2>2. CASE Vanishes(a)
    <3>1. OutboxStep({})
      BY <2>2, <1>1, <1>2, OutboxRests DEF Vanishes, outbox
    <3> QED BY <3>1
  <2> QED BY <2>1, <2>2
<1>4. HealthOfThisAccount'
  BY HealthShown DEF Fails, Vanishes
<1>5. UNCHANGED <<identity, issued>> => NumbersRest
  BY <1>1, <1>2, NumbersUntouched
<1> QED BY <1>1, <1>3, <1>4, <1>5

LEMMA FailedStep ==
    ASSUME HeartbeatInv, NEW a \in Attempts, Fails(a) \/ Vanishes(a),
           UNCHANGED <<account, told, identity, issued>>, observed \subseteq observed',
           observed' \subseteq Entries, BudgetTyped
    PROVE  HeartbeatInv'
BY Failed, OneStep, RestingIsShaped

(* A change of the phase alone.                                               *)
LEMMA Phased ==
    ASSUME HeartbeatInv, NEW a \in Attempts, NEW phase \in Phases, Goes(a, phase)
    PROVE  /\ [attempts[a] EXCEPT !.phase = phase] \in Attempt
           /\ OneChanges(a, [attempts[a] EXCEPT !.phase = phase])
<1> DEFINE r == [attempts[a] EXCEPT !.phase = phase]
<1>1. attempts[a] \in Attempt BY DEF HeartbeatInv, HeartbeatTypeOK
<1>2. r \in Attempt BY <1>1 DEF Attempt
<1>3. attempts' = [attempts EXCEPT ![a] = r] BY DEF Goes
<1> QED BY <1>2, <1>3, Changed DEF HeartbeatInv

LEMMA Now ==
    ASSUME HeartbeatInv
    PROVE  /\ observed \subseteq Entries /\ told \subseteq Entries
           /\ \A a \in Attempts : attempts[a] \in Attempt /\ Shaped(a, attempts[a])
BY DEF HeartbeatInv, HeartbeatTypeOK, AttemptsAreShaped, Shaped

LEMMA ResolvesAccessKeeps ==
    ASSUME HeartbeatInv, NEW a \in Attempts, ResolvesAccess(a)
    PROVE  HeartbeatInv'
<1> USE Now DEF ResolvesAccess, outbox, history
<1>1. BudgetTyped BY BudgetKept
<1>2. CASE StillOwed(a)
  <2> DEFINE r == [attempts[a] EXCEPT !.phase = "numbering"]
  <2>1. OneChanges(a, r) BY <1>2, Phased DEF Phases
  <2>2. /\ r.phase = "numbering" /\ r.entry = attempts[a].entry /\ r.wrote = attempts[a].wrote
        /\ r.waiting = attempts[a].waiting /\ r.answer = attempts[a].answer
    BY DEF Attempt
  <2>h. HealthOfThisAccount' BY <1>2, HealthShown
  <2> HIDE DEF r
  <2>3. Shaped(a, r) BY <2>2 DEF Shaped, At
  <2>4. OutboxStep({}) BY <1>2, <2>1, <2>2, OutboxRests
  <2>5. NumbersRest BY <2>1, <2>2, NumbersUntouched
  <2> QED BY <1>1, <2>1, <2>3, <2>4, <2>5, <2>h, OneStep
<1>3. CASE ~StillOwed(a)
  BY <1>1, <1>3, FailedStep
<1> QED BY <1>2, <1>3

LEMMA HasNoAccessKeeps ==
    ASSUME HeartbeatInv, NEW a \in Attempts, HasNoAccess(a)
    PROVE  HeartbeatInv'
<1> USE Now DEF HasNoAccess, outbox, history
<1>1. BudgetTyped BY BudgetKept
<1>2. OneChanges(a, Resting) BY Changed, RestingIsShaped DEF Rests, HeartbeatInv
<1>3. ~Resting.wrote /\ Resting.phase = "idle" /\ Resting.answer # "accepted"
  BY DEF Resting, None
<1>4. OutboxStep({}) BY <1>2, <1>3, OutboxRests
<1>5. NumbersRest BY <1>2, <1>3, NumbersUntouched
<1>6. HealthOfThisAccount' BY HealthShown
<1> QED BY <1>1, <1>2, <1>4, <1>5, <1>6, RestingIsShaped, OneStep

LEMMA NumberIsWrittenKeeps ==
    ASSUME HeartbeatInv, NEW a \in Attempts, NumberIsWritten(a)
    PROVE  HeartbeatInv'
<1> USE Now DEF NumberIsWritten, outbox, history
<1> DEFINE r == [attempts[a] EXCEPT !.phase = "numbered"]
           k == attempts[a].entry
<1>1. BudgetTyped BY BudgetKept
<1>2. OneChanges(a, r) BY Phased DEF Phases
<1>3. /\ r.phase = "numbered" /\ r.entry = k /\ r.wrote = attempts[a].wrote
      /\ r.waiting = attempts[a].waiting /\ r.answer = attempts[a].answer
  BY DEF Attempt
<1>4. HealthOfThisAccount' BY HealthShown
<1>5. k \in Entries BY DEF Shaped, At
<1>6. identity \in [memory : [Entries -> Nat], disk : [Entries -> Nat]]
  BY DEF HeartbeatInv, HeartbeatTypeOK
<1>7. /\ identity'.memory = identity.memory
      /\ identity'.disk = [identity.disk EXCEPT ![k] = identity.memory[k] + 1]
      /\ identity' \in [memory : [Entries -> Nat], disk : [Entries -> Nat]]
  BY <1>5, <1>6 DEF WritesNext
<1> HIDE DEF r
<1>8. Shaped(a, r) BY <1>3 DEF Shaped, At
<1>9. OutboxStep({}) BY <1>2, <1>3, OutboxRests
<1>10. NumbersAreWritten'
  <2>1. \A b \in Attempts : At(b, "numbered")' => b = a
    BY <1>2 DEF OneChanges, At
  <2>2. identity'.memory[k] < identity'.disk[k] /\ attempts'[a].entry = k
    BY <1>2, <1>3, <1>5, <1>6, <1>7 DEF OneChanges
  <2>3. \A e \in Entries : identity'.memory[e] <= identity'.disk[e]
    BY <1>5, <1>6, <1>7 DEF HeartbeatInv, NumbersAreWritten
  <2> QED BY <1>7, <2>1, <2>2, <2>3 DEF HeartbeatInv, NumbersAreWritten, At
<1>11. /\ OutboxInv' /\ marked' \subseteq owed' /\ saved' \subseteq owed'
       /\ queue' \in {"clean", "dirty", "degraded"}
  BY <1>9, OutboxKept
<1> QED BY <1>1, <1>2, <1>4, <1>7, <1>8, <1>10, <1>11, OneStepButNumbers

(* The number is handed out, to an attempt that is still awaited or to nobody.  *)
LEMMA NumberIsOut ==
    ASSUME HeartbeatInv, NEW a \in Attempts, At(a, "numbered"), NEW r, OneChanges(a, r),
           r.phase # "numbered",
           identity' = [identity EXCEPT !.memory[attempts[a].entry] = @ + 1],
           issued' = issued \cup {<<attempts[a].entry, identity.memory[attempts[a].entry] + 1>>}
    PROVE  /\ NumbersAreWritten'
           /\ identity' \in [memory : [Entries -> Nat], disk : [Entries -> Nat]]
<1> DEFINE k == attempts[a].entry
           n == identity.memory[k] + 1
<1>1. k \in Entries BY Now DEF Shaped, At
<1>2. identity \in [memory : [Entries -> Nat], disk : [Entries -> Nat]]
  BY DEF HeartbeatInv, HeartbeatTypeOK
<1>3. /\ identity'.disk = identity.disk
      /\ identity'.memory = [identity.memory EXCEPT ![k] = n]
      /\ identity' \in [memory : [Entries -> Nat], disk : [Entries -> Nat]]
  BY <1>1, <1>2
<1>4. \A b \in Attempts : ~At(b, "numbered")'
  BY DEF HeartbeatInv, NumbersAreWritten, OneChanges, At
<1>5. n <= identity.disk[k] /\ n \in Nat
  BY <1>1, <1>2 DEF HeartbeatInv, NumbersAreWritten
<1>6. \A e \in Entries : identity'.memory[e] <= identity'.disk[e] /\ identity.memory[e] <= identity'.memory[e]
  BY <1>1, <1>2, <1>3, <1>5 DEF HeartbeatInv, NumbersAreWritten
<1>7. issued' \subseteq Entries \X Nat
  BY <1>1, <1>5 DEF HeartbeatInv, NumbersAreWritten
<1>8. \A m \in issued' : m[2] <= identity'.memory[m[1]]
  <2> SUFFICES ASSUME NEW m \in issued' PROVE m[2] <= identity'.memory[m[1]]
    OBVIOUS
  <2>1. CASE m \in issued
    <3>1. m[2] <= identity.memory[m[1]] /\ m \in Entries \X Nat
      BY <2>1 DEF HeartbeatInv, NumbersAreWritten
    <3>2. m[1] \in Entries /\ m[2] \in Nat BY <3>1
    <3>3. identity.memory[m[1]] \in Nat /\ identity'.memory[m[1]] \in Nat BY <3>2, <1>2, <1>3
    <3> QED BY <3>1, <3>2, <3>3, <1>6
  <2>2. CASE m = <<k, n>>
    BY <2>2, <1>1, <1>2, <1>3, <1>5
  <2> QED BY <2>1, <2>2
<1> QED BY <1>3, <1>4, <1>6, <1>7, <1>8 DEF NumbersAreWritten

LEMMA NumberReturnsKeeps ==
    ASSUME HeartbeatInv, NEW a \in Attempts, NumberReturns(a)
    PROVE  HeartbeatInv'
<1> DEFINE n == identity.memory[attempts[a].entry] + 1
           r == [attempts[a] EXCEPT !.phase = "sent", !.seq = n]
<1> USE Now DEF outbox, history
<1>1. /\ At(a, "numbered") /\ UNCHANGED <<account, observed, told, budget>>
      /\ identity' = [identity EXCEPT !.memory[attempts[a].entry] = @ + 1]
      /\ issued' = issued \cup {<<attempts[a].entry, n>>}
  BY DEF NumberReturns
<1>2. BudgetTyped BY <1>1, BudgetKept
<1>3. CASE attempts[a].current /\ attempts[a].waiting
  <2>1. attempts' = [attempts EXCEPT ![a] = r] /\ UNCHANGED <<outbox, scheduler, health>>
    BY <1>3 DEF NumberReturns
  <2>2. n \in Nat
    BY <1>1 DEF HeartbeatInv, HeartbeatTypeOK, Shaped, At
  <2>3. /\ r \in Attempt /\ r.phase = "sent" /\ r.entry = attempts[a].entry
        /\ r.wrote = attempts[a].wrote /\ r.waiting = attempts[a].waiting
        /\ r.answer = attempts[a].answer
    BY <2>2 DEF Attempt, Phases
  <2> HIDE DEF r
  <2>4. OneChanges(a, r) BY <2>1, <2>3, Changed DEF HeartbeatInv
  <2>5. Shaped(a, r) BY <2>3, <1>1 DEF Shaped, At
  <2>6. OutboxStep({}) BY <2>1, <2>3, <2>4, <1>1, OutboxRests
  <2>7. /\ OutboxInv' /\ marked' \subseteq owed' /\ saved' \subseteq owed'
        /\ queue' \in {"clean", "dirty", "degraded"}
    BY <2>6, OutboxKept
  <2>8. /\ NumbersAreWritten'
        /\ identity' \in [memory : [Entries -> Nat], disk : [Entries -> Nat]]
    BY <2>3, <2>4, <1>1, NumberIsOut
  <2>9. HealthOfThisAccount' BY <2>1, <1>1, HealthShown
  <2> QED BY <1>1, <1>2, <2>1, <2>4, <2>5, <2>7, <2>8, <2>9, OneStepButNumbers
<1>4. CASE Fails(a) \/ Vanishes(a)
  <2>1. OneChanges(a, Resting) /\ HealthOfThisAccount'
    BY <1>1, <1>4, Failed
  <2>2. PICK reopened : OutboxStep(reopened)
    BY <1>1, <1>4, Failed
  <2>3. /\ OutboxInv' /\ marked' \subseteq owed' /\ saved' \subseteq owed'
        /\ queue' \in {"clean", "dirty", "degraded"} /\ UNCHANGED owed
    BY <2>2, OutboxKept DEF OutboxStep
  <2>4. /\ NumbersAreWritten'
        /\ identity' \in [memory : [Entries -> Nat], disk : [Entries -> Nat]]
    BY <2>1, <1>1, NumberIsOut DEF Resting
  <2> QED BY <1>1, <1>2, <2>1, <2>3, <2>4, RestingIsShaped, OneStepButNumbers
<1> QED BY <1>3, <1>4 DEF NumberReturns

LEMMA LimitedKeeps ==
    ASSUME HeartbeatInv, NEW a \in Attempts, Limited(a)
    PROVE  HeartbeatInv'
<1> USE Now DEF Limited
<1>1. BudgetTyped BY BudgetKept
<1>2. OneChanges(a, Resting) /\ HealthOfThisAccount'
  BY Failed
<1>3. PICK reopened : OutboxStep(reopened)
  BY Failed
<1>4. /\ OutboxInv' /\ marked' \subseteq owed' /\ saved' \subseteq owed'
      /\ queue' \in {"clean", "dirty", "degraded"} /\ UNCHANGED owed
  BY <1>3, OutboxKept DEF OutboxStep
<1>5. /\ NumbersAreWritten'
      /\ identity' \in [memory : [Entries -> Nat], disk : [Entries -> Nat]]
  BY <1>2, NumberIsOut DEF Resting
<1> QED BY <1>1, <1>2, <1>4, <1>5, RestingIsShaped, OneStepButNumbers

LEMMA NumberFailsKeeps ==
    ASSUME HeartbeatInv, NEW a \in Attempts, NumberFails(a)
    PROVE  HeartbeatInv'
<1> USE Now DEF NumberFails, history
<1> DEFINE k == attempts[a].entry
<1>1. BudgetTyped BY BudgetKept
<1>2. OneChanges(a, Resting) /\ HealthOfThisAccount'
  BY Failed
<1>3. PICK reopened : OutboxStep(reopened)
  BY Failed
<1>4. /\ OutboxInv' /\ marked' \subseteq owed' /\ saved' \subseteq owed'
      /\ queue' \in {"clean", "dirty", "degraded"} /\ UNCHANGED owed
  BY <1>3, OutboxKept DEF OutboxStep
<1>5. PICK disk \in {identity.disk, WritesNext(k)} : identity' = [identity EXCEPT !.disk = disk]
  OBVIOUS
<1>6. k \in Entries BY DEF Shaped, At
<1>7. identity \in [memory : [Entries -> Nat], disk : [Entries -> Nat]]
  BY DEF HeartbeatInv, HeartbeatTypeOK
<1>8. disk \in [Entries -> Nat] /\ \A e \in Entries : identity.memory[e] <= disk[e]
  BY <1>5, <1>6, <1>7 DEF WritesNext, HeartbeatInv, NumbersAreWritten
<1>9. /\ identity'.memory = identity.memory /\ identity'.disk = disk
      /\ identity' \in [memory : [Entries -> Nat], disk : [Entries -> Nat]]
  BY <1>5, <1>7, <1>8
<1>10. \A b \in Attempts : ~At(b, "numbered")'
  BY <1>2 DEF OneChanges, At, Resting
<1>11. NumbersAreWritten'
  BY <1>8, <1>9, <1>10 DEF HeartbeatInv, NumbersAreWritten
<1> QED BY <1>1, <1>2, <1>4, <1>9, <1>11, RestingIsShaped, OneStepButNumbers

LEMMA ServerAcceptsKeeps ==
    ASSUME HeartbeatInv, NEW a \in Attempts, ServerAccepts(a)
    PROVE  HeartbeatInv'
<1> USE Now DEF ServerAccepts, Observes, Says, outbox
<1> DEFINE r == [attempts[a] EXCEPT !.phase = "answered", !.answer = "accepted"]
<1>1. BudgetTyped BY BudgetKept
<1>2. /\ r \in Attempt /\ r.phase = "answered" /\ r.entry = attempts[a].entry
      /\ r.wrote = attempts[a].wrote /\ r.waiting = attempts[a].waiting
  BY DEF Attempt, Phases
<1>3. attempts' = [attempts EXCEPT ![a] = r] OBVIOUS
<1> HIDE DEF r
<1>4. OneChanges(a, r) BY <1>2, <1>3, Changed DEF HeartbeatInv
<1>5. Shaped(a, r) /\ attempts[a].entry \in Entries BY <1>2 DEF Shaped, At
<1>6. NumbersRest BY <1>2, <1>4, NumbersUntouched
<1>7. NumbersAreWritten' BY <1>6, NumbersKept
<1>8. OutboxInv'
  <2>1. \A b \in Attempts : attempts'[b].wrote => attempts[b].wrote /\ attempts'[b].entry = attempts[b].entry
    BY <1>2, <1>4 DEF OneChanges
  <2>2. MarkersAreOwned'
    BY <2>1 DEF HeartbeatInv, MarkersAreOwned
  <2>3. AcceptedIsObserved'
    BY <1>2, <1>4 DEF HeartbeatInv, AcceptedIsObserved, OneChanges
  <2> QED BY <2>2, <2>3 DEF HeartbeatInv, OutboxInv, CleanIsStored, ToldIsStored, ClosedOnlyIfObserved
<1>9. HealthOfThisAccount' BY HealthShown
<1>10. /\ marked' \subseteq owed' /\ saved' \subseteq owed'
       /\ queue' \in {"clean", "dirty", "degraded"} /\ observed' \subseteq Entries
       /\ identity' \in [memory : [Entries -> Nat], disk : [Entries -> Nat]]
  BY <1>5 DEF HeartbeatInv, HeartbeatTypeOK
<1> QED BY <1>1, <1>4, <1>5, <1>7, <1>8, <1>9, <1>10, OneStepButNumbers

LEMMA ServerRefusesKeeps ==
    ASSUME HeartbeatInv, NEW a \in Attempts, NEW answer \in {"conflict", "unauthorized"},
           ServerRefuses(a, answer)
    PROVE  HeartbeatInv'
<1> USE Now DEF ServerRefuses, Says, outbox, history
<1> DEFINE r == [attempts[a] EXCEPT !.phase = "answered", !.answer = answer]
<1>1. BudgetTyped BY BudgetKept
<1>2. /\ r \in Attempt /\ r.phase = "answered" /\ r.entry = attempts[a].entry
      /\ r.wrote = attempts[a].wrote /\ r.waiting = attempts[a].waiting /\ r.answer # "accepted"
  BY DEF Attempt, Phases
<1>3. attempts' = [attempts EXCEPT ![a] = r] OBVIOUS
<1> HIDE DEF r
<1>4. OneChanges(a, r) BY <1>2, <1>3, Changed DEF HeartbeatInv
<1>5. Shaped(a, r) BY <1>2 DEF Shaped, At
<1>6. NumbersRest BY <1>2, <1>4, NumbersUntouched
<1>7. OutboxStep({}) BY <1>2, <1>4, OutboxRests
<1>8. HealthOfThisAccount' BY HealthShown
<1> QED BY <1>1, <1>4, <1>5, <1>6, <1>7, <1>8, OneStep

LEMMA RequestFailsKeeps ==
    ASSUME HeartbeatInv, NEW a \in Attempts, RequestFails(a)
    PROVE  HeartbeatInv'
<1> USE Now DEF RequestFails
<1>1. BudgetTyped BY BudgetKept
<1>2. attempts[a].entry \in Entries BY DEF Shaped, At
<1>3. observed \subseteq observed' /\ observed' \subseteq Entries
  BY <1>2 DEF Observes
<1> QED BY <1>1, <1>3, FailedStep

(* A marker is written where there is none, by an attempt that then waits.      *)
LEMMA TakesAnswerKeeps ==
    ASSUME HeartbeatInv, NEW a \in Attempts, TakesAnswer(a)
    PROVE  HeartbeatInv'
<1> USE Now DEF TakesAnswer, outbox, history
<1> DEFINE e == attempts[a].entry
<1>1. BudgetTyped BY BudgetKept
<1>2. CASE MayMark(a)
  <2>1. /\ marked' = marked \cup {e} /\ queue' = "dirty" /\ e \in owed /\ e \notin marked
        /\ e \in observed /\ UNCHANGED <<owed, saved, told, observed, health>> /\ e \in Entries
    BY <1>2 DEF MayMark, Closes, Pending, HeartbeatInv, AcceptedIsObserved, HeartbeatTypeOK
  <2>2. /\ marked' \subseteq owed' /\ saved' \subseteq owed' /\ CleanIsStored' /\ ToldIsStored'
        /\ ClosedOnlyIfObserved' /\ queue' \in {"clean", "dirty", "degraded"}
    BY <2>1 DEF HeartbeatInv, HeartbeatTypeOK, CleanIsStored, ToldIsStored, ClosedOnlyIfObserved
  <2>3. HealthOfThisAccount' BY <2>1, HealthShown
  <2>4. ASSUME NEW r \in Attempt, OneChanges(a, r), Shaped(a, r), r.phase # "numbered",
               (r.entry = e /\ r.answer = attempts[a].answer) \/ r = Resting,
               r.wrote => r.entry = e
        PROVE  HeartbeatInv'
    <3>1. NumbersRest BY <2>4, NumbersUntouched
    <3>2. NumbersAreWritten' BY <3>1, NumbersKept
    <3>3. MarkersAreOwned'
      <4>1. e \notin told BY <2>1 DEF HeartbeatInv, ToldIsStored
      <4>2. \A b \in Attempts \ {a} : attempts'[b].wrote => attempts'[b].entry \in marked \ told
                                                       /\ attempts'[b].entry # e
        BY <2>1, <2>4 DEF HeartbeatInv, MarkersAreOwned, OneChanges
      <4>3. attempts'[a].wrote => attempts'[a].entry = e
        BY <2>4 DEF OneChanges
      <4>4. \A b, c \in Attempts : attempts'[b].wrote /\ attempts'[c].wrote /\ b # c
                                   => attempts'[b].entry # attempts'[c].entry
        BY <2>4, <4>2, <4>3 DEF HeartbeatInv, MarkersAreOwned, OneChanges
      <4> QED BY <2>1, <4>1, <4>2, <4>3, <4>4 DEF MarkersAreOwned
    <3>4. AcceptedIsObserved'
      BY <2>1, <2>4 DEF HeartbeatInv, AcceptedIsObserved, OneChanges, Resting, None
    <3>5. OutboxInv' BY <2>2, <3>3, <3>4 DEF OutboxInv
    <3>6. /\ identity' \in [memory : [Entries -> Nat], disk : [Entries -> Nat]]
          /\ told' \subseteq Entries /\ observed' \subseteq Entries
      BY <2>1 DEF HeartbeatInv, HeartbeatTypeOK
    <3> QED BY <1>1, <2>1, <2>2, <2>3, <2>4, <3>2, <3>5, <3>6, OneStepButNumbers
  <2>5. CASE attempts[a].waiting
    <3> DEFINE r == [attempts[a] EXCEPT !.phase = "storing", !.wrote = TRUE]
    <3>1. /\ r \in Attempt /\ r.phase = "storing" /\ r.entry = e /\ r.wrote
          /\ r.waiting /\ r.answer = attempts[a].answer
      BY <2>5 DEF Attempt, Phases
    <3>2. attempts' = [attempts EXCEPT ![a] = r] BY <1>2, <2>5
    <3> HIDE DEF r
    <3>3. OneChanges(a, r) BY <3>1, <3>2, Changed DEF HeartbeatInv
    <3>4. Shaped(a, r) BY <3>1 DEF Shaped, At
    <3> QED BY <2>4, <3>1, <3>3, <3>4
  <2>6. CASE ~attempts[a].waiting
    <3>1. OneChanges(a, Resting)
      BY <1>2, <2>6, Changed, RestingIsShaped DEF Rests, HeartbeatInv
    <3>2. Resting.phase # "numbered" /\ ~Resting.wrote BY DEF Resting
    <3> QED BY <2>4, <3>1, <3>2, RestingIsShaped
  <2> QED BY <2>5, <2>6
<1>3. CASE ~MayMark(a)
  BY <1>1, <1>3, FailedStep
<1> QED BY <1>2, <1>3

(* The caller is told once the queue that holds the marker is stored.           *)
LEMMA IsStoredKeeps ==
    ASSUME HeartbeatInv, NEW a \in Attempts, IsStored(a)
    PROVE  HeartbeatInv'
<1> USE Now DEF IsStored, outbox
<1> DEFINE e == attempts[a].entry
<1>1. BudgetTyped BY BudgetKept
<1>2. OneChanges(a, Resting) BY Changed, RestingIsShaped DEF Rests, HeartbeatInv
<1>3. ~Resting.wrote /\ Resting.phase = "idle" /\ Resting.answer # "accepted"
  BY DEF Resting, None
<1>4. attempts[a].wrote /\ e \in marked /\ e \in saved /\ e \in Entries
  BY DEF Shaped, At, HeartbeatInv, MarkersAreOwned, CleanIsStored
<1>5. NumbersRest BY <1>2, <1>3, NumbersUntouched
<1>6. NumbersAreWritten' BY <1>5, NumbersKept
<1>7. HealthOfThisAccount' BY HealthShown
<1>8. MarkersAreOwned'
  <2>1. \A b \in Attempts : attempts'[b].wrote => b # a /\ attempts[b].wrote
                                                /\ attempts'[b].entry = attempts[b].entry
    BY <1>2, <1>3 DEF OneChanges
  <2> QED BY <2>1, <1>4 DEF HeartbeatInv, MarkersAreOwned
<1>9. ToldIsStored'
  BY <1>4 DEF HeartbeatInv, ToldIsStored
<1>10. AcceptedIsObserved' /\ CleanIsStored' /\ ClosedOnlyIfObserved'
  BY <1>2, <1>3 DEF HeartbeatInv, AcceptedIsObserved, OneChanges, CleanIsStored, ClosedOnlyIfObserved
<1>11. /\ marked' \subseteq owed' /\ saved' \subseteq owed'
       /\ queue' \in {"clean", "dirty", "degraded"} /\ observed' \subseteq Entries
       /\ told' \subseteq Entries /\ UNCHANGED owed
       /\ identity' \in [memory : [Entries -> Nat], disk : [Entries -> Nat]]
  BY <1>4 DEF HeartbeatInv, HeartbeatTypeOK
<1> QED BY <1>1, <1>2, <1>6, <1>7, <1>8, <1>9, <1>10, <1>11, RestingIsShaped, OneStepButNumbers
        DEF OutboxInv

LEMMA IsNotStoredKeeps ==
    ASSUME HeartbeatInv, NEW a \in Attempts, IsNotStored(a)
    PROVE  HeartbeatInv'
<1>1. BudgetTyped BY BudgetKept DEF IsNotStored
<1> QED BY <1>1, Now, FailedStep DEF IsNotStored, history

LEMMA RefreshesKeeps ==
    ASSUME HeartbeatInv, NEW a \in Attempts, Refreshes(a)
    PROVE  HeartbeatInv'
<1> USE Now DEF Refreshes, outbox, history
<1>1. BudgetTyped BY BudgetKept
<1>2. CASE ~attempts[a].again /\ IsCurrent(a) /\ attempts[a].waiting /\ StillOwed(a)
  <2> DEFINE r == [attempts[a] EXCEPT !.phase = "numbering", !.again = TRUE, !.answer = None]
  <2>1. /\ r \in Attempt /\ r.phase = "numbering" /\ r.entry = attempts[a].entry
        /\ r.wrote = attempts[a].wrote /\ r.waiting = attempts[a].waiting /\ r.answer = None
    BY DEF Attempt, Phases
  <2>2. attempts' = [attempts EXCEPT ![a] = r] BY <1>2
  <2>h. HealthOfThisAccount' BY <1>2, HealthShown
  <2> HIDE DEF r
  <2>3. OneChanges(a, r) BY <2>1, <2>2, Changed DEF HeartbeatInv
  <2>4. Shaped(a, r) BY <2>1 DEF Shaped, At
  <2>5. NumbersRest BY <2>1, <2>3, NumbersUntouched
  <2>6. OutboxStep({}) BY <1>2, <2>1, <2>3, OutboxRests DEF None
  <2> QED BY <1>1, <2>3, <2>4, <2>5, <2>6, <2>h, OneStep
<1>3. CASE Fails(a) \/ Vanishes(a)
  BY <1>1, <1>3, FailedStep
<1> QED BY <1>2, <1>3

(* The caller goes on and takes back its marker; the attempt runs on.           *)
LEMMA TimesOutKeeps ==
    ASSUME HeartbeatInv, NEW a \in Attempts, TimesOut(a)
    PROVE  HeartbeatInv'
<1> USE Now DEF TimesOut, history
<1> DEFINE d == Detached(a)
           r == [d EXCEPT !.current = @ /\ Outlives(a)]
<1>1. BudgetTyped BY BudgetKept
<1>2. d \in Attempt /\ Shaped(a, d) /\ ~d.wrote
  BY DetachedIsShaped
<1>3. d.phase = "numbered" => attempts[a].phase = "numbered" /\ d.entry = attempts[a].entry
  BY DetachedIsShaped
<1>4. d.answer = "accepted" => attempts[a].answer = "accepted" /\ d.entry = attempts[a].entry
  BY DetachedIsShaped
<1>5. attempts' = [attempts EXCEPT ![a] = r] OBVIOUS
<1>6. /\ r \in Attempt /\ r.phase = d.phase /\ r.entry = d.entry /\ r.wrote = d.wrote
      /\ r.waiting = d.waiting /\ r.answer = d.answer
  <2> HIDE DEF d
  <2>1. (d.current /\ Outlives(a)) \in BOOLEAN OBVIOUS
  <2> QED BY <1>2, <2>1 DEF Attempt
<1> HIDE DEF r, d
<1>7. OneChanges(a, r) BY <1>5, <1>6, Changed DEF HeartbeatInv
<1>8. Shaped(a, r) BY <1>2, <1>6 DEF Shaped
<1>9. NumbersRest BY <1>3, <1>6, <1>7, NumbersUntouched
<1>10. OutboxStep(Reopened(a))
  <2>1. Reopens(Reopened(a)) /\ UNCHANGED <<owed, saved, told, observed>> OBVIOUS
  <2> QED BY <2>1, <1>2, <1>4, <1>6, <1>7 DEF OutboxStep, OneChanges, Reopened
<1>11. HealthOfThisAccount' BY HealthShown
<1> QED BY <1>1, <1>7, <1>8, <1>9, <1>10, <1>11, OneStep

--------------------------------------------------------------------------------
(* Attempts begin.                                                            *)

LEMMA StartedIsShaped ==
    ASSUME HeartbeatInv, NEW a \in Attempts, NEW e \in Entries, a \in Entries => e = a
    PROVE  /\ Started(a, e) \in Attempt /\ Shaped(a, Started(a, e)) /\ ~Started(a, e).wrote
           /\ Started(a, e).phase # "numbered" /\ Started(a, e).answer # "accepted"
<1>1. account.epoch \in Nat BY DEF HeartbeatInv, HeartbeatTypeOK
<1> QED BY <1>1 DEF Started, Resting, Attempt, Phases, Shaped, None

LEMMA DirectBeginsKeeps ==
    ASSUME HeartbeatInv, NEW e \in Entries, DirectBegins(e)
    PROVE  HeartbeatInv'
<1> USE Now DEF DirectBegins, outbox, history
<1>1. BudgetTyped
  BY DEF HeartbeatInv, HeartbeatTypeOK, BudgetTyped
<1>2. "direct" \in Attempts /\ ("direct" \in Entries => e = "direct")
  BY HeartbeatAssumption DEF Attempts
<1> DEFINE r == Started("direct", e)
<1>3. /\ r \in Attempt /\ Shaped("direct", r) /\ ~r.wrote /\ r.phase # "numbered"
      /\ r.answer # "accepted"
  BY <1>2, StartedIsShaped
<1> HIDE DEF r
<1>4. attempts' = [attempts EXCEPT !["direct"] = r] BY DEF r
<1>5. OneChanges("direct", r) BY <1>2, <1>3, <1>4, Changed DEF HeartbeatInv
<1>6. NumbersRest BY <1>2, <1>3, <1>5, NumbersUntouched
<1>7. OutboxStep({}) BY <1>2, <1>3, <1>5, OutboxRests
<1>8. HealthOfThisAccount' BY <1>2, HealthShown
<1> QED BY <1>1, <1>2, <1>3, <1>5, <1>6, <1>7, <1>8, OneStep

(* Attempts change together, none of them into a writer.                      *)
LEMMA ManyStep ==
    ASSUME HeartbeatInv, attempts' \in [Attempts -> Attempt],
           \A b \in Attempts : Shaped(b, attempts'[b]),
           NEW reopened, OutboxStep(reopened), NumbersRest, HealthOfThisAccount', BudgetTyped,
           account' \in [bound : BOOLEAN, epoch : Nat,
                         load : {"binding", "loading", "done", "failed", "out"}]
    PROVE  HeartbeatInv'
<1>1. NumbersAreWritten' BY NumbersKept
<1>2. /\ OutboxInv' /\ marked' \subseteq owed' /\ saved' \subseteq owed'
      /\ queue' \in {"clean", "dirty", "degraded"}
  BY OutboxKept
<1>3. AttemptsAreShaped' BY DEF AttemptsAreShaped, Shaped
<1>4. HeartbeatTypeOK'
  BY <1>2 DEF HeartbeatInv, HeartbeatTypeOK, BudgetTyped, OutboxStep, NumbersRest
<1> QED BY <1>1, <1>2, <1>3, <1>4 DEF HeartbeatInv, OutboxInv

LEMMA FlushBeginsKeeps ==
    ASSUME HeartbeatInv, FlushBegins
    PROVE  HeartbeatInv'
<1> USE Now DEF FlushBegins, outbox, history
<1>1. BudgetTyped BY BudgetKept
<1>2. Lanes \subseteq Entries BY DEF Lanes, Pending, HeartbeatInv, HeartbeatTypeOK
<1>3. \A b \in Attempts : attempts'[b] = attempts[b] \/ (b \in Lanes /\ attempts'[b] = Started(b, b))
  OBVIOUS
<1>4. \A b \in Attempts : attempts'[b] \in Attempt /\ Shaped(b, attempts'[b])
  BY <1>2, <1>3, StartedIsShaped
<1>5. attempts' \in [Attempts -> Attempt]
  BY <1>4
<1>6. \A b \in Lanes : /\ ~Started(b, b).wrote /\ Started(b, b).phase # "numbered"
                       /\ Started(b, b).answer # "accepted" /\ b \in Attempts
  BY <1>2, StartedIsShaped DEF Attempts
<1>7. OutboxStep({})
  BY <1>3, <1>6 DEF OutboxStep, Reopens
<1>8. NumbersRest
  BY <1>3, <1>6 DEF NumbersRest
<1>9. "direct" \in Attempts BY DEF Attempts
<1>10. HealthOfThisAccount' BY <1>9, HealthShown
<1> QED BY <1>1, <1>4, <1>5, <1>7, <1>8, <1>10, ManyStep DEF HeartbeatInv, HeartbeatTypeOK

--------------------------------------------------------------------------------
(* The queue and the session.                                                 *)

(* A step that leaves every attempt and the numbers alone.                     *)
LEMMA AttemptsRest ==
    ASSUME HeartbeatInv, UNCHANGED <<attempts, identity, issued, observed, told>>
    PROVE  /\ AttemptsAreShaped' /\ NumbersAreWritten' /\ AcceptedIsObserved'
           /\ attempts' \in [Attempts -> Attempt]
           /\ identity' \in [memory : [Entries -> Nat], disk : [Entries -> Nat]]
           /\ told' \subseteq Entries /\ observed' \subseteq Entries
BY DEF HeartbeatInv, HeartbeatTypeOK, AttemptsAreShaped, NumbersAreWritten, AcceptedIsObserved, At

LEMMA QueueKeeps ==
    ASSUME HeartbeatInv,
           \/ \E e \in Entries : Acknowledged(e)
           \/ Saves \/ SaveFails \/ EffectRuns
    PROVE  HeartbeatInv'
<1> USE DEF outbox, history
<1>1. /\ UNCHANGED <<attempts, identity, issued, observed, told, account, health, marked>>
      /\ BudgetTyped
  BY BudgetKept DEF Acknowledged, Saves, SaveFails, EffectRuns
<1>2. HealthOfThisAccount' BY <1>1 DEF HeartbeatInv, HealthOfThisAccount
<1>3. MarkersAreOwned' BY <1>1 DEF HeartbeatInv, MarkersAreOwned
<1>4. saved' \in {saved, marked} /\ owed \subseteq owed' /\ owed' \subseteq Entries
  BY DEF Acknowledged, Saves, SaveFails, EffectRuns, HeartbeatInv, HeartbeatTypeOK
<1>5. /\ marked' \subseteq owed' /\ saved' \subseteq owed' /\ ToldIsStored' /\ ClosedOnlyIfObserved'
  BY <1>1, <1>4 DEF HeartbeatInv, HeartbeatTypeOK, ToldIsStored, ClosedOnlyIfObserved
<1>6. CleanIsStored' /\ queue' \in {"clean", "dirty", "degraded"}
  BY DEF Acknowledged, Saves, SaveFails, EffectRuns, HeartbeatInv, HeartbeatTypeOK, CleanIsStored
<1>7. HeartbeatTypeOK'
  BY <1>1, <1>4, <1>5, <1>6, AttemptsRest DEF HeartbeatInv, HeartbeatTypeOK, BudgetTyped
<1> QED BY <1>1, <1>2, <1>3, <1>5, <1>6, <1>7, AttemptsRest DEF HeartbeatInv

LEMMA LoadingKeeps ==
    ASSUME HeartbeatInv, Binds \/ LoadSucceeds \/ LoadFails
    PROVE  HeartbeatInv'
<1> USE DEF outbox, history
<1>1. /\ UNCHANGED <<owed, marked, saved, queue, attempts, identity, issued, observed, told, health>>
      /\ BudgetTyped /\ account'.epoch = account.epoch
      /\ account' \in [bound : BOOLEAN, epoch : Nat,
                       load : {"binding", "loading", "done", "failed", "out"}]
  BY BudgetKept DEF Binds, LoadSucceeds, LoadFails, HeartbeatInv, HeartbeatTypeOK
<1>2. HealthOfThisAccount' BY <1>1 DEF HeartbeatInv, HealthOfThisAccount
<1>3. MarkersAreOwned' /\ CleanIsStored' /\ ToldIsStored' /\ ClosedOnlyIfObserved'
  BY <1>1 DEF HeartbeatInv, MarkersAreOwned, CleanIsStored, ToldIsStored, ClosedOnlyIfObserved
<1>4. HeartbeatTypeOK'
  BY <1>1, AttemptsRest DEF HeartbeatInv, HeartbeatTypeOK, BudgetTyped
<1> QED BY <1>1, <1>2, <1>3, <1>4, AttemptsRest DEF HeartbeatInv

(* Every caller goes on and takes back its marker.                             *)
LEMMA AbortsKeep ==
    ASSUME HeartbeatInv, Aborts, UNCHANGED <<owed, saved, told, observed, identity, issued>>
    PROVE  /\ attempts' \in [Attempts -> Attempt]
           /\ \A b \in Attempts : Shaped(b, attempts'[b])
           /\ \E reopened : OutboxStep(reopened)
           /\ NumbersRest
<1> DEFINE reopened == UNION {Reopened(a) : a \in {b \in Attempts : attempts[b].waiting}}
<1>1. \A b \in Attempts : attempts'[b] = [Detached(b) EXCEPT !.current = FALSE]
  BY DEF Aborts, Aborted
<1>2. \A b \in Attempts :
        /\ attempts'[b] \in Attempt /\ Shaped(b, attempts'[b]) /\ ~attempts'[b].wrote
        /\ attempts'[b].phase = "numbered"
           => attempts[b].phase = "numbered" /\ attempts'[b].entry = attempts[b].entry
        /\ attempts'[b].answer = "accepted"
           => attempts[b].answer = "accepted" /\ attempts'[b].entry = attempts[b].entry
  <2> TAKE b \in Attempts
  <2> DEFINE d == Detached(b)
             r == [d EXCEPT !.current = FALSE]
  <2>1. attempts'[b] = r BY <1>1
  <2>2. d \in Attempt BY DetachedIsShaped
  <2> HIDE DEF d
  <2>3. /\ r \in Attempt /\ r.phase = d.phase /\ r.entry = d.entry /\ r.wrote = d.wrote
        /\ r.waiting = d.waiting /\ r.answer = d.answer
    BY <2>2 DEF Attempt
  <2> HIDE DEF r
  <2>4. Shaped(b, d) /\ ~d.wrote BY DetachedIsShaped DEF d
  <2>5. Shaped(b, r) BY <2>3, <2>4 DEF Shaped
  <2>6. /\ d.phase = "numbered" => attempts[b].phase = "numbered" /\ d.entry = attempts[b].entry
        /\ d.answer = "accepted" => attempts[b].answer = "accepted" /\ d.entry = attempts[b].entry
    BY DetachedIsShaped DEF d
  <2> QED BY <2>1, <2>3, <2>4, <2>5, <2>6
<1>3. attempts' \in [Attempts -> Attempt]
  BY <1>2 DEF Aborts
<1>4. \A e \in reopened : \E b \in Attempts : attempts[b].wrote /\ attempts[b].entry = e
  BY DEF Reopened
<1>5. Reopens(reopened) BY DEF Aborts
<1> HIDE DEF reopened
<1>6. OutboxStep(reopened)
  BY <1>2, <1>4, <1>5, Now DEF OutboxStep
<1>7. NumbersRest BY <1>2 DEF NumbersRest
<1> QED BY <1>2, <1>3, <1>6, <1>7

LEMMA SessionKeeps ==
    ASSUME HeartbeatInv, LoadBegins \/ RouteChanges \/ SignsOut
    PROVE  HeartbeatInv'
<1> USE DEF LoadBegins, RouteChanges, SignsOut, history
<1>1. /\ Aborts /\ UNCHANGED <<owed, saved, told, observed, identity, issued>>
      /\ BudgetTyped /\ Clears(account'.epoch)
  <2>1. Aborts /\ UNCHANGED <<told, observed, identity, issued>> /\ Clears(account'.epoch)
    OBVIOUS
  <2>2. UNCHANGED <<owed, saved>> BY <2>1 DEF Aborts
  <2> QED BY <2>1, <2>2, BudgetKept
<1>2. account' \in [bound : BOOLEAN, epoch : Nat,
                    load : {"binding", "loading", "done", "failed", "out"}]
  <2>1. account \in [bound : BOOLEAN, epoch : Nat,
                     load : {"binding", "loading", "done", "failed", "out"}]
    BY DEF HeartbeatInv, HeartbeatTypeOK
  <2>2. account.epoch + 1 \in Nat
    BY <2>1
  <2>3. account' \in {account, [bound |-> FALSE, epoch |-> account.epoch + 1, load |-> "binding"],
                      [bound |-> FALSE, epoch |-> account.epoch + 1, load |-> "out"]}
    OBVIOUS
  <2> DEFINE n == account.epoch + 1
  <2> HIDE DEF n, LoadBegins, RouteChanges, SignsOut
  <2>4. \A l \in {"binding", "out"} :
           [bound |-> FALSE, epoch |-> n, load |-> l]
           \in [bound : BOOLEAN, epoch : Nat,
                load : {"binding", "loading", "done", "failed", "out"}]
    BY <2>2 DEF n
  <2> QED BY <2>1, <2>3, <2>4 DEF n
<1>3. PICK reopened : OutboxStep(reopened) BY <1>1, AbortsKeep
<1>4. HealthOfThisAccount' BY <1>1, HealthCleared
<1> QED BY <1>1, <1>2, <1>3, <1>4, AbortsKeep, ManyStep

LEMMA RestartsKeeps ==
    ASSUME HeartbeatInv, Restarts
    PROVE  HeartbeatInv'
<1> USE DEF Restarts, history
<1>1. BudgetTyped BY BudgetKept
<1>2. \A b \in Attempts : attempts'[b] = Resting OBVIOUS
<1>3. ~Resting.wrote /\ Resting.phase = "idle" /\ Resting.answer # "accepted"
  BY DEF Resting, None
<1>4. attempts' \in [Attempts -> Attempt] /\ AttemptsAreShaped'
  BY <1>2, RestingIsShaped DEF AttemptsAreShaped, Shaped
<1>5. MarkersAreOwned' /\ AcceptedIsObserved'
  BY <1>2, <1>3 DEF MarkersAreOwned, AcceptedIsObserved
<1>6. CleanIsStored' /\ ToldIsStored' /\ ClosedOnlyIfObserved' /\ HealthOfThisAccount'
  BY DEF HeartbeatInv, CleanIsStored, ToldIsStored, ClosedOnlyIfObserved, HealthOfThisAccount
<1>7. identity \in [memory : [Entries -> Nat], disk : [Entries -> Nat]]
  BY DEF HeartbeatInv, HeartbeatTypeOK
<1>8. /\ identity'.memory = identity.disk /\ identity'.disk = identity.disk
      /\ identity' \in [memory : [Entries -> Nat], disk : [Entries -> Nat]]
  BY <1>7
<1>9. NumbersAreWritten'
  <2>1. \A n \in issued : n[2] <= identity.disk[n[1]]
    <3> TAKE n \in issued
    <3>1. n[2] <= identity.memory[n[1]] /\ n \in Entries \X Nat
      BY DEF HeartbeatInv, NumbersAreWritten
    <3>2. n[1] \in Entries /\ n[2] \in Nat BY <3>1
    <3>3. identity.memory[n[1]] <= identity.disk[n[1]]
      BY <3>2 DEF HeartbeatInv, NumbersAreWritten
    <3>4. identity.memory[n[1]] \in Nat /\ identity.disk[n[1]] \in Nat BY <3>2, <1>7
    <3> QED BY <3>1, <3>2, <3>3, <3>4
  <2>2. \A e \in Entries : identity.disk[e] \in Nat BY <1>7
  <2> QED BY <1>2, <1>3, <1>8, <2>1, <2>2 DEF HeartbeatInv, NumbersAreWritten, At
<1>10. HeartbeatTypeOK'
  BY <1>1, <1>4, <1>8 DEF HeartbeatInv, HeartbeatTypeOK, BudgetTyped
<1> QED BY <1>4, <1>5, <1>6, <1>9, <1>10 DEF HeartbeatInv

--------------------------------------------------------------------------------
(* The theorems.                                                              *)

LEMMA HeartbeatInitIsSound == HeartbeatInit => HeartbeatInv
<1> SUFFICES ASSUME HeartbeatInit PROVE HeartbeatInv
  OBVIOUS
<1>1. ~Resting.wrote /\ Resting.phase = "idle" /\ Resting.answer # "accepted"
  BY DEF Resting, None
<1>2. AttemptsAreShaped /\ MarkersAreOwned /\ AcceptedIsObserved
  BY <1>1, RestingIsShaped
     DEF HeartbeatInit, AttemptsAreShaped, MarkersAreOwned, AcceptedIsObserved, Shaped
<1>3. CleanIsStored /\ ToldIsStored /\ ClosedOnlyIfObserved /\ HealthOfThisAccount
  BY DEF HeartbeatInit, CleanIsStored, ToldIsStored, ClosedOnlyIfObserved, HealthOfThisAccount
<1>4. identity.memory \in [Entries -> Nat] /\ identity.disk \in [Entries -> Nat]
  BY DEF HeartbeatInit
<1>5. NumbersAreWritten
  BY <1>1 DEF HeartbeatInit, NumbersAreWritten, At
<1>6. HeartbeatTypeOK
  BY <1>4, RestingIsShaped DEF HeartbeatInit, HeartbeatTypeOK
<1> QED BY <1>2, <1>3, <1>5, <1>6 DEF HeartbeatInv

LEMMA HeartbeatStepIsSound == HeartbeatInv /\ [HeartbeatNext]_heartbeatVars => HeartbeatInv'
<1> SUFFICES ASSUME HeartbeatInv, [HeartbeatNext]_heartbeatVars PROVE HeartbeatInv'
  OBVIOUS
<1>1. ASSUME NEW a \in Attempts, Steps(a) PROVE HeartbeatInv'
  BY <1>1, ResolvesAccessKeeps, HasNoAccessKeeps, NumberIsWrittenKeeps, NumberReturnsKeeps,
     ServerAcceptsKeeps, TakesAnswerKeeps, IsStoredKeeps, IsNotStoredKeeps, RefreshesKeeps
     DEF Steps
<1>2. ASSUME NEW a \in Attempts, GoesWrong(a) PROVE HeartbeatInv'
  BY <1>2, TimesOutKeeps, NumberFailsKeeps, LimitedKeeps, RequestFailsKeeps, ServerRefusesKeeps
     DEF GoesWrong
<1>3. CASE UNCHANGED heartbeatVars
  <2>1. UNCHANGED <<owed, marked, saved, queue, account, identity, attempts, health, observed,
                    told, issued, budget>>
    BY <1>3 DEF heartbeatVars
  <2>2. HealthOfThisAccount' /\ MarkersAreOwned' /\ CleanIsStored' /\ ToldIsStored'
        /\ ClosedOnlyIfObserved'
    BY <2>1 DEF HeartbeatInv, HealthOfThisAccount, MarkersAreOwned, CleanIsStored, ToldIsStored,
                ClosedOnlyIfObserved
  <2>3. HeartbeatTypeOK' BY <2>1 DEF HeartbeatInv, HeartbeatTypeOK
  <2> QED BY <2>1, <2>2, <2>3, AttemptsRest DEF HeartbeatInv
<1>4. CASE HeartbeatNext
  BY <1>4, <1>1, <1>2, FlushBeginsKeeps, DirectBeginsKeeps, QueueKeeps, LoadingKeeps,
     SessionKeeps, RestartsKeeps
     DEF HeartbeatNext
<1> QED BY <1>3, <1>4

(* The outbox, its attempts, the sequences and the display are consistent.      *)
THEOREM HeartbeatInvHolds == HeartbeatSpec => []HeartbeatInv
<1> QED BY HeartbeatInitIsSound, HeartbeatStepIsSound, PTL DEF HeartbeatSpec

(* ToldIsStored: whoever was told that the clearing heartbeat is delivered may *)
(* rely on it, whatever fails, times out or restarts afterwards.               *)
THEOREM ToldDeliveriesAreStored == HeartbeatSpec => []ToldIsStored
<1>1. HeartbeatInv => ToldIsStored BY DEF HeartbeatInv
<1> QED BY <1>1, HeartbeatInvHolds, PTL

(* ClosedOnlyIfObserved: only an entry the server observed is closed.          *)
THEOREM ClosedEntriesWereObserved == HeartbeatSpec => []ClosedOnlyIfObserved
<1>1. HeartbeatInv => ClosedOnlyIfObserved BY DEF HeartbeatInv
<1> QED BY <1>1, HeartbeatInvHolds, PTL

(* HealthOfThisAccount: the display never shows an answer to another session.  *)
THEOREM HealthIsOfThisAccount == HeartbeatSpec => []HealthOfThisAccount
<1>1. HeartbeatInv => HealthOfThisAccount BY DEF HeartbeatInv
<1> QED BY <1>1, HeartbeatInvHolds, PTL

(* Only NumberReturns puts an attempt at "sent" from "numbered".               *)
LEMMA StepsSendNewNumbers ==
    ASSUME HeartbeatInv, HeartbeatInv', [HeartbeatNext]_heartbeatVars, NEW a \in Attempts,
           At(a, "numbered"), attempts'[a].phase = "sent"
    PROVE  <<attempts[a].entry, attempts'[a].seq>> \notin issued
<1> DEFINE e == attempts[a].entry
           n == identity.memory[e] + 1
<1>1. e \in Entries /\ identity.memory[e] \in Nat
  BY Now DEF Shaped, At, HeartbeatInv, HeartbeatTypeOK
<1>2. <<e, n>> \notin issued
  <2> SUFFICES ASSUME <<e, n>> \in issued PROVE FALSE
    OBVIOUS
  <2>1. <<e, n>>[2] <= identity.memory[<<e, n>>[1]]
    BY DEF HeartbeatInv, NumbersAreWritten
  <2> QED BY <2>1, <1>1
<1>3. attempts'[a].seq = n
  <2>0. attempts[a] \in Attempt /\ a \in DOMAIN attempts
    BY DEF HeartbeatInv, HeartbeatTypeOK
  <2>1. ASSUME NEW b \in Attempts, Steps(b) \/ GoesWrong(b) PROVE attempts'[a].seq = n
    <3>1. CASE b = a
      <4>1. ~Fails(a) /\ ~Vanishes(a)
        BY <2>0 DEF Fails, Vanishes, Rests, Resting, HeartbeatInv, HeartbeatTypeOK
      <4>2. ~TimesOut(a)
        <5> DEFINE d == Detached(a)
        <5>1. attempts' = [attempts EXCEPT ![a] = [d EXCEPT !.current = @ /\ Outlives(a)]]
              => attempts'[a].phase = d.phase
          BY <2>0, DetachedIsShaped DEF Attempt, HeartbeatInv, HeartbeatTypeOK
        <5>2. d.phase # "sent"
          BY DEF Detached, Resting
        <5> QED BY <5>1, <5>2 DEF TimesOut
      <4>3. NumberReturns(a)
        BY <2>1, <3>1, <4>1, <4>2
           DEF Steps, GoesWrong, ResolvesAccess, HasNoAccess, NumberIsWritten, ServerAccepts,
               TakesAnswer, IsStored, IsNotStored, Refreshes, NumberFails, Limited, RequestFails,
               ServerRefuses, At
      <4>4. attempts' = [attempts EXCEPT ![a].phase = "sent", ![a].seq = n]
        BY <4>1, <4>3 DEF NumberReturns
      <4> QED BY <4>4, <2>0 DEF Attempt
    <3>2. CASE b # a
      <4>1. attempts'[a] = attempts[a]
        BY <2>1, <3>2, <2>0
           DEF Steps, GoesWrong, ResolvesAccess, HasNoAccess, NumberIsWritten, NumberReturns,
               ServerAccepts, TakesAnswer, IsStored, IsNotStored, Refreshes, TimesOut, NumberFails,
               Limited, RequestFails, ServerRefuses, Fails, Vanishes, Rests, Goes, Says
      <4> QED BY <4>1 DEF At
    <3> QED BY <3>1, <3>2
  <2>2. attempts' = attempts => FALSE
    BY DEF At
  <2>3. Aborts => FALSE
    <3>1. ASSUME Aborts PROVE attempts'[a].phase = Detached(a).phase
      BY <3>1, DetachedIsShaped DEF Aborts, Aborted, Attempt
    <3>2. Detached(a).phase # "sent"
      BY DEF Detached, Resting
    <3> QED BY <3>1, <3>2
  <2>4. FlushBegins => FALSE
    BY DEF FlushBegins, Started, Resting, At
  <2>5. ASSUME NEW e1 \in Entries, DirectBegins(e1) PROVE FALSE
    BY <2>5, <2>0 DEF DirectBegins, Started, Resting, At
  <2>6. Restarts => FALSE
    BY DEF Restarts, Resting
  <2> QED BY <2>1, <2>2, <2>3, <2>4, <2>5, <2>6
          DEF HeartbeatNext, Acknowledged, Saves, SaveFails, EffectRuns, LoadBegins, Binds,
              LoadSucceeds, LoadFails, RouteChanges, SignsOut, heartbeatVars
<1> QED BY <1>2, <1>3

(* NumbersAreNew: a sequence is handed out once, across restarts and failed    *)
(* writes.                                                                    *)
THEOREM NumbersAreHandedOutOnce == HeartbeatSpec => NumbersAreNew
<1>1. HeartbeatInv /\ HeartbeatInv' /\ [HeartbeatNext]_heartbeatVars
      => [\A a \in Attempts :
            At(a, "numbered") /\ attempts'[a].phase = "sent"
            => <<attempts[a].entry, attempts'[a].seq>> \notin issued]_heartbeatVars
  BY StepsSendNewNumbers
<1> QED BY <1>1, HeartbeatInvHolds, PTL DEF HeartbeatSpec, NumbersAreNew
================================================================================
