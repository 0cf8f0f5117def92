----------------------- MODULE LiveRouteChange_proofs -----------------------
(***************************************************************************)
(* For any number of generations, publications and troubles, the stored    *)
(* state of a live route implements PublicationLedger step by step, and    *)
(* the route on the screen changes only when the driver applies a change.  *)
(* The inductive invariant says what each operation still knows at each of *)
(* its awaits: what it read before the request is what the store holds     *)
(* after it, because the guard keeps the other writers out.                *)
(***************************************************************************)
EXTENDS LiveRouteChange, TLAPS

Answer == {a \in [seq : -3 .. MaxSequence, pending : BOOLEAN] : a.seq < 0 => a.pending = FALSE}
Entry == [applied : Int, pending : Answer, owed : 0 .. MaxSequence]
Awaits == {"idle", "lookup", "offline", "gate", "get", "got", "adopt", "toAck", "acking", "acked",
           "read", "saving"}
Process == [pc : Awaits, gen : 0 .. MaxGeneration, answer : Answer, version : Int,
            kept : Entry, live : BOOLEAN]

LiveTypeOK ==
  /\ store \in [Generations -> Entry]
  /\ session \in [gen : 0 .. MaxGeneration, version : Int]
  /\ access \in 0 .. MaxGeneration
  /\ proc \in [Processes -> Process]
  /\ {cached, refreshing, delivering, signedIn, deleted, elsewhere} \subseteq BOOLEAN
  /\ office \in [gen : Generations, seq : -1 .. MaxSequence]
  /\ wire \in SUBSET (Generations \X (1 .. MaxSequence))
  /\ taken \in [Generations -> SUBSET (1 .. MaxSequence)]

\* The office numbers each generation's publications anew, and its bound holds.
OfficeInBounds == office.seq = -1 \/ office.seq + 2 * office.gen <= MaxSequence + 2

\* An operation that has begun is about a generation.
Addressed == \A p \in Processes : proc[p].pc \notin {"idle", "lookup", "offline"} => proc[p].gen # 0

\* Only a signed-in driver has operations that may still write, and a deleted account none.
Leased == /\ deleted => ~signedIn
          /\ \A p \in Processes : proc[p].live => signedIn

\* The guard: a refresh or an Apply, one at a time, and no delivery action beside it.
GuardHolds ==
  /\ At("refresh", "idle") \/ At("apply", "idle")
  /\ ~At("refresh", "idle") \/ ~At("apply", "idle") => refreshing /\ ~delivering

\* The server's answer to an acknowledgement says that it has that one.
Vouched ==
  \A p \in Processes :
    At(p, "acked") /\ proc[p].answer.seq >= 0 => <<proc[p].gen, proc[p].version>> \in received

\* An Apply that fetches the publication saw nothing owed, and nothing is since.
NothingOwedAtApply ==
  (At("apply", "get") \/ At("apply", "got")) /\ proc["apply"].live => store[proc["apply"].gen].owed = 0

\* Publications are applied after the office made them, and an answer an Apply
\* holds is not older than anything applied.
TakenInOrder ==
  /\ \A g \in Generations : \A n \in taken[g] :
       g <= office.gen /\ (g = office.gen => n <= office.seq)
  /\ At("apply", "got") /\ proc["apply"].answer.seq >= 0 =>
       /\ proc["apply"].gen <= office.gen
       /\ proc["apply"].gen = office.gen => proc["apply"].answer.seq <= office.seq
       /\ \A n \in taken[proc["apply"].gen] : n <= proc["apply"].answer.seq

\* The version the session shows is the one applied in the store.
SessionIsStored == session.gen # 0 => Version(store[session.gen].applied) = session.version

\* What a refresh read, and what it will adopt, is what the store holds.
RefreshIsStored ==
  proc["refresh"].live =>
    /\ At("refresh", "get") \/ At("refresh", "got") =>
         proc["refresh"].kept.applied = store[proc["refresh"].gen].applied
    /\ At("refresh", "adopt") =>
         proc["refresh"].version = Version(store[proc["refresh"].gen].applied)

LiveInv ==
  /\ LiveTypeOK /\ OfficeInBounds /\ Addressed /\ Leased /\ GuardHolds /\ Vouched
  /\ NothingOwedAtApply /\ TakenInOrder /\ SessionIsStored /\ RefreshIsStored

-----------------------------------------------------------------------------
(* The transitions of one stored state.                                      *)

LEMMA ObservedKeeps ==
  ASSUME NEW entry \in Entry, NEW publication \in Answer
  PROVE  /\ Observed(entry, publication) \in Entry
         /\ Observed(entry, publication).applied = entry.applied
         /\ Observed(entry, publication).owed = entry.owed
  BY DEF Observed, Entry

LEMMA SettledKeeps ==
  ASSUME NEW entry \in Entry, NEW publication \in Answer, NEW version \in Int
  PROVE  /\ Settled(entry, publication, version) \in Entry
         /\ Settled(entry, publication, version).applied = entry.applied
         /\ Settled(entry, publication, version).owed = IF entry.owed = version THEN 0 ELSE entry.owed
<1>1. /\ Observed(entry, publication) \in Entry
      /\ Observed(entry, publication).applied = entry.applied
      /\ Observed(entry, publication).owed = entry.owed
  BY ObservedKeeps
<1> QED BY <1>1, Bounds DEF Settled, Entry

\* A refresh keeps the version that is shown: a staged publication fills in an
\* applied state only where there was none.
LEMMA StagedKeeps ==
  ASSUME NEW entry \in Entry, NEW publication \in Answer,
         Monotonic(entry, Staged(entry, publication))
  PROVE  /\ Staged(entry, publication) \in Entry
         /\ Version(Staged(entry, publication).applied) = Version(entry.applied)
         /\ Staged(entry, publication).owed = entry.owed
<1>1. /\ Observed(entry, publication) \in Entry
      /\ Observed(entry, publication).applied = entry.applied
      /\ Observed(entry, publication).owed = entry.owed
  BY ObservedKeeps
<1>2. CASE publication = NoPublication
  <2>1. Staged(entry, publication) = [entry EXCEPT !.applied = Plain]
    BY <1>2 DEF Staged
  <2>2. /\ Staged(entry, publication) \in Entry
        /\ Staged(entry, publication).applied = -1
        /\ Staged(entry, publication).owed = entry.owed
    BY <2>1 DEF Plain, Entry
  <2>3. entry.applied >= 0 => -1 >= entry.applied
    BY <2>2 DEF Monotonic
  <2> QED BY <2>2, <2>3 DEF Version, Entry
<1>3. CASE publication # NoPublication
  <2>1. /\ Staged(entry, publication) \in Entry
        /\ Staged(entry, publication).owed = entry.owed
        /\ \/ Staged(entry, publication).applied = entry.applied
           \/ entry.applied = Hidden /\ Staged(entry, publication).applied = 0
    BY <1>1, <1>3 DEF Staged, Entry
  <2> QED BY <2>1 DEF Version, Hidden
<1> QED BY <1>2, <1>3

\* An applied publication is the one that is owed; the plain content of a route
\* that is not enrolled has no number and owes nothing.
LEMMA AppliedGives ==
  ASSUME NEW entry \in Entry, NEW publication \in Answer, publication.seq >= -1,
         publication # NoPublication => publication.seq >= 0
  PROVE  /\ Applied(entry, publication) \in Entry
         /\ publication.seq > 0 => Applied(entry, publication).owed = publication.seq
         /\ publication.seq <= 0 /\ entry.owed = 0 => Applied(entry, publication).owed = 0
<1>1. /\ Observed(entry, publication) \in Entry
      /\ Observed(entry, publication).applied = entry.applied
      /\ Observed(entry, publication).owed = entry.owed
  BY ObservedKeeps
<1>2. CASE publication = NoPublication
  <2>1. Applied(entry, publication) = [entry EXCEPT !.applied = Plain]
    BY <1>2 DEF Applied, Staged
  <2> QED BY <2>1, <1>2 DEF Plain, Entry, NoPublication
<1>3. CASE publication # NoPublication
  <2>1. publication.seq \in 0 .. MaxSequence
    BY <1>3, Bounds DEF Answer
  <2> DEFINE seen0 == Observed(entry, publication)
  <2>2. Applied(entry, publication) = [seen0 EXCEPT !.applied = publication.seq, !.owed = publication.seq]
    BY <1>3 DEF Applied
  <2>3. seen0 \in Entry
    BY <1>1
  <2> HIDE DEF seen0
  <2>4. Applied(entry, publication) \in Entry /\ Applied(entry, publication).owed = publication.seq
    <3> DEFINE n == publication.seq
    <3>1. n \in 0 .. MaxSequence /\ n \in Int
      BY <2>1, Bounds
    <3>2. Applied(entry, publication) = [seen0 EXCEPT !.applied = n, !.owed = n]
      BY <2>2
    <3> HIDE DEF n
    <3>3. /\ [seen0 EXCEPT !.applied = n, !.owed = n] \in Entry
          /\ [seen0 EXCEPT !.applied = n, !.owed = n].owed = n
      BY <2>3, <3>1 DEF Entry
    <3>4. Applied(entry, publication) \in Entry /\ Applied(entry, publication).owed = n
      BY <3>2, <3>3
    <3> QED BY <3>4 DEF n
  <2> QED BY <2>1, <2>4, Bounds
<1> QED BY <1>2, <1>3

-----------------------------------------------------------------------------
(* What a step that moves one operation has to show.                         *)

KeepsApplied(p) ==
  \A g \in Generations :
    /\ Version(store'[g].applied) = Version(store[g].applied)
    /\ p # "refresh" => store'[g].applied = store[g].applied

OwesNoMore == \A g \in Generations : store[g].owed = 0 => store'[g].owed = 0

\* The operation x in the place of operation p meets the invariant.
Fits(p, x) ==
  /\ x.pc \notin {"idle", "lookup", "offline"} => x.gen # 0
  /\ x.live => signedIn
  /\ x.pc = "acked" /\ x.answer.seq >= 0 => <<x.gen, x.version>> \in received
  /\ p = "apply" =>
       /\ x.pc \in {"get", "got"} /\ x.live => store'[x.gen].owed = 0
       /\ x.pc = "got" /\ x.answer.seq >= 0 =>
            /\ x.gen <= office.gen
            /\ x.gen = office.gen => x.answer.seq <= office.seq
            /\ \A n \in taken[x.gen] : n <= x.answer.seq
  /\ p = "refresh" /\ x.live =>
       /\ x.pc \in {"get", "got"} => x.kept.applied = store'[x.gen].applied
       /\ x.pc = "adopt" => x.version = Version(store'[x.gen].applied)

\* The guard is taken when an operation of its kind begins and held until it ends.
Guards(p, x) ==
  \/ p = "poll" /\ UNCHANGED <<refreshing, delivering>>
  \/ p # "poll" /\ (At(p, "idle") <=> x.pc = "idle") /\ UNCHANGED <<refreshing, delivering>>
  \/ p # "poll" /\ ~At(p, "idle") /\ x.pc = "idle"
  \/ At("refresh", "idle") /\ At("apply", "idle") /\ refreshing' /\ ~delivering'

LEMMA OneMoves ==
  ASSUME proc \in [Processes -> Process], NEW p \in Processes, NEW x \in Process,
         proc' = [proc EXCEPT ![p] = x]
  PROVE  /\ proc' \in [Processes -> Process] /\ proc'[p] = x
         /\ \A q \in Processes : q # p => proc'[q] = proc[q]
  OBVIOUS

\* One operation moves and the stored state forgets no debt and no version.
LEMMA MoveKeeps ==
  ASSUME LiveInv, NEW p \in Processes, NEW x \in Process, proc' = [proc EXCEPT ![p] = x],
         Fits(p, x), Guards(p, x), KeepsApplied(p), OwesNoMore,
         UNCHANGED <<signedIn, deleted, taken, office, received>>
  PROVE  /\ OfficeInBounds' /\ Addressed' /\ Leased' /\ GuardHolds' /\ Vouched'
         /\ NothingOwedAtApply' /\ TakenInOrder' /\ RefreshIsStored'
<1>1. /\ proc \in [Processes -> Process] /\ "apply" \in Processes /\ "refresh" \in Processes
      /\ "poll" \in Processes
  BY DEF LiveInv, LiveTypeOK, Processes
<1>2. /\ proc' \in [Processes -> Process] /\ proc'[p] = x
      /\ \A q \in Processes : q # p => proc'[q] = proc[q]
  BY <1>1, OneMoves
<1>3. OfficeInBounds'
  BY DEF LiveInv, OfficeInBounds
<1>4. Addressed'
  BY <1>2 DEF LiveInv, Addressed, Fits
<1>5. Leased'
  BY <1>2 DEF LiveInv, Leased, Fits
<1>6. GuardHolds'
  <2>1. p \in {"poll", "refresh", "apply"}
    BY DEF Processes
  <2>2. GuardHolds
    BY DEF LiveInv
  <2>3. CASE p = "poll"
    BY <1>1, <1>2, <2>2, <2>3 DEF GuardHolds, Guards, At
  <2>4. CASE p = "refresh"
    BY <1>1, <1>2, <2>2, <2>4 DEF GuardHolds, Guards, At
  <2>5. CASE p = "apply"
    BY <1>1, <1>2, <2>2, <2>5 DEF GuardHolds, Guards, At
  <2> QED BY <2>1, <2>3, <2>4, <2>5
<1>7. Vouched'
  BY <1>2 DEF LiveInv, Vouched, Fits, At
<1>8. Addressed /\ \A q \in Processes : proc[q].gen \in 0 .. MaxGeneration
  BY <1>1 DEF LiveInv, Process
<1>9. NothingOwedAtApply'
  <2>1. CASE p = "apply"
    BY <1>2, <2>1 DEF NothingOwedAtApply, Fits, At
  <2>2. CASE p # "apply"
    <3>1. proc'["apply"] = proc["apply"]
      BY <1>1, <1>2, <2>2
    <3>2. At("apply", "get") \/ At("apply", "got") => proc["apply"].gen \in Generations
      BY <1>1, <1>8, Bounds DEF Addressed, At, Generations
    <3> QED BY <3>1, <3>2 DEF LiveInv, NothingOwedAtApply, OwesNoMore, At
  <2> QED BY <2>1, <2>2
<1>10. TakenInOrder'
  <2>1. CASE p = "apply"
    BY <1>2, <2>1 DEF LiveInv, TakenInOrder, Fits, At
  <2>2. CASE p # "apply"
    <3>1. proc'["apply"] = proc["apply"]
      BY <1>1, <1>2, <2>2
    <3> QED BY <3>1 DEF LiveInv, TakenInOrder, At
  <2> QED BY <2>1, <2>2
<1>11. RefreshIsStored'
  <2>1. CASE p = "refresh"
    BY <1>2, <2>1 DEF RefreshIsStored, Fits, At
  <2>2. CASE p # "refresh"
    <3>1. proc'["refresh"] = proc["refresh"]
      BY <1>1, <1>2, <2>2
    <3>2. At("refresh", "get") \/ At("refresh", "got") \/ At("refresh", "adopt")
          => proc["refresh"].gen \in Generations
      BY <1>1, <1>8, Bounds DEF Addressed, At, Generations
    <3> QED BY <2>2, <3>1, <3>2 DEF LiveInv, RefreshIsStored, KeepsApplied, At
  <2> QED BY <2>1, <2>2
<1> QED BY <1>3, <1>4, <1>5, <1>6, <1>7, <1>9, <1>10, <1>11

\* The rest of the state keeps its types; the server and the account stand still.
RestTyped ==
  /\ store' \in [Generations -> Entry]
  /\ session' \in [gen : 0 .. MaxGeneration, version : Int]
  /\ access' \in 0 .. MaxGeneration
  /\ {cached', refreshing', delivering'} \subseteq BOOLEAN
  /\ wire' \in SUBSET (Generations \X (1 .. MaxSequence))
  /\ UNCHANGED <<signedIn, deleted, taken, office, received, elsewhere>>

LEMMA MoveKeepsInv ==
  ASSUME LiveInv, NEW p \in Processes, NEW x \in Process, proc' = [proc EXCEPT ![p] = x],
         Fits(p, x), Guards(p, x), KeepsApplied(p), OwesNoMore, RestTyped,
         UNCHANGED session \/ SessionIsStored'
  PROVE  LiveInv'
<1>1. UNCHANGED <<signedIn, deleted, taken, office, received>>
  BY DEF RestTyped
<1>2. /\ OfficeInBounds' /\ Addressed' /\ Leased' /\ GuardHolds' /\ Vouched'
      /\ NothingOwedAtApply' /\ TakenInOrder' /\ RefreshIsStored'
  BY <1>1, MoveKeeps
<1>3. LiveTypeOK'
  <2>1. proc' \in [Processes -> Process]
    BY OneMoves DEF LiveInv, LiveTypeOK
  <2> QED BY <2>1 DEF LiveInv, LiveTypeOK, RestTyped
<1>4. SessionIsStored'
  <2>1. CASE UNCHANGED session
    <3>1. session.gen # 0 => session.gen \in Generations
      BY Bounds DEF LiveInv, LiveTypeOK, Generations
    <3> QED BY <2>1, <3>1 DEF LiveInv, SessionIsStored, KeepsApplied
  <2> QED BY <2>1
<1> QED BY <1>2, <1>3, <1>4 DEF LiveInv

\* Most steps leave the stored state alone.
LEMMA NothingStored ==
  ASSUME UNCHANGED store
  PROVE  OwesNoMore /\ \A p \in Processes : KeepsApplied(p)
  BY DEF OwesNoMore, KeepsApplied

\* What the keeping of an action means for the types.
LEMMA RestStands ==
  ASSUME LiveInv, UNCHANGED <<store, session, taken>>, Keeps, refreshing' \in BOOLEAN,
         UNCHANGED wire
  PROVE  RestTyped
  BY DEF LiveInv, LiveTypeOK, Keeps, server, RestTyped

LEMMA StoreWritten ==
  ASSUME LiveInv, NEW g \in Generations, NEW entry \in Entry, Writes(g, entry)
  PROVE  /\ store' \in [Generations -> Entry]
         /\ store'[g] = entry
         /\ \A h \in Generations : h # g => store'[h] = store[h]
  BY DEF LiveInv, LiveTypeOK, Writes

LEMMA ConstantsTyped ==
  /\ NoPublication \in Answer /\ Refused \in Answer /\ Failed \in Answer
  /\ Empty \in Entry /\ Idle \in Process
<1>1. NoPublication \in Answer /\ Refused \in Answer /\ Failed \in Answer
  BY Bounds DEF NoPublication, Refused, Failed, Answer
<1>2. Empty \in Entry
  BY <1>1, Bounds DEF Empty, Entry, Hidden
<1>3. Idle \in Process
  BY <1>1, <1>2, Bounds DEF Idle, Process, Awaits
<1> QED BY <1>1, <1>2, <1>3

LEMMA PublicationTyped ==
  ASSUME LiveInv
  PROVE  Publication \in Answer /\ Publication.seq = office.seq
         /\ (Publication # NoPublication /\ Publication.seq >= -1 => Publication.seq >= 0)
<1> DEFINE b == office.seq > 0 /\ <<office.gen, office.seq>> \notin received /\ ~elsewhere
<1>1. Publication = [seq |-> office.seq, pending |-> b] /\ b \in BOOLEAN
  BY Zenon DEF Publication
<1>2. office.seq \in -1 .. MaxSequence /\ (office.seq = -1 => b = FALSE)
  BY DEF LiveInv, LiveTypeOK
<1> HIDE DEF b
<1>3. office.seq \in -3 .. MaxSequence /\ office.seq \in Int
  BY <1>2, Bounds
<1>4. Publication \in Answer
  BY <1>1, <1>2, <1>3 DEF Answer
<1>5. office.seq = -1 => Publication = NoPublication
  BY <1>1, <1>2 DEF NoPublication
<1>6. Publication.seq = office.seq
  BY <1>1
<1> QED BY <1>2, <1>3, <1>4, <1>5, <1>6, Bounds

\* The idle operation fits everywhere.
LEMMA IdleFits ==
  ASSUME NEW p \in Processes
  PROVE  Fits(p, Idle) /\ Idle.pc = "idle"
  BY DEF Fits, Idle

-----------------------------------------------------------------------------
(* The network.                                                              *)

LEMMA AnswersLookupKeeps == ASSUME LiveInv, AnswersLookup PROVE LiveInv'
<1> DEFINE x == [proc["refresh"] EXCEPT !.pc = "gate", !.gen = office.gen]
<1>1. /\ "refresh" \in Processes /\ proc["refresh"] \in Process
      /\ office.gen \in 0 .. MaxGeneration /\ office.gen # 0
      /\ proc["refresh"].live => signedIn
  BY Bounds DEF LiveInv, LiveTypeOK, Leased, Processes, Generations
<1>2. /\ x \in Process /\ x.pc = "gate" /\ x.gen = office.gen /\ x.live = proc["refresh"].live
  BY <1>1, Bounds DEF Process, Awaits
<1>3. proc' = [proc EXCEPT !["refresh"] = x]
  BY DEF AnswersLookup
<1> HIDE DEF x
<1>4. Fits("refresh", x)
  BY <1>1, <1>2 DEF Fits
<1>5. Guards("refresh", x)
  BY <1>2 DEF Guards, AnswersLookup, At, Keeps
<1>6. RestTyped /\ UNCHANGED <<session, store>>
  BY RestStands DEF AnswersLookup, LiveInv, LiveTypeOK
<1> QED BY <1>1, <1>2, <1>3, <1>4, <1>5, <1>6, NothingStored, MoveKeepsInv

LEMMA AnswersGetKeeps == ASSUME LiveInv, NEW p \in Processes, AnswersGet(p) PROVE LiveInv'
<1> DEFINE a == IF proc[p].gen = office.gen THEN Publication ELSE Refused
           x == [proc[p] EXCEPT !.pc = "got", !.answer = a]
<1>1. proc[p] \in Process /\ (proc[p].live => signedIn) /\ At(p, "get")
  BY DEF LiveInv, LiveTypeOK, Leased, AnswersGet
<1>2. a \in Answer
  BY PublicationTyped, ConstantsTyped
<1>3. a.seq >= 0 => proc[p].gen = office.gen /\ a.seq = office.seq
  BY PublicationTyped DEF Refused
<1>4. proc' = [proc EXCEPT ![p] = x]
  BY DEF AnswersGet
<1> HIDE DEF a
<1>5. /\ x \in Process /\ x.pc = "got" /\ x.gen = proc[p].gen /\ x.live = proc[p].live
      /\ x.answer = a /\ x.kept = proc[p].kept
  BY <1>1, <1>2, Bounds DEF Process, Awaits, LiveInv, LiveTypeOK
<1> HIDE DEF x
<1>6. UNCHANGED <<store, session, refreshing, delivering>>
  BY DEF AnswersGet, Keeps
<1>7. At(p, "get") /\ proc[p].gen # 0
  BY DEF LiveInv, Addressed, AnswersGet, At
<1>8. Fits(p, x)
  <2>1. (x.pc \notin {"idle", "lookup", "offline"} => x.gen # 0) /\ x.pc # "acked"
    BY <1>5, <1>7
  <2>2. x.live => signedIn
    BY <1>5 DEF LiveInv, Leased
  <2>3. p = "apply" /\ x.live => store'[x.gen].owed = 0
    BY <1>5, <1>6, <1>7 DEF LiveInv, NothingOwedAtApply
  <2>4. x.answer.seq >= 0 =>
            /\ x.gen <= office.gen
            /\ x.gen = office.gen => x.answer.seq <= office.seq
            /\ \A n \in taken[x.gen] : n <= x.answer.seq
    <3>1. office.gen \in Generations /\ office.gen \in Int /\ office.seq \in Int
      BY Bounds DEF LiveInv, LiveTypeOK, Generations
    <3> QED BY <1>3, <1>5, <3>1 DEF LiveInv, TakenInOrder
  <2>5. p = "refresh" /\ x.live => x.kept.applied = store'[x.gen].applied
    BY <1>5, <1>6, <1>7 DEF LiveInv, RefreshIsStored
  <2> QED BY <1>5, <2>1, <2>2, <2>3, <2>4, <2>5 DEF Fits
<1>9. Guards(p, x)
  BY <1>5, <1>6, <1>7 DEF Guards, At
<1>10. RestTyped
  BY RestStands DEF AnswersGet, LiveInv, LiveTypeOK
<1> QED BY <1>4, <1>5, <1>6, <1>8, <1>9, <1>10, NothingStored, MoveKeepsInv

LEMMA AnswersAcknowledgementKeeps ==
  ASSUME LiveInv, NEW p \in Processes, AnswersAcknowledgement(p) PROVE LiveInv'
<1>1. PICK a \in {Publication, Refused} :
        /\ proc' = [proc EXCEPT ![p].pc = "acked", ![p].answer = a]
        /\ a = Refused \/ <<proc[p].gen, proc[p].version>> \in received
  BY DEF AnswersAcknowledgement
<1> DEFINE x == [proc[p] EXCEPT !.pc = "acked", !.answer = a]
<1>2. proc[p] \in Process /\ a \in Answer
  BY PublicationTyped, ConstantsTyped DEF LiveInv, LiveTypeOK
<1>3. proc' = [proc EXCEPT ![p] = x]
  BY <1>1
<1>4. /\ x \in Process /\ x.pc = "acked" /\ x.gen = proc[p].gen /\ x.live = proc[p].live
      /\ x.answer = a /\ x.version = proc[p].version
  BY <1>2, Bounds DEF Process, Awaits
<1> HIDE DEF x
<1>5. UNCHANGED <<store, session, refreshing, delivering>> /\ At(p, "acking")
  BY DEF AnswersAcknowledgement, Keeps
<1>6. proc[p].gen # 0
  BY <1>5 DEF LiveInv, Addressed, At
<1>7. Fits(p, x)
  BY <1>1, <1>4, <1>6 DEF Fits, LiveInv, Leased, Refused
<1>8. Guards(p, x)
  BY <1>4, <1>5 DEF Guards, At
<1>9. RestTyped
  BY RestStands DEF AnswersAcknowledgement, LiveInv, LiveTypeOK
<1> QED BY <1>3, <1>4, <1>5, <1>7, <1>8, <1>9, NothingStored, MoveKeepsInv

LEMMA RequestFailsKeeps ==
  ASSUME LiveInv, NEW p \in Processes, RequestFails(p) PROVE LiveInv'
<1>1. PICK c \in {"got", "acked", "offline"}, a \in {Failed, NoPublication} :
        /\ proc' = [proc EXCEPT ![p].pc = c, ![p].answer = a]
        /\ At(p, CASE c = "got" -> "get" [] c = "acked" -> "acking" [] c = "offline" -> "lookup")
  BY DEF RequestFails, Goes
<1> DEFINE x == [proc[p] EXCEPT !.pc = c, !.answer = a]
<1>2. proc[p] \in Process /\ a \in Answer /\ a.seq < 0
  <2>1. Failed.seq < 0 /\ NoPublication.seq < 0
    BY DEF Failed, NoPublication
  <2> QED BY <2>1, ConstantsTyped DEF LiveInv, LiveTypeOK
<1>3. proc' = [proc EXCEPT ![p] = x]
  BY <1>1
<1>4. /\ x \in Process /\ x.pc = c /\ x.gen = proc[p].gen /\ x.live = proc[p].live
      /\ x.answer = a /\ x.kept = proc[p].kept
  BY <1>2, Bounds DEF Process, Awaits
<1> HIDE DEF x
<1>5. UNCHANGED <<store, session, refreshing, delivering>>
  BY DEF RequestFails, Keeps
<1>6. c # "offline" => proc[p].gen # 0
  BY <1>1 DEF LiveInv, Addressed, At
<1>7. Fits(p, x)
  <2>1. (x.pc \notin {"idle", "lookup", "offline"} => x.gen # 0) /\ ~(x.answer.seq >= 0)
    BY <1>2, <1>4, <1>6 DEF Answer
  <2>2. x.live => signedIn
    BY <1>4 DEF LiveInv, Leased
  <2>3. p = "apply" /\ x.pc \in {"get", "got"} /\ x.live => store'[x.gen].owed = 0
    BY <1>1, <1>4, <1>5 DEF LiveInv, NothingOwedAtApply
  <2>4. p = "refresh" /\ x.pc \in {"get", "got"} /\ x.live => x.kept.applied = store'[x.gen].applied
    BY <1>1, <1>4, <1>5 DEF LiveInv, RefreshIsStored
  <2> QED BY <1>1, <1>4, <2>1, <2>2, <2>3, <2>4 DEF Fits
<1>8. Guards(p, x)
  BY <1>1, <1>4, <1>5 DEF Guards, At
<1>9. RestTyped
  BY RestStands DEF RequestFails, LiveInv, LiveTypeOK
<1> QED BY <1>3, <1>4, <1>5, <1>7, <1>8, <1>9, NothingStored, MoveKeepsInv

-----------------------------------------------------------------------------
(* The poll and the acknowledgement.                                         *)

LEMMA PollBeginsKeeps == ASSUME LiveInv, PollBegins PROVE LiveInv'
<1> DEFINE x == [Idle EXCEPT !.pc = "get", !.gen = session.gen, !.live = TRUE]
<1>1. "poll" \in Processes /\ session.gen \in 0 .. MaxGeneration /\ session.gen # 0 /\ signedIn
  BY DEF LiveInv, LiveTypeOK, PollBegins, Processes
<1>2. x \in Process /\ x.pc = "get" /\ x.gen = session.gen
  BY <1>1, ConstantsTyped DEF Process, Awaits
<1>3. proc' = [proc EXCEPT !["poll"] = x]
  BY DEF PollBegins
<1> HIDE DEF x
<1>4. Fits("poll", x)
  BY <1>1, <1>2 DEF Fits
<1>5. Guards("poll", x)
  BY DEF Guards, PollBegins, Keeps
<1>6. RestTyped /\ UNCHANGED <<session, store>>
  BY RestStands DEF PollBegins, LiveInv, LiveTypeOK
<1> QED BY <1>1, <1>2, <1>3, <1>4, <1>5, <1>6, NothingStored, MoveKeepsInv

\* A write that keeps what is applied, and owes nothing new.
LEMMA WriteKeeps ==
  ASSUME LiveInv, NEW g \in Generations, NEW entry \in Entry, Writes(g, entry),
         entry.applied = store[g].applied, store[g].owed = 0 => entry.owed = 0
  PROVE  OwesNoMore /\ store' \in [Generations -> Entry] /\ \A p \in Processes : KeepsApplied(p)
<1>1. /\ store' \in [Generations -> Entry] /\ store'[g] = entry
      /\ \A h \in Generations : h # g => store'[h] = store[h]
  BY StoreWritten
<1> QED BY <1>1 DEF OwesNoMore, KeepsApplied

LEMMA PollObservesKeeps == ASSUME LiveInv, PollObserves PROVE LiveInv'
<1> DEFINE g == proc["poll"].gen
           answer == proc["poll"].answer
           next == IF answer = NoPublication THEN store[g] ELSE Observed(store[g], answer)
<1>1. /\ "poll" \in Processes /\ proc["poll"] \in Process /\ g \in Generations /\ g # 0
      /\ answer \in Answer /\ store[g] \in Entry
  <2>1. "poll" \in Processes /\ proc["poll"] \in Process
    BY DEF LiveInv, LiveTypeOK, Processes
  <2>2. proc["poll"].gen # 0
    BY <2>1 DEF LiveInv, Addressed, PollObserves, At
  <2>3. g \in Generations /\ answer \in Answer
    BY <2>1, <2>2, Bounds DEF Process, Generations
  <2> QED BY <2>1, <2>2, <2>3 DEF LiveInv, LiveTypeOK
<1>2. next \in Entry /\ next.applied = store[g].applied /\ next.owed = store[g].owed
  BY <1>1, ObservedKeeps
<1>3. Writes(g, next) \/ UNCHANGED store
  BY DEF PollObserves
<1>4. OwesNoMore /\ store' \in [Generations -> Entry] /\ \A p \in Processes : KeepsApplied(p)
  <2>1. CASE Writes(g, next)
    <3> HIDE DEF g, next
    <3> QED BY <1>1, <1>2, <2>1, WriteKeeps
  <2>2. CASE UNCHANGED store
    BY <2>2, NothingStored DEF LiveInv, LiveTypeOK
  <2> QED BY <1>3, <2>1, <2>2
<1>5. PICK x \in {[proc["poll"] EXCEPT !.pc = "toAck", !.answer = NoPublication], Idle} :
        proc' = [proc EXCEPT !["poll"] = x]
  BY DEF PollObserves, Goes
<1>6. x \in Process /\ Fits("poll", x)
  <2>1. CASE x = Idle
    BY <2>1, <1>1, IdleFits, ConstantsTyped
  <2>2. CASE x = [proc["poll"] EXCEPT !.pc = "toAck", !.answer = NoPublication]
    <3>1. /\ x \in Process /\ x.pc = "toAck" /\ x.gen = g /\ x.live = proc["poll"].live
      BY <1>1, <2>2, ConstantsTyped DEF Process, Awaits
    <3> QED BY <1>1, <3>1 DEF Fits, LiveInv, Leased
  <2> QED BY <1>5, <2>1, <2>2
<1>7. Guards("poll", x)
  BY DEF Guards, PollObserves, Keeps
<1>8. RestTyped /\ UNCHANGED session
  BY <1>4 DEF PollObserves, LiveInv, LiveTypeOK, Keeps, server, RestTyped
<1> QED BY <1>1, <1>4, <1>5, <1>6, <1>7, <1>8, MoveKeepsInv

\* Whoever ends releases what it held of the guard.
LEMMA EndsGuards ==
  ASSUME NEW p \in Processes, ~At(p, "idle"), Ends(p), UNCHANGED delivering
  PROVE  Guards(p, Idle) /\ (refreshing \in BOOLEAN => refreshing' \in BOOLEAN)
         /\ proc' = [proc EXCEPT ![p] = Idle]
  BY IdleFits DEF Guards, Ends

LEMMA SendsAcknowledgementKeeps ==
  ASSUME LiveInv, NEW p \in {"poll", "apply"}, SendsAcknowledgement(p) PROVE LiveInv'
<1>1. /\ p \in Processes /\ At(p, "toAck") /\ ~At(p, "idle") /\ proc[p] \in Process
      /\ proc[p].gen \in Generations /\ proc[p].gen # 0
  <2>1. p \in Processes /\ At(p, "toAck") /\ ~At(p, "idle")
    BY DEF SendsAcknowledgement, Processes, At
  <2>2. proc[p].gen # 0 /\ proc[p] \in Process
    BY <2>1 DEF LiveInv, LiveTypeOK, Addressed, At
  <2> QED BY <2>1, <2>2, Bounds DEF Process, Generations
<1>2. UNCHANGED <<store, session, delivering>>
  BY DEF SendsAcknowledgement, Keeps
<1>3. CASE Current(p) /\ store[proc[p].gen].owed # 0
  <2> DEFINE v == store[proc[p].gen].owed
             x == [proc[p] EXCEPT !.pc = "acking", !.version = v]
  <2>1. v \in 1 .. MaxSequence /\ v \in Int
    <3>1. store[proc[p].gen] \in Entry
      BY <1>1 DEF LiveInv, LiveTypeOK
    <3> QED BY <1>3, <3>1, Bounds DEF Entry
  <2>2. /\ proc' = [proc EXCEPT ![p] = x] /\ UNCHANGED refreshing
        /\ wire' = wire \cup {<<proc[p].gen, v>>}
    BY <1>3 DEF SendsAcknowledgement
  <2> HIDE DEF v
  <2>3. x \in Process /\ x.pc = "acking" /\ x.gen = proc[p].gen /\ x.live = proc[p].live
    BY <1>1, <2>1 DEF Process, Awaits
  <2> HIDE DEF x
  <2>4. Fits(p, x)
    BY <1>1, <2>3 DEF Fits, LiveInv, Leased
  <2>5. Guards(p, x)
    BY <1>1, <1>2, <2>2, <2>3 DEF Guards, At
  <2>6. RestTyped
    BY <1>1, <1>2, <2>1, <2>2 DEF SendsAcknowledgement, LiveInv, LiveTypeOK, Keeps, server, RestTyped
  <2> QED BY <1>1, <1>2, <2>2, <2>3, <2>4, <2>5, <2>6, NothingStored, MoveKeepsInv
<1>4. CASE ~(Current(p) /\ store[proc[p].gen].owed # 0)
  <2>1. Ends(p) /\ UNCHANGED wire
    BY <1>4 DEF SendsAcknowledgement
  <2>2. Guards(p, Idle) /\ refreshing' \in BOOLEAN /\ proc' = [proc EXCEPT ![p] = Idle]
    BY <1>1, <1>2, <2>1, EndsGuards DEF LiveInv, LiveTypeOK
  <2>3. RestTyped
    BY <1>2, <2>1, <2>2, RestStands DEF SendsAcknowledgement
  <2> QED BY <1>1, <1>2, <2>2, <2>3, IdleFits, ConstantsTyped, NothingStored, MoveKeepsInv
<1> QED BY <1>3, <1>4

LEMMA TakesAcknowledgementKeeps ==
  ASSUME LiveInv, NEW p \in {"poll", "apply"}, TakesAcknowledgement(p) PROVE LiveInv'
<1> DEFINE g == proc[p].gen
           next == Settled(store[g], proc[p].answer, proc[p].version)
<1>1. /\ p \in Processes /\ ~At(p, "idle") /\ proc[p] \in Process /\ g \in Generations
      /\ store[g] \in Entry
  <2>1. p \in Processes /\ ~At(p, "idle") /\ At(p, "acked")
    BY DEF TakesAcknowledgement, Processes, At
  <2>2. proc[p].gen # 0 /\ proc[p] \in Process
    BY <2>1 DEF LiveInv, LiveTypeOK, Addressed, At
  <2>3. g \in Generations
    BY <2>1, <2>2, Bounds DEF Process, Generations
  <2> QED BY <2>1, <2>2, <2>3 DEF LiveInv, LiveTypeOK
<1>2. UNCHANGED <<session, delivering>> /\ Ends(p) /\ (Writes(g, next) \/ UNCHANGED store)
  BY DEF TakesAcknowledgement, Keeps
<1>3. Guards(p, Idle) /\ refreshing' \in BOOLEAN /\ proc' = [proc EXCEPT ![p] = Idle]
  BY <1>1, <1>2, EndsGuards DEF LiveInv, LiveTypeOK
<1>4. /\ next \in Entry /\ next.applied = store[g].applied
      /\ next.owed = IF store[g].owed = proc[p].version THEN 0 ELSE store[g].owed
  <2>1. proc[p].answer \in Answer /\ proc[p].version \in Int
    BY <1>1 DEF Process
  <2> QED BY <1>1, <2>1, SettledKeeps
<1>5. OwesNoMore /\ store' \in [Generations -> Entry] /\ KeepsApplied(p)
  <2>1. CASE Writes(g, next)
    <3> HIDE DEF g, next
    <3> QED BY <1>1, <1>4, <2>1, WriteKeeps
  <2>2. CASE UNCHANGED store
    BY <1>1, <2>2, NothingStored DEF LiveInv, LiveTypeOK
  <2> QED BY <1>2, <2>1, <2>2
<1>6. RestTyped
  BY <1>2, <1>3, <1>5 DEF TakesAcknowledgement, LiveInv, LiveTypeOK, Keeps, server, RestTyped
<1> QED BY <1>1, <1>2, <1>3, <1>5, <1>6, IdleFits, ConstantsTyped, MoveKeepsInv

-----------------------------------------------------------------------------
(* The refresh.                                                              *)

LEMMA RefreshTyped ==
  ASSUME LiveInv
  PROVE  /\ "refresh" \in Processes /\ proc["refresh"] \in Process
         /\ proc["refresh"].pc \notin {"idle", "lookup", "offline"} =>
              /\ proc["refresh"].gen \in Generations /\ proc["refresh"].gen # 0
              /\ store[proc["refresh"].gen] \in Entry
         /\ proc["refresh"].live => signedIn
<1>1. "refresh" \in Processes /\ proc["refresh"] \in Process
  BY DEF LiveInv, LiveTypeOK, Processes
<1>2. proc["refresh"].pc \notin {"idle", "lookup", "offline"} => proc["refresh"].gen # 0
  BY <1>1 DEF LiveInv, Addressed
<1>3. proc["refresh"].gen # 0 => proc["refresh"].gen \in Generations
  BY <1>1, Bounds DEF Process, Generations
<1> QED BY <1>1, <1>2, <1>3 DEF LiveInv, LiveTypeOK, Leased

LEMMA RefreshBeginsKeeps == ASSUME LiveInv, RefreshBegins PROVE LiveInv'
<1> DEFINE x == [Idle EXCEPT !.pc = "lookup", !.live = TRUE]
<1>1. x \in Process /\ x.pc = "lookup"
  BY ConstantsTyped DEF Process, Awaits
<1>2. proc' = [proc EXCEPT !["refresh"] = x] /\ signedIn /\ "refresh" \in Processes
  BY DEF RefreshBegins, Processes
<1> HIDE DEF x
<1>3. Fits("refresh", x)
  BY <1>1, <1>2 DEF Fits
<1>4. At("refresh", "idle") /\ At("apply", "idle")
  BY DEF RefreshBegins, BeginRefresh, LiveInv, GuardHolds
<1>5. Guards("refresh", x)
  BY <1>4 DEF Guards, RefreshBegins, BeginRefresh, Keeps
<1>6. RestTyped /\ UNCHANGED <<session, store>>
  BY RestStands DEF RefreshBegins
<1> QED BY <1>1, <1>2, <1>3, <1>5, <1>6, NothingStored, MoveKeepsInv

LEMMA RefreshFallsBackKeeps == ASSUME LiveInv, RefreshFallsBack PROVE LiveInv'
<1>1. /\ "refresh" \in Processes /\ ~At("refresh", "idle") /\ Ends("refresh")
      /\ UNCHANGED <<store, delivering>>
  BY DEF RefreshFallsBack, Processes, At
<1>2. Guards("refresh", Idle) /\ refreshing' \in BOOLEAN /\ proc' = [proc EXCEPT !["refresh"] = Idle]
  BY <1>1, EndsGuards DEF LiveInv, LiveTypeOK
<1>3. /\ session' \in [gen : 0 .. MaxGeneration, version : Int] /\ cached' \in BOOLEAN
      /\ UNCHANGED session \/ SessionIsStored'
  <2>1. CASE UNCHANGED <<session, cached>>
    BY <2>1 DEF LiveInv, LiveTypeOK
  <2>2. CASE ~UNCHANGED <<session, cached>>
    <3>1. /\ session' = [gen |-> access, version |-> Version(store[access].applied)]
          /\ cached' = TRUE /\ access # 0
      BY <2>2 DEF RefreshFallsBack
    <3>2. access \in Generations /\ access \in 0 .. MaxGeneration
      BY <3>1, Bounds DEF LiveInv, LiveTypeOK, Generations
    <3>3. store[access].applied \in Int
      BY <3>2 DEF LiveInv, LiveTypeOK, Entry
    <3>4. Version(store[access].applied) \in Int
      BY <3>3 DEF Version
    <3>5. session' \in [gen : 0 .. MaxGeneration, version : Int]
      BY <3>1, <3>2, <3>4
    <3>6. SessionIsStored'
      BY <1>1, <3>1 DEF SessionIsStored, Version
    <3> QED BY <3>1, <3>5, <3>6
  <2> QED BY <2>1, <2>2
<1>4. RestTyped
  BY <1>2, <1>3 DEF RefreshFallsBack, LiveInv, LiveTypeOK, server, RestTyped
<1> QED BY <1>1, <1>2, <1>3, <1>4, IdleFits, ConstantsTyped, NothingStored, MoveKeepsInv

LEMMA RefreshReadsKeeps == ASSUME LiveInv, RefreshReads PROVE LiveInv'
<1>1. /\ "refresh" \in Processes /\ ~At("refresh", "idle") /\ At("refresh", "gate")
      /\ UNCHANGED <<store, session, delivering>>
  BY DEF RefreshReads, Processes, At, Keeps
<1>2. CASE Current("refresh")
  <2> DEFINE x == [proc["refresh"] EXCEPT !.pc = "get", !.kept = store[proc["refresh"].gen]]
  <2>1. proc' = [proc EXCEPT !["refresh"] = x] /\ UNCHANGED refreshing
    BY <1>2 DEF RefreshReads
  <2>2. /\ x \in Process /\ x.pc = "get" /\ x.gen = proc["refresh"].gen
        /\ x.live = proc["refresh"].live /\ x.kept = store[proc["refresh"].gen]
    BY <1>1, RefreshTyped DEF Process, Awaits, At
  <2> HIDE DEF x
  <2>3. Fits("refresh", x)
    BY <1>1, <2>2, RefreshTyped DEF Fits, At
  <2>4. Guards("refresh", x)
    BY <1>1, <2>1, <2>2 DEF Guards, At
  <2>5. RestTyped
    BY <2>1, RestStands DEF RefreshReads, LiveInv, LiveTypeOK
  <2> QED BY <1>1, <2>1, <2>2, <2>3, <2>4, <2>5, NothingStored, MoveKeepsInv
<1>3. CASE ~Current("refresh")
  <2>1. Ends("refresh")
    BY <1>3 DEF RefreshReads
  <2>2. Guards("refresh", Idle) /\ refreshing' \in BOOLEAN /\ proc' = [proc EXCEPT !["refresh"] = Idle]
    BY <1>1, <2>1, EndsGuards DEF LiveInv, LiveTypeOK
  <2>3. RestTyped
    BY <1>1, <2>2, RestStands DEF RefreshReads
  <2> QED BY <1>1, <2>2, <2>3, IdleFits, ConstantsTyped, NothingStored, MoveKeepsInv
<1> QED BY <1>2, <1>3

LEMMA RefreshStagesKeeps == ASSUME LiveInv, RefreshStages PROVE LiveInv'
<1> DEFINE g == proc["refresh"].gen
           answer == proc["refresh"].answer
           kept == proc["refresh"].kept
<1>1. /\ "refresh" \in Processes /\ ~At("refresh", "idle") /\ At("refresh", "got")
      /\ UNCHANGED <<session, delivering>>
  BY DEF RefreshStages, Processes, At, Keeps
<1>2. /\ g \in Generations /\ g # 0 /\ store[g] \in Entry /\ proc["refresh"] \in Process
      /\ answer \in Answer /\ kept \in Entry
      /\ proc["refresh"].live => signedIn
  BY <1>1, RefreshTyped DEF At, Process
<1>3. CASE ~Current("refresh")
  <2>1. Ends("refresh") /\ UNCHANGED store
    BY <1>3 DEF RefreshStages
  <2>2. Guards("refresh", Idle) /\ refreshing' \in BOOLEAN /\ proc' = [proc EXCEPT !["refresh"] = Idle]
    BY <1>1, <2>1, EndsGuards DEF LiveInv, LiveTypeOK
  <2>3. RestTyped
    BY <1>1, <2>1, <2>2, RestStands DEF RefreshStages
  <2> QED BY <1>1, <2>1, <2>2, <2>3, IdleFits, ConstantsTyped, NothingStored, MoveKeepsInv
<1>4. CASE Current("refresh")
  \* Whichever way the request went, the version to adopt is that of the store.
  <2>1. PICK v \in Int :
          /\ proc' = [proc EXCEPT !["refresh"].pc = "adopt", !["refresh"].version = v,
                                  !["refresh"].answer = NoPublication, !["refresh"].kept = Empty]
          /\ v = Version(store'[g].applied)
          /\ store' \in [Generations -> Entry] /\ KeepsApplied("refresh") /\ OwesNoMore
          /\ UNCHANGED refreshing
    <3>1. CASE answer.seq >= -1 /\ CanStage(store[g], answer)
      <4>1. /\ Writes(g, Staged(store[g], answer)) /\ UNCHANGED refreshing
            /\ proc' = [proc EXCEPT !["refresh"].pc = "adopt",
                                    !["refresh"].version = Version(store'[g].applied),
                                    !["refresh"].answer = NoPublication, !["refresh"].kept = Empty]
        BY <1>4, <3>1 DEF RefreshStages
      <4> DEFINE entry == Staged(store[g], answer)
      <4>2. /\ entry \in Entry /\ Version(entry.applied) = Version(store[g].applied)
            /\ entry.owed = store[g].owed
        <5>1. Monotonic(store[g], Staged(store[g], answer)) /\ store[g] \in Entry /\ answer \in Answer
          BY <1>2, <4>1 DEF Writes
        <5> QED BY ONLY <5>1, StagedKeeps
      <4>3. Writes(g, entry)
        BY <4>1
      <4> HIDE DEF entry
      <4>4. /\ store' \in [Generations -> Entry] /\ store'[g] = entry
            /\ \A h \in Generations : h # g => store'[h] = store[h]
        BY <1>2, <4>2, <4>3, StoreWritten
      <4>5. KeepsApplied("refresh") /\ OwesNoMore
        BY <4>2, <4>4 DEF KeepsApplied, OwesNoMore
      <4>6. Version(store'[g].applied) \in Int
        BY <4>2, <4>4 DEF Version, Entry
      <4> QED BY <4>1, <4>4, <4>5, <4>6
    <3>2. CASE ~(answer.seq >= -1 /\ CanStage(store[g], answer))
      <4>1. /\ UNCHANGED <<store, refreshing>>
            /\ proc' = [proc EXCEPT !["refresh"].pc = "adopt",
                                    !["refresh"].version = Version(kept.applied),
                                    !["refresh"].answer = NoPublication, !["refresh"].kept = Empty]
        BY <1>4, <3>2 DEF RefreshStages
      <4>2. kept.applied = store'[g].applied
        BY <1>1, <1>4, <4>1 DEF LiveInv, RefreshIsStored, Current
      <4>3. Version(kept.applied) \in Int
        <5>1. kept.applied \in Int
          BY <1>2 DEF Entry
        <5> QED BY <5>1 DEF Version
      <4>4. Version(kept.applied) = Version(store'[g].applied)
        BY <4>2 DEF Version
      <4>5. store' \in [Generations -> Entry] /\ KeepsApplied("refresh") /\ OwesNoMore
        BY <1>1, <4>1, NothingStored DEF LiveInv, LiveTypeOK
      <4> HIDE DEF kept, g
      <4> QED BY <4>1, <4>3, <4>4, <4>5
    <3> QED BY <3>1, <3>2
  <2> DEFINE x == [proc["refresh"] EXCEPT !.pc = "adopt", !.version = v,
                                          !.answer = NoPublication, !.kept = Empty]
  <2>2. proc' = [proc EXCEPT !["refresh"] = x]
    BY <2>1
  <2>3. /\ x \in Process /\ x.pc = "adopt" /\ x.gen = g /\ x.version = v
        /\ x.live = proc["refresh"].live
    BY <1>2, ConstantsTyped DEF Process, Awaits
  <2> HIDE DEF x
  <2>4. Fits("refresh", x)
    BY <1>2, <2>1, <2>3 DEF Fits, Version
  <2>5. Guards("refresh", x)
    BY <1>1, <2>1, <2>3 DEF Guards, At
  <2>6. RestTyped
    BY <1>1, <2>1 DEF RefreshStages, LiveInv, LiveTypeOK, Keeps, server, RestTyped
  <2> QED BY <1>1, <2>1, <2>2, <2>3, <2>4, <2>5, <2>6, MoveKeepsInv
<1> QED BY <1>3, <1>4

LEMMA RefreshAdoptsKeeps == ASSUME LiveInv, RefreshAdopts PROVE LiveInv'
<1>1. /\ "refresh" \in Processes /\ ~At("refresh", "idle") /\ At("refresh", "adopt") /\ Ends("refresh")
      /\ UNCHANGED <<store, delivering>>
  BY DEF RefreshAdopts, Processes, At
<1>2. Guards("refresh", Idle) /\ refreshing' \in BOOLEAN /\ proc' = [proc EXCEPT !["refresh"] = Idle]
  BY <1>1, EndsGuards DEF LiveInv, LiveTypeOK
<1>3. /\ session' \in [gen : 0 .. MaxGeneration, version : Int] /\ cached' \in BOOLEAN
      /\ access' \in 0 .. MaxGeneration
      /\ UNCHANGED session \/ SessionIsStored'
  <2>1. CASE ~Current("refresh")
    BY <2>1 DEF RefreshAdopts, LiveInv, LiveTypeOK
  <2>2. CASE Current("refresh")
    <3>1. /\ session' = [gen |-> proc["refresh"].gen, version |-> proc["refresh"].version]
          /\ access' = proc["refresh"].gen /\ cached' = FALSE
      BY <2>2 DEF RefreshAdopts
    <3>2. proc["refresh"].gen \in 0 .. MaxGeneration /\ proc["refresh"].version \in Int
      BY RefreshTyped DEF Process
    <3>3. proc["refresh"].version = Version(store[proc["refresh"].gen].applied)
      BY <1>1, <2>2 DEF LiveInv, RefreshIsStored, Current
    <3>4. SessionIsStored'
      BY <1>1, <3>1, <3>3 DEF SessionIsStored, Version
    <3> QED BY <3>1, <3>2, <3>4
  <2> QED BY <2>1, <2>2
<1>4. RestTyped
  BY <1>2, <1>3, <1>1 DEF RefreshAdopts, LiveInv, LiveTypeOK, server, RestTyped
<1> QED BY <1>1, <1>2, <1>3, <1>4, IdleFits, ConstantsTyped, NothingStored, MoveKeepsInv

-----------------------------------------------------------------------------
(* The driver's Apply.                                                       *)

LEMMA ApplyTyped ==
  ASSUME LiveInv
  PROVE  /\ "apply" \in Processes /\ proc["apply"] \in Process
         /\ proc["apply"].pc \notin {"idle", "lookup", "offline"} =>
              /\ proc["apply"].gen \in Generations /\ proc["apply"].gen # 0
              /\ store[proc["apply"].gen] \in Entry
         /\ proc["apply"].live => signedIn
<1>1. "apply" \in Processes /\ proc["apply"] \in Process
  BY DEF LiveInv, LiveTypeOK, Processes
<1>2. proc["apply"].pc \notin {"idle", "lookup", "offline"} => proc["apply"].gen # 0
  BY <1>1 DEF LiveInv, Addressed
<1>3. proc["apply"].gen # 0 => proc["apply"].gen \in Generations
  BY <1>1, Bounds DEF Process, Generations
<1> QED BY <1>1, <1>2, <1>3 DEF LiveInv, LiveTypeOK, Leased

LEMMA ApplyBeginsKeeps == ASSUME LiveInv, ApplyBegins PROVE LiveInv'
<1> DEFINE x == [Idle EXCEPT !.pc = "read", !.gen = session.gen, !.live = TRUE]
<1>1. session.gen \in 0 .. MaxGeneration /\ session.gen # 0
  BY DEF LiveInv, LiveTypeOK, ApplyBegins
<1>2. x \in Process /\ x.pc = "read" /\ x.gen = session.gen
  BY <1>1, ConstantsTyped DEF Process, Awaits
<1>3. proc' = [proc EXCEPT !["apply"] = x] /\ signedIn /\ "apply" \in Processes
  BY DEF ApplyBegins, Processes
<1> HIDE DEF x
<1>4. Fits("apply", x)
  BY <1>1, <1>2, <1>3 DEF Fits
<1>5. Guards("apply", x)
  BY DEF Guards, ApplyBegins, BeginRefresh, Keeps
<1>6. RestTyped /\ UNCHANGED <<session, store>>
  BY RestStands DEF ApplyBegins
<1> QED BY <1>1, <1>2, <1>3, <1>4, <1>5, <1>6, NothingStored, MoveKeepsInv

\* Apply ends without writing.
LEMMA ApplyEndsKeeps ==
  ASSUME LiveInv, ~At("apply", "idle"), Ends("apply"), UNCHANGED <<store, session, taken, wire>>, Keeps
  PROVE  LiveInv'
<1>1. "apply" \in Processes /\ UNCHANGED delivering
  BY DEF Processes, Keeps
<1>2. Guards("apply", Idle) /\ refreshing' \in BOOLEAN /\ proc' = [proc EXCEPT !["apply"] = Idle]
  BY <1>1, EndsGuards DEF LiveInv, LiveTypeOK
<1>3. RestTyped
  BY <1>2, RestStands
<1> QED BY <1>1, <1>2, <1>3, IdleFits, ConstantsTyped, NothingStored, MoveKeepsInv

LEMMA ApplyReadsKeeps == ASSUME LiveInv, ApplyReads PROVE LiveInv'
<1>1. /\ "apply" \in Processes /\ ~At("apply", "idle") /\ At("apply", "read")
      /\ UNCHANGED <<store, session, taken, wire, delivering>> /\ Keeps
  BY DEF ApplyReads, Processes, At, Keeps
<1>2. CASE Current("apply")
  <2> DEFINE g == proc["apply"].gen
  <2>1. PICK c \in {"toAck", "get"} :
          /\ proc' = [proc EXCEPT !["apply"].pc = c, !["apply"].answer = NoPublication]
          /\ c = "get" => store[g].owed = 0
          /\ UNCHANGED refreshing
    BY <1>2 DEF ApplyReads, ConfirmsFirst, Goes
  <2> DEFINE x == [proc["apply"] EXCEPT !.pc = c, !.answer = NoPublication]
  <2>2. proc' = [proc EXCEPT !["apply"] = x]
    BY <2>1
  <2>3. /\ x \in Process /\ x.pc = c /\ x.gen = g /\ x.live = proc["apply"].live
        /\ g # 0 /\ g \in Generations
    BY <1>1, ApplyTyped, ConstantsTyped DEF Process, Awaits, At
  <2> HIDE DEF x
  <2>4. Fits("apply", x)
    <3>1. x.pc \notin {"acked", "got"}
      BY <2>3
    <3>2. x.live => signedIn
      BY <2>3, ApplyTyped
    <3>3. x.pc = "get" => store'[x.gen].owed = 0
      BY <1>1, <2>1, <2>3
    <3> QED BY <2>3, <3>1, <3>2, <3>3 DEF Fits
  <2>5. Guards("apply", x)
    BY <1>1, <2>1, <2>3 DEF Guards, At
  <2>6. RestTyped
    BY <1>1, <2>1, RestStands DEF LiveInv, LiveTypeOK
  <2> QED BY <1>1, <2>2, <2>3, <2>4, <2>5, <2>6, NothingStored, MoveKeepsInv
<1>3. CASE ~Current("apply")
  <2>1. Ends("apply")
    BY <1>3 DEF ApplyReads
  <2> QED BY <1>1, <2>1, ApplyEndsKeeps
<1> QED BY <1>2, <1>3

Commits ==
  /\ Current("apply") /\ proc["apply"].answer.seq >= -1
  /\ CanApply(store[proc["apply"].gen], proc["apply"].answer)

\* The commit: what ApplyStores changes when it writes.
LEMMA ApplyCommits ==
  ASSUME LiveInv, ApplyStores, Commits
  PROVE  LET g == proc["apply"].gen
             n == proc["apply"].answer.seq
         IN /\ g \in Generations /\ g = session.gen /\ ~deleted
            /\ store[g].owed = 0
            /\ store' \in [Generations -> Entry]
            /\ \A h \in Generations : h # g => store'[h] = store[h]
            /\ store'[g].owed = IF n > 0 THEN n ELSE 0
            /\ session' = [session EXCEPT !.version = Version(store'[g].applied)]
            /\ \/ n \in 1 .. MaxSequence /\ taken' = [taken EXCEPT ![g] = @ \cup {n}]
               \/ n \in {-1, 0} /\ UNCHANGED taken
            /\ n >= 0 => /\ \A m \in taken[g] : m <= n
                         /\ g <= office.gen /\ (g = office.gen => n <= office.seq)
            /\ \/ Ends("apply") /\ n = -1
               \/ Goes("apply", "saving") /\ UNCHANGED refreshing
<1> DEFINE g == proc["apply"].gen
           answer == proc["apply"].answer
<1>1. At("apply", "got") /\ proc["apply"].pc = "got"
  BY DEF ApplyStores, At
<1>2. /\ g \in Generations /\ store[g] \in Entry /\ answer \in Answer
      /\ proc["apply"].live => signedIn
  BY <1>1, ApplyTyped DEF Process
<1>3. /\ Current("apply") /\ answer.seq >= -1
      /\ Writes(g, Applied(store[g], answer))
      /\ session' = [session EXCEPT !.version = Version(store'[g].applied)]
      /\ taken' = IF answer.seq > 0 THEN [taken EXCEPT ![g] = @ \cup {answer.seq}] ELSE taken
      /\ IF answer = NoPublication THEN Ends("apply")
         ELSE Goes("apply", "saving") /\ UNCHANGED refreshing
  BY DEF ApplyStores, Commits
<1>4. store[g].owed = 0 /\ g = session.gen /\ ~deleted
  BY <1>1, <1>2, <1>3 DEF LiveInv, NothingOwedAtApply, Leased, Current
<1>5. answer.seq \in -1 .. MaxSequence /\ (answer = NoPublication => answer.seq = -1)
  BY <1>2, <1>3, Bounds DEF Answer, NoPublication
<1>6. answer # NoPublication => answer.seq >= 0
  <2>1. answer = [seq |-> answer.seq, pending |-> answer.pending]
    BY <1>2 DEF Answer
  <2>2. answer.seq = -1 => answer.pending = FALSE
    BY <1>2 DEF Answer
  <2>3. answer.seq = -1 => answer = NoPublication
    BY <2>1, <2>2 DEF NoPublication
  <2> QED BY <1>5, <2>3, Bounds
<1>7. /\ Applied(store[g], answer) \in Entry
      /\ Applied(store[g], answer).owed = IF answer.seq > 0 THEN answer.seq ELSE 0
  BY <1>2, <1>3, <1>4, <1>5, <1>6, AppliedGives
<1>8. /\ store' \in [Generations -> Entry]
      /\ store'[g] = Applied(store[g], answer)
      /\ \A h \in Generations : h # g => store'[h] = store[h]
  <2> DEFINE entry == Applied(store[g], answer)
  <2>1. Writes(g, entry) /\ entry \in Entry
    BY <1>3, <1>7
  <2> HIDE DEF entry, g
  <2>2. /\ store' \in [Generations -> Entry]
        /\ store'[g] = entry
        /\ \A h \in Generations : h # g => store'[h] = store[h]
    BY <1>2, <2>1, StoreWritten
  <2> QED BY <2>2 DEF entry, g
<1>9. answer.seq >= 0 => /\ \A m \in taken[g] : m <= answer.seq
                         /\ g <= office.gen /\ (g = office.gen => answer.seq <= office.seq)
  BY <1>1 DEF LiveInv, TakenInOrder
<1>10. \/ answer.seq \in 1 .. MaxSequence /\ taken' = [taken EXCEPT ![g] = @ \cup {answer.seq}]
       \/ answer.seq \in {-1, 0} /\ UNCHANGED taken
  BY <1>3, <1>5, Bounds
<1>11. \/ Ends("apply") /\ answer.seq = -1
       \/ Goes("apply", "saving") /\ UNCHANGED refreshing
  BY <1>3, <1>5
<1>12. store'[g].owed = IF answer.seq > 0 THEN answer.seq ELSE 0
  BY <1>7, <1>8
<1> QED BY <1>2, <1>3, <1>4, <1>8, <1>9, <1>10, <1>11, <1>12

LEMMA ApplyStoresKeeps == ASSUME LiveInv, ApplyStores PROVE LiveInv'
<1>1. /\ "apply" \in Processes /\ ~At("apply", "idle") /\ At("apply", "got")
      /\ UNCHANGED wire /\ Keeps
  BY DEF ApplyStores, Processes, At
<1>2. CASE ~Commits
  <2>1. Ends("apply") /\ UNCHANGED <<store, session, taken>>
    BY <1>2 DEF ApplyStores, Commits
  <2> QED BY <1>1, <2>1, ApplyEndsKeeps
<1>3. CASE Commits
  <2> DEFINE g == proc["apply"].gen
             n == proc["apply"].answer.seq
  <2>1. /\ g \in Generations /\ g = session.gen /\ ~deleted
        /\ store[g].owed = 0
        /\ store' \in [Generations -> Entry]
        /\ \A h \in Generations : h # g => store'[h] = store[h]
        /\ session' = [session EXCEPT !.version = Version(store'[g].applied)]
        /\ \/ n \in 1 .. MaxSequence /\ taken' = [taken EXCEPT ![g] = @ \cup {n}]
           \/ n \in {-1, 0} /\ UNCHANGED taken
        /\ n >= 0 => /\ \A m \in taken[g] : m <= n
                     /\ g <= office.gen /\ (g = office.gen => n <= office.seq)
        /\ \/ Ends("apply")
           \/ Goes("apply", "saving") /\ UNCHANGED refreshing
    BY <1>3, ApplyCommits
  <2>2. UNCHANGED <<delivering, signedIn, deleted, office, received, elsewhere, access, cached, wire>>
    BY <1>1 DEF Keeps, server
  <2>3. PICK x \in {Idle, [proc["apply"] EXCEPT !.pc = "saving", !.answer = NoPublication]} :
          /\ proc' = [proc EXCEPT !["apply"] = x]
          /\ x = Idle \/ UNCHANGED refreshing
    BY <2>1 DEF Ends, Goes
  <2>4. /\ x \in Process /\ x.pc \in {"idle", "saving"} /\ (x.pc = "saving" => x.gen # 0)
        /\ x.live => signedIn
    <3>1. CASE x = Idle
      BY <3>1, ConstantsTyped DEF Idle
    <3>2. CASE x = [proc["apply"] EXCEPT !.pc = "saving", !.answer = NoPublication]
      BY <1>1, <3>2, ApplyTyped, ConstantsTyped DEF Process, Awaits, At
    <3> QED BY <2>3, <3>1, <3>2
  <2>5. /\ proc' \in [Processes -> Process] /\ proc'["apply"] = x
        /\ \A q \in Processes : q # "apply" => proc'[q] = proc[q]
    BY <1>1, <2>3, <2>4, OneMoves DEF LiveInv, LiveTypeOK
  <2>6. refreshing' \in BOOLEAN
    BY <2>1 DEF Ends, LiveInv, LiveTypeOK
  <2>7. LiveTypeOK'
    <3>1. session' \in [gen : 0 .. MaxGeneration, version : Int]
      <4>1. store'[g].applied \in Int
        BY <2>1 DEF Entry
      <4>2. Version(store'[g].applied) \in Int
        BY <4>1 DEF Version
      <4> HIDE DEF g
      <4>3. session \in [gen : 0 .. MaxGeneration, version : Int]
        BY DEF LiveInv, LiveTypeOK
      <4> QED BY <2>1, <4>2, <4>3
    <3>2. taken' \in [Generations -> SUBSET (1 .. MaxSequence)]
      BY <2>1 DEF LiveInv, LiveTypeOK
    <3> QED BY <2>1, <2>2, <2>5, <2>6, <3>1, <3>2 DEF LiveInv, LiveTypeOK
  <2>8. OfficeInBounds'
    BY <2>2 DEF LiveInv, OfficeInBounds
  <2>9. Addressed'
    BY <2>4, <2>5 DEF LiveInv, Addressed
  <2>10. Leased'
    BY <2>2, <2>4, <2>5 DEF LiveInv, Leased
  <2>11. GuardHolds'
    <3>1. At("refresh", "idle") /\ refreshing /\ ~delivering /\ "refresh" \in Processes
      BY <1>1 DEF LiveInv, GuardHolds, Processes
    <3>2. proc'["refresh"] = proc["refresh"]
      BY <2>5, <3>1
    <3>3. CASE x = Idle
      BY <2>5, <3>1, <3>2, <3>3 DEF GuardHolds, At, Idle
    <3>4. CASE UNCHANGED refreshing
      <4>1. refreshing' /\ ~delivering' /\ At("refresh", "idle")'
        BY <2>2, <3>1, <3>2, <3>4 DEF At
      <4> QED BY <4>1 DEF GuardHolds
    <3> QED BY <2>3, <3>3, <3>4
  <2>12. Vouched'
    BY <2>2, <2>4, <2>5 DEF LiveInv, Vouched, At
  <2>13. NothingOwedAtApply'
    BY <2>4, <2>5 DEF NothingOwedAtApply, At
  <2>14. TakenInOrder'
    <3>1. ~At("apply", "got")'
      BY <2>4, <2>5 DEF At
    <3>2. \A h \in Generations : \A m \in taken'[h] :
            h <= office'.gen /\ (h = office'.gen => m <= office'.seq)
      <4> SUFFICES ASSUME NEW h \in Generations, NEW m \in taken'[h]
                   PROVE  h <= office.gen /\ (h = office.gen => m <= office.seq)
        BY <2>2
      <4>1. CASE m \in taken[h]
        BY <4>1 DEF LiveInv, TakenInOrder
      <4>2. CASE m \notin taken[h]
        <5>1. h = g /\ m = n /\ n \in 1 .. MaxSequence
          BY <2>1, <4>2 DEF LiveInv, LiveTypeOK
        <5>2. n >= 0
          BY <5>1, Bounds
        <5> QED BY <2>1, <5>1, <5>2
      <4> QED BY <4>1, <4>2
    <3> QED BY <3>1, <3>2 DEF TakenInOrder, At
  <2>15. SessionIsStored'
    <3>1. session'.gen = g /\ session'.version = Version(store'[g].applied)
      BY <2>1 DEF LiveInv, LiveTypeOK
    <3> QED BY <3>1 DEF SessionIsStored, Version
  <2>16. RefreshIsStored'
    <3>1. At("refresh", "idle") /\ "refresh" \in Processes
      BY <1>1 DEF LiveInv, GuardHolds, Processes
    <3>2. proc'["refresh"] = proc["refresh"]
      BY <2>5, <3>1
    <3> QED BY <3>1, <3>2 DEF RefreshIsStored, At
  <2> QED BY <2>7, <2>8, <2>9, <2>10, <2>11, <2>12, <2>13, <2>14, <2>15, <2>16 DEF LiveInv
<1> QED BY <1>2, <1>3


LEMMA ApplySavesKeeps == ASSUME LiveInv, ApplySaves PROVE LiveInv'
<1>1. /\ "apply" \in Processes /\ ~At("apply", "idle") /\ At("apply", "saving")
      /\ UNCHANGED <<store, session, taken, wire, delivering>> /\ Keeps
  BY DEF ApplySaves, Processes, At, Keeps
<1>2. CASE Ends("apply")
  BY <1>1, <1>2, ApplyEndsKeeps
<1>3. CASE Goes("apply", "toAck") /\ UNCHANGED refreshing
  <2> DEFINE x == [proc["apply"] EXCEPT !.pc = "toAck", !.answer = NoPublication]
  <2>1. proc' = [proc EXCEPT !["apply"] = x]
    BY <1>3 DEF Goes
  <2>2. /\ x \in Process /\ x.pc = "toAck" /\ x.gen # 0 /\ x.live = proc["apply"].live
    BY <1>1, ApplyTyped, ConstantsTyped DEF Process, Awaits, At
  <2> HIDE DEF x
  <2>3. Fits("apply", x)
    BY <2>2, ApplyTyped DEF Fits
  <2>4. Guards("apply", x)
    BY <1>1, <1>3, <2>2 DEF Guards, At
  <2>5. RestTyped
    BY <1>1, <1>3, RestStands DEF LiveInv, LiveTypeOK
  <2> QED BY <1>1, <2>1, <2>2, <2>3, <2>4, <2>5, NothingStored, MoveKeepsInv
<1> QED BY <1>2, <1>3 DEF ApplySaves

-----------------------------------------------------------------------------
(* The driver, the account and the office.                                   *)

LEMMA ServerAcknowledgesKeeps == ASSUME LiveInv, NEW m \in wire, ServerAcknowledges(m) PROVE LiveInv'
<1>1. UNCHANGED <<store, session, access, cached, proc, refreshing, delivering, signedIn, deleted,
                  taken, office, elsewhere, wire>>
  BY DEF ServerAcknowledges, device
<1>2. received \subseteq received'
  BY DEF ServerAcknowledges
<1>3. Vouched'
  BY <1>1, <1>2 DEF LiveInv, Vouched, At
<1>4. LiveTypeOK' /\ OfficeInBounds' /\ Addressed' /\ Leased'
  BY <1>1 DEF LiveInv, LiveTypeOK, OfficeInBounds, Addressed, Leased
<1>5. GuardHolds' /\ NothingOwedAtApply' /\ TakenInOrder' /\ SessionIsStored' /\ RefreshIsStored'
  BY <1>1 DEF LiveInv, GuardHolds, NothingOwedAtApply, TakenInOrder, SessionIsStored, RefreshIsStored,
     At, Version
<1> QED BY <1>3, <1>4, <1>5 DEF LiveInv

\* A delivery action touches nothing but the guard.
LEMMA DeliveryKeeps ==
  ASSUME LiveInv, DeliveryBegins \/ DeliveryEnds
  PROVE  LiveInv'
<1>1. UNCHANGED <<store, session, access, cached, proc, refreshing, signedIn, deleted, taken, office,
                  elsewhere, wire, received>>
  BY DEF DeliveryBegins, DeliveryEnds, server
<1>2. delivering' \in BOOLEAN
  BY DEF DeliveryBegins, DeliveryEnds
<1>3. GuardHolds'
  <2>1. CASE DeliveryBegins
    <3>1. At("refresh", "idle") /\ At("apply", "idle")
      BY <2>1 DEF DeliveryBegins, LiveInv, GuardHolds
    <3> QED BY <1>1, <3>1 DEF GuardHolds, At
  <2>2. CASE DeliveryEnds
    BY <1>1, <2>2 DEF DeliveryEnds, LiveInv, GuardHolds, At
  <2> QED BY <2>1, <2>2
<1>4. LiveTypeOK' /\ OfficeInBounds' /\ Addressed' /\ Leased'
  BY <1>1, <1>2 DEF LiveInv, LiveTypeOK, OfficeInBounds, Addressed, Leased
<1>5. Vouched' /\ NothingOwedAtApply' /\ TakenInOrder' /\ SessionIsStored' /\ RefreshIsStored'
  BY <1>1 DEF LiveInv, Vouched, NothingOwedAtApply, TakenInOrder, SessionIsStored, RefreshIsStored, At,
     Version
<1> QED BY <1>3, <1>4, <1>5 DEF LiveInv

\* Leaving the account takes the lease of every operation.
LEMMA Leaving ==
  ASSUME LiveInv, LeavesAccount
  PROVE  /\ proc' \in [Processes -> Process]
         /\ \A p \in Processes : /\ ~proc'[p].live
                                 /\ proc'[p].pc = proc[p].pc /\ proc'[p].gen = proc[p].gen
                                 /\ proc'[p].answer = proc[p].answer
                                 /\ proc'[p].version = proc[p].version
         /\ session' \in [gen : 0 .. MaxGeneration, version : Int] /\ session'.gen = 0
         /\ access' \in 0 .. MaxGeneration /\ cached' \in BOOLEAN /\ signedIn' = FALSE
<1>1. \A p \in Processes : [proc[p] EXCEPT !.live = FALSE] \in Process
  BY DEF LiveInv, LiveTypeOK, Process
<1>2. proc' = [p \in Processes |-> [proc[p] EXCEPT !.live = FALSE]]
  BY DEF LeavesAccount
<1>3. \A p \in Processes : proc[p] \in Process
  BY DEF LiveInv, LiveTypeOK
<1>4. session' = [gen |-> 0, version |-> 0] /\ 0 \in 0 .. MaxGeneration /\ access' = 0
  BY Bounds DEF LeavesAccount
<1>5. proc' \in [Processes -> Process]
  BY <1>1, <1>2
<1>6. \A p \in Processes : /\ ~proc'[p].live
                          /\ proc'[p].pc = proc[p].pc /\ proc'[p].gen = proc[p].gen
                          /\ proc'[p].answer = proc[p].answer
                          /\ proc'[p].version = proc[p].version
  BY <1>2, <1>3 DEF Process
<1>7. session' \in [gen : 0 .. MaxGeneration, version : Int] /\ session'.gen = 0
  BY <1>4
<1>8. cached' \in BOOLEAN /\ signedIn' = FALSE
  BY DEF LeavesAccount
<1> QED BY <1>4, <1>5, <1>6, <1>7, <1>8

\* Whoever leaves owes no more, whether or not the stored states are removed.
LEMMA LeavingKeeps ==
  ASSUME LiveInv, LeavesAccount, store' \in [Generations -> Entry], deleted' \in BOOLEAN,
         UNCHANGED <<refreshing, delivering, office, elsewhere, received, wire, taken>>
  PROVE  LiveInv'
<1>1. /\ proc' \in [Processes -> Process]
      /\ \A p \in Processes : /\ ~proc'[p].live
                              /\ proc'[p].pc = proc[p].pc /\ proc'[p].gen = proc[p].gen
                              /\ proc'[p].answer = proc[p].answer
                              /\ proc'[p].version = proc[p].version
      /\ session' \in [gen : 0 .. MaxGeneration, version : Int] /\ session'.gen = 0
      /\ access' \in 0 .. MaxGeneration /\ cached' \in BOOLEAN /\ signedIn' = FALSE
  BY Leaving
<1>2. "apply" \in Processes /\ "refresh" \in Processes
  BY DEF Processes
<1>3. LiveTypeOK' /\ OfficeInBounds'
  BY <1>1 DEF LiveInv, LiveTypeOK, OfficeInBounds
<1>4. Addressed' /\ Leased'
  BY <1>1 DEF LiveInv, Addressed, Leased
<1>5. GuardHolds'
  BY <1>1, <1>2 DEF LiveInv, GuardHolds, At
<1>6. Vouched'
  BY <1>1 DEF LiveInv, Vouched, At
<1>7. NothingOwedAtApply' /\ RefreshIsStored' /\ SessionIsStored'
  BY <1>1, <1>2 DEF NothingOwedAtApply, RefreshIsStored, SessionIsStored
<1>8. TakenInOrder'
  BY <1>1, <1>2 DEF LiveInv, TakenInOrder, At
<1> QED BY <1>3, <1>4, <1>5, <1>6, <1>7, <1>8 DEF LiveInv

LEMMA SignOutKeeps == ASSUME LiveInv, SignOut PROVE LiveInv'
  BY LeavingKeeps DEF SignOut, server, LiveInv, LiveTypeOK

LEMMA DeleteAccountKeeps == ASSUME LiveInv, DeleteAccount PROVE LiveInv'
<1>1. store' \in [Generations -> Entry]
  BY ConstantsTyped DEF DeleteAccount
<1> QED BY <1>1, LeavingKeeps DEF DeleteAccount, server

LEMMA SignInKeeps == ASSUME LiveInv, SignIn PROVE LiveInv'
<1>1. UNCHANGED <<store, session, access, cached, proc, refreshing, delivering, deleted, taken, office,
                  elsewhere, wire, received>> /\ signedIn' = TRUE /\ ~deleted
  BY DEF SignIn, server
<1>2. LiveTypeOK' /\ OfficeInBounds' /\ Addressed' /\ Leased'
  BY <1>1 DEF LiveInv, LiveTypeOK, OfficeInBounds, Addressed, Leased
<1>3. GuardHolds' /\ Vouched' /\ NothingOwedAtApply' /\ TakenInOrder' /\ SessionIsStored'
  BY <1>1 DEF LiveInv, GuardHolds, Vouched, NothingOwedAtApply, TakenInOrder, SessionIsStored, At, Version
<1>4. RefreshIsStored'
  BY <1>1 DEF LiveInv, RefreshIsStored, At, Version
<1> QED BY <1>2, <1>3, <1>4 DEF LiveInv

LEMMA RestartKeeps == ASSUME LiveInv, Restart PROVE LiveInv'
<1>1. /\ proc' \in [Processes -> Process] /\ \A p \in Processes : proc'[p] = Idle
      /\ "apply" \in Processes /\ "refresh" \in Processes
  BY ConstantsTyped DEF Restart, Processes
<1>2. Idle.pc = "idle" /\ ~Idle.live
  BY DEF Idle
<1>3. /\ session' \in [gen : 0 .. MaxGeneration, version : Int] /\ session'.gen = 0
      /\ cached' = FALSE /\ refreshing' = FALSE /\ delivering' = FALSE
      /\ UNCHANGED <<store, access, signedIn, deleted, office, elsewhere, received, wire, taken>>
  BY Bounds DEF Restart, server
<1>4. LiveTypeOK' /\ OfficeInBounds'
  BY <1>1, <1>3 DEF LiveInv, LiveTypeOK, OfficeInBounds
<1>5. Addressed' /\ Leased' /\ GuardHolds' /\ Vouched'
  BY <1>1, <1>2, <1>3 DEF LiveInv, Addressed, Leased, GuardHolds, Vouched, At
<1>6. NothingOwedAtApply' /\ RefreshIsStored' /\ SessionIsStored'
  BY <1>1, <1>2, <1>3 DEF NothingOwedAtApply, RefreshIsStored, SessionIsStored
<1>7. TakenInOrder'
  BY <1>1, <1>2, <1>3 DEF LiveInv, TakenInOrder, At
<1> QED BY <1>4, <1>5, <1>6, <1>7 DEF LiveInv

LEMMA ExpiresKeeps == ASSUME LiveInv, NEW g \in Generations, Expires(g) PROVE LiveInv'
<1>1. /\ UNCHANGED <<session, access, cached, proc, refreshing, delivering, signedIn, deleted, taken,
                     office, elsewhere, wire, received>>
      /\ session.gen = 0 /\ \A p \in Processes : proc[p].pc = "idle"
      /\ "apply" \in Processes /\ "refresh" \in Processes
  BY DEF Expires, server, At, Processes
<1>2. store' \in [Generations -> Entry]
  BY ConstantsTyped DEF Expires, LiveInv, LiveTypeOK
<1>3. LiveTypeOK' /\ OfficeInBounds' /\ Addressed' /\ Leased'
  BY <1>1, <1>2 DEF LiveInv, LiveTypeOK, OfficeInBounds, Addressed, Leased
<1>4. GuardHolds' /\ Vouched' /\ TakenInOrder'
  BY <1>1 DEF LiveInv, GuardHolds, Vouched, TakenInOrder, At
<1>5. NothingOwedAtApply' /\ RefreshIsStored' /\ SessionIsStored'
  BY <1>1 DEF NothingOwedAtApply, RefreshIsStored, SessionIsStored, At
<1> QED BY <1>3, <1>4, <1>5 DEF LiveInv

LEMMA OfficeActsKeeps == ASSUME LiveInv, OfficeActs PROVE LiveInv'
<1>1. UNCHANGED <<store, session, access, cached, proc, refreshing, delivering, signedIn, deleted, taken,
                  wire, received>> /\ elsewhere' = FALSE
  BY DEF OfficeActs, device
<1>2. /\ office \in [gen : Generations, seq : -1 .. MaxSequence] /\ OfficeInBounds
      /\ office.gen \in 1 .. MaxGeneration /\ office.seq \in -1 .. MaxSequence
  BY DEF LiveInv, LiveTypeOK, Generations
<1>3. \/ office.seq + 2 * office.gen <= MaxSequence + 1 /\ office' = [office EXCEPT !.seq = @ + 1]
      \/ office.gen < MaxGeneration /\ office' = [gen |-> office.gen + 1, seq |-> -1]
  BY DEF OfficeActs
<1>4. \/ /\ office'.gen = office.gen /\ office'.seq = office.seq + 1
         /\ office'.seq + 2 * office'.gen <= MaxSequence + 2
      \/ office'.gen = office.gen + 1 /\ office'.seq = -1 /\ office.gen < MaxGeneration
  BY <1>2, <1>3, Bounds
<1>5. /\ office'.gen \in Generations /\ office'.seq \in -1 .. MaxSequence /\ OfficeInBounds'
      /\ office' \in [gen : Generations, seq : -1 .. MaxSequence]
  <2>1. office'.gen \in Generations /\ office'.seq \in -1 .. MaxSequence /\ OfficeInBounds'
    BY <1>2, <1>4, Bounds DEF OfficeInBounds, Generations
  <2> QED BY <1>2, <1>3, <2>1
<1>6. LiveTypeOK' /\ Addressed' /\ Leased'
  BY <1>1, <1>5 DEF LiveInv, LiveTypeOK, Addressed, Leased
<1>7. GuardHolds' /\ Vouched' /\ NothingOwedAtApply' /\ SessionIsStored'
  BY <1>1 DEF LiveInv, GuardHolds, Vouched, NothingOwedAtApply, SessionIsStored, At, Version
<1>8. RefreshIsStored'
  BY <1>1 DEF LiveInv, RefreshIsStored, At, Version
<1>9. TakenInOrder'
  \* Later in the same generation, or the first of a later one.
  <2>1. ASSUME NEW h \in Int, NEW n \in Int, h <= office.gen /\ (h = office.gen => n <= office.seq)
        PROVE  h <= office'.gen /\ (h = office'.gen => n <= office'.seq)
    BY <1>2, <1>4, <2>1, Bounds
  <2>2. \A h \in Generations : \A n \in taken'[h] :
          h <= office'.gen /\ (h = office'.gen => n <= office'.seq)
    <3> SUFFICES ASSUME NEW h \in Generations, NEW n \in taken[h]
                 PROVE  h <= office'.gen /\ (h = office'.gen => n <= office'.seq)
      BY <1>1
    <3>1. h \in Int /\ n \in Int
      BY Bounds DEF LiveInv, LiveTypeOK, Generations
    <3>2. h <= office.gen /\ (h = office.gen => n <= office.seq)
      BY DEF LiveInv, TakenInOrder
    <3> QED BY <2>1, <3>1, <3>2
  <2>3. proc["apply"].gen \in Int /\ proc["apply"].answer.seq \in Int
    <3>1. proc["apply"].gen \in 0 .. MaxGeneration /\ proc["apply"].answer \in Answer
      BY ApplyTyped DEF Process
    <3>2. proc["apply"].answer.seq \in -3 .. MaxSequence
      BY <3>1 DEF Answer
    <3> QED BY <3>1, <3>2, Bounds
  <2>4. At("apply", "got")' /\ proc'["apply"].answer.seq >= 0 =>
          /\ proc'["apply"].gen <= office'.gen
          /\ proc'["apply"].gen = office'.gen => proc'["apply"].answer.seq <= office'.seq
          /\ \A n \in taken'[proc'["apply"].gen] : n <= proc'["apply"].answer.seq
    <3>1. At("apply", "got") /\ proc["apply"].answer.seq >= 0 =>
            /\ proc["apply"].gen <= office.gen
            /\ proc["apply"].gen = office.gen => proc["apply"].answer.seq <= office.seq
            /\ \A n \in taken[proc["apply"].gen] : n <= proc["apply"].answer.seq
      BY DEF LiveInv, TakenInOrder
    <3> QED BY <1>1, <2>1, <2>3, <3>1 DEF At
  <2> QED BY <2>2, <2>4 DEF TakenInOrder, At
<1> QED BY <1>5, <1>6, <1>7, <1>8, <1>9 DEF LiveInv

\* Whatever else changes does not concern the invariant.
LEMMA NothingKeeps ==
  ASSUME LiveInv, UNCHANGED <<store, session, access, cached, proc, refreshing, delivering, signedIn,
                              deleted, taken, office, wire, received>>, elsewhere' \in BOOLEAN
  PROVE  LiveInv'
<1>1. LiveTypeOK' /\ OfficeInBounds' /\ Addressed' /\ Leased'
  BY DEF LiveInv, LiveTypeOK, OfficeInBounds, Addressed, Leased
<1>2. GuardHolds' /\ Vouched' /\ NothingOwedAtApply' /\ TakenInOrder' /\ SessionIsStored'
  BY DEF LiveInv, GuardHolds, Vouched, NothingOwedAtApply, TakenInOrder, SessionIsStored, At, Version
<1>3. RefreshIsStored'
  BY DEF LiveInv, RefreshIsStored, At, Version
<1> QED BY <1>1, <1>2, <1>3 DEF LiveInv

-----------------------------------------------------------------------------
(* The invariant.                                                            *)

LEMMA LiveInvStarts == Init => LiveInv
<1> SUFFICES ASSUME Init PROVE LiveInv
  OBVIOUS
<1>1. /\ Empty \in Entry /\ Idle \in Process /\ Idle.pc = "idle" /\ ~Idle.live
      /\ 0 \in 0 .. MaxGeneration /\ 1 \in Generations /\ -1 \in -1 .. MaxSequence
  BY ConstantsTyped, Bounds DEF Idle, Generations
<1>2. LiveTypeOK
  <2>1. /\ store \in [Generations -> Entry] /\ proc \in [Processes -> Process]
        /\ taken \in [Generations -> SUBSET (1 .. MaxSequence)]
    BY <1>1 DEF Init
  <2>2. /\ session \in [gen : 0 .. MaxGeneration, version : Int] /\ access \in 0 .. MaxGeneration
        /\ office \in [gen : Generations, seq : -1 .. MaxSequence]
    BY <1>1 DEF Init
  <2> QED BY <2>1, <2>2 DEF Init, LiveTypeOK
<1>3. \A p \in Processes : proc[p] = Idle
  BY DEF Init
<1>4. OfficeInBounds /\ Addressed /\ Leased
  BY <1>1, <1>3 DEF Init, OfficeInBounds, Addressed, Leased
<1>5. GuardHolds /\ Vouched /\ NothingOwedAtApply /\ TakenInOrder /\ SessionIsStored /\ RefreshIsStored
  <2>1. "apply" \in Processes /\ "refresh" \in Processes
    BY DEF Processes
  <2> QED BY <1>1, <1>3, <2>1 DEF Init, GuardHolds, Vouched, NothingOwedAtApply, TakenInOrder,
             SessionIsStored, RefreshIsStored, At
<1> QED BY <1>2, <1>4, <1>5 DEF LiveInv

LEMMA LiveInvKept == ASSUME LiveInv, [Next]_vars PROVE LiveInv'
<1>1. CASE PollBegins \/ PollNext
  BY <1>1, PollBeginsKeeps, PollObservesKeeps, SendsAcknowledgementKeeps, TakesAcknowledgementKeeps
     DEF PollNext, Confirms
<1>2. CASE RefreshBegins \/ RefreshNext
  BY <1>2, RefreshBeginsKeeps, RefreshFallsBackKeeps, RefreshReadsKeeps, RefreshStagesKeeps,
     RefreshAdoptsKeeps DEF RefreshNext
<1>3. CASE ApplyBegins \/ ApplyNext
  BY <1>3, ApplyBeginsKeeps, ApplyReadsKeeps, ApplyStoresKeeps, ApplySavesKeeps,
     SendsAcknowledgementKeeps, TakesAcknowledgementKeeps DEF ApplyNext, Confirms
<1>4. CASE NetworkNext
  BY <1>4, AnswersLookupKeeps, AnswersGetKeeps, AnswersAcknowledgementKeeps, ServerAcknowledgesKeeps
     DEF NetworkNext
<1>5. CASE \E p \in Processes : RequestFails(p)
  BY <1>5, RequestFailsKeeps
<1>6. CASE DeliveryBegins \/ DeliveryEnds
  BY <1>6, DeliveryKeeps
<1>7. CASE SignOut \/ SignIn \/ DeleteAccount \/ Restart
  BY <1>7, SignOutKeeps, SignInKeeps, DeleteAccountKeeps, RestartKeeps
<1>8. CASE \E g \in Generations : Expires(g)
  BY <1>8, ExpiresKeeps
<1>9. CASE OfficeActs
  BY <1>9, OfficeActsKeeps
<1>10. CASE AcknowledgedElsewhere
  BY <1>10, NothingKeeps DEF AcknowledgedElsewhere, device
<1>11. CASE UNCHANGED vars
  BY <1>11, NothingKeeps DEF vars, LiveInv, LiveTypeOK
<1> QED BY <1>1, <1>2, <1>3, <1>4, <1>5, <1>6, <1>7, <1>8, <1>9, <1>10, <1>11 DEF Next

\* The invariant holds in every behaviour, for any number of generations,
\* publications and troubles.
THEOREM LiveInvHolds == Spec => []LiveInv
  BY LiveInvStarts, LiveInvKept, PTL DEF Spec

\* Nothing is shown before it is saved, and no stale callback shows an older version.
THEOREM ShownVersionIsStored == Spec => []ShownIsStored
<1>1. LiveInv => ShownIsStored
  BY DEF LiveInv, SessionIsStored, ShownIsStored
<1> QED BY <1>1, LiveInvHolds, PTL

-----------------------------------------------------------------------------
(* What the driver sees.                                                     *)

\* Only these steps set the session of an operation's generation.
LEMMA SessionSetters ==
  ASSUME Next, UNCHANGED session => FALSE
  PROVE  RefreshFallsBack \/ RefreshAdopts \/ ApplyStores \/ session'.gen = 0
<1>1. CASE PollBegins \/ PollNext
  BY <1>1 DEF PollBegins, PollNext, PollObserves, Confirms, SendsAcknowledgement, TakesAcknowledgement
<1>2. CASE RefreshBegins \/ RefreshNext
  BY <1>2 DEF RefreshBegins, RefreshNext, RefreshReads, RefreshStages
<1>3. CASE ApplyBegins \/ ApplyNext
  BY <1>3 DEF ApplyBegins, ApplyNext, ApplyReads, ApplySaves, Confirms, SendsAcknowledgement,
     TakesAcknowledgement
<1>4. CASE NetworkNext
  BY <1>4 DEF NetworkNext, AnswersLookup, AnswersGet, AnswersAcknowledgement, ServerAcknowledges, device
<1>5. CASE \E p \in Processes : RequestFails(p)
  BY <1>5 DEF RequestFails
<1>6. CASE DeliveryBegins \/ DeliveryEnds \/ SignIn
  BY <1>6 DEF DeliveryBegins, DeliveryEnds, SignIn
<1>7. CASE SignOut \/ DeleteAccount \/ Restart
  BY <1>7 DEF SignOut, DeleteAccount, Restart, LeavesAccount
<1>8. CASE (\E g \in Generations : Expires(g)) \/ OfficeActs \/ AcknowledgedElsewhere
  BY <1>8 DEF Expires, OfficeActs, AcknowledgedElsewhere, device
<1> QED BY <1>1, <1>2, <1>3, <1>4, <1>5, <1>6, <1>7, <1>8 DEF Next

\* The content on the screen changes within an assignment only in the commit of an
\* Apply, beside which no delivery action runs.
THEOREM ContentIsTheDrivers == Spec => ContentChangesOnlyOnApply
<1> DEFINE Change == session.gen # 0 /\ session'.gen = session.gen /\ session'.version # session.version
                     /\ seen[session.gen].applied # Hidden
                       => At("apply", "got") /\ ~delivering
<1>1. ASSUME LiveInv, [Next]_vars PROVE [Change]_vars
  <2> SUFFICES ASSUME Next, session.gen # 0, session'.gen = session.gen,
                      session'.version # session.version
               PROVE  At("apply", "got") /\ ~delivering
    BY <1>1
  <2>1. RefreshFallsBack \/ RefreshAdopts \/ ApplyStores
    BY SessionSetters
  <2>2. session.version = Version(store[session.gen].applied)
    BY <1>1 DEF LiveInv, SessionIsStored
  <2>3. CASE RefreshFallsBack
    BY <2>2, <2>3 DEF RefreshFallsBack
  <2>4. CASE RefreshAdopts
    BY <1>1, <2>2, <2>4 DEF RefreshAdopts, LiveInv, RefreshIsStored, Current
  <2>5. CASE ApplyStores
    BY <1>1, <2>5 DEF ApplyStores, LiveInv, GuardHolds, At
  <2> QED BY <2>1, <2>3, <2>4, <2>5
<1> QED BY <1>1, LiveInvHolds, PTL DEF Spec, ContentChangesOnlyOnApply

-----------------------------------------------------------------------------
(* The ledger.                                                               *)

\* What the ledger sees of a step that writes nothing it is about.
LedgerStands ==
  /\ \A g \in Generations : store'[g].owed = store[g].owed
  /\ UNCHANGED <<taken, wire, received, deleted>>

LEMMA LedgerStutters == ASSUME LedgerStands PROVE UNCHANGED Ledger!ledgerVars
  BY DEF LedgerStands, Ledger!ledgerVars

LEMMA Unwritten == ASSUME UNCHANGED <<store, taken, wire, received, deleted>> PROVE LedgerStands
  BY DEF LedgerStands

\* A write that keeps what is owed.
LEMMA WriteStands ==
  ASSUME LiveInv, NEW g \in Generations, NEW entry \in Entry, Writes(g, entry), entry.owed = store[g].owed,
         UNCHANGED <<taken, wire, received, deleted>>
  PROVE  LedgerStands
<1>1. /\ store'[g] = entry
      /\ \A h \in Generations : h # g => store'[h] = store[h]
  BY StoreWritten
<1> QED BY <1>1 DEF LedgerStands

LEMMA PollStands == ASSUME LiveInv, PollObserves PROVE LedgerStands
<1> DEFINE g == proc["poll"].gen
           answer == proc["poll"].answer
           next == IF answer = NoPublication THEN store[g] ELSE Observed(store[g], answer)
<1>1. "poll" \in Processes /\ proc["poll"] \in Process
  BY DEF LiveInv, LiveTypeOK, Processes
<1>2. proc["poll"].gen # 0
  BY <1>1 DEF LiveInv, Addressed, PollObserves, At
<1>3. g \in Generations /\ answer \in Answer
  BY <1>1, <1>2, Bounds DEF Process, Generations
<1>4. store[g] \in Entry
  BY <1>3 DEF LiveInv, LiveTypeOK
<1>5. next \in Entry /\ next.owed = store[g].owed
  BY <1>3, <1>4, ObservedKeeps
<1>6. UNCHANGED <<taken, wire, received, deleted>> /\ (Writes(g, next) \/ UNCHANGED store)
  BY DEF PollObserves, Keeps, server
<1>7. CASE Writes(g, next)
  <2> HIDE DEF g, next
  <2> QED BY <1>3, <1>5, <1>6, <1>7, WriteStands
<1>8. CASE UNCHANGED store
  BY <1>6, <1>8, Unwritten
<1> QED BY <1>6, <1>7, <1>8

LEMMA RefreshStands == ASSUME LiveInv, RefreshStages PROVE LedgerStands
<1> DEFINE g == proc["refresh"].gen
           answer == proc["refresh"].answer
           entry == Staged(store[g], answer)
<1>1. /\ g \in Generations /\ store[g] \in Entry /\ answer \in Answer
  BY RefreshTyped DEF RefreshStages, At, Process
<1>2. UNCHANGED <<taken, wire, received, deleted>> /\ (Writes(g, entry) \/ UNCHANGED store)
  BY DEF RefreshStages, Keeps, server
<1>3. CASE Writes(g, entry)
  <2>1. Monotonic(store[g], Staged(store[g], answer))
    BY <1>3 DEF Writes
  <2>2. entry \in Entry /\ entry.owed = store[g].owed
    BY <1>1, <2>1, StagedKeeps
  <2> HIDE DEF g, entry
  <2> QED BY <1>1, <1>2, <1>3, <2>2, WriteStands
<1>4. CASE UNCHANGED store
  BY <1>2, <1>4, Unwritten
<1> QED BY <1>2, <1>3, <1>4

\* The acknowledgement of what is owed leaves, or nothing does.
LEMMA SendingSends ==
  ASSUME LiveInv, NEW p \in {"poll", "apply"}, SendsAcknowledgement(p)
  PROVE  LedgerStands \/ \E g \in Generations : Ledger!Send(g)
<1> DEFINE g == proc[p].gen
<1>1. p \in Processes /\ At(p, "toAck")
  BY DEF SendsAcknowledgement, Processes
<1>2. g # 0 /\ proc[p] \in Process
  BY <1>1 DEF LiveInv, LiveTypeOK, Addressed, At
<1>3. g \in Generations
  BY <1>2, Bounds DEF Process, Generations
<1>4. UNCHANGED <<store, taken, received, deleted>>
  BY DEF SendsAcknowledgement, Keeps, server
<1>5. CASE Current(p) /\ store[g].owed # 0
  <2>1. wire' = wire \cup {<<g, store[g].owed>>}
    BY <1>5 DEF SendsAcknowledgement
  <2>2. store[g].owed \in Nat
    <3>1. store[g] \in Entry
      BY <1>3 DEF LiveInv, LiveTypeOK
    <3> QED BY <3>1, Bounds DEF Entry
  <2>3. store[g].owed # None
    BY <2>2, Bounds
  <2> HIDE DEF g
  <2>4. Ledger!Send(g)
    BY <1>3, <1>4, <1>5, <2>1, <2>3 DEF Ledger!Send
  <2> QED BY <1>3, <2>4
<1>6. CASE ~(Current(p) /\ store[g].owed # 0)
  <2>1. UNCHANGED wire
    BY <1>6 DEF SendsAcknowledgement
  <2> QED BY <1>4, <2>1, Unwritten
<1> QED BY <1>5, <1>6

\* A debt ends only when the office has that acknowledgement.
LEMMA TakingSettles ==
  ASSUME LiveInv, NEW p \in {"poll", "apply"}, TakesAcknowledgement(p)
  PROVE  LedgerStands \/ \E g \in Generations : Ledger!Settle(g)
<1> DEFINE g == proc[p].gen
           v == proc[p].version
           next == Settled(store[g], proc[p].answer, v)
<1>1. p \in Processes /\ At(p, "acked")
  BY DEF TakesAcknowledgement, Processes
<1>2. g # 0 /\ proc[p] \in Process
  BY <1>1 DEF LiveInv, LiveTypeOK, Addressed, At
<1>3. g \in Generations /\ proc[p].answer \in Answer /\ v \in Int
  BY <1>2, Bounds DEF Process, Generations
<1>4. store[g] \in Entry
  BY <1>3 DEF LiveInv, LiveTypeOK
<1>5. UNCHANGED <<taken, wire, received, deleted>>
  BY DEF TakesAcknowledgement, Keeps, server
<1>6. \/ Writes(g, next) /\ proc[p].answer.seq >= 0
      \/ UNCHANGED store
  BY DEF TakesAcknowledgement
<1>7. next \in Entry /\ next.owed = IF store[g].owed = v THEN 0 ELSE store[g].owed
  BY <1>3, <1>4, SettledKeeps
<1>8. CASE Writes(g, next) /\ proc[p].answer.seq >= 0
  <2>1. <<g, v>> \in received
    BY <1>1, <1>8 DEF LiveInv, Vouched
  <2> HIDE DEF g, v, next
  <2>2. CASE store[g].owed # v \/ v = 0
    BY <1>3, <1>5, <1>7, <1>8, <2>2, WriteStands
  <2>3. CASE store[g].owed = v /\ v # 0
    <3>1. /\ store' \in [Generations -> Entry] /\ store'[g] = next
          /\ \A h \in Generations : h # g => store'[h] = store[h]
      BY <1>3, <1>7, <1>8, StoreWritten
    <3>2. store'[g].owed = 0
      BY <1>7, <2>3, <3>1
    <3>3. PICK h \in Generations : h = g
      BY <1>3
    <3>4. Ledger!Settle(h)
      BY <1>5, <2>1, <2>3, <3>1, <3>2, <3>3 DEF Ledger!Settle
    <3> QED BY <3>4
  <2> QED BY <2>2, <2>3
<1>9. CASE UNCHANGED store
  BY <1>5, <1>9, Unwritten
<1> QED BY <1>6, <1>8, <1>9

\* The commit of an Apply takes the publication over, while nothing else is owed
\* and nothing newer was taken.
LEMMA ApplyTakes ==
  ASSUME LiveInv, ApplyStores
  PROVE  LedgerStands \/ \E g \in Generations : \E n \in 1 .. MaxSequence : Ledger!Take(g, n)
<1>1. UNCHANGED <<wire, received, deleted>>
  BY DEF ApplyStores, Keeps, server
<1>2. CASE ~Commits
  BY <1>1, <1>2, Unwritten DEF ApplyStores, Commits
<1>3. CASE Commits
  <2> DEFINE g == proc["apply"].gen
             n == proc["apply"].answer.seq
  <2>1. /\ g \in Generations /\ ~deleted
        /\ store[g].owed = 0
        /\ \A h \in Generations : h # g => store'[h] = store[h]
        /\ store'[g].owed = IF n > 0 THEN n ELSE 0
        /\ \/ n \in 1 .. MaxSequence /\ taken' = [taken EXCEPT ![g] = @ \cup {n}]
           \/ n \in {-1, 0} /\ UNCHANGED taken
        /\ n >= 0 => \A m \in taken[g] : m <= n
    BY <1>3, ApplyCommits
  <2> HIDE DEF g, n
  <2>2. CASE n \in {-1, 0} /\ UNCHANGED taken
    BY <1>1, <2>1, <2>2 DEF LedgerStands
  <2>3. CASE n \in 1 .. MaxSequence /\ taken' = [taken EXCEPT ![g] = @ \cup {n}]
    <3>1. n > 0 /\ n # 0
      BY <2>3, Bounds
    <3> DEFINE owedNow == [h \in Generations |-> IF store[h].owed = 0 THEN None ELSE store[h].owed]
               owedThen == [h \in Generations |-> IF store'[h].owed = 0 THEN None ELSE store'[h].owed]
    <3>2. owedThen = [owedNow EXCEPT ![g] = n] /\ owedNow[g] = None
      BY <2>1, <3>1
    <3>3. \A m \in taken[g] : m <= n
      BY <2>1, <2>3, Bounds
    <3>4. PICK h \in Generations, k \in 1 .. MaxSequence : h = g /\ k = n
      BY <2>1, <2>3
    <3>5. Ledger!Take(h, k)
      BY <1>1, <2>1, <2>3, <3>2, <3>3, <3>4 DEF Ledger!Take
    <3> QED BY <3>5
  <2> QED BY <2>1, <2>2, <2>3
<1> QED BY <1>2, <1>3

\* Every step is a step of the ledger or none of its business.
LEMMA StepsKeepTheLedger ==
  ASSUME LiveInv, [Next]_vars
  PROVE  [Ledger!Next]_(Ledger!ledgerVars)
<1>1. CASE PollBegins \/ RefreshBegins \/ ApplyBegins
  BY <1>1, Unwritten, LedgerStutters DEF PollBegins, RefreshBegins, ApplyBegins, Keeps, server
<1>2. CASE PollObserves
  BY <1>2, PollStands, LedgerStutters
<1>3. CASE Confirms("poll") \/ Confirms("apply")
  BY <1>3, SendingSends, TakingSettles, LedgerStutters DEF Confirms, Ledger!Next
<1>4. CASE RefreshFallsBack \/ RefreshReads \/ RefreshAdopts
  BY <1>4, Unwritten, LedgerStutters DEF RefreshFallsBack, RefreshReads, RefreshAdopts, Keeps, server
<1>5. CASE RefreshStages
  BY <1>5, RefreshStands, LedgerStutters
<1>6. CASE ApplyReads \/ ApplySaves
  BY <1>6, Unwritten, LedgerStutters DEF ApplyReads, ApplySaves, Keeps, server
<1>7. CASE ApplyStores
  BY <1>7, ApplyTakes, LedgerStutters DEF Ledger!Next
<1>8. CASE AnswersLookup \/ \E p \in Processes : AnswersGet(p) \/ AnswersAcknowledgement(p)
                                                \/ RequestFails(p)
  BY <1>8, Unwritten, LedgerStutters
     DEF AnswersLookup, AnswersGet, AnswersAcknowledgement, RequestFails, Keeps, server
<1>9. CASE \E m \in wire : ServerAcknowledges(m)
  <2>1. PICK m \in wire : ServerAcknowledges(m)
    BY <1>9
  <2>2. Ledger!Receive(m)
    BY <2>1 DEF ServerAcknowledges, device, Ledger!Receive
  <2> QED BY <2>2 DEF Ledger!Next
<1>10. CASE DeliveryBegins \/ DeliveryEnds \/ SignIn \/ SignOut \/ Restart
  BY <1>10, Unwritten, LedgerStutters DEF DeliveryBegins, DeliveryEnds, SignIn, SignOut, Restart, server
<1>11. CASE DeleteAccount
  <2>1. Ledger!Close
    BY <1>11 DEF DeleteAccount, server, Empty, Ledger!Close
  <2> QED BY <2>1 DEF Ledger!Next
<1>12. CASE \E g \in Generations : Expires(g)
  <2>1. PICK g \in Generations : Expires(g)
    BY <1>12
  <2>2. LedgerStands
    BY <2>1 DEF Expires, Empty, server, LedgerStands, LiveInv, LiveTypeOK
  <2> QED BY <2>2, LedgerStutters
<1>13. CASE OfficeActs \/ AcknowledgedElsewhere
  BY <1>13, Unwritten, LedgerStutters DEF OfficeActs, AcknowledgedElsewhere, device
<1>14. CASE UNCHANGED vars
  BY <1>14, Unwritten, LedgerStutters DEF vars
<1> QED BY <1>1, <1>2, <1>3, <1>4, <1>5, <1>6, <1>7, <1>8, <1>9, <1>10, <1>11, <1>12, <1>13, <1>14
       DEF Next, PollNext, RefreshNext, ApplyNext, NetworkNext

\* The device keeps the ledger: an acknowledgement is owed from the commit on, for
\* what was applied and nothing else, and only the office's own answer ends the debt.
THEOREM DeviceKeepsTheLedger == Spec => KeepsTheLedger
<1>1. Init => Ledger!Init
  BY DEF Init, Empty, Ledger!Init
<1>2. LiveInv /\ [Next]_vars => [Ledger!Next]_(Ledger!ledgerVars)
  BY StepsKeepTheLedger
<1> QED BY <1>1, <1>2, LiveInvHolds, PTL DEF Spec, KeepsTheLedger, Ledger!Spec

-----------------------------------------------------------------------------
\* The ledger's own promises, said of what the store owes.

Debts == [g \in Generations |-> IF store[g].owed = 0 THEN None ELSE store[g].owed]

Promises ==
  /\ Debts \in [Generations -> (1 .. MaxSequence) \cup {None}]
  /\ taken \in [Generations -> SUBSET (1 .. MaxSequence)]
  /\ wire \in SUBSET (Generations \X (1 .. MaxSequence))
  /\ received \in SUBSET (Generations \X (1 .. MaxSequence))
  /\ deleted \in BOOLEAN
  /\ \A m \in wire : m[2] \in taken[m[1]]
  /\ received \subseteq wire
  /\ ~deleted => \A g \in Generations : \A n \in taken[g] : n = Debts[g] \/ <<g, n>> \in received
  /\ \A g \in Generations : Debts[g] # None => ~deleted /\ Debts[g] \in taken[g]

LEMMA LedgerPromises == Ledger!LedgerInv <=> Promises
  BY DEF Promises, Debts, Ledger!LedgerInv, Ledger!LedgerTypeOK, Ledger!OnlyAppliedIsAcknowledged,
         Ledger!AppliedIsConfirmedOrOwed, Ledger!OwedWasApplied

\* Before anything is applied nothing is owed, sent or confirmed.
LEMMA LedgerStarts == Ledger!Init => Ledger!LedgerInv
  BY DEF Ledger!Init, Ledger!LedgerInv, Ledger!LedgerTypeOK, Ledger!OnlyAppliedIsAcknowledged,
         Ledger!AppliedIsConfirmedOrOwed, Ledger!OwedWasApplied

\* Every step of the ledger keeps its promises.
LEMMA LedgerKeeps ==
  ASSUME Promises, [Ledger!Next]_(Ledger!ledgerVars)
  PROVE  Promises'
<1> USE DEF Promises
<1>1. None \notin 1 .. MaxSequence
  BY Bounds
<1>2. ASSUME NEW g \in Generations, NEW n \in 1 .. MaxSequence, Ledger!Take(g, n)
      PROVE  Promises'
  <2>1. /\ ~deleted /\ Debts[g] = None /\ Debts' = [Debts EXCEPT ![g] = n]
        /\ taken' = [taken EXCEPT ![g] = @ \cup {n}] /\ UNCHANGED <<wire, received, deleted>>
    BY <1>2 DEF Ledger!Take, Debts
  <2>2. ASSUME NEW h \in Generations, NEW m \in taken'[h]
        PROVE  m = Debts'[h] \/ <<h, m>> \in received'
    <3>1. CASE h # g
      BY <1>2, <2>1, <2>2, <3>1
    <3>2. CASE h = g /\ m \in taken[g]
      BY <1>1, <1>2, <2>1, <3>2
    <3>3. CASE h = g /\ m = n
      BY <1>2, <2>1, <3>3
    <3> QED BY <1>2, <2>1, <2>2, <3>1, <3>2, <3>3
  <2>3. \A m \in wire : m[2] \in taken'[m[1]]
    BY <1>2, <2>1
  <2>4. \A h \in Generations : Debts'[h] # None => ~deleted' /\ Debts'[h] \in taken'[h]
    BY <1>2, <2>1
  <2> QED BY <1>2, <2>1, <2>2, <2>3, <2>4
<1>3. ASSUME NEW g \in Generations, Ledger!Send(g)
      PROVE  Promises'
  <2>1. /\ Debts[g] # None /\ wire' = wire \cup {<<g, Debts[g]>>}
        /\ UNCHANGED <<Debts, taken, received, deleted>>
    BY <1>3 DEF Ledger!Send, Debts
  <2> QED BY <1>3, <2>1
<1>4. ASSUME NEW g \in Generations, Ledger!Settle(g)
      PROVE  Promises'
  <2>1. /\ <<g, Debts[g]>> \in received /\ Debts' = [Debts EXCEPT ![g] = None]
        /\ UNCHANGED <<taken, wire, received, deleted>>
    BY <1>4 DEF Ledger!Settle, Debts
  <2> QED BY <1>1, <1>4, <2>1
<1>5. ASSUME NEW m \in wire, Ledger!Receive(m)
      PROVE  Promises'
  <2>1. received' = received \cup {m} /\ UNCHANGED <<Debts, taken, wire, deleted>>
    BY <1>5 DEF Ledger!Receive, Debts
  <2> QED BY <1>5, <2>1
<1>6. CASE Ledger!Close
  <2>1. deleted' = TRUE /\ Debts' = [g \in Generations |-> None] /\ UNCHANGED <<taken, wire, received>>
    BY <1>6 DEF Ledger!Close, Debts
  <2> QED BY <2>1
<1>7. CASE UNCHANGED Ledger!ledgerVars
  <2>1. UNCHANGED <<Debts, taken, wire, received, deleted>>
    BY <1>7 DEF Ledger!ledgerVars, Debts
  <2> QED BY <2>1
<1> QED BY <1>2, <1>3, <1>4, <1>5, <1>6, <1>7 DEF Ledger!Next

\* A device that keeps the ledger keeps its invariant.
LEMMA LedgerHolds == KeepsTheLedger => []Ledger!LedgerInv
<1>1. Promises /\ [Ledger!Next]_(Ledger!ledgerVars) => Promises'
  BY LedgerKeeps
<1> QED BY <1>1, LedgerPromises, LedgerStarts, PTL DEF KeepsTheLedger, Ledger!Spec

\* In the ledger, the office is only told of publications the device applied.
THEOREM AcknowledgedWasApplied == KeepsTheLedger => []Ledger!OnlyAppliedIsAcknowledged
<1>1. Ledger!LedgerInv => Ledger!OnlyAppliedIsAcknowledged
  BY DEF Ledger!LedgerInv
<1> QED BY <1>1, LedgerHolds, PTL

\* In the ledger, what was applied is confirmed at the office or still owed, until the
\* account is deleted.
THEOREM NoDebtIsDropped == KeepsTheLedger => []Ledger!AppliedIsConfirmedOrOwed
<1>1. Ledger!LedgerInv => Ledger!AppliedIsConfirmedOrOwed
  BY DEF Ledger!LedgerInv
<1> QED BY <1>1, LedgerHolds, PTL

\* So the ledger's promise is the device's: until the account is deleted, whatever
\* the driver applied is confirmed at the office or still owed.
THEOREM NoAppliedPublicationIsForgotten == Spec => []Ledger!AppliedIsConfirmedOrOwed
  BY NoDebtIsDropped, DeviceKeepsTheLedger, PTL

\* Nor is the office ever told of a publication the driver did not apply.
THEOREM OnlyAppliedPublicationsAreConfirmed == Spec => []Ledger!OnlyAppliedIsAcknowledged
  BY AcknowledgedWasApplied, DeviceKeepsTheLedger, PTL

\* A deleted account owes nothing, ever again.
THEOREM DeletedOwesNothing == Spec => [](deleted => \A g \in Generations : store[g].owed = 0)
<1>1. Ledger!LedgerInv /\ LiveInv => (deleted => \A g \in Generations : store[g].owed = 0)
  <2> SUFFICES ASSUME Ledger!LedgerInv, LiveInv, deleted, NEW g \in Generations, store[g].owed # 0
               PROVE  FALSE
    OBVIOUS
  <2>1. store[g].owed \in Nat
    BY Bounds DEF LiveInv, LiveTypeOK, Entry
  <2> QED BY <2>1, Bounds DEF Ledger!LedgerInv, Ledger!OwedWasApplied
<1> QED BY <1>1, LedgerHolds, DeviceKeepsTheLedger, LiveInvHolds, PTL

=============================================================================
