---------------------------- MODULE CompletionSync ----------------------------
(***************************************************************************)
(* Delivery confirmations between the app and the server.  Two passes may  *)
(* be under way on the one stored state: the foreground's and the one the  *)
(* background task makes after recording its GPS batch.  A pass sends the  *)
(* commands it found queued, one by one, each re-read first, then fetches  *)
(* the server's view and merges it                                         *)
(* (src/domain/completion/completionAssistanceSync.ts).  The driver keeps  *)
(* answering, requests time out and arrive late, the app dies, the server  *)
(* infers completions, and the office cancels or reassigns.                *)
(*                                                                         *)
(* The server is external: it keeps an unchanging receipt per command and  *)
(* orders answers by predecessor, as docs/completion-assistance-server-    *)
(* handoff.md asks of it.  A store update is one transaction; the checks   *)
(* before and after it (requireCurrentAsync) are the guard that work       *)
(* aborted by an interruption writes nothing.                              *)
(***************************************************************************)
EXTENDS CompletionAssistance, TLC

CONSTANTS
  MaxVisits,    \* bound: visits the GPS shows
  MaxAnswers,   \* bound: answers and manual outcomes of the driver
  Replies,      \* bound: the answers the driver chooses from
  MaxTrouble    \* bound: failed requests, interruptions, acts of the office and of the server's worker

ASSUME Bounds == {MaxVisits, MaxAnswers, MaxTrouble} \subseteq Nat /\ Replies \subseteq Explicit

VARIABLES
  st,       \* the stored state of the account
  sync,     \* the two passes
  assigned, \* the run of the route access the device holds
  server,   \* the server: service, runs, candidates, receipts
  late,     \* commands whose sender gave up, still on their way
  spent,    \* counters of the bounds
  given,    \* history: the answers, in the order given
  shown     \* history: notifications shown per candidate
vars == <<st, sync, assigned, server, late, spent, given, shown>>

Passes == {"fore", "back"}
Runs == {1, 2}
None == <<>>
Idle == [pc |-> "idle", todo |-> <<>>, command |-> None, reply |-> None]

Pending == [s \in Stops |-> [status |-> "pending", manual |-> NoManual]]
NewRun(r) == r :> [ended |-> FALSE, policy |-> 1, stops |-> Pending]

Init ==
  /\ st = EmptyState
  /\ sync = [p \in Passes |-> Idle]
  /\ assigned = 1
  /\ server = [supported |-> TRUE, runs |-> NewRun(1), candidates |-> <<>>, receipts |-> <<>>]
  /\ late = {}
  /\ spent = [visits |-> 0, answers |-> 0, trouble |-> 0]
  /\ given = <<>>
  /\ shown = <<>>

Spends(what, most) == spent[what] < most /\ spent' = [spent EXCEPT ![what] = @ + 1]
SpendsAll(what, most) == spent[what] = 0 /\ spent' = [spent EXCEPT ![what] = most]
Moves(p, to) == sync' = [sync EXCEPT ![p] = to]
At(p, pc) == sync[p].pc = pc

-----------------------------------------------------------------------------
(* The server (external). *)

Projected(c) == [status |-> server.candidates[c].status, revision |-> server.candidates[c].revision,
                 response |-> server.candidates[c].response, notified |-> FALSE, rejected |-> FALSE]

\* An answer applies to the revision it was given for, over an inference, or as
\* the successor of the answer last applied.
Applies(command) ==
  LET c == command.cand[1] IN
  /\ c \in DOMAIN server.candidates
  /\ c.run \in DOMAIN server.runs
  /\ server.candidates[c].status # "invalidated"
  /\ \/ command.expected = server.candidates[c].revision
     \/ server.candidates[c].status = "inferred_completed"
     \/ command.prev # None /\ command.prev = server.candidates[c].last

StopAfter(response) == CASE response = "completed" -> "delivered" [] response = "failed" -> "failed"
                         [] response = "not_completed" -> "pending"

WithReceipt(srv, command, status, candidate) ==
  [srv EXCEPT !.receipts = Put(@, command.id, [status |-> status, candidate |-> candidate])]

\* What handling a command makes of the server; its receipt is the reply.
Handled(command) ==
  IF command.id \in DOMAIN server.receipts THEN {server}
  ELSE CASE command.kind = "return" -> {WithReceipt(server, command, "applied", None)}
         [] command.kind = "candidate" ->
              LET c == command.cand[1]
                  verdicts == IF /\ c.run \in DOMAIN server.runs
                                 /\ Detectable(server.runs[c.run].stops[c.stop].status)
                              THEN {"awaiting_response"} ELSE {"invalidated"}
                  kept(verdict) == [status |-> verdict, revision |-> 0, response |-> "none", last |-> None]
                  reply(verdict) == [status |-> verdict, revision |-> 0, response |-> "none",
                                     notified |-> FALSE, rejected |-> FALSE]
              IN {WithReceipt([server EXCEPT !.candidates = Put(@, c, kept(v))], command, "applied",
                              <<reply(v)>>) : v \in verdicts}
         [] command.kind = "response" /\ Applies(command) ->
              LET c == command.cand[1]
                  new == [status |-> "responded", revision |-> server.candidates[c].revision + 1,
                          response |-> command.response, last |-> <<command.id>>]
                  reply == [status |-> "responded", revision |-> new.revision, response |-> new.response,
                            notified |-> FALSE, rejected |-> FALSE]
              IN {WithReceipt([server EXCEPT !.candidates = Put(@, c, new),
                                             !.runs[c.run].stops[c.stop].status = StopAfter(command.response)],
                              command, "applied", <<reply>>)}
         [] OTHER -> {WithReceipt(server, command, "rejected",
                                  IF command.cand[1] \in DOMAIN server.candidates
                                  THEN <<Projected(command.cand[1])>> ELSE None)}

ServerTakesCommand(p) ==
  /\ At(p, "posted") /\ server.supported
  /\ LET command == sync[p].command[1] IN
     \E srv \in Handled(command) :
       /\ server' = srv
       /\ Moves(p, [sync[p] EXCEPT !.pc = "replied", !.reply = <<srv.receipts[command.id]>>])
  /\ UNCHANGED <<st, assigned, late, spent, given, shown>>

ServerTakesLate ==
  /\ server.supported
  /\ \E command \in late :
       /\ late' = late \ {command}
       /\ server' \in Handled(command)
  /\ UNCHANGED <<st, sync, assigned, spent, given, shown>>

ServerAnswersGet(p) ==
  /\ At(p, "getting") /\ server.supported
  /\ Moves(p, [sync[p] EXCEPT
       !.pc = "got",
       !.reply = <<[runs |-> server.runs,
                    candidates |-> [c \in DOMAIN server.candidates |-> Projected(c)]]>>])
  /\ UNCHANGED <<st, assigned, server, late, spent, given, shown>>

Infers(c) ==
  /\ server.candidates[c].status = "awaiting_response"
  /\ c.run \in DOMAIN server.runs
  /\ Spends("trouble", MaxTrouble)
  /\ server' = [server EXCEPT !.candidates[c].status = "inferred_completed",
                              !.candidates[c].revision = @ + 1,
                              !.runs[c.run].stops[c.stop].status = "delivered"]
  /\ UNCHANGED <<st, sync, assigned, late, given, shown>>

\* Candidates without an explicit answer lose their ground.
Voided(cands, gone) ==
  [c \in DOMAIN cands |->
     IF c \in gone /\ cands[c].status \in {"awaiting_response", "held", "inferred_completed"}
     THEN [cands[c] EXCEPT !.status = "invalidated", !.revision = @ + 1] ELSE cands[c]]

OfficeClosesStop(r, s) ==
  /\ Detectable(server.runs[r].stops[s].status)
  /\ Spends("trouble", MaxTrouble)
  /\ server' = [server EXCEPT !.runs[r].stops[s].status = "failed",
                              !.candidates = Voided(@, {c \in DOMAIN @ : c.run = r /\ c.stop = s})]
  /\ UNCHANGED <<st, sync, assigned, late, given, shown>>

OfficeReassigns ==
  /\ DOMAIN server.runs = {1}
  /\ Spends("trouble", MaxTrouble)
  /\ server' = [server EXCEPT !.runs = NewRun(2),
                              !.candidates = [c \in DOMAIN @ |-> [@[c] EXCEPT !.status = "invalidated",
                                                                             !.revision = @ + 1]]]
  /\ UNCHANGED <<st, sync, assigned, late, given, shown>>

ServiceIsWithdrawn ==
  /\ server.supported
  /\ Spends("trouble", MaxTrouble)
  /\ server' = [server EXCEPT !.supported = FALSE]
  /\ UNCHANGED <<st, sync, assigned, late, given, shown>>

ServiceReturns ==
  /\ ~server.supported
  /\ server' = [server EXCEPT !.supported = TRUE]
  /\ UNCHANGED <<st, sync, assigned, late, spent, given, shown>>

-----------------------------------------------------------------------------
(* A pass: synchronizeCompletionAssistance, then notifyCompletionCandidates. *)

\* The background pass runs only after a batch, and only when something waits.
Begins(p) ==
  /\ \/ p = "fore" /\ At(p, "idle")
     \/ p = "back" /\ At(p, "recorded") /\ (st.commands # <<>> \/ st.buffered # <<>>)
  /\ Moves(p, [Idle EXCEPT !.pc = "sending", !.todo = st.commands])
  /\ UNCHANGED <<st, assigned, server, late, spent, given, shown>>

NothingToSend ==
  /\ At("back", "recorded") /\ st.commands = <<>> /\ st.buffered = <<>>
  /\ Moves("back", Idle)
  /\ UNCHANGED <<st, assigned, server, late, spent, given, shown>>

\* Each command is read again before it is sent, and skipped when another pass has
\* settled it; after the last comes the request for the server's view.
LeftReversed(p) == Reverse(SelectSeq(sync[p].todo, LAMBDA m : Queued(st, m.id)))   \* mutant: newest first
Left(p) == SelectSeq(sync[p].todo, LAMBDA m : Queued(st, m.id))

Sends(p) ==
  /\ At(p, "sending")
  /\ Moves(p, IF Left(p) = <<>> THEN [Idle EXCEPT !.pc = "getting"]
              ELSE [Idle EXCEPT !.pc = "posted", !.command = <<Head(Left(p))>>, !.todo = Tail(Left(p))])
  /\ UNCHANGED <<st, assigned, server, late, spent, given, shown>>

NeverAnsweredLater(state, command) == FALSE   \* mutant: any acknowledgement is taken over
AnsweredLater(state, command) ==
  \E i \in DOMAIN state.commands : /\ state.commands[i].kind = "response"
                                   /\ state.commands[i].cand = command.cand
                                   /\ state.commands[i].id # command.id

AsTheySay(local, theirs) == theirs   \* mutant: the claim is forgotten
Authoritative(local, theirs) == [theirs EXCEPT !.notified = local.notified]

\* mutants: settling an answer settles every answer of its candidate; a refused
\* command stays queued
SettlesCandidate(state, command) == SelectSeq(state.commands, LAMBDA m : m.cand # command.cand)
KeepsRefused(state, command) == IF command.kind = "response" THEN state.commands ELSE Tail(state.commands)
Settles(state, command) == SelectSeq(state.commands, LAMBDA m : m.id # command.id)

\* applyCommandAcknowledgement: a later answer of the driver is not overwritten.
Acknowledged(state, command, reply) ==
  LET c == command.cand[1]
      ours == reply.candidate # None /\ ~AnsweredLater(state, command)
      taken == IF ~ours THEN state.candidates
               ELSE Put(state.candidates, c,
                        IF c \in DOMAIN state.candidates
                        THEN Authoritative(state.candidates[c], reply.candidate[1]) ELSE reply.candidate[1])
      refused == /\ reply.status = "rejected" /\ command.cand # None /\ ~AnsweredLater(state, command)
                 /\ c \in DOMAIN taken /\ taken[c].status # "invalidated"
  IN [state EXCEPT
        !.commands = Settles(state, command),
        !.candidates = IF refused THEN [taken EXCEPT ![c].status = "held", ![c].rejected = TRUE] ELSE taken]

\* parseCommandAcknowledgement and the requirements on it: an answer's reply carries
\* the candidate as that answer left it, or as it stands when the answer is refused.
Acceptable(state, command, reply) ==
  command.kind = "response" =>
    CASE reply.status = "applied" ->
           /\ reply.candidate # None
           /\ reply.candidate[1].status = "responded"
           /\ reply.candidate[1].response = command.response
           /\ reply.candidate[1].revision > command.expected
      [] OTHER -> \/ reply.candidate # None \/ ~Queued(state, command.id)
                  \/ command.cand[1] \notin DOMAIN state.candidates

TakesReply(p) ==
  /\ At(p, "replied")
  /\ LET command == sync[p].command[1]
         reply == sync[p].reply[1]
     IN IF ~Acceptable(st, command, reply)
        THEN Moves(p, Idle) /\ UNCHANGED st
        ELSE /\ st' = IF Queued(st, command.id) THEN Acknowledged(st, command, reply) ELSE st
             /\ Moves(p, [sync[p] EXCEPT !.pc = "sending", !.command = None, !.reply = None])
  /\ UNCHANGED <<assigned, server, late, spent, given, shown>>

NeverQueued(state, c) == FALSE   \* mutant: a snapshot overrides a waiting answer
AnswerQueued(state, c) ==
  \E i \in DOMAIN state.commands : state.commands[i].kind = "response" /\ state.commands[i].cand = <<c>>

\* mergeCandidates: a queued answer, and a refusal the server has not gone beyond, stand.
Merged(state, theirs) ==
  LET mine == state.candidates
      merge(c) ==
        IF c \notin DOMAIN mine THEN theirs[c]
        ELSE IF \/ c \notin DOMAIN theirs \/ AnswerQueued(state, c)
                \/ /\ mine[c].status = "held" /\ mine[c].rejected /\ theirs[c].status # "invalidated"
                   /\ theirs[c].revision <= mine[c].revision
                \/ theirs[c].revision < mine[c].revision
        THEN mine[c]
        ELSE IF theirs[c].revision > mine[c].revision THEN Authoritative(mine[c], theirs[c])
        ELSE [Authoritative(mine[c], theirs[c]) EXCEPT
                !.response = IF mine[c].response = "none" THEN @ ELSE mine[c].response]
  IN [c \in DOMAIN mine \union DOMAIN theirs |-> merge(c)]

Unnotified(state) ==
  {c \in DOMAIN state.candidates :
     /\ ~state.candidates[c].notified /\ state.candidates[c].response = "none"
     /\ state.candidates[c].status \in {"awaiting_response", "held"}}

\* With nothing unannounced the notification step changes nothing.
AfterSync == IF Unnotified(st') = {} THEN Idle ELSE [Idle EXCEPT !.pc = "claiming"]

TakesSnapshot(p) ==
  /\ At(p, "got")
  /\ LET snapshot == sync[p].reply[1] IN
     st' = Reconcile([st EXCEPT !.capability = "supported", !.candidates = Merged(st, snapshot.candidates)],
                     snapshot.runs, snapshot.runs)
  /\ Moves(p, AfterSync)
  /\ UNCHANGED <<assigned, server, late, spent, given, shown>>

\* 404 or 501: detection stops, candidates and commands are kept.
LearnsUnsupported(p) ==
  /\ sync[p].pc \in {"posted", "getting"} /\ ~server.supported
  /\ st' = [st EXCEPT !.capability = "unsupported", !.runs = <<>>, !.visits = <<>>, !.buffered = <<>>]
  /\ Moves(p, AfterSync)
  /\ UNCHANGED <<assigned, server, late, spent, given, shown>>

\* The claim is stored first and the notification shown after it; dying between the
\* two shows one less.
Claims(p) ==
  /\ sync[p].pc \in {"claiming", "claimingBatch"}
  /\ st' = [st EXCEPT !.candidates = [c \in DOMAIN @ |-> [@[c] EXCEPT !.notified = @ \/ c \in Unnotified(st)]]]
  /\ shown' = [c \in DOMAIN shown \union Unnotified(st) |->
                 (IF c \in DOMAIN shown THEN shown[c] ELSE 0) + (IF c \in Unnotified(st) THEN 1 ELSE 0)]
  /\ Moves(p, IF At(p, "claiming") THEN Idle ELSE [Idle EXCEPT !.pc = "recorded"])
  /\ UNCHANGED <<assigned, server, late, spent, given>>

InFlight(p) == IF At(p, "posted") THEN {sync[p].command[1]} ELSE {}

\* A request fails or times out; what was sent may still arrive.
RequestFails(p) ==
  /\ sync[p].pc \in {"posted", "replied", "getting", "got"}
  /\ Spends("trouble", MaxTrouble)
  /\ late' = late \union InFlight(p)
  /\ Moves(p, Idle)
  /\ UNCHANGED <<st, assigned, server, given, shown>>

\* The driver signs out and in again, or the app dies: nothing under way is finished.
Interrupted ==
  /\ \E p \in Passes : ~At(p, "idle")
  /\ Spends("trouble", MaxTrouble)
  /\ late' = late \union InFlight("fore") \union InFlight("back")
  /\ sync' = [p \in Passes |-> Idle]
  /\ UNCHANGED <<st, assigned, server, given, shown>>

-----------------------------------------------------------------------------
(* The device and the driver. *)

Now == 10 * spent.visits + spent.answers

\* recordExpoCompletionLocations with a batch that shows a whole visit.
Records(s) ==
  /\ At("back", "idle")
  /\ Spends("visits", MaxVisits)
  /\ LET zone(k) == IF 1 < k /\ k < MinSamples + 2 THEN "inside" ELSE "outside"
         batch == [k \in 1..(MinSamples + 2) |->
                     [at |-> Now + 2 + k, valid |-> TRUE,
                      zone |-> [t \in Stops |-> IF t = s THEN zone(k) ELSE "outside"]]]
     IN st' = ObserveAssigned(st, assigned, batch)
  /\ Moves("back", [Idle EXCEPT !.pc = IF Unnotified(st') = {} THEN "recorded" ELSE "claimingBatch"])
  /\ UNCHANGED <<assigned, server, late, given, shown>>

AdoptsAssignment ==
  /\ assigned \notin DOMAIN server.runs
  /\ assigned' = CHOOSE r \in DOMAIN server.runs : TRUE
  /\ sync' = [sync EXCEPT !["back"] = Idle]
  /\ late' = late \union InFlight("back")
  /\ UNCHANGED <<st, server, spent, given, shown>>

Answered(new) ==
  SelectSeq(new.commands, LAMBDA m : m.kind = "response" /\ ~Queued(st, m.id))

Answers(c, response) ==
  /\ st.candidates[c].status # "invalidated" /\ st.candidates[c].response # response
  /\ Spends("answers", MaxAnswers)
  /\ st' = Respond(st, c, response, Now)
  /\ given' = given \o Answered(st')
  /\ UNCHANGED <<sync, assigned, server, late, shown>>

ClosesByHand(s, response) ==
  /\ Spends("answers", MaxAnswers)
  /\ st' = RecordManual(st, assigned, s, response, Now)
  /\ given' = given \o Answered(st')
  /\ UNCHANGED <<sync, assigned, server, late, shown>>

ReturnsToStore ==
  /\ SpendsAll("answers", MaxAnswers)
  /\ st' = RecordReturn(st, assigned, Now)
  /\ UNCHANGED <<sync, assigned, server, late, given, shown>>

EndsRoute ==
  /\ Spends("answers", MaxAnswers)
  /\ st' = EndTracking(st)
  /\ UNCHANGED <<sync, assigned, server, late, given, shown>>

PassNext(p) == \/ Begins(p) \/ Sends(p) \/ TakesReply(p) \/ LearnsUnsupported(p) \/ Claims(p)
               \/ ServerTakesCommand(p) \/ ServerAnswersGet(p)

Next ==
  \/ \E p \in Passes : PassNext(p) \/ TakesSnapshot(p) \/ RequestFails(p)
  \/ NothingToSend \/ ServerTakesLate \/ Interrupted \/ AdoptsAssignment
  \/ \E c \in DOMAIN server.candidates : Infers(c)
  \/ \E r \in DOMAIN server.runs, s \in Stops : OfficeClosesStop(r, s)
  \/ OfficeReassigns \/ ServiceIsWithdrawn \/ ServiceReturns
  \/ \E s \in Stops : Records(s)
  \/ \E c \in DOMAIN st.candidates, response \in Replies : Answers(c, response)
  \/ \E s \in Stops, response \in Replies \ {"not_completed"} : ClosesByHand(s, response)
  \/ ReturnsToStore \/ EndsRoute

Spec == Init /\ [][Next]_vars

\* What TakesSnapshot does to a pass: merging the snapshot needs nothing from outside.
SnapshotIsTaken(p) == At(p, "got") /\ \E pc \in {"idle", "claiming"} : Moves(p, [Idle EXCEPT !.pc = pc])

\* The foreground retries every minute and at every return to it; a request ends at
\* the latest by its time limit.  Nothing is assumed of the background, of the driver
\* or of the office.
SyncSpec == Spec /\ WF_vars(PassNext("fore")) /\ WF_sync(SnapshotIsTaken("fore"))

-----------------------------------------------------------------------------
(* Properties *)

\* No answer is lost: an answer the driver gave is queued until the server has a
\* receipt for it, whatever passes, failures and interruptions there were.
NoAnswerLost ==
  \A i \in DOMAIN given : Queued(st, given[i].id) \/ given[i].id \in DOMAIN server.receipts

\* As long as the driver's newest answer about a candidate waits, the app shows that
\* answer: neither an earlier answer's acknowledgement nor a snapshot taken before
\* displaces it.
NewestAnswerShown ==
  \A c \in DOMAIN st.candidates :
    LET mine == SelectSeq(given, LAMBDA m : m.cand = <<c>>) IN
    (mine # <<>> /\ Queued(st, Last(mine).id)) =>
      \/ st.candidates[c].status = "invalidated"
      \/ /\ st.candidates[c].status = "responded"
         /\ st.candidates[c].response = Last(mine).response

\* An answer the driver gave about a candidate is not turned back into a question or
\* an inference by anything late; only another answer, a refusal or an invalidation
\* ends it.
ExplicitAnswerStands ==
  [][\A i \in DOMAIN given :
       LET c == given[i].cand[1] IN
       st.candidates[c].status = "responded" =>
         st'.candidates[c].status \in {"responded", "held", "invalidated"}]_vars

\* The server applies answers in the order the driver gave them.
AppliedInOrder ==
  \A i, j \in DOMAIN given :
    (/\ i < j /\ given[i].cand = given[j].cand
     /\ given[j].id \in DOMAIN server.receipts) => given[i].id \in DOMAIN server.receipts

\* A candidate is announced at most once, though both passes and the batch's own
\* notification look for unannounced candidates.
NotifiedOnce == \A c \in DOMAIN shown : shown[c] <= 1

\* Every command is settled while the service is there.
EventuallySettled == []<>(st.commands = <<>> \/ ~server.supported)
=============================================================================
