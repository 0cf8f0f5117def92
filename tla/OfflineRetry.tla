------------------------------ MODULE OfflineRetry ------------------------------
(***************************************************************************)
(* How queued evidence reaches the delivery server: the retry pass         *)
(* (retryOfflineSubmissions), the direct senders that run beside it        *)
(* (recordStopProof, finishDeliveryAfterActive, recordStopArrived- and     *)
(* recordPickupCompletedAfterDeliveryStart), receipt recovery, the         *)
(* background location task, and sign-out / sign-in.                       *)
(*                                                                         *)
(* JavaScript runs one piece of code to its next await.  Each action is    *)
(* the code from one await to the next; the pass, which may handle several *)
(* rows before it awaits, holds the thread in phases "loop" and "send",    *)
(* and nothing else of the app acts then (Free).                           *)
(*                                                                         *)
(* The server is external.  `sent` is every request that left the phone: a *)
(* member may be applied now, later, or never, which covers lost, late,    *)
(* duplicated and reordered requests and lost answers.                     *)
(***************************************************************************)
EXTENDS OfflineEvidence, Sequences

CONSTANTS
    Senders,       \* direct submissions that can be open at once
    StopOf,        \* [Ids -> a stop]: the stop a result belongs to
    Disturbances   \* bound: which of storage, signOut, close, reassign may happen

ASSUME DisturbancesAssumption ==
    Disturbances \subseteq {"storage", "signOut", "close", "reassign"}

VARIABLES
    pass,      \* the retry pass (retryOfflineSubmissionsForSessions is single-flight)
    live,      \* [Senders -> the direct submission it carries]
    account,   \* "in", "leaving" (handleLogout has aborted, not sealed yet), "out"
    session,   \* [Routes -> Contracts]: the access tuple the app holds for a route
    sent,      \* requests that left the phone
    applied,   \* sequence of event ids the server has recorded
    terms,     \* [Routes -> Contracts]: the server's current assignment of a route
    closed,    \* routes the server no longer has in progress
    recorder   \* history: [Ids -> the account the driver recorded the event under]

world == <<sent, applied, terms, closed>>
app == <<account, session, recorder>>
queueVars == <<rows, owner, nextSeq, writable>>
allVars == <<rows, owner, nextSeq, writable, pass, live, account, session,
             sent, applied, terms, closed, recorder>>

Applied == {applied[k] : k \in 1..Len(applied)}

--------------------------------------------------------------------------------
(* The server.                                                                *)

(* ROUTE_NOT_IN_PROGRESS, or ROUTE_ASSIGNMENT_CHANGED / ROUTE_VERSION_MISMATCH; *)
(* a stop result recorded under an earlier publication is still accepted.     *)
WrongTerms(i, c) ==
    /\ IsOrdered(i)
    /\ c # terms[RouteOf[i]]
    /\ ~ (c # NoContract /\ Generation[c] = Generation[terms[RouteOf[i]]]
          /\ KindOf[i] \in TerminalStops \cup {"arrival"})
Refuses(i, c) == RouteOf[i] \in closed \/ WrongTerms(i, c)

(* driver events are idempotent by clientEventId; a route end closes its route. *)
ServerApplies(req) ==
    /\ req \in sent /\ req.id \notin Applied /\ ~Refuses(req.id, req.contract)
    /\ applied' = Append(applied, req.id)
    /\ closed' = closed \cup (IF KindOf[req.id] \in RouteEnds THEN {RouteOf[req.id]} ELSE {})
    /\ UNCHANGED <<queueVars, pass, live, app, sent, terms>>

DispatcherClosesRoute(r) ==
    /\ "close" \in Disturbances /\ r \notin closed
    /\ closed' = closed \cup {r}
    /\ UNCHANGED <<queueVars, pass, live, app, sent, applied, terms>>

DispatcherReassigns(r, c) ==
    /\ "reassign" \in Disturbances /\ c # terms[r] /\ r \notin closed
    /\ terms' = [terms EXCEPT ![r] = c]
    /\ UNCHANGED <<queueVars, pass, live, app, sent, applied, closed>>

(* lookupReceipt and resolveCompletionReceipt, for an event that was recorded, *)
(* or refused, or never seen.  UNKNOWN lets a cash completion be sent, and a  *)
(* route end only while the route is in progress.                             *)
ReceiptSays(i, c) ==
    LET ended == KindOf[i] \in RouteEnds /\ RouteOf[i] \in closed
        refused == [id |-> i, contract |-> c] \in sent /\ Refuses(i, c)
    IN  IF i \in Applied THEN {"acknowledge"}
        ELSE (IF ended THEN {} ELSE {"retry"}) \cup (IF ended \/ refused THEN {"reconcile"} ELSE {})

--------------------------------------------------------------------------------
(* The retry pass.                                                            *)

NoStale == [i \in Ids |-> [recon |-> "none", contract |-> NoContract, spent |-> FALSE]]

IdlePass ==
    [phase |-> "idle", route |-> CHOOSE r \in Routes : TRUE,
     access |-> NoContract, allow |-> FALSE, by |-> NoOwner, aborted |-> FALSE,
     todo |-> {}, snap |-> NoStale, item |-> CHOOSE i \in Ids : TRUE, resume |-> "next",
     workflowBlocked |-> FALSE, routeBlocked |-> FALSE, completed |-> FALSE,
     suspended |-> FALSE]

Free == pass.phase \notin {"loop", "send"}
(* Mutant: the pass never asks whether it is still current.                   *)
AlwaysCurrent == TRUE

Current == ~pass.aborted /\ owner = pass.by
Awaiting == pass.phase \in {"stopReceipt", "endReceipt", "post", "upload"}

(* hasAuthoritativeReplacementAssignment, hasCompatibleOrderedEventAccessIdentity *)
Replaced(c, access) == c # NoContract /\ Generation[c] # Generation[access]
Compatible(i, c, access, allow) ==
    /\ c # NoContract /\ Generation[c] = Generation[access]
    /\ c = access \/ (allow /\ KindOf[i] \in TerminalStops \cup {"arrival"})

(* Mutant: what was quarantined before the pass does not block it.            *)
PassStartUnblocked(r, allow) ==
    LET todo == {i \in Ids : RouteOf[i] = r /\ Live(active[i]) /\ active[i].recon = "none"}
    IN  /\ pass.phase = "idle" /\ account = "in" /\ Mutable /\ todo # {}
        /\ pass' = [IdlePass EXCEPT
              !.phase = "loop", !.route = r, !.access = session[r], !.allow = allow,
              !.by = owner, !.todo = todo,
              !.snap = [i \in Ids |-> [recon |-> "none", contract |-> active[i].contract,
                                       spent |-> active[i].attempts >= MaxAttempts]]]
        /\ UNCHANGED <<queueVars, live, app, world>>

(* The snapshot: driver events are cloned by listPending, proofs are shared.  *)
PassStart(r, allow) ==
    LET queued == {i \in Ids : RouteOf[i] = r /\ Live(active[i])}
        refusals == {i \in queued : IsOrdered(i) /\ active[i].recon # "none"}
        todo == {i \in queued : active[i].recon = "none" \/ KindOf[i] = "cash"}
    IN  /\ pass.phase = "idle" /\ account = "in" /\ Mutable /\ todo # {}
        /\ pass' = [IdlePass EXCEPT
              !.phase = "loop", !.route = r, !.access = session[r], !.allow = allow,
              !.by = owner, !.todo = todo,
              !.snap = [i \in Ids |-> IF i \in todo
                          THEN [recon |-> active[i].recon, contract |-> active[i].contract,
                                spent |-> active[i].attempts >= MaxAttempts]
                          ELSE NoStale[i]],
              !.workflowBlocked = refusals # {},
              !.routeBlocked = \E i \in refusals :
                  active[i].recon = "route" /\ ~Replaced(active[i].contract, session[r])]
        /\ UNCHANGED <<queueVars, live, app, world>>

Turn == CHOOSE i \in pass.todo :
            \A j \in pass.todo : rows[pass.by][i].seq <= rows[pass.by][j].seq

Contract(i) == pass.snap[i].contract
ProofsReady(i) == ProofsUploaded(active, i, Contract(i))
LooksUpFirst(i) == KindOf[i] = "cash" /\ ProofsReady(i)

Skipped(i) ==
    \/ pass.suspended /\ IsLocation(i)
    \/ ~LooksUpFirst(i) /\ pass.workflowBlocked /\ IsOrdered(i)
    \/ ~LooksUpFirst(i) /\ pass.routeBlocked
    \/ pass.completed /\ KindOf[i] \notin TerminalStops

PassNext ==
    /\ pass.phase = "loop" /\ Current /\ pass.todo # {}
    /\ pass' = [pass EXCEPT !.todo = pass.todo \ {Turn},
                            !.item = Turn,
                            !.phase = IF Skipped(Turn) THEN "loop"
                                      ELSE IF LooksUpFirst(Turn) THEN "stopReceipt"
                                      ELSE "send"]
    /\ UNCHANGED <<queueVars, live, app, world>>

PassEnds ==
    /\ pass.phase = "loop" /\ (pass.todo = {} \/ ~Current)
    /\ pass' = IdlePass
    /\ UNCHANGED <<queueVars, live, app, world>>

(* An answer that arrives after the pass stopped being current is dropped.    *)
PassBreaks ==
    /\ Awaiting /\ ~Current
    /\ pass' = IdlePass
    /\ UNCHANGED <<queueVars, live, app, world>>

(* whenPersisted rejects, or a queue method throws because the store is       *)
(* degraded; so does recordRetryFailure in the catch: the pass rejects.       *)
PassDies ==
    /\ pass.phase # "idle" /\ ~writable
    /\ pass' = IdlePass
    /\ UNCHANGED <<queueVars, live, app, world>>

(* The pass gives the bound account the rows q and goes on as p.              *)
PassWrites(q, p) ==
    /\ writable
    /\ rows' = [rows EXCEPT ![owner] = q]
    /\ pass' = p
    /\ UNCHANGED <<owner, nextSeq, writable, live, app, world>>

PassMoves(p) == pass' = p /\ UNCHANGED <<queueVars, live, app, world>>

Looping == [pass EXCEPT !.phase = "loop"]
LoopBlocked(i) == [Looping EXCEPT !.workflowBlocked = @ \/ IsOrdered(i)]
RouteRefused == [Looping EXCEPT !.workflowBlocked = TRUE, !.routeBlocked = TRUE]
Persisting(next) == [pass EXCEPT !.phase = "persist", !.resume = next]

StopReceiptArrives ==
    LET i == pass.item
    IN  /\ pass.phase = "stopReceipt" /\ Current
        /\ \E says \in ReceiptSays(i, Contract(i)) :
            \/ /\ says = "acknowledge" /\ Live(active[i])
               /\ PassWrites(Acknowledged(active, i, TRUE), Persisting("next"))
            \/ /\ says = "reconcile"
               /\ PassWrites(Isolated(active, i, "event"),
                             [Looping EXCEPT !.workflowBlocked = TRUE])
            \/ /\ says = "retry" \/ (says = "acknowledge" /\ ~Live(active[i]))
               /\ pass' = [pass EXCEPT !.phase = "send"]
               /\ UNCHANGED <<queueVars, live, app, world>>

(* A proof is the live row; a driver event is the clone the pass began with.  *)
Held(i) ==
    \/ (IF IsProof(i) THEN active[i].recon ELSE pass.snap[i].recon) # "none"
    \/ pass.routeBlocked
    \/ IsOrdered(i) /\ pass.workflowBlocked

Spent(i) == IF IsProof(i) THEN active[i].attempts >= MaxAttempts ELSE pass.snap[i].spent

(* Evidence of another assignment than the one the pass has access to.        *)
Mismatched(i) ==
    CASE IsOrdered(i) -> ~Compatible(i, Contract(i), pass.access, pass.allow)
      [] IsLocation(i) -> Replaced(Contract(i), pass.access)
      [] IsProof(i) -> Generation[ProofScope[i]] # Generation[pass.access]

PassHolds ==
    /\ pass.phase = "send" /\ Held(pass.item)
    /\ pass' = Looping
    /\ UNCHANGED <<queueVars, live, app, world>>

(* shouldDiscardOfflineSubmission: too many attempts, or too old; time is not *)
(* modelled, so any row may be too old at any pass.                           *)
PassRetires(old) ==
    LET i == pass.item
    IN  /\ pass.phase = "send" /\ ~Held(i)
        /\ (Spent(i) \/ old) /\ (IsProof(i) \/ ProofsReady(i))
        /\ PassWrites(IF IsLocation(i) THEN Dropped(active, i, "calledOff")
                                       ELSE Isolated(active, i, "event"),
                      LoopBlocked(i))

Sendable(i) ==
    /\ pass.phase = "send" /\ ~Held(i)
    /\ ~(Spent(i) /\ (IsProof(i) \/ ProofsReady(i)))

(* Mutant: evidence of another assignment is skipped over.                    *)
PassSkipsForeign ==
    LET i == pass.item
    IN  /\ Sendable(i) /\ Mismatched(i) /\ PassWrites(Isolated(active, i, "route"), Looping)

PassIsolatesForeign ==
    LET i == pass.item
    IN  /\ Sendable(i) /\ Mismatched(i)
        /\ PassWrites(Isolated(active, i, "route"),
                      [LoopBlocked(i) EXCEPT !.routeBlocked =
                          @ \/ (IsOrdered(i) /\ ~Replaced(Contract(i), pass.access))])

Transmits(i, c) == sent' = sent \cup {[id |-> i, contract |-> c]}

(* recordDriverEvent, once the event's files are uploaded.                    *)
PassPosts ==
    LET i == pass.item
    IN  /\ \/ Sendable(i) /\ ~IsProof(i) /\ ~Mismatched(i) /\ KindOf[i] \notin RouteEnds
           \/ /\ pass.phase = "endReceipt" /\ Current
              /\ "retry" \in ReceiptSays(i, Contract(i))
        /\ ProofsReady(i)
        /\ Transmits(i, Contract(i))
        /\ pass' = [pass EXCEPT !.phase = "post"]
        /\ UNCHANGED <<queueVars, live, app, applied, terms, closed>>

(* DeliveryProofUploadPendingError: the completion stays saved.               *)
PassAwaitsProofs ==
    /\ Sendable(pass.item) /\ ~IsProof(pass.item) /\ ~Mismatched(pass.item)
    /\ ~ProofsReady(pass.item)
    /\ pass' = [Looping EXCEPT !.workflowBlocked = TRUE]
    /\ UNCHANGED <<queueVars, live, app, world>>

PassAsksForEndReceipt ==
    /\ Sendable(pass.item) /\ ~Mismatched(pass.item) /\ KindOf[pass.item] \in RouteEnds
    /\ pass' = [pass EXCEPT !.phase = "endReceipt"]
    /\ UNCHANGED <<queueVars, live, app, world>>

EndReceiptArrives ==
    LET i == pass.item
    IN  /\ pass.phase = "endReceipt" /\ Current
        /\ \/ /\ "acknowledge" \in ReceiptSays(i, Contract(i))
              /\ PassWrites(RouteCleaned(Acknowledged(active, i, TRUE), RouteOf[i]),
                            Persisting("completed"))
           \/ /\ "reconcile" \in ReceiptSays(i, Contract(i))
              /\ PassWrites(RouteBlocked(active, RouteOf[i]), [Looping EXCEPT !.routeBlocked = TRUE])

PassUploads ==
    /\ Sendable(pass.item) /\ IsProof(pass.item) /\ ~Mismatched(pass.item)
    /\ pass' = [pass EXCEPT !.phase = "upload"]
    /\ UNCHANGED <<queueVars, live, app, world>>

PassPosted ==
    LET i == pass.item
    IN  /\ pass.phase = "post" /\ Current /\ i \in Applied
        /\ PassWrites(Acknowledged(active, i, TRUE), Persisting("posted"))

(* Mutant: the upload receipt is not stored.                                  *)
PassUploadedUnrecorded ==
    /\ pass.phase = "upload" /\ Current
    /\ PassWrites(active, Persisting("uploaded"))

PassUploaded ==
    /\ pass.phase = "upload" /\ Current
    /\ PassWrites(MediaRecorded(active, pass.item), Persisting("uploaded"))

(* The answer is a refusal the code tells apart.                              *)
PassRefused ==
    LET i == pass.item
        r == RouteOf[i]
        tried == RetryFailed(active, i, FALSE)
    IN  /\ pass.phase = "post" /\ Current /\ i \notin Applied
        /\ \/ /\ IsOrdered(i) /\ WrongTerms(i, Contract(i))
              /\ PassWrites(Isolated(tried, i, "route"), RouteRefused)
           \/ /\ r \in closed
              /\ PassWrites(RouteBlocked(active, r), [Looping EXCEPT !.routeBlocked = TRUE])
           \/ /\ KindOf[i] = "cash"     \* CASH_COMPLETION_CONFLICT, CASH_COMPLETION_INVALID
              /\ PassWrites(Isolated(tried, i, "event"), [Looping EXCEPT !.workflowBlocked = TRUE])

ProofRefused ==
    LET p == pass.item
    IN  /\ pass.phase = "upload" /\ Current
        /\ \/ PassWrites(MediaRejected(active, p), Looping)
           \/ PassWrites(Isolated(RetryFailed(active, p, FALSE), p, "event"), Looping)
           \/ /\ RouteOf[p] \in closed
              /\ PassWrites(RouteBlocked(active, RouteOf[p]), [Looping EXCEPT !.routeBlocked = TRUE])

(* Timeout, network or server failure, or any other refusal: the attempt is   *)
(* counted, the policy is applied to the row as it is now, and later ordered  *)
(* events of the route wait.                                                  *)
AttemptFails(transient, old) ==
    LET i == pass.item
        tried == RetryFailed(active, i, transient)
        retire == Live(tried[i]) /\ (tried[i].attempts >= MaxAttempts \/ old)
    IN  /\ Awaiting /\ Current
        /\ PassWrites(CASE ~retire -> tried
                        [] retire /\ IsLocation(i) -> Dropped(tried, i, "calledOff")
                        [] OTHER -> Isolated(tried, i, "event"),
                      [LoopBlocked(i) EXCEPT !.suspended = @ \/ (IsLocation(i) /\ transient)])

(* whenPersisted resolves, also in a queue that an earlier save has degraded. *)
(* The pass does not check again that it is current before discardRoute-      *)
(* Submissions, only before it acknowledges an upload.                        *)
PassResumes ==
    LET i == pass.item
    IN  /\ pass.phase = "persist"
        /\ CASE pass.resume = "posted" /\ KindOf[i] \in RouteEnds ->
                   PassWrites(RouteCleaned(active, RouteOf[i]), [Looping EXCEPT !.completed = TRUE])
             [] pass.resume = "completed" -> PassMoves([Looping EXCEPT !.completed = TRUE])
             [] pass.resume = "uploaded" /\ Current ->
                   PassWrites(Acknowledged(active, i, FALSE), Persisting("next"))
             [] pass.resume = "uploaded" /\ ~Current -> PassMoves(IdlePass)
             [] OTHER -> PassMoves(Looping)

--------------------------------------------------------------------------------
(* Direct submissions.  Results and route ends are queued and saved before    *)
(* they are sent; steps and arrivals are queued only when sending fails.      *)

IdleSender == [phase |-> "idle", item |-> CHOOSE i \in Ids : TRUE,
               contract |-> NoContract, by |-> NoOwner]

(* Mutant: only what can still be retried counts as waiting.                  *)
EarlierRetries(i) ==
    \E j \in Ids : j # i /\ RouteOf[j] = RouteOf[i] /\ IsOrdered(j) /\ active[j].state = "PENDING"

(* createRouteOrderedDriverEventService throws: another workflow event of the *)
(* route is waiting.                                                          *)
EarlierWaits(i) ==
    \E j \in Ids : j # i /\ RouteOf[j] = RouteOf[i] /\ IsOrdered(j) /\ Live(active[j])

(* The bound account's rows become q; sender x goes on as l.                  *)
SenderWrites(x, q, k, l) ==
    /\ writable
    /\ rows' = [rows EXCEPT ![owner] = q]
    /\ nextSeq' = nextSeq + k
    /\ live' = [live EXCEPT ![x] = l]
    /\ UNCHANGED <<owner, writable, pass, account, session, applied, terms, closed>>

SenderMoves(x, l) ==
    /\ live' = [live EXCEPT ![x] = l]
    /\ UNCHANGED <<queueVars, pass, app, applied, terms, closed>>

Queue(i, c) == Enqueued(active, i, c, TRUE, nextSeq)

(* The route's end has been recorded and was not called off.                  *)
Ended(r) ==
    \E j \in Ids : /\ KindOf[j] \in RouteEnds /\ RouteOf[j] = r /\ recorder[j] # NoOwner
                   /\ rows[recorder[j]][j].cause # "calledOff"

(* Mutant: a quarantined result does not count.                               *)
CashIsWaiting(i) ==
    \E j \in Ids : /\ KindOf[j] \in TerminalStops /\ StopOf[j] = StopOf[i]
                   /\ \/ active[j].state = "PENDING"
                      \/ active[j].state = "ACKNOWLEDGED" /\ active[j].receipt

(* recordStopProof: a live result of the stop, or its receipt, means that the *)
(* cash was collected and there is nothing more to send.                      *)
CashIsCollected(i) ==
    \E j \in Ids : /\ KindOf[j] \in TerminalStops /\ StopOf[j] = StopOf[i]
                   /\ \/ Live(active[j])
                      \/ active[j].state = "ACKNOWLEDGED" /\ active[j].receipt

(* The driver records event i, of a route under way.                          *)
DriverRecords(x, i) ==
    LET c == session[RouteOf[i]]
        opened == [phase |-> "saving", item |-> i, contract |-> c, by |-> owner]
    IN  /\ Free /\ account = "in" /\ Mutable
        /\ live[x].phase = "idle" /\ IsOrdered(i) /\ recorder[i] = NoOwner
        /\ ~Ended(RouteOf[i])
        /\ KindOf[i] = "cash" => ~CashIsCollected(i)
        /\ recorder' = [recorder EXCEPT ![i] = owner]
        /\ CASE KindOf[i] \in TerminalStops \cup RouteEnds ->
                   SenderWrites(x, Queue(i, c), 1, opened) /\ UNCHANGED sent
             [] KindOf[i] \in {"step", "arrival"} /\ EarlierWaits(i) ->
                   SenderWrites(x, Queue(i, c), 1, IdleSender) /\ UNCHANGED sent
             [] OTHER -> /\ Transmits(i, c)
                         /\ live' = [live EXCEPT ![x] = [opened EXCEPT !.phase = "post"]]
                         /\ UNCHANGED <<queueVars, pass, account, session, applied, terms, closed>>

Fails(x, q, k) == SenderWrites(x, q, k, IdleSender) /\ UNCHANGED <<sent, recorder>>
GivesUp(x) == SenderMoves(x, IdleSender) /\ UNCHANGED sent

(* finishDeliveryAfterActive's catch: the event is queued again (a no-op when *)
(* it is still there), under whatever account is bound by now.                *)
RouteEndQueued(x, i) ==
    LET c == live[x].contract
    IN  Fails(x, IF KindOf[i] = "paused"
                 THEN Enqueued(RouteCleaned(active, RouteOf[i]), i, c, TRUE, nextSeq)
                 ELSE Queue(i, c),
              Inserts(active, i))

(* whenPersisted resolves; recordStopProof compares the account, then both    *)
(* flows send.  A cash completion whose files are not uploaded is not sent.   *)
Sends(x) ==
    LET i == live[x].item
        stop == KindOf[i] \in TerminalStops
    IN  CASE EarlierWaits(i) /\ KindOf[i] = "cash" ->
               Fails(x, RetryFailed(active, i, TRUE), 0)
          [] EarlierWaits(i) /\ KindOf[i] = "stop" -> GivesUp(x)
          [] EarlierWaits(i) /\ ~stop -> RouteEndQueued(x, i)
          [] ~EarlierWaits(i) /\ ~ProofsUploaded(active, i, live[x].contract) -> GivesUp(x)
          [] OTHER -> /\ Transmits(i, live[x].contract)
                      /\ SenderMoves(x, [live[x] EXCEPT !.phase = "post"])

SenderSaved(x) ==
    LET i == live[x].item
    IN  /\ Free /\ live[x].phase = "saving"
        /\ CASE KindOf[i] \in TerminalStops /\ owner # live[x].by -> GivesUp(x)
             [] KindOf[i] \in TerminalStops /\ owner = live[x].by -> Sends(x)
             [] OTHER -> SenderMoves(x, [live[x] EXCEPT !.phase = "deactivating"]) /\ UNCHANGED sent

(* markActiveRouteCompletionPending: FALSE when the route is not the active   *)
(* session any more, as after a sign-out has cleared it; the route end just   *)
(* queued is then called off.                                                 *)
RouteSessionDeactivated(x) ==
    /\ Free /\ live[x].phase = "deactivating"
    /\ \/ account # "out" /\ Sends(x)
       \/ Fails(x, Dropped(active, live[x].item, "calledOff"), 0)

SenderSucceeds(x) ==
    LET i == live[x].item
        acked == Acknowledged(active, i, TRUE)
    IN  /\ Free /\ live[x].phase = "post" /\ i \in Applied
        /\ CASE KindOf[i] \in TerminalStops /\ owner = live[x].by -> Fails(x, acked, 0)
             [] KindOf[i] \in RouteEnds -> Fails(x, RouteCleaned(acked, RouteOf[i]), 0)
             [] OTHER -> GivesUp(x)

(* recordStopProof's catch, for the account that recorded the result.         *)
ResultFails(x, i) ==
    LET tried == IF KindOf[i] = "cash" THEN RetryFailed(active, i, TRUE) ELSE active
    IN  \/ Fails(x, tried, 0)
        \/ KindOf[i] = "cash" /\ i \notin Applied
           /\ Fails(x, Isolated(tried, i, "event"), 0)
        \/ KindOf[i] = "cash" /\ i \notin Applied /\ WrongTerms(i, live[x].contract)
           /\ Fails(x, Isolated(tried, i, "route"), 0)
        \/ i \notin Applied /\ RouteOf[i] \in closed /\ Fails(x, RouteBlocked(tried, RouteOf[i]), 0)

RouteEndFails(x, i) ==
    \/ RouteEndQueued(x, i)
    \/ /\ i \notin Applied /\ RouteOf[i] \in closed
       /\ Fails(x, RouteBlocked(Queue(i, live[x].contract), RouteOf[i]), Inserts(active, i))

SenderFails(x) ==
    LET i == live[x].item
    IN  /\ Free /\ live[x].phase = "post"
        /\ CASE KindOf[i] \in TerminalStops /\ owner # live[x].by -> GivesUp(x)
             [] KindOf[i] \in TerminalStops /\ owner = live[x].by -> ResultFails(x, i)
             [] KindOf[i] \in RouteEnds -> RouteEndFails(x, i)
             [] OTHER -> Fails(x, Queue(i, live[x].contract), Inserts(active, i))

(* A queue method throws, or whenPersisted rejects: the driver sees an error. *)
SenderThrows(x) ==
    /\ Free /\ live[x].phase # "idle" /\ ~writable /\ GivesUp(x)

--------------------------------------------------------------------------------
(* Everything else that changes the queue meanwhile.                          *)

Elsewhere(q, k) ==
    /\ Free /\ Mutable
    /\ rows' = [rows EXCEPT ![owner] = q]
    /\ nextSeq' = nextSeq + k
    /\ UNCHANGED <<owner, writable, pass, live, account, session, world>>

(* recordContinuousLocationUpdateBatch stores a sample it could not send.     *)
LocationStored(i) ==
    /\ IsLocation(i) /\ account = "in" /\ recorder[i] = NoOwner
    /\ recorder' = [recorder EXCEPT ![i] = owner]
    /\ Elsewhere(Queue(i, NoContract), 1)

ProofStored(p) ==
    /\ IsProof(p) /\ account = "in" /\ active[p].state = "ABSENT"
    /\ \A e \in Ids : p \in ProofsOf[e] => recorder[e] = NoOwner
    /\ \E e \in Ids : p \in ProofsOf[e]
    /\ Elsewhere(ProofEnqueued(active, p, nextSeq), 1) /\ UNCHANGED recorder

(* The upload begun when the file was captured comes to an end.               *)
CaptureUploadEnds(p) ==
    /\ IsProof(p) /\ account = "in" /\ active[p].state # "ABSENT" /\ ~active[p].uploaded
    /\ \/ Elsewhere(Acknowledged(MediaRecorded(active, p), p, FALSE), 0)
       \/ Elsewhere(MediaRejected(active, p), 0)
       \/ RouteOf[p] \in closed /\ Elsewhere(RouteBlocked(active, RouteOf[p]), 0)
    /\ UNCHANGED recorder

(* runContinuousLocationTask: the server answered ROUTE_NOT_IN_PROGRESS.      *)
LocationTaskBlocksRoute(r) ==
    /\ r \in closed /\ owner # NoOwner /\ RouteBlocked(active, r) # active
    /\ Elsewhere(RouteBlocked(active, r), 0) /\ UNCHANGED recorder

(* recoverPendingStopCompletionReceipts, before a pass.                       *)
StopReceiptRecovered(i) ==
    /\ pass.phase = "idle" /\ account = "in" /\ KindOf[i] = "cash" /\ Live(active[i])
    /\ \/ /\ "acknowledge" \in ReceiptSays(i, active[i].contract)
          /\ Elsewhere(Acknowledged(active, i, TRUE), 0)
       \/ /\ "reconcile" \in ReceiptSays(i, active[i].contract)
          /\ Elsewhere(Isolated(active, i, "event"), 0)
    /\ UNCHANGED recorder

(* recoverPendingRouteEndReceipt                                              *)
RouteEndReceiptRecovered(i) ==
    /\ account = "in" /\ KindOf[i] \in RouteEnds /\ Live(active[i])
    /\ \/ /\ "acknowledge" \in ReceiptSays(i, active[i].contract)
          /\ Elsewhere(RouteCleaned(Acknowledged(active, i, TRUE), RouteOf[i]), 0)
       \/ /\ "reconcile" \in ReceiptSays(i, active[i].contract)
          /\ Elsewhere(RouteBlocked(active, RouteOf[i]), 0)
       \/ Elsewhere(RetryFailed(active, i, TRUE), 0)
    /\ UNCHANGED recorder

(* The driver clears the reconciliation records (clearRouteReconciliationRecords). *)
OperatorReconciles ==
    /\ account = "in" /\ Reconciled(active) # active
    /\ Elsewhere(Reconciled(active), 0) /\ UNCHANGED recorder

(* Live route change: the app adopts the server's current assignment.         *)
SessionRefreshed(r) ==
    /\ Free /\ account = "in" /\ session[r] # terms[r]
    /\ session' = [session EXCEPT ![r] = terms[r]]
    /\ UNCHANGED <<queueVars, pass, live, account, recorder, world>>

(* handleLogout aborts the pass, then resetDriverSession clears the token     *)
(* store, behind every mark of a session that has begun, and seals the rows;  *)
(* when the store is degraded nothing is sealed.  Storage jobs finish in      *)
(* order and sign-out waits for its own, so by the next sign-in, which binds  *)
(* its owner, whoever waited for an earlier one has resumed.                  *)
LogoutBegins ==
    /\ "signOut" \in Disturbances /\ Free /\ account = "in"
    /\ account' = "leaving"
    /\ pass' = IF pass.phase = "idle" THEN pass ELSE [pass EXCEPT !.aborted = TRUE]
    /\ UNCHANGED <<queueVars, live, session, recorder, world>>

LogoutSeals ==
    /\ Free /\ account = "leaving"
    /\ \A x \in Senders : live[x].phase # "deactivating"
    /\ account' = "out"
    /\ rows' = IF writable THEN [rows EXCEPT ![owner] = Sealed(active)] ELSE rows
    /\ UNCHANGED <<owner, nextSeq, writable, pass, live, session, recorder, world>>

SignsIn(o) ==
    /\ pass.phase \notin {"loop", "send", "persist"} /\ account = "out"
    /\ \A x \in Senders : live[x].phase \notin {"saving", "deactivating"}
    /\ account' = "in" /\ owner' = o
    /\ UNCHANGED <<rows, nextSeq, writable, pass, live, session, recorder, world>>

StorageFails ==
    /\ "storage" \in Disturbances /\ Free /\ writable /\ writable' = FALSE
    /\ UNCHANGED <<rows, owner, nextSeq, pass, live, app, world>>

StorageRecovers ==
    /\ Free /\ ~writable /\ writable' = TRUE
    /\ UNCHANGED <<rows, owner, nextSeq, pass, live, app, world>>

--------------------------------------------------------------------------------

RetryInit ==
    /\ Init
    /\ pass = IdlePass
    /\ live = [x \in Senders |-> IdleSender]
    /\ account = "out"
    /\ terms \in [Routes -> Contracts]
    /\ session = terms
    /\ sent = {} /\ applied = <<>> /\ closed = {}
    /\ recorder = [i \in Ids |-> NoOwner]

PassStep ==
    \/ PassNext \/ PassEnds \/ PassBreaks \/ PassDies
    \/ StopReceiptArrives \/ PassHolds \/ PassIsolatesForeign
    \/ \E old \in BOOLEAN : PassRetires(old)
    \/ PassPosts \/ PassAwaitsProofs \/ PassAsksForEndReceipt \/ EndReceiptArrives
    \/ PassUploads \/ PassPosted \/ PassUploaded \/ PassRefused \/ ProofRefused
    \/ \E transient, old \in BOOLEAN : AttemptFails(transient, old)
    \/ PassResumes

SenderStep(x) ==
    \/ \E i \in Ids : DriverRecords(x, i)
    \/ SenderSaved(x) \/ RouteSessionDeactivated(x)
    \/ SenderSucceeds(x) \/ SenderFails(x) \/ SenderThrows(x)

RetryNext ==
    \/ \E r \in Routes, allow \in BOOLEAN : PassStart(r, allow)
    \/ PassStep
    \/ \E x \in Senders : SenderStep(x)
    \/ \E req \in sent : ServerApplies(req)
    \/ \E r \in Routes : DispatcherClosesRoute(r)
    \/ \E r \in Routes, c \in Contracts : DispatcherReassigns(r, c)
    \/ \E i \in Ids : LocationStored(i)
    \/ \E p \in Ids : ProofStored(p)
    \/ \E p \in Ids : CaptureUploadEnds(p)
    \/ \E r \in Routes : LocationTaskBlocksRoute(r)
    \/ \E i \in Ids : StopReceiptRecovered(i)
    \/ \E i \in Ids : RouteEndReceiptRecovered(i)
    \/ OperatorReconciles
    \/ \E r \in Routes : SessionRefreshed(r)
    \/ LogoutBegins \/ LogoutSeals
    \/ \E o \in Owners : SignsIn(o)
    \/ StorageFails \/ StorageRecovers

RetrySpec == RetryInit /\ [][RetryNext]_allVars

--------------------------------------------------------------------------------
(* Properties.                                                                *)

Owned(o, i) == rows[o][i].state # "ABSENT" /\ recorder[i] = o
SameRoute(i, j) == i # j /\ RouteOf[i] = RouteOf[j] /\ IsOrdered(i) /\ IsOrdered(j)

(* "ACK means the server has it": no interleaving of retry pass, direct       *)
(* senders, receipt recovery, blocking and account changes journals a         *)
(* SERVER_ACK for an event the server has not recorded, or for a file that was *)
(* not uploaded.                                                              *)
AckedOnlyIfApplied ==
    \A o \in Owners, i \in Ids :
        rows[o][i].serverAck => IF IsProof(i) THEN rows[o][i].uploaded ELSE i \in Applied

(* A result or a route end leaves the phone only when every workflow event    *)
(* that was queued before it, for the same route and account, is settled.     *)
SentInOrder ==
    \A o \in Owners, x, y \in Ids :
        /\ SameRoute(x, y) /\ Owned(o, x) /\ Owned(o, y) /\ rows[o][x].seq < rows[o][y].seq
        /\ KindOf[y] \in TerminalStops \cup RouteEnds
        /\ \E req \in sent : req.id = y
        => Settled(rows[o][x])

(* docs/route-access-flow.md:186: a quarantined or failed ordered head remains *)
(* a head-of-line blocker: the retry pass starts a POST of a workflow event   *)
(* only when no earlier one of its route is unsettled, although it decides    *)
(* from a snapshot taken before any of its awaits.                            *)
HeadOfLine ==
    [][pass.phase # "post" /\ pass'.phase = "post" =>
         \A j \in Ids : SameRoute(j, pass'.item) /\ Live(rows[pass.by][j])
             => rows[pass.by][j].seq > rows[pass.by][pass'.item].seq]_allVars

(* recordStopProof: "Do not collect Cash again".  An account is never led to  *)
(* record a second cash completion of a stop, however the first one fares.    *)
CashCollectedOnce ==
    \A i, j \in Ids :
        /\ i # j /\ KindOf[i] = "cash" /\ KindOf[j] = "cash" /\ StopOf[i] = StopOf[j]
        /\ recorder[i] # NoOwner
        => recorder[i] # recorder[j]

(* A pass that outlives its account changes no row of the next one.           *)
PassTouchesOwnRows ==
    [][pass.phase # "idle" /\ pass' # pass =>
         \A o \in Owners \ {pass.by} : rows'[o] = rows[o]]_allVars

(* docs/route-access-flow.md:201: "every evidence row is bound to an          *)
(* account-owner hash ... Another account cannot count, clear, or replay      *)
(* those rows": what a driver recorded is queued for that driver only.        *)
EvidenceBoundToRecorder ==
    \A o \in Owners, i \in Ids :
        rows[o][i].state # "ABSENT" /\ recorder[i] # NoOwner => o = recorder[i]

(* The scheduler starts a pass for a route that has something to send, a pass *)
(* goes on when what it waits for settles or times out, and sign-out ends.    *)
PassStarts == \E r \in Routes, allow \in BOOLEAN : PassStart(r, allow)
FairRetrySpec ==
    RetrySpec /\ WF_allVars(PassStarts) /\ WF_allVars(PassStep) /\ WF_allVars(LogoutSeals)

(* What the driver or the operator has to deal with: a quarantined event, or  *)
(* a completion one of whose files is not uploaded.                           *)
Stuck(o, i) ==
    \/ rows[o][i].state = "QUARANTINED"
    \/ Live(rows[o][i]) /\ ~ProofsUploaded(rows[o], i, rows[o][i].contract)

(* While the driver stays signed in and the store works, a workflow event is  *)
(* not retried for ever: it is settled, or it or an event of its route is     *)
(* stuck.                                                                     *)
NothingPendingForEver ==
    \A o \in Owners, i \in Ids :
        IsOrdered(i) /\ rows[o][i].state = "PENDING" /\ account = "in" /\ owner = o /\ writable
        ~> \/ rows[o][i].state # "PENDING"
           \/ \E j \in Ids : (i = j \/ SameRoute(i, j)) /\ Stuck(o, j)
           \/ account # "in" \/ ~writable

================================================================================
