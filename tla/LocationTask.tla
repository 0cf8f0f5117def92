----------------------------- MODULE LocationTask -----------------------------
(***************************************************************************)
(* The background location task (domain/location/continuousLocationTask.ts,*)
(* called by executeContinuousLocationTask): for a batch of positions it   *)
(* reads the stored access by itself, records the start if that is still   *)
(* owed, posts the positions, renews access when the server asks for it,   *)
(* and ends the session or the tracking when the server says the route is  *)
(* over.  It runs beside everything DriverSession does, and looks at the   *)
(* store again between its requests; what happens to the service after a   *)
(* batch is decideServiceAfterTaskResult (trackingKeepAlive.ts).           *)
(***************************************************************************)
EXTENDS DriverSession

Batch == call["batch"]
(* The batch goes on with one more thing it knows.                             *)
Learns(stage, what, x) ==
    [k \in DOMAIN Batch \cup {what} |-> IF k = "at" THEN stage ELSE IF k = what THEN x ELSE Batch[k]]

(* decideServiceAfterTaskResult: a processed batch forgets that a route was    *)
(* ended; an ended route keeps the service for the driver to confirm; any      *)
(* other batch stops an inactive service once the time to confirm is over.     *)
Processed == ended' = "no" /\ UNCHANGED ops
Deactivated == ended' = (IF ended = "no" THEN "recent" ELSE ended) /\ UNCHANGED ops
(* Mutant: a batch that has nothing to do never stops the service.             *)
LeftRunning == ended' = (IF ended = "recent" THEN ended ELSE "no") /\ UNCHANGED ops
Ignored ==
    IF ended = "recent" THEN UNCHANGED <<ended, ops>>
    ELSE ended' = "no" /\ Asks("stopIfInactive", "batch")
Ends(result) == result /\ Goes("batch", Idle)

SessionIsCurrent(w) ==
    \E p \in SignedIn :
        /\ HasAccess(p, w.route)
        /\ IF w.preStart
           THEN p.session = {} /\ [route |-> w.route, started |-> w.started] \in p.preStart
           ELSE \E s \in ActiveSessions(p) : s.route = w.route /\ s.started = w.started
IsPending(w) ==
    \E p \in SignedIn : \E s \in p.session :
        s.route = w.route /\ s.started = w.started /\ s.status = "completion_pending"

BatchOf(r, i, preStart, stage) ==
    [at |-> stage, route |-> r, started |-> i, preStart |-> preStart, marked |-> stage = "post",
     revoked |-> FALSE]

TaskStarts ==
    /\ service /\ IsIdle("batch") /\ ~Waits("batch")
    /\ stored' = SignedIn
    /\ \/ \E p \in SignedIn : \E s \in ActiveSessions(p) :
             /\ Goes("batch", BatchOf(s.route, s.started, FALSE, IF s.recorded THEN "post" ELSE "start"))
             /\ UNCHANGED <<ended, ops>>
       \/ \E p \in SignedIn : \E x \in PreStarts(p) :
             /\ Goes("batch", BatchOf(x.route, x.started, TRUE, "post"))
             /\ UNCHANGED <<ended, ops>>
       \/ ~Wanted /\ Ignored /\ UNCHANGED call
    /\ UNCHANGED <<service, ui, world, history>>

(* Tracking before a start that never came ends by its age.                    *)
TaskGivesUp ==
    /\ At("batch", "post") /\ Batch.preStart
    /\ stored' = {TrackingCleared(p, Batch.route) : p \in stored}
    /\ Ends(Ignored)
    /\ UNCHANGED <<service, ui, world, history>>

(* The start the driver's own request could not record; the answer may be lost. *)
TaskRecordsStart ==
    /\ At("batch", "start")
    /\ \/ /\ \E p \in stored : \E g \in p.access : Serves(g) /\ g.route = Batch.route
          /\ server' = [server EXCEPT ![Batch.route].phase = "started"]
          /\ Moves("batch", "mark") \/ Moves("batch", "post")
       \/ Moves("batch", "post") /\ UNCHANGED server
    /\ UNCHANGED <<stored, device, ui, owed, issued, begun, meddled, history>>

(* markActiveRouteStarted, of the session the batch works for.                 *)
TaskMarksStart ==
    /\ At("batch", "mark")
    /\ LET marks == \E p \in stored : IsSession(p, Batch.route, Batch.started)
       IN  /\ stored' = {IF marks THEN StartMarked(p) ELSE p : p \in stored}
           /\ Goes("batch", [Batch EXCEPT !.at = "post", !.marked = marks])
    /\ UNCHANGED <<device, ui, world, history>>

(* The positions are posted, or queued while the start is not recorded.        *)
TaskPosts ==
    /\ At("batch", "post")
    /\ \/ Moves("batch", "settle")
       \/ /\ Batch.marked /\ Batch.route \notin InProgress /\ ~Batch.preStart
          /\ Moves("batch", "over")
       \/ /\ Batch.preStart /\ server[Batch.route].phase = "over" /\ Moves("batch", "over")
    /\ UNCHANGED <<stored, device, ui, world, history>>

-----------------------------------------------------------------------------
(* refreshPersistedDriverAccess: like the app's renewal, but only while the    *)
(* session it works for is the stored one, and a missing route is revoked.     *)
TaskRenews ==
    /\ call["batch"].at \in {"start", "post"}
    /\ stored' = SignedIn
    /\ \/ \E p \in SignedIn : p.life = "refresh_required" /\ UNCHANGED meddled
       \/ (\A p \in SignedIn : p.life = "active") /\ Meddles
    /\ IF \E p \in SignedIn : /\ IsSession(p, Batch.route, Batch.started) \/ Batch.preStart
                              /\ Batch.preStart => SessionIsCurrent(Batch)
       THEN \E p \in SignedIn :
                Goes("batch", Learns(IF p.life = "active" THEN "lookup" ELSE "refresh", "read", p))
       ELSE Moves("batch", "settle")
    /\ UNCHANGED <<device, ui, server, owed, issued, begun, history>>

TaskRefreshes ==
    /\ At("batch", "refresh")
    /\ LET p == Batch.read
           same == {x \in stored : IsExpected(x, p.account, p.token)}
       IN  \/ /\ CanIssue /\ issued' = issued \cup {NewToken}
              /\ IF same # {}
                 THEN stored' = {Renewed(x, p) : x \in same} /\ Moves("batch", "lookup")
                 ELSE Moves("batch", "settle") /\ UNCHANGED stored
           \/ Moves("batch", "settle") /\ UNCHANGED <<stored, issued>>
    /\ UNCHANGED <<device, ui, server, owed, begun, meddled, history>>

TaskLooksUp ==
    /\ At("batch", "lookup")
    /\ LET found == {g \in Answer(Batch.read.of) : g.route = Batch.route}
       IN  \/ Moves("batch", "settle")
           \/ found = {} /\ Goes("batch", [Batch EXCEPT !.at = "settle", !.revoked = TRUE])
           \/ found # {} /\ Goes("batch", Learns("save", "found", found))
    /\ UNCHANGED <<stored, device, ui, world, history>>

TaskSavesAccess ==
    /\ At("batch", "save")
    /\ \E g \in Batch.found : stored' = {IF MayInvite(p, g) THEN Invited(p, g) ELSE p : p \in stored}
    /\ Moves("batch", "settle")
    /\ UNCHANGED <<device, ui, world, history>>

-----------------------------------------------------------------------------
(* The route is over: unless the session waits for the receipt of its end it   *)
(* is cleared, in a second call of the store.                                  *)
TaskSeesEnd ==
    /\ At("batch", "over")
    /\ IF Batch.preStart
       THEN stored' = {TrackingCleared(p, Batch.route) : p \in stored} /\ Ends(Deactivated)
       ELSE /\ stored' = SignedIn
            /\ IF IsPending(Batch) THEN Ends(Ignored)
               ELSE Moves("batch", "clear") /\ UNCHANGED <<ended, ops>>
    /\ UNCHANGED <<service, ui, world, history>>

(* Mutant: whatever session is stored is cleared.                              *)
ClearsAnySession == \E p \in stored : p.session # {}
ClearsOwn == \E p \in stored : IsSession(p, Batch.route, Batch.started)
TaskClears ==
    /\ At("batch", "clear")
    /\ IF ClearsOwn THEN stored' = {SessionCleared(p) : p \in stored} /\ Ends(Deactivated)
       ELSE UNCHANGED stored /\ Ends(Processed)
    /\ UNCHANGED <<service, ui, world, history>>

TaskSettles ==
    /\ At("batch", "settle")
    /\ stored' = SignedIn
    /\ IF ~Batch.preStart /\ IsPending(Batch) THEN Ends(Ignored)
       ELSE IF Batch.revoked THEN Moves("batch", "revoked") /\ UNCHANGED <<ended, ops>>
       ELSE Ends(Processed)
    /\ UNCHANGED <<service, ui, world, history>>

TaskRevokes ==
    /\ At("batch", "revoked")
    /\ IF Batch.preStart
       THEN /\ stored' = {TrackingCleared(p, Batch.route) : p \in stored}
            /\ Moves("batch", "drop") /\ UNCHANGED <<ended, ops>>
       ELSE IF ClearsOwn
       THEN /\ stored' = {SessionCleared(p) : p \in stored}
            /\ Moves("batch", "drop") /\ UNCHANGED <<ended, ops>>
       ELSE UNCHANGED stored /\ Ends(Processed)
    /\ UNCHANGED <<service, ui, world, history>>

TaskDrops ==
    /\ At("batch", "drop")
    /\ stored' = {IF MayDropAccess(p, Batch.route) THEN AccessDropped(p) ELSE p : p \in stored}
    /\ Ends(Deactivated)
    /\ UNCHANGED <<service, ui, world, history>>

TaskNext ==
    \/ TaskStarts \/ TaskGivesUp \/ TaskRecordsStart \/ TaskMarksStart \/ TaskPosts
    \/ TaskRenews \/ TaskRefreshes \/ TaskLooksUp \/ TaskSavesAccess \/ TaskSeesEnd \/ TaskClears \/ TaskSettles \/ TaskRevokes
    \/ TaskDrops

LocationInit == SessionInit
LocationNext == SessionNext \/ TaskNext
LocationFairness ==
    /\ WF_vars(ServiceNext) /\ WF_vars(TaskNext) /\ WF_vars(GraceEnds)
LocationSpec == LocationInit /\ [][LocationNext]_vars /\ LocationFairness

-----------------------------------------------------------------------------
(* The store does what DriverAccessStore promises under every caller.          *)
Store == INSTANCE DriverAccessStore WITH stored <- stored, Tokens <- Tokens
StoreKeepsItsPromise == Store!Spec

(* A session the driver started keeps its place and its tracking until the     *)
(* driver finishes it: nothing a batch, a retry pass, a load or an earlier     *)
(* session left behind ends it, unless the office, the system or a sign-out    *)
(* had a hand in it, or a route is already completed on the server.            *)
TrackedUntilFinished ==
    /\ meddled = 0 /\ tracked # 0 /\ tracked \notin finished
    /\ \A r \in Routes : server[r].phase # "over"
    =>
        service /\ \E p \in SignedIn : \E s \in ActiveSessions(p) : s.started = tracked

(* Whatever happened, the service is on while the session it was last turned   *)
(* on for is active.                                                           *)
TrackedWhileActive ==
    \A p \in SignedIn : \A s \in ActiveSessions(p) :
        s.started = tracked /\ s.started \notin finished /\ ~outlived => service

(* Once nothing is to be tracked any more the service is turned off, or        *)
(* something is to be tracked again.                                           *)
TrackingEnds == []<>(Wanted \/ ~service)
===============================================================================
