---------------------------- MODULE DriverSession ----------------------------
(***************************************************************************)
(* Who writes the stored driver access, and what runs because of it: the   *)
(* app (app/AppRoot.tsx) signs in and out, restores a login, loads routes, *)
(* starts, works and finishes one, renews access in the middle of a        *)
(* request and cleans up after a confirmed route end.  The location        *)
(* service of the system is turned on and off through a queue of its own   *)
(* (expoContinuousLocationStreamService.ts).  LocationTask adds the        *)
(* background task, which works on the same store and the same service.    *)
(*                                                                         *)
(* An action is what one caller does between two awaits.  A call of the    *)
(* store and what its caller does with the answer are one step: nothing    *)
(* else of this process runs between them.  A caller whose account epoch   *)
(* or abort signal has lapsed does nothing more, so it is idle at once.    *)
(***************************************************************************)
EXTENDS DriverAccessStore, Sequences

CONSTANTS
    NewestGeneration, \* bound: what the office assigns after the first generation
    MaxMeddling,      \* bound: restarts, sign-outs, refusals, expiries, pushes, acts of the office
    MaxQueued         \* bound: operations of the service queued when a caller begins

ASSUME SessionAssumption == NewestGeneration \in Generations

VARIABLES
    service,   \* hasStartedLocationUpdatesAsync
    ops,       \* locationTaskOperationQueue
    ended,     \* serverEndedTrackingAt: not set, within the time to confirm, past it
    driver,    \* verifiedDriverPhoneE164
    offered,   \* routeSessions: the access of the loaded routes
    working,   \* activeRoutePlanId: the route shown as started
    call,      \* what every caller is in the middle of
    server,    \* what the server holds of each route
    owed,      \* route ends in the evidence queue that the server has not confirmed
    issued,    \* tokens the server has given out
    begun,     \* the last instant at which a session or tracking began
    meddled,   \* disturbances so far
    tracked,   \* history: the active session the service was last turned on for
    finished,  \* history: the sessions the driver has finished
    outlived   \* history: a flow was still running when its account signed out

device == <<service, ops, ended>>
ui == <<driver, offered, working>>
world == <<server, owed, issued, begun, meddled>>
history == <<tracked, finished, outlived>>
vars == <<stored, device, ui, call, world, history>>

(* flow: the driver's start, stop or finish; load: handleLoginAndLoadRoutes;   *)
(* renew: refreshRouteAccessTupleForSubmission for a request of the flow;      *)
(* check: the restore attempt of a fresh process; cleanup: a retry pass and    *)
(* clearAndStopActiveLocationSession with a lease; logout: handleLogout;       *)
(* push: handleGpsCheckPushData; batch: executeContinuousLocationTask.         *)
Callers == {"flow", "load", "renew", "check", "cleanup", "logout", "push", "batch"}
Idle == [at |-> "idle"]
IsIdle(c) == call[c] = Idle
At(c, stage) == call[c].at = stage
Goes(c, work) == call' = [call EXCEPT ![c] = work]
Moves(c, stage) == call' = [call EXCEPT ![c].at = stage]

(* A second start of a route is a disturbance like the others.                 *)
Disturbances == meddled + (IF begun > 1 THEN begun - 1 ELSE 0)
CanBegin == begun + 1 \in Instants /\ (begun = 0 \/ Disturbances < MaxMeddling)
CanIssue == Tokens \ issued # {}
NewToken == CHOOSE t \in Tokens \ issued : TRUE
Begins == Len(ops) <= MaxQueued
(* Mutant: what was read before the request is written back with the tokens.   *)
RenewedCopy(x, read) == Refreshed(read, NewToken, read.of)
(* The answer to a refresh of what was read changes the tokens of the payload. *)
Renewed(x, read) == Refreshed(x, NewToken, read.of)
CanMeddle == Disturbances < MaxMeddling
Meddles == CanMeddle /\ meddled' = meddled + 1

(* The routes the server offers an account, and the access it grants to them.  *)
GrantOf(a, r) == [holder |-> a, route |-> r, lineage |-> server[r].lineage]
Answer(a) == {GrantOf(a, r) : r \in {x \in Routes : server[x].holder = a
                                                   /\ server[x].phase # "over"}}
InProgress == {r \in Routes : server[r].phase = "started"}

SessionInit ==
    /\ stored = {} /\ service = FALSE /\ ops = <<>> /\ ended = "no"
    /\ driver = {} /\ offered = {} /\ working = {}
    /\ call = [c \in Callers |-> Idle]
    /\ \E a \in Accounts, g \in Generations \ {NewestGeneration} :
           server = [r \in Routes |-> [holder |-> a, lineage |-> g, phase |-> "ready"]]
    /\ owed = {} /\ issued = {} /\ begun = 0 /\ meddled = 0
    /\ tracked = 0 /\ finished = {} /\ outlived = FALSE

-----------------------------------------------------------------------------
(* The location service.  Operations run one after the other; whoever asked    *)
(* for one waits until it has run, unless it is nobody.                        *)
Waits(c) == \E k \in DOMAIN ops : ops[k].by = c
Op(kind, by, i) == [kind |-> kind, by |-> by, decided |-> FALSE, of |-> i]
Asks(kind, by) == ops' = Append(ops, Op(kind, by, 0))
AsksToTrack(by, i) == ops' = Append(ops, Op("start", by, i))

ActiveSessions(p) == {s \in p.session : s.status = "active" /\ HasAccess(p, s.route)}
PreStarts(p) == {x \in p.preStart : p.session = {} /\ HasAccess(p, x.route)}
Wanted == \E p \in SignedIn : ActiveSessions(p) # {} \/ PreStarts(p) # {}

(* Mutant: what the caller found before it asked is not looked at again.       *)
AssumedInactive == TRUE
StillInactive == ~Wanted

(* isDurableSessionLeaseCurrent *)
LeaseHolds(w) ==
    \E p \in SignedIn :
        /\ \E g \in p.access : g.route = w.route /\ g.lineage = w.lineage
        /\ \A s \in p.session : s.route = w.route /\ s.started = w.started

Stops == service' = FALSE /\ ended' = "no"

RunStart ==
    /\ ops # <<>> /\ Head(ops).kind = "start"
    /\ service' = TRUE
    /\ tracked' = IF \E p \in stored : \E s \in ActiveSessions(p) : s.started = Head(ops).of
                  THEN Head(ops).of ELSE tracked
    /\ ops' = Tail(ops)
    /\ UNCHANGED <<stored, ended, ui, call, world, finished, outlived>>

RunStop ==
    /\ ops # <<>> /\ Head(ops).kind = "stop"
    /\ Stops /\ ops' = Tail(ops)
    /\ UNCHANGED <<stored, ui, call, world, history>>

(* stopContinuousLocationTaskIfInactive and stopLocationUpdatesIfCurrent read  *)
(* the store and stop the service afterwards.                                  *)
RunCheck ==
    /\ ops # <<>> /\ Head(ops).kind \in {"stopIfInactive", "stopIfLease"} /\ ~Head(ops).decided
    /\ stored' = SignedIn
    /\ LET leased == Head(ops).kind = "stopIfLease"
           stops == IF leased THEN At("cleanup", "stop") /\ LeaseHolds(call["cleanup"]) ELSE StillInactive
       IN  /\ ops' = IF stops THEN [ops EXCEPT ![1].decided = TRUE] ELSE Tail(ops)
           /\ IF leased /\ ~stops THEN Goes("cleanup", Idle) ELSE UNCHANGED call
    /\ UNCHANGED <<service, ended, ui, world, history>>

RunCheckedStop ==
    /\ ops # <<>> /\ Head(ops).decided
    /\ Stops /\ ops' = Tail(ops)
    /\ LET cleans == Head(ops).kind = "stopIfLease" /\ At("cleanup", "stop")
       IN  /\ working' = IF cleans THEN {} ELSE working
           /\ IF cleans THEN Goes("cleanup", Idle) ELSE UNCHANGED call
    /\ UNCHANGED <<stored, driver, offered, world, history>>

(* clearAndStopActiveLocationSession without a lease: of one route, the        *)
(* service is stopped only if that route's session was there to be cleared.    *)
ClearsAndStops(r, by) ==
    IF \E p \in stored : HasSession(p, r)
    THEN stored' = {SessionCleared(p) : p \in stored} /\ Asks("stop", by)
    ELSE UNCHANGED <<stored, ops>>
ClearsAndStopsAny(by) == stored' = {SessionCleared(p) : p \in stored} /\ Asks("stop", by)
LoggedOutAndStops == stored' = {} /\ Asks("stop", "nobody")

-----------------------------------------------------------------------------
(* A retry pass sends a queued route end.  It remembers which session the end  *)
(* belongs to, and cleans that session up when the server has confirmed it or  *)
(* refuses it for good: check the lease, clear, check again and stop.          *)
PassLease(r) ==
    UNION {{[at |-> "sending", route |-> r, lineage |-> g.lineage, started |-> s.started] :
                s \in {x \in p.session : x.route = r}, g \in p.access \cap offered} : p \in SignedIn}

PassBegins ==
    /\ Begins /\ IsIdle("cleanup") /\ ~Waits("cleanup") /\ IsIdle("load") /\ IsIdle("logout")
    /\ \E e \in owed :
          /\ driver = {e.account} /\ \E g \in offered : g.route = e.route
          /\ LET leases == PassLease(e.route)
             IN  Goes("cleanup", IF leases # {} THEN Only(leases)
                                 ELSE [at |-> "sending", route |-> e.route, started |-> 0])
    /\ stored' = SignedIn
    /\ UNCHANGED <<device, ui, world, history>>

Confirmed(e) ==
    [server EXCEPT ![e.route] =
        IF @.holder = e.account /\ @.phase = "started"
        THEN [@ EXCEPT !.phase = IF e.release THEN "ready" ELSE "over"] ELSE @]

PassConfirms ==
    /\ At("cleanup", "sending")
    /\ \E e \in owed :
          /\ e.route = call["cleanup"].route /\ driver = {e.account}
          /\ server' = Confirmed(e) /\ owed' = owed \ {e}
    /\ IF call["cleanup"].started = 0 THEN Goes("cleanup", Idle) ELSE Moves("cleanup", "check")
    /\ UNCHANGED <<stored, device, ui, issued, begun, meddled, history>>

CleanupChecks ==
    /\ At("cleanup", "check")
    /\ stored' = SignedIn
    /\ IF LeaseHolds(call["cleanup"]) THEN Moves("cleanup", "clear") ELSE Goes("cleanup", Idle)
    /\ UNCHANGED <<device, ui, world, history>>

Leased(p, w) == IsSession(p, w.route, w.started) /\ \E g \in p.access : g.lineage = w.lineage

CleanupClears ==
    /\ At("cleanup", "clear")
    /\ LET w == call["cleanup"]
       IN  IF \E p \in stored : Leased(p, w)
           THEN /\ stored' = {SessionCleared(p) : p \in stored}
                /\ Moves("cleanup", "stop") /\ Asks("stopIfLease", "cleanup")
           ELSE Goes("cleanup", Idle) /\ UNCHANGED <<stored, ops>>
    /\ UNCHANGED <<service, ended, ui, world, history>>

-----------------------------------------------------------------------------
(* Signing in, and out: driverSyncAccountEpoch advances, so a load and a       *)
(* cleanup lapse, and so does a stop that is being recorded.                   *)
LoadOf(p, asked, known) ==
    [at |-> IF \E s \in known : s.status = "completion_pending" THEN "receipt" ELSE "lookup",
     account |-> p.account, of |-> asked, session |-> known,
     lineage |-> {g.lineage : g \in p.access}, choices |-> {}, running |-> {}]

(* Entering handleLoginAndLoadRoutes advances the epoch again.                 *)
Loads(w) == call' = [call EXCEPT !["check"] = Idle, !["load"] = w, !["cleanup"] = Idle]

SignIn ==
    /\ Begins /\ driver = {} /\ IsIdle("check") /\ IsIdle("logout") /\ IsIdle("load") /\ CanIssue
    /\ \E a \in Accounts :
          LET p == Authenticated(a, NewToken)
          IN  stored' = {p} /\ driver' = {a} /\ Loads(LoadOf(p, a, {}))
    /\ issued' = issued \cup {NewToken} /\ offered' = {} /\ working' = {}
    /\ UNCHANGED <<device, server, owed, begun, meddled, history>>

LogoutBegins ==
    /\ driver # {} /\ IsIdle("logout") /\ Meddles
    /\ call' = [call EXCEPT !["logout"] = [at |-> "clear"], !["load"] = Idle, !["cleanup"] = Idle,
                            !["flow"] = IF @.at = "stop" THEN Idle ELSE @]
    /\ stored' = SignedIn
    /\ UNCHANGED <<device, ui, server, owed, issued, begun, history>>

LogoutClears ==
    /\ At("logout", "clear")
    /\ ClearsAndStopsAny("logout") /\ Moves("logout", "reset")
    /\ UNCHANGED <<service, ended, ui, world, history>>

(* resetDriverSession and what handleLogout resets after it *)
LogoutResets ==
    /\ At("logout", "reset") /\ ~Waits("logout")
    /\ stored' = {} /\ driver' = {} /\ offered' = {} /\ working' = {}
    /\ Goes("logout", Idle) /\ outlived' = (outlived \/ ~IsIdle("flow"))
    /\ UNCHANGED <<device, world, tracked, finished>>

(* A fresh process restores the login: load, refresh if the access token has   *)
(* expired, save if what is stored is still what was loaded.                   *)
ShowsLogin == driver' = {} /\ UNCHANGED <<offered, working>>
Restores(p, asked) ==
    driver' = {p.account} /\ UNCHANGED <<offered, working>> /\ Loads(LoadOf(p, asked, p.session))

CheckLoads ==
    /\ At("check", "load")
    /\ \/ /\ SignedIn = {} /\ LoggedOutAndStops /\ ShowsLogin /\ Goes("check", Idle)
       \/ \E p \in SignedIn :
             /\ stored' = SignedIn /\ UNCHANGED ops
             /\ IF p.life = "active" THEN Restores(p, p.of)
                ELSE Goes("check", [at |-> "refresh", read |-> p]) /\ UNCHANGED ui
    /\ UNCHANGED <<service, ended, world, history>>

(* The server answers with new tokens or with 401.                             *)
CheckRefreshes ==
    /\ At("check", "refresh")
    /\ LET p == call["check"].read
           same == {x \in stored : IsExpected(x, p.account, p.token)}
       IN  \/ /\ CanIssue /\ issued' = issued \cup {NewToken} /\ UNCHANGED ops
              /\ IF same # {}
                 THEN stored' = {Renewed(x, p) : x \in same} /\ Restores(p, p.of)
                 ELSE Moves("check", "load") /\ UNCHANGED <<stored, ui>>
           \/ /\ UNCHANGED issued
              /\ IF same # {} THEN LoggedOutAndStops /\ ShowsLogin /\ Goes("check", Idle)
                 ELSE Moves("check", "load") /\ UNCHANGED <<stored, ops, ui>>
    /\ UNCHANGED <<service, ended, server, owed, begun, meddled, history>>

-----------------------------------------------------------------------------
(* handleRefreshRoutes; a login refused by the server is dropped.              *)
DropsLogin == LoggedOutAndStops /\ ShowsLogin /\ Goes("load", Idle)

RefreshBegins ==
    /\ Begins /\ driver # {} /\ \A c \in {"load", "flow", "logout", "check"} : IsIdle(c)
    /\ \/ /\ SignedIn = {} /\ DropsLogin
       \/ \E p \in SignedIn :
             /\ stored' = SignedIn /\ UNCHANGED <<ops, ui>>
             /\ IF p.life = "active" THEN Loads(LoadOf(p, p.of, p.session))
                ELSE Goes("load", [at |-> "refresh", read |-> p])
    /\ UNCHANGED <<service, ended, world, history>>

LoadRefreshes ==
    /\ At("load", "refresh")
    /\ LET p == call["load"].read
           same == {x \in stored : IsExpected(x, p.account, p.token)}
       IN  \/ /\ CanIssue /\ issued' = issued \cup {NewToken} /\ UNCHANGED <<ops, ui>>
              /\ IF same # {}
                 THEN /\ stored' = {Renewed(x, p) : x \in same}
                      /\ Loads(LoadOf(p, p.of, p.session))
                 ELSE Goes("load", Idle) /\ UNCHANGED stored
           \/ DropsLogin /\ UNCHANGED issued
    /\ UNCHANGED <<service, ended, server, owed, begun, meddled, history>>

-----------------------------------------------------------------------------
(* handleLoginAndLoadRoutes.  A session that waits for the receipt of its end  *)
(* asks for the receipt first (restoreCompletionPendingBeforeRouteHydration).  *)
Pending(w) == \E s \in w.session : s.status = "completion_pending"
EndOwed(w, r) == \E e \in owed : e.account = w.account /\ e.route = r

LoadAsksReceipt ==
    /\ At("load", "receipt")
    /\ LET w == call["load"]
       IN  \/ /\ Moves("load", "lookup") /\ UNCHANGED owed
           \/ \E e \in owed, s \in w.session, g \in w.lineage :
                 /\ e.account = w.account /\ e.route = s.route /\ server[e.route].phase # "started"
                 /\ owed' = owed \ {e}
                 /\ call' = [call EXCEPT
                      !["load"] = [w EXCEPT !.at = "cleaning", !.session = {}],
                      !["cleanup"] = [at |-> "check", route |-> s.route, lineage |-> g,
                                      started |-> s.started]]
    /\ UNCHANGED <<stored, device, ui, server, issued, begun, meddled, history>>

LoadCleaned ==
    /\ At("load", "cleaning") /\ IsIdle("cleanup")
    /\ Moves("load", "lookup") /\ working' = {}
    /\ UNCHANGED <<stored, device, driver, offered, world, history>>

(* The lookup fails, is refused, finds nothing or finds routes.  Nothing       *)
(* found: clearCachedRouteAccess, then openVerifiedNoAssignedRoute.            *)
LoadLooksUp ==
    /\ At("load", "lookup")
    /\ LET w == call["load"]
       IN  \/ Goes("load", Idle) /\ UNCHANGED <<stored, ops, ui, meddled>>
           \/ Meddles /\ Pending(w) /\ ShowsLogin /\ Goes("load", Idle) /\ UNCHANGED <<stored, ops>>
           \/ Meddles /\ ~Pending(w) /\ DropsLogin
           \/ /\ Answer(w.of) = {} /\ ~Pending(w)
              /\ stored' = {AccessDropped(p) : p \in stored} /\ Asks("stop", "load")
              /\ Moves("load", "nothing") /\ UNCHANGED <<ui, meddled>>
           \/ /\ Answer(w.of) # {}
              /\ Goes("load", [w EXCEPT !.at = "found", !.choices = Answer(w.of),
                                        !.running = InProgress])
              /\ UNCHANGED <<stored, ops, ui, meddled>>
    /\ UNCHANGED <<service, ended, server, owed, issued, begun, history>>

LoadFindsNothing ==
    /\ At("load", "nothing") /\ ~Waits("load")
    /\ stored' = {AccessDropped(p) : p \in stored} /\ Goes("load", Idle)
    /\ offered' = {} /\ working' = {}
    /\ UNCHANGED <<device, driver, world, history>>

(* What was found is compared with the session the load began with.  A pending *)
(* session whose route is gone stays as it is; one whose end is still queued   *)
(* has it sent now; a session of another assignment is cleared.                *)
Choice(w, r) == {g \in w.choices : g.route = r}
KnownRoutes(w) == IF w.session # {} THEN {s.route : s \in w.session} ELSE working
Replaced(w) == {r \in KnownRoutes(w) : \E g \in Choice(w, r), h \in w.lineage : g.lineage # h}

LoadCompares ==
    /\ At("load", "found")
    /\ LET w == call["load"]
           gone == \E s \in w.session : ~\E g \in Choice(w, s.route) : g.lineage \in w.lineage
           owes == {e \in owed : e.account = w.account /\ \E s \in w.session : s.route = e.route}
       IN  \/ Pending(w) /\ gone /\ Goes("load", Idle) /\ UNCHANGED <<stored, ops, server, owed>>
           \/ /\ Pending(w) /\ ~gone /\ owes # {}
              /\ \E e \in owes, s \in w.session :
                   \/ Moves("load", "compared") /\ UNCHANGED <<server, owed>>
                   \/ /\ server' = Confirmed(e) /\ owed' = owed \ {e}
                      /\ call' = [call EXCEPT
                           !["load"] = [w EXCEPT !.at = "cleaning", !.session = {}],
                           !["cleanup"] = [at |-> "check", route |-> s.route,
                                           lineage |-> Only(w.lineage), started |-> s.started]]
              /\ UNCHANGED <<stored, ops>>
           \/ /\ Pending(w) => ~gone /\ owes = {}
              /\ Goes("load", [w EXCEPT !.at = "compared",
                                        !.session = IF Replaced(w) = {} THEN @ ELSE {}])
              /\ IF Replaced(w) = {} THEN UNCHANGED <<stored, ops>>
                 ELSE ClearsAndStops(Only(Replaced(w)), "load")
              /\ UNCHANGED <<server, owed>>
    /\ UNCHANGED <<service, ended, ui, issued, begun, meddled, history>>

(* Which route becomes the active one: the session's, unless its route is gone *)
(* or waits for its end; without a session, one the server has in progress.    *)
FreshSession(w, g) == [route |-> g.route, started |-> begun + 1, under |-> g.lineage,
                       recorded |-> FALSE, status |-> "active"]

LoadChooses ==
    /\ At("load", "compared") /\ ~Waits("load")
    /\ LET w == call["load"]
           kept == {s \in w.session : /\ Choice(w, s.route) # {}
                                      /\ s.status = "active" => ~EndOwed(w, s.route)}
           running == {g \in w.choices : g.route \in w.running /\ ~EndOwed(w, g.route)}
       IN  \/ /\ w.session # {} /\ kept = {}
              /\ ClearsAndStops(Only(w.session).route, "load")
              /\ Goes("load", [w EXCEPT !.at = "save", !.session = {}]) /\ UNCHANGED begun
           \/ /\ w.session # {} /\ kept # {}
              /\ Goes("load", [w EXCEPT !.at = "restore"]) /\ UNCHANGED <<stored, ops, begun>>
           \/ /\ w.session = {} /\ running # {} /\ CanBegin /\ begun' = begun + 1
              /\ \E g \in running : Goes("load", [w EXCEPT !.at = "adopt", !.session = {FreshSession(w, g)}])
              /\ UNCHANGED <<stored, ops>>
           \/ /\ w.session = {} /\ running = {}
              /\ Goes("load", [w EXCEPT !.at = "preStart"]) /\ UNCHANGED <<stored, ops, begun>>
    /\ UNCHANGED <<service, ended, ui, server, owed, issued, meddled, history>>

(* saveFromInvitedRouteAccess for the selected route; a refusal goes unnoticed.*)
LoadSaves ==
    /\ call["load"].at \in {"save", "restore", "adopt", "preStart"} /\ ~Waits("load")
    /\ LET w == call["load"]
           routes == IF w.session = {} THEN {g.route : g \in w.choices} ELSE {s.route : s \in w.session}
       IN  /\ \E g \in {x \in w.choices : x.route \in routes} :
                stored' = {IF MayInvite(p, g) THEN Invited(p, g) ELSE p : p \in stored}
           /\ offered' = w.choices
           /\ working' = IF w.at = "save" THEN {} ELSE working
           /\ IF w.at = "save" THEN Goes("load", Idle)
              ELSE Goes("load", [w EXCEPT !.at = [restore |-> "reload", adopt |-> "adopting",
                                                  preStart |-> "tracking"][w.at]])
    /\ UNCHANGED <<device, driver, world, history>>

(* Tracking before the start of a route of today; it ends again if the         *)
(* permission turns out to be missing.                                         *)
LoadTracksBeforeStart ==
    /\ At("load", "tracking")
    /\ LET w == call["load"]
       IN  \/ Goes("load", Idle) /\ UNCHANGED <<stored, ops, begun>>
           \/ \E p \in stored, g \in w.choices :
                /\ MayTrack(p, g.route) /\ ~EndOwed(w, g.route) /\ CanBegin /\ begun' = begun + 1
                /\ stored' = {TrackingSaved(p, g.route, begun + 1)}
                /\ \/ AsksToTrack("nobody", 0) /\ Goes("load", Idle)
                   \/ UNCHANGED ops /\ Goes("load", [w EXCEPT !.at = "blocked", !.choices = {g}])
    /\ UNCHANGED <<service, ended, ui, server, owed, issued, meddled, history>>

LoadTrackingBlocked ==
    /\ At("load", "blocked")
    /\ \E g \in call["load"].choices : stored' = {TrackingCleared(p, g.route) : p \in stored}
    /\ Goes("load", Idle)
    /\ UNCHANGED <<device, ui, world, history>>

(* A restored session is read again and must be the one the load began with.   *)
LoadReloads ==
    /\ At("load", "reload")
    /\ stored' = SignedIn
    /\ LET w == call["load"]
           latest == UNION {{s \in p.session : \E x \in w.session : s.route = x.route /\ s.started = x.started} :
                            p \in SignedIn}
       IN  IF latest = {} THEN Goes("load", Idle)
           ELSE \E stage \in {"pickup", "track"} : Goes("load", [w EXCEPT !.at = stage, !.session = latest])
    /\ UNCHANGED <<device, ui, world, history>>

(* saveActiveRouteSession with the driver's progress: a session it has to      *)
(* create begins now.                                                          *)
SavesProgress(r) ==
    IF \E p \in stored : HasAccess(p, r)
    THEN LET begins == ~\E p \in stored : HasSession(p, r)
         IN  /\ begins => CanBegin
             /\ stored' = {SessionSaved(p, r, begun + 1) : p \in stored}
             /\ begun' = IF begins THEN begun + 1 ELSE begun
    ELSE UNCHANGED <<stored, begun>>

(* The pickup is recorded in the queue: progress is saved, which turns a       *)
(* session that waits for the receipt of its end into an active one.           *)
LoadSavesPickup ==
    /\ At("load", "pickup")
    /\ \E s \in call["load"].session : SavesProgress(s.route)
    /\ Moves("load", "track")
    /\ UNCHANGED <<device, ui, server, owed, issued, meddled, history>>

LoadAdopts ==
    /\ At("load", "adopting")
    /\ \E s \in call["load"].session :
          IF \E p \in stored : HasAccess(p, s.route)
          THEN stored' = {SessionSaved(p, s.route, s.started) : p \in stored} /\ Moves("load", "mark")
          ELSE Goes("load", Idle) /\ UNCHANGED stored
    /\ UNCHANGED <<device, ui, world, history>>

LoadMarks ==
    /\ At("load", "mark")
    /\ \E s \in call["load"].session :
          stored' = {IF IsSession(p, s.route, s.started) THEN StartMarked(p) ELSE p : p \in stored}
    /\ Moves("load", "track")
    /\ UNCHANGED <<device, ui, world, history>>

(* The service is turned on, unless the route waits for its end or the app is  *)
(* not in the foreground.                                                      *)
LoadTracks ==
    /\ At("load", "track")
    /\ \E s \in call["load"].session :
          /\ working' = {s.route}
          /\ IF EndOwed(call["load"], s.route) THEN UNCHANGED ops
             ELSE AsksToTrack("nobody", s.started) \/ UNCHANGED ops
    /\ Goes("load", Idle)
    /\ UNCHANGED <<stored, service, ended, driver, offered, world, history>>

-----------------------------------------------------------------------------
(* startRouteSessionAfterConfirmed: save the access, then (permissions) the    *)
(* session, turn the service on, record the start and the pickup.  Nothing in  *)
(* it looks at the account again.  A refresh that runs is interrupted by it.   *)
AwaitsEnd(r) == \E e \in owed : driver = {e.account} /\ e.route = r
FlowBegins(w) == call' = [call EXCEPT !["flow"] = w, !["load"] = Idle]

StartBegins ==
    /\ Begins /\ driver # {} /\ working = {} /\ \A c \in {"flow", "logout", "cleanup"} : IsIdle(c)
    /\ \E g \in offered :
          /\ ~AwaitsEnd(g.route)
          /\ \E p \in stored : MayInvite(p, g)
          /\ stored' = {Invited(p, g) : p \in stored}
          /\ FlowBegins([at |-> "save", grant |-> g, route |-> g.route, started |-> 0])
    /\ UNCHANGED <<device, ui, world, history>>

StartSaves ==
    /\ At("flow", "save")
    /\ LET r == call["flow"].route
       IN  IF \E p \in stored : HasAccess(p, r)
           THEN /\ CanBegin /\ begun' = begun + 1
                /\ stored' = {SessionSaved(p, r, begun + 1) : p \in stored}
                /\ working' = {r}
                /\ \/ /\ AsksToTrack("flow", begun + 1)
                      /\ Goes("flow", [call["flow"] EXCEPT !.at = "start", !.started = begun + 1])
                   \/ Moves("flow", "undo") /\ UNCHANGED ops
           ELSE Goes("flow", Idle) /\ UNCHANGED <<stored, begun, ops, working>>
    /\ UNCHANGED <<service, ended, driver, offered, server, owed, issued, meddled, history>>

(* The permission is missing, or the server refuses the start.                 *)
StartUndone ==
    /\ At("flow", "undo")
    /\ ClearsAndStops(call["flow"].route, "nobody") /\ Goes("flow", Idle) /\ working' = {} /\ tracked' = 0
    /\ UNCHANGED <<service, ended, driver, offered, world, finished, outlived>>

Serves(g) ==
    /\ server[g.route].holder = g.holder /\ server[g.route].lineage = g.lineage
    /\ server[g.route].phase # "over"

(* Recorded, queued or refused; a recorded start is marked, and the start ends *)
(* there if the session is not the one it began.                               *)
StartPosts ==
    /\ At("flow", "start") /\ ~Waits("flow") /\ IsIdle("renew")
    /\ LET w == call["flow"]
       IN  \/ /\ Serves(w.grant) /\ server' = [server EXCEPT ![w.route].phase = "started"]
              /\ stored' = {IF IsSession(p, w.route, w.started) THEN StartMarked(p) ELSE p : p \in stored}
              /\ IF \E p \in stored : IsSession(p, w.route, w.started)
                 THEN Moves("flow", "pickup") ELSE Goes("flow", Idle)
           \/ Moves("flow", "pickup") /\ UNCHANGED <<stored, server>>
           \/ ~Serves(w.grant) /\ Moves("flow", "undo") /\ UNCHANGED <<stored, server>>
    /\ UNCHANGED <<device, ui, owed, issued, begun, meddled, history>>

PickupSaves ==
    /\ At("flow", "pickup") /\ IsIdle("renew")
    /\ SavesProgress(call["flow"].route) /\ Goes("flow", Idle)
    /\ UNCHANGED <<device, ui, server, owed, issued, meddled, history>>

(* An arrival or a completion at a stop: recorded or queued, then the progress *)
(* is saved if the account is still the same.                                  *)
StopBegins ==
    /\ Begins /\ driver # {} /\ IsIdle("flow") /\ IsIdle("load") /\ IsIdle("logout")
    /\ \E g \in offered :
          /\ g.route \in working /\ ~AwaitsEnd(g.route)
          /\ Goes("flow", [at |-> "stop", grant |-> g, route |-> g.route, started |-> 0])
    /\ UNCHANGED <<stored, device, ui, world, history>>

StopSaves ==
    /\ At("flow", "stop") /\ IsIdle("renew")
    /\ SavesProgress(call["flow"].route) /\ Goes("flow", Idle)
    /\ UNCHANGED <<device, ui, server, owed, issued, meddled, history>>

(* finishRoute and finishDeliveryAfterActive: the route end is queued, the     *)
(* session is marked by its route, a release stops the service at once, the    *)
(* end is posted, a completion stops the service then.                         *)
FinishBegins ==
    /\ Begins /\ driver # {} /\ IsIdle("flow") /\ IsIdle("logout")
    /\ \E a \in driver, g \in offered, release \in BOOLEAN :
          /\ g.route \in working /\ ~AwaitsEnd(g.route)
          /\ owed' = owed \cup {[account |-> a, route |-> g.route, release |-> release]}
          /\ FlowBegins([at |-> "mark", grant |-> g, route |-> g.route, release |-> release, account |-> a])
          /\ finished' = finished \cup UNION {{s.started : s \in {x \in p.session : x.route = g.route}} :
                                              p \in stored}
    /\ UNCHANGED <<stored, device, ui, server, issued, begun, meddled, tracked, outlived>>

EndOf(w) == [account |-> w.account, route |-> w.route, release |-> w.release]

FinishMarks ==
    /\ At("flow", "mark")
    /\ LET w == call["flow"]
       IN  IF \E p \in stored : HasSession(p, w.route)
           THEN /\ stored' = {CompletionMarked(p) : p \in stored}
                /\ IF w.release THEN Asks("stop", "nobody") ELSE UNCHANGED ops
                /\ Moves("flow", "post") /\ UNCHANGED owed
           ELSE /\ owed' = owed \ {EndOf(w)} /\ Goes("flow", Idle)
                /\ UNCHANGED <<stored, ops>>
    /\ UNCHANGED <<service, ended, ui, server, issued, begun, meddled, history>>

(* The answer: recorded, or none in time, whether or not the server has it; a  *)
(* route that waits for its end offers no more work, and one that is completed *)
(* is not offered again.                                                       *)
FinishPosts ==
    /\ At("flow", "post") /\ IsIdle("renew")
    /\ LET w == call["flow"]
       IN  /\ \/ /\ Serves(w.grant) /\ server' = Confirmed(EndOf(w)) /\ owed' = owed \ {EndOf(w)}
                 /\ Moves("flow", "clear") /\ UNCHANGED working
              \/ /\ server' \in {server, Confirmed(EndOf(w))} /\ UNCHANGED owed
                 /\ Goes("flow", Idle) /\ working' = {}
           /\ IF w.release THEN UNCHANGED <<ops, offered>>
              ELSE Asks("stop", "flow") /\ offered' = offered \ {w.grant}
    /\ UNCHANGED <<stored, service, ended, driver, issued, begun, meddled, history>>

FinishClears ==
    /\ At("flow", "clear") /\ ~Waits("flow")
    /\ LET cleared == \E p \in stored : HasSession(p, call["flow"].route)
       IN  /\ stored' = IF cleared THEN {SessionCleared(p) : p \in stored} ELSE stored
           /\ working' = IF cleared THEN {} ELSE working
    /\ Goes("flow", Idle)
    /\ UNCHANGED <<device, driver, offered, world, history>>

-----------------------------------------------------------------------------
(* A request of the flow finds its route token expired: refresh the account    *)
(* token if need be, look the routes up and save the access to this route,     *)
(* whoever is signed in by then; a route that is gone is cleared away.  An     *)
(* expired account token has been counted as a disturbance already.            *)
RenewBegins ==
    /\ IsIdle("renew") /\ call["flow"].at \in {"start", "stop", "pickup", "post"} /\ ~Waits("flow")
    /\ stored' = SignedIn
    /\ \E p \in SignedIn :
          \/ /\ p.life = "active" /\ Meddles
             /\ Goes("renew", [at |-> "lookup", read |-> p, route |-> call["flow"].route])
          \/ /\ p.life = "refresh_required" /\ UNCHANGED meddled
             /\ Goes("renew", [at |-> "refresh", read |-> p, route |-> call["flow"].route])
    /\ UNCHANGED <<device, ui, server, owed, issued, begun, history>>

RenewRefreshes ==
    /\ At("renew", "refresh")
    /\ LET p == call["renew"].read
           same == {x \in stored : IsExpected(x, p.account, p.token)}
       IN  \/ /\ CanIssue /\ issued' = issued \cup {NewToken}
              /\ IF same # {}
                 THEN stored' = {Renewed(x, p) : x \in same} /\ Moves("renew", "lookup")
                 ELSE Goes("renew", Idle) /\ UNCHANGED stored
           \/ Goes("renew", Idle) /\ UNCHANGED <<stored, issued>>
    /\ UNCHANGED <<device, ui, server, owed, begun, meddled, history>>

RenewLooksUp ==
    /\ At("renew", "lookup")
    /\ LET w == call["renew"]
           found == {g \in Answer(w.read.of) : g.route = w.route}
       IN  \/ Goes("renew", Idle)
           \/ Goes("renew", [at |-> "save", route |-> w.route, found |-> found,
                             nothing |-> Answer(w.read.of) = {}])
    /\ UNCHANGED <<stored, device, ui, world, history>>

(* What was found is saved unless it is of another assignment than the request *)
(* expects, the request has lapsed or must not save, or saving fails.          *)
RenewSaves ==
    /\ At("renew", "save")
    /\ LET w == call["renew"]
       IN  IF w.found # {}
           THEN /\ \/ \E g \in w.found :
                         stored' = {IF MayInvite(p, g) THEN Invited(p, g) ELSE p : p \in stored}
                   \/ UNCHANGED stored
                /\ Goes("renew", Idle) /\ UNCHANGED ops
           ELSE /\ IF w.nothing THEN ClearsAndStopsAny("renew") ELSE ClearsAndStops(w.route, "renew")
                /\ Moves("renew", "drop")
    /\ UNCHANGED <<service, ended, ui, world, history>>

RenewDrops ==
    /\ At("renew", "drop") /\ ~Waits("renew")
    /\ LET w == call["renew"]
       IN  /\ stored' = {IF w.nothing \/ MayDropAccess(p, w.route) THEN AccessDropped(p) ELSE p :
                             p \in stored}
           /\ offered' = {g \in offered : ~w.nothing /\ g.route # w.route}
    /\ Goes("renew", Idle)
    /\ UNCHANGED <<device, driver, working, world, history>>

-----------------------------------------------------------------------------
(* handleGpsCheckPushData: a session is active, the service is off: turn it on.*)
PushReads ==
    /\ Begins /\ IsIdle("push") /\ Meddles
    /\ stored' = SignedIn
    /\ \E p \in SignedIn : ActiveSessions(p) # {} /\ ~service
    /\ Goes("push", [at |-> "restart"])
    /\ UNCHANGED <<device, ui, server, owed, issued, begun, history>>

PushRestarts ==
    /\ At("push", "restart")
    /\ AsksToTrack("nobody", 0) /\ Goes("push", Idle)
    /\ UNCHANGED <<stored, service, ended, ui, world, history>>

-----------------------------------------------------------------------------
(* The world: tokens expire, the office gives a route to somebody or ends it,  *)
(* a driver starts it on another phone, the time to confirm an ended route     *)
(* passes, the process ends and restarts, perhaps after the token has expired. *)
TokenExpires ==
    /\ Meddles
    /\ \E p \in stored :
          \/ p.life = "active" /\ stored' = {[p EXCEPT !.life = "refresh_required"]}
          \/ p.life = "refresh_required" /\ stored' = {[p EXCEPT !.life = "expired"]}
    /\ UNCHANGED <<device, ui, call, server, owed, issued, begun, history>>

OfficeActs ==
    /\ Meddles
    /\ \E r \in Routes :
          \/ \E a \in Accounts :
                /\ server[r].lineage # NewestGeneration
                /\ server' = [server EXCEPT ![r] = [holder |-> a, lineage |-> NewestGeneration,
                                                   phase |-> "ready"]]
          \/ server[r].phase # "over" /\ server' = [server EXCEPT ![r].phase = "over"]
          \/ server[r].phase = "ready" /\ server' = [server EXCEPT ![r].phase = "started"]
    /\ UNCHANGED <<stored, device, ui, call, owed, issued, begun, history>>

GraceEnds ==
    /\ ended = "recent" /\ ended' = "old"
    /\ UNCHANGED <<stored, service, ops, ui, call, world, history>>

Restart ==
    /\ Meddles
    /\ stored' \in {stored, {IF p.life = "active" THEN [p EXCEPT !.life = "refresh_required"] ELSE p :
                                 p \in stored}}
    /\ call' = [c \in Callers |-> IF c = "check" THEN [at |-> "load"] ELSE Idle]
    /\ ops' = <<>> /\ ended' = "no" /\ service' \in {service, FALSE}
    /\ driver' = {} /\ offered' = {} /\ working' = {}
    /\ tracked' = 0 /\ outlived' = FALSE
    /\ UNCHANGED <<finished, server, owed, issued, begun>>

ServiceNext == RunStart \/ RunStop \/ RunCheck \/ RunCheckedStop
CleanupNext == PassBegins \/ PassConfirms \/ CleanupChecks \/ CleanupClears
AccountNext ==
    SignIn \/ LogoutBegins \/ LogoutClears \/ LogoutResets \/ CheckLoads \/ CheckRefreshes
LoadNext ==
    \/ RefreshBegins \/ LoadRefreshes \/ LoadAsksReceipt \/ LoadCleaned \/ LoadLooksUp
    \/ LoadFindsNothing \/ LoadCompares \/ LoadChooses \/ LoadSaves \/ LoadTracksBeforeStart
    \/ LoadTrackingBlocked \/ LoadReloads \/ LoadSavesPickup \/ LoadAdopts \/ LoadMarks
    \/ LoadTracks
FlowNext ==
    \/ StartBegins \/ StartSaves \/ StartUndone \/ StartPosts \/ PickupSaves \/ StopBegins
    \/ StopSaves \/ FinishBegins \/ FinishMarks \/ FinishPosts \/ FinishClears
RenewNext == RenewBegins \/ RenewRefreshes \/ RenewLooksUp \/ RenewSaves \/ RenewDrops
WorldNext == TokenExpires \/ OfficeActs \/ GraceEnds \/ Restart
SessionNext ==
    \/ ServiceNext \/ CleanupNext \/ AccountNext \/ LoadNext \/ FlowNext \/ RenewNext
    \/ PushReads \/ PushRestarts \/ WorldNext
===============================================================================
