-------------------------- MODULE DriverAccessStore --------------------------
(***************************************************************************)
(* What createDriverAccessTokenStore (domain/driver/                       *)
(* driverAccessTokenStore.ts) keeps and promises.  The store is one value  *)
(* in SecureStore: who is signed in, the account token, the access to one  *)
(* route, the session of a started route and the tracking before a start.  *)
(* Every method is queued behind the one before it (runSerialized), so a   *)
(* method is one step; what its caller read before it was queued may be    *)
(* out of date by then, which is why the methods compare.                  *)
(*                                                                         *)
(* An optional value is a set of at most one element.  DriverSession has   *)
(* the callers.  Next lets anybody call any method in any order.           *)
(***************************************************************************)
EXTENDS Naturals

CONSTANTS
    Accounts,    \* phone numbers
    Routes,      \* routePlanId
    Generations, \* assignmentGeneration of a route access
    Legacy,      \* the assignmentGeneration of an access that has none
    Tokens,      \* pairs of an access and a refresh token
    Instants     \* startedAt

ASSUME StoreAssumption == Legacy \notin Generations

VARIABLE stored  \* the payload, if there is one

Lineages == Generations \cup {Legacy}
Lives == {"active", "refresh_required", "expired"}

(* holder is history: the account whose token asked the server for the access. *)
Grant == [holder : Accounts, route : Routes, lineage : Lineages]
(* under is history: the generation of the access the session began with.      *)
Session == [route : Routes, started : Instants, under : Lineages, recorded : BOOLEAN,
            status : {"active", "completion_pending"}]
Tracking == [route : Routes, started : Instants]
(* of is history: the account a token was issued to.                           *)
Payload == [account : Accounts, token : Tokens, of : Accounts, life : Lives,
            access : SUBSET Grant, session : SUBSET Session, preStart : SUBSET Tracking]

Only(S) == CHOOSE x \in S : TRUE

(* What loadActiveDriverAccess reads; an expired payload is deleted by it.     *)
SignedIn == {p \in stored : p.life \in {"active", "refresh_required"}}
Loaded == SignedIn

(* saveAuthenticatedDriver replaces whatever is stored.                        *)
Authenticated(a, t) == [account |-> a, token |-> t, of |-> a, life |-> "active",
                        access |-> {}, session |-> {}, preStart |-> {}]

(* Mutant: the caller's expectation is not compared with what is stored.       *)
IsAnyIdentity(p, a, t) == TRUE

(* assertExpectedIdentity                                                      *)
IsExpected(p, a, t) == p.account = a /\ p.token = t

(* saveRefreshedAccountAccess                                                  *)
Refreshed(p, t, owner) == [p EXCEPT !.token = t, !.of = owner, !.life = "active"]

(* Mutant: the session of the other assignment is kept.                        *)
InvitedKeepingSession(p, g) ==
    [p EXCEPT !.access = {g}, !.preStart = {s \in p.preStart : s.route = g.route}]

(* saveFromInvitedRouteAccess: refused while another route's session is        *)
(* stored; a known change of assignment ends the session, another route's      *)
(* tracking before the start ends in any case.                                 *)
MayInvite(p, g) == \A s \in p.session : s.route = g.route
SameLineage(p, g) == \A h \in p.access : h.lineage = Legacy \/ h.lineage = g.lineage
Invited(p, g) ==
    [p EXCEPT !.access = {g},
              !.session = IF SameLineage(p, g) THEN p.session ELSE {},
              !.preStart = {s \in p.preStart : s.route = g.route}]

HasAccess(p, r) == \E g \in p.access : g.route = r

(* Mutant: tracking before the start goes on beside the session.               *)
SessionSavedWhileTracking(p, r, i) ==
    [p EXCEPT !.session = {[route |-> r, started |-> i, under |-> Only(p.access).lineage,
                            recorded |-> FALSE, status |-> "active"]}]

(* saveActiveRouteSession: the session stays the one it was, if it is of the   *)
(* same route, but its status is active again.                                 *)
SessionSaved(p, r, i) ==
    LET kept == {s \in p.session : s.route = r}
        fresh == [route |-> r, started |-> i, under |-> Only(p.access).lineage,
                  recorded |-> FALSE, status |-> "active"]
    IN  [p EXCEPT !.preStart = {},
                  !.session = {IF kept = {} THEN fresh
                               ELSE [Only(kept) EXCEPT !.status = "active"]}]

(* markActiveRouteStarted, markActiveRouteCompletionPending                    *)
HasSession(p, r) == \E s \in p.session : s.route = r
IsSession(p, r, i) == \E s \in p.session : s.route = r /\ s.started = i
StartMarked(p) == [p EXCEPT !.session = {[s EXCEPT !.recorded = TRUE] : s \in p.session}]
CompletionMarked(p) ==
    [p EXCEPT !.session = {[s EXCEPT !.status = "completion_pending"] : s \in p.session}]

(* clearActiveRouteSession                                                     *)
SessionCleared(p) == [p EXCEPT !.session = {}]

(* savePreStartTracking keeps tracking of the same route as it is.             *)
MayTrack(p, r) == p.session = {} /\ HasAccess(p, r)
(* Mutant: tracking of another route is kept beside it.                        *)
TrackingAdded(p, r, i) == [p EXCEPT !.preStart = @ \cup {[route |-> r, started |-> i]}]
TrackingSaved(p, r, i) ==
    IF \E s \in p.preStart : s.route = r THEN p
    ELSE [p EXCEPT !.preStart = {[route |-> r, started |-> i]}]

(* clearPreStartTracking, clearCachedRouteAccess                               *)
TrackingCleared(p, r) == [p EXCEPT !.preStart = {s \in p.preStart : s.route # r}]
MayDropAccess(p, r) == p.session = {} /\ HasAccess(p, r)
AccessDropped(p) == [p EXCEPT !.access = {}, !.session = {}, !.preStart = {}]

-----------------------------------------------------------------------------
Init == stored = {}

SaveAuthenticatedDriver == \E a \in Accounts, t \in Tokens : stored' = {Authenticated(a, t)}

(* Deletion: sign-out, an expired login, a payload that cannot be read.        *)
Clear == stored' = {}

(* A token's access part expires, then its refresh part.                       *)
Expires ==
    \E p \in stored :
        \/ p.life = "active" /\ stored' = {[p EXCEPT !.life = "refresh_required"]}
        \/ p.life = "refresh_required" /\ stored' = {[p EXCEPT !.life = "expired"]}

(* The server answers a refresh with tokens of the account that asked.         *)
SaveRefreshedAccountAccess ==
    \E p \in stored, a \in Accounts, t, u \in Tokens :
        /\ IsExpected(p, a, t)
        /\ stored' = {Refreshed(p, u, a)}

SaveFromInvitedRouteAccess ==
    \E p \in stored, g \in Grant : MayInvite(p, g) /\ stored' = {Invited(p, g)}

SaveActiveRouteSession ==
    \E p \in stored, r \in Routes, i \in Instants :
        HasAccess(p, r) /\ stored' = {SessionSaved(p, r, i)}

MarkActiveRouteStarted ==
    \E p \in stored, r \in Routes, i \in Instants :
        IsSession(p, r, i) /\ stored' = {StartMarked(p)}

MarkActiveRouteCompletionPending ==
    \E p \in stored, r \in Routes : HasSession(p, r) /\ stored' = {CompletionMarked(p)}

ClearActiveRouteSession == \E p \in stored : stored' = {SessionCleared(p)}

SavePreStartTracking ==
    \E p \in stored, r \in Routes, i \in Instants :
        MayTrack(p, r) /\ stored' = {TrackingSaved(p, r, i)}

ClearPreStartTracking ==
    \E p \in stored, r \in Routes : stored' = {TrackingCleared(p, r)}

ClearCachedRouteAccess == \E p \in stored : stored' = {AccessDropped(p)}

Next ==
    \/ SaveAuthenticatedDriver \/ Clear \/ Expires \/ SaveRefreshedAccountAccess
    \/ SaveFromInvitedRouteAccess \/ SaveActiveRouteSession \/ MarkActiveRouteStarted
    \/ MarkActiveRouteCompletionPending \/ ClearActiveRouteSession
    \/ SavePreStartTracking \/ ClearPreStartTracking \/ ClearCachedRouteAccess

Spec == Init /\ [][Next]_stored

-----------------------------------------------------------------------------
AtMostOne(S) == \A x, y \in S : x = y

(* One payload at most, with at most one access, session and tracking.         *)
StoreTypeOK ==
    /\ stored \subseteq Payload /\ AtMostOne(stored)
    /\ \A p \in stored : AtMostOne(p.access) /\ AtMostOne(p.session) /\ AtMostOne(p.preStart)

(* The tokens stored for an account were issued to it: a refresh that is       *)
(* answered after another driver signed in is thrown away.                     *)
TokensFollowAccount == \A p \in stored : p.of = p.account

(* A session or a tracking is of the route whose access is stored, and there   *)
(* is never a tracking before the start beside a session.                      *)
WorkHasItsAccess ==
    \A p \in stored :
        /\ \A w \in p.session : HasAccess(p, w.route)
        /\ \A w \in p.preStart : p.session = {} /\ HasAccess(p, w.route)

(* A session goes on only under the assignment it began with: once the office  *)
(* gives the route out again, what is stored for the old assignment is gone.   *)
SessionUnderItsAssignment ==
    \A p \in stored : \A s \in p.session, g \in p.access :
        s.under = g.lineage \/ s.under = Legacy
===============================================================================
