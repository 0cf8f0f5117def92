-------------------------- MODULE LocationTask_proofs --------------------------
(***************************************************************************)
(* The stored driver access is consistent whatever its callers do, for     *)
(* every set of accounts, routes, assignments, tokens and instants; and    *)
(* all the callers there are (the app's flows, its loads and retry passes, *)
(* sign-in and sign-out, the background task) change it by the store's     *)
(* methods only, although between two awaits they act on what they read    *)
(* before.                                                                 *)
(***************************************************************************)
EXTENDS LocationTask, TLAPS

(* First the store by itself: what is said of one payload.                     *)
Shaped(p) == /\ p \in Payload
             /\ AtMostOne(p.access) /\ AtMostOne(p.session) /\ AtMostOne(p.preStart)
Owned(p) == p.of = p.account
Covered(p) == /\ \A w \in p.session : HasAccess(p, w.route)
              /\ \A w \in p.preStart : p.session = {} /\ HasAccess(p, w.route)
Assigned(p) == \A s \in p.session, g \in p.access : s.under = g.lineage \/ s.under = Legacy
Sound(p) == Shaped(p) /\ Owned(p) /\ Covered(p) /\ Assigned(p)

Inv == AtMostOne(stored) /\ \A p \in stored : Sound(p)

(* The one element of a set that has at most one.                              *)
LEMMA OnlyIsTheOne ==
    ASSUME NEW S, NEW x \in S, AtMostOne(S)
    PROVE  Only(S) = x /\ S = {x}
BY DEF Only, AtMostOne

(* A payload that replaces the stored one leaves the store with one element.   *)
LEMMA OneStored ==
    ASSUME NEW p, Sound(p), stored' = {p}
    PROVE  Inv'
<1>1. AtMostOne(stored)' BY DEF AtMostOne
<1> QED BY <1>1 DEF Inv, Sound, Shaped, Owned, Covered, Assigned, HasAccess, AtMostOne

LEMMA AuthenticatedIsSound ==
    ASSUME NEW a \in Accounts, NEW t \in Tokens
    PROVE  Sound(Authenticated(a, t))
<1> DEFINE p == Authenticated(a, t)
<1>1. p \in Payload BY DEF Payload, Authenticated, Lives
<1>2. p.access = {} /\ p.session = {} /\ p.preStart = {} /\ p.of = p.account BY DEF Authenticated
<1> HIDE DEF p
<1>3. Sound(p) BY <1>1, <1>2 DEF Sound, Shaped, Owned, Covered, Assigned, AtMostOne
<1> QED BY <1>3 DEF p

LEMMA RefreshedIsSound ==
    ASSUME NEW p, Sound(p), NEW t \in Tokens
    PROVE  Sound(Refreshed(p, t, p.account))
<1> DEFINE n == Refreshed(p, t, p.account)
<1>1. p \in Payload BY DEF Sound, Shaped
<1>2. n \in Payload BY <1>1 DEF Payload, Refreshed, Lives
<1>3. /\ n.access = p.access /\ n.session = p.session /\ n.preStart = p.preStart
      /\ n.account = p.account /\ n.of = p.account
  BY <1>1 DEF Payload, Refreshed
<1> HIDE DEF n
<1>4. Sound(n) BY <1>2, <1>3 DEF Sound, Shaped, Owned, Covered, Assigned, HasAccess
<1> QED BY <1>4 DEF n

LEMMA AgedIsSound ==
    ASSUME NEW p, Sound(p), NEW life \in Lives
    PROVE  Sound([p EXCEPT !.life = life])
<1> DEFINE n == [p EXCEPT !.life = life]
<1>1. p \in Payload BY DEF Sound, Shaped
<1>2. n \in Payload BY <1>1 DEF Payload
<1>3. /\ n.access = p.access /\ n.session = p.session /\ n.preStart = p.preStart
      /\ n.account = p.account /\ n.of = p.of
  BY <1>1 DEF Payload
<1> HIDE DEF n
<1>4. Sound(n) BY <1>2, <1>3 DEF Sound, Shaped, Owned, Covered, Assigned, HasAccess
<1> QED BY <1>4 DEF n

(* Access to another assignment ends the session, unless it had none.          *)
LEMMA InvitedIsSound ==
    ASSUME NEW p, Sound(p), NEW g \in Grant, MayInvite(p, g)
    PROVE  Sound(Invited(p, g))
<1> DEFINE n == Invited(p, g)
<1>1. p \in Payload BY DEF Sound, Shaped
<1>2. /\ n.access = {g} /\ n.account = p.account /\ n.of = p.of
      /\ n.session = IF SameLineage(p, g) THEN p.session ELSE {}
      /\ n.preStart = {s \in p.preStart : s.route = g.route}
  BY <1>1 DEF Payload, Invited
<1>3. n \in Payload BY <1>1 DEF Payload, Invited
<1>4. n.session \subseteq p.session BY <1>2
<1> HIDE DEF n
<1>5. Shaped(n) BY <1>2, <1>3, <1>4 DEF Sound, Shaped, AtMostOne
<1>6. Covered(n) BY <1>2, <1>4 DEF Sound, Covered, HasAccess, MayInvite
<1>7. ASSUME NEW s \in n.session PROVE s.under = g.lineage \/ s.under = Legacy
  <2>1. s \in p.session /\ SameLineage(p, g) BY <1>2, <1>7
  <2>2. PICK h \in p.access : h.route = s.route BY <2>1 DEF Sound, Covered, HasAccess
  <2>3. s.under = h.lineage \/ s.under = Legacy BY <2>1, <2>2 DEF Sound, Assigned
  <2> QED BY <2>1, <2>2, <2>3 DEF SameLineage
<1>8. Sound(n) BY <1>2, <1>5, <1>6, <1>7 DEF Sound, Owned, Assigned
<1> QED BY <1>8 DEF n

LEMMA SessionSavedIsSound ==
    ASSUME NEW p, Sound(p), NEW r \in Routes, NEW i \in Instants, HasAccess(p, r)
    PROVE  Sound(SessionSaved(p, r, i))
<1> DEFINE kept == {s \in p.session : s.route = r}
           fresh == [route |-> r, started |-> i, under |-> Only(p.access).lineage,
                     recorded |-> FALSE, status |-> "active"]
           now == IF kept = {} THEN fresh ELSE [Only(kept) EXCEPT !.status = "active"]
           n == SessionSaved(p, r, i)
<1>1. p \in Payload /\ AtMostOne(p.access) /\ AtMostOne(p.session) BY DEF Sound, Shaped
<1>2. PICK g \in p.access : g.route = r BY DEF HasAccess
<1>3. Only(p.access) = g /\ p.access = {g} BY <1>1, <1>2, OnlyIsTheOne
<1>4. g \in Grant BY <1>1, <1>2 DEF Payload
<1>5. now \in Session /\ now.route = r /\ (now.under = g.lineage \/ now.under = Legacy)
  <2>1. CASE kept = {} BY <2>1, <1>3, <1>4 DEF Session, Grant
  <2>2. CASE kept # {}
    <3>1. PICK s \in p.session : s.route = r BY <2>2
    <3>2. s \in kept /\ AtMostOne(kept) BY <3>1, <1>1 DEF AtMostOne
    <3>3. Only(kept) = s BY <3>2, OnlyIsTheOne
    <3>4. s \in Session BY <1>1, <3>1 DEF Payload
    <3>5. now = [s EXCEPT !.status = "active"] BY <2>2, <3>3
    <3>6. s.under = g.lineage \/ s.under = Legacy BY <1>2, <3>1 DEF Sound, Assigned
    <3> QED BY <3>1, <3>4, <3>5, <3>6 DEF Session
  <2> QED BY <2>1, <2>2
<1>6. n = [p EXCEPT !.preStart = {}, !.session = {now}] BY DEF SessionSaved
<1> HIDE DEF n, now
<1>7. /\ n.access = p.access /\ n.account = p.account /\ n.of = p.of
      /\ n.session = {now} /\ n.preStart = {} /\ n \in Payload
  BY <1>1, <1>5, <1>6 DEF Payload
<1>8. Shaped(n) BY <1>1, <1>7 DEF Shaped, AtMostOne
<1>9. Covered(n) /\ Assigned(n) BY <1>2, <1>3, <1>5, <1>7 DEF Covered, Assigned, HasAccess
<1>10. Sound(n) BY <1>7, <1>8, <1>9 DEF Sound, Owned
<1> QED BY <1>10 DEF n

(* Sessions of the same route and assignment may stand for those of a payload. *)
LEMMA ReplacedIsSound ==
    ASSUME NEW p, Sound(p), NEW N \in SUBSET Session, AtMostOne(N), p.session = {} => N = {},
           \A x \in N : \E s \in p.session : x.route = s.route /\ x.under = s.under
    PROVE  Sound([p EXCEPT !.session = N])
<1> DEFINE n == [p EXCEPT !.session = N]
<1>1. p \in Payload BY DEF Sound, Shaped
<1>2. /\ n.access = p.access /\ n.account = p.account /\ n.of = p.of
      /\ n.session = N /\ n.preStart = p.preStart /\ n \in Payload
  BY <1>1 DEF Payload
<1> HIDE DEF n
<1>3. Shaped(n) BY <1>2 DEF Sound, Shaped
<1>4. Covered(n)
  <2>1. ASSUME NEW w \in n.session PROVE HasAccess(n, w.route)
    <3>1. PICK s \in p.session : w.route = s.route BY <1>2
    <3> QED BY <1>2, <3>1 DEF Sound, Covered, HasAccess
  <2>2. ASSUME NEW w \in n.preStart PROVE n.session = {} /\ HasAccess(n, w.route)
    BY <1>2 DEF Sound, Covered, HasAccess
  <2> QED BY <2>1, <2>2 DEF Covered
<1>5. ASSUME NEW x \in n.session, NEW g \in n.access
      PROVE  x.under = g.lineage \/ x.under = Legacy
  <2>1. PICK s \in p.session : x.under = s.under BY <1>2
  <2> QED BY <1>2, <2>1 DEF Sound, Assigned
<1>6. Sound(n) BY <1>2, <1>3, <1>4, <1>5 DEF Sound, Owned, Assigned
<1> QED BY <1>6 DEF n

(* Marking changes neither the route nor the assignment of a session.          *)
LEMMA MarkedIsSound ==
    ASSUME NEW p, Sound(p)
    PROVE  Sound(StartMarked(p)) /\ Sound(CompletionMarked(p))
<1>1. p.session \subseteq Session /\ AtMostOne(p.session) BY DEF Sound, Shaped, Payload
<1>2. Sound(StartMarked(p))
  <2> DEFINE N == {[s EXCEPT !.recorded = TRUE] : s \in p.session}
  <2>1. N \in SUBSET Session BY <1>1 DEF Session
  <2>2. \A x \in N : \E s \in p.session : x.route = s.route /\ x.under = s.under
    BY <1>1 DEF Session
  <2>3. AtMostOne(N) /\ (p.session = {} => N = {}) BY <1>1 DEF AtMostOne
  <2>4. StartMarked(p) = [p EXCEPT !.session = N] BY DEF StartMarked
  <2> HIDE DEF N
  <2> QED BY <2>1, <2>2, <2>3, <2>4, ReplacedIsSound
<1>3. Sound(CompletionMarked(p))
  <2> DEFINE N == {[s EXCEPT !.status = "completion_pending"] : s \in p.session}
  <2>1. N \in SUBSET Session BY <1>1 DEF Session
  <2>2. \A x \in N : \E s \in p.session : x.route = s.route /\ x.under = s.under
    BY <1>1 DEF Session
  <2>3. AtMostOne(N) /\ (p.session = {} => N = {}) BY <1>1 DEF AtMostOne
  <2>4. CompletionMarked(p) = [p EXCEPT !.session = N] BY DEF CompletionMarked
  <2> HIDE DEF N
  <2> QED BY <2>1, <2>2, <2>3, <2>4, ReplacedIsSound
<1> QED BY <1>2, <1>3

LEMMA TrackingSavedIsSound ==
    ASSUME NEW p, Sound(p), NEW r \in Routes, NEW i \in Instants, MayTrack(p, r)
    PROVE  Sound(TrackingSaved(p, r, i))
<1>1. p \in Payload BY DEF Sound, Shaped
<1>2. CASE \E s \in p.preStart : s.route = r BY <1>2 DEF TrackingSaved
<1>3. CASE ~\E s \in p.preStart : s.route = r
  <2> DEFINE x == [route |-> r, started |-> i]
             n == [p EXCEPT !.preStart = {x}]
  <2>1. x \in Tracking /\ x.route = r BY DEF Tracking
  <2>2. /\ n.access = p.access /\ n.account = p.account /\ n.of = p.of
        /\ n.session = p.session /\ n.preStart = {x} /\ n \in Payload
    BY <1>1, <2>1 DEF Payload
  <2>3. TrackingSaved(p, r, i) = n BY <1>3 DEF TrackingSaved
  <2> HIDE DEF n, x
  <2>4. Shaped(n) BY <2>2 DEF Sound, Shaped, AtMostOne
  <2>5. Covered(n) /\ Assigned(n) BY <2>1, <2>2 DEF MayTrack, Covered, Assigned, HasAccess
  <2> QED BY <2>2, <2>3, <2>4, <2>5 DEF Sound, Owned
<1> QED BY <1>2, <1>3

LEMMA ClearedIsSound ==
    ASSUME NEW p, Sound(p)
    PROVE  /\ Sound(SessionCleared(p)) /\ Sound(AccessDropped(p))
           /\ \A r \in Routes : Sound(TrackingCleared(p, r))
<1>1. p \in Payload BY DEF Sound, Shaped
<1>2. Sound(SessionCleared(p))
  <2> DEFINE n == SessionCleared(p)
  <2>1. /\ n \in Payload /\ n.account = p.account /\ n.of = p.of /\ n.session = {}
        /\ n.preStart = p.preStart /\ n.access = p.access
    BY <1>1 DEF Payload, SessionCleared
  <2> HIDE DEF n
  <2>2. Sound(n)
    BY <2>1 DEF Sound, Shaped, Owned, Covered, Assigned, HasAccess, AtMostOne
  <2> QED BY <2>2 DEF n
<1>3. Sound(AccessDropped(p))
  <2> DEFINE n == AccessDropped(p)
  <2>1. /\ n \in Payload /\ n.account = p.account /\ n.of = p.of /\ n.session = {}
        /\ n.preStart = {} /\ n.access = {}
    BY <1>1 DEF Payload, AccessDropped
  <2> HIDE DEF n
  <2>2. Sound(n)
    BY <2>1 DEF Sound, Shaped, Owned, Covered, Assigned, HasAccess, AtMostOne
  <2> QED BY <2>2 DEF n
<1>4. ASSUME NEW r \in Routes PROVE Sound(TrackingCleared(p, r))
  <2> DEFINE n == TrackingCleared(p, r)
  <2>1. /\ n \in Payload /\ n.account = p.account /\ n.of = p.of /\ n.session = p.session
        /\ n.preStart \subseteq p.preStart /\ n.access = p.access
    BY <1>1 DEF Payload, TrackingCleared
  <2> HIDE DEF n
  <2>2. Sound(n)
    BY <2>1 DEF Sound, Shaped, Owned, Covered, Assigned, HasAccess, AtMostOne
  <2> QED BY <2>2 DEF n
<1> QED BY <1>2, <1>3, <1>4

LEMMA InvInitially == Init => Inv
BY DEF Init, Inv, AtMostOne

LEMMA InvPreserved == Inv /\ [Next]_stored => Inv'
<1> SUFFICES ASSUME Inv, [Next]_stored PROVE Inv'
    OBVIOUS
<1> USE DEF Inv
<1>1. CASE SaveAuthenticatedDriver
  BY <1>1, AuthenticatedIsSound, OneStored DEF SaveAuthenticatedDriver
<1>2. CASE Clear BY <1>2 DEF Clear, AtMostOne
<1>3. CASE Expires BY <1>3, AgedIsSound, OneStored DEF Expires, Lives
<1>4. CASE SaveRefreshedAccountAccess
  BY <1>4, RefreshedIsSound, OneStored DEF SaveRefreshedAccountAccess, IsExpected
<1>5. CASE SaveFromInvitedRouteAccess
  BY <1>5, InvitedIsSound, OneStored DEF SaveFromInvitedRouteAccess
<1>6. CASE SaveActiveRouteSession
  BY <1>6, SessionSavedIsSound, OneStored DEF SaveActiveRouteSession
<1>7. CASE MarkActiveRouteStarted
  BY <1>7, MarkedIsSound, OneStored DEF MarkActiveRouteStarted
<1>8. CASE MarkActiveRouteCompletionPending
  BY <1>8, MarkedIsSound, OneStored DEF MarkActiveRouteCompletionPending
<1>9. CASE ClearActiveRouteSession
  BY <1>9, ClearedIsSound, OneStored DEF ClearActiveRouteSession
<1>10. CASE SavePreStartTracking
  BY <1>10, TrackingSavedIsSound, OneStored DEF SavePreStartTracking
<1>11. CASE ClearPreStartTracking
  BY <1>11, ClearedIsSound, OneStored DEF ClearPreStartTracking
<1>12. CASE ClearCachedRouteAccess
  BY <1>12, ClearedIsSound, OneStored DEF ClearCachedRouteAccess
<1>13. CASE UNCHANGED stored
  BY <1>13 DEF AtMostOne, Sound, Shaped, Owned, Covered, Assigned, HasAccess
<1> QED
  BY <1>1, <1>2, <1>3, <1>4, <1>5, <1>6, <1>7, <1>8, <1>9, <1>10, <1>11, <1>12, <1>13 DEF Next

(* Every payload that can be stored is sound.                                  *)
THEOREM StoredIsSound == Spec => []Inv
<1>1. Init => Inv BY InvInitially
<1>2. Inv /\ [Next]_stored => Inv' BY InvPreserved
<1> QED BY <1>1, <1>2, PTL DEF Spec

(* One payload at most, and at most one of everything it keeps.                *)
THEOREM StoreIsTyped == Spec => []StoreTypeOK
<1>1. Inv => StoreTypeOK BY DEF Inv, Sound, Shaped, StoreTypeOK
<1> QED BY <1>1, StoredIsSound, PTL

(* A late answer to a refresh never gives one account the tokens of another.   *)
THEOREM TokensAreTheAccounts == Spec => []TokensFollowAccount
<1>1. Inv => TokensFollowAccount BY DEF Inv, Sound, Owned, TokensFollowAccount
<1> QED BY <1>1, StoredIsSound, PTL

(* Sessions and trackings are of the route whose access is stored.             *)
THEOREM WorkIsCovered == Spec => []WorkHasItsAccess
<1>1. Inv => WorkHasItsAccess BY DEF Inv, Sound, Covered, WorkHasItsAccess
<1> QED BY <1>1, StoredIsSound, PTL

(* No session survives the end of the assignment it began with.                *)
THEOREM SessionEndsWithItsAssignment == Spec => []SessionUnderItsAssignment
<1>1. Inv => SessionUnderItsAssignment BY DEF Inv, Sound, Assigned, SessionUnderItsAssignment
<1> QED BY <1>1, StoredIsSound, PTL

-----------------------------------------------------------------------------
(* Then its callers.                                                           *)

(* One payload at most, and it is sound.                                      *)
LEMMA AsOne ==
    ASSUME Inv
    PROVE  stored = {} \/ \E p \in stored : stored = {p} /\ Sound(p) /\ p \in Payload
<1>1. CASE stored = {} BY <1>1
<1>2. CASE stored # {}
  <2>1. PICK p \in stored : TRUE BY <1>2
  <2>2. stored = {p} BY <2>1 DEF Inv, AtMostOne
  <2>3. Sound(p) BY <2>1 DEF Inv
  <2> QED BY <2>2, <2>3 DEF Sound, Shaped
<1> QED BY <1>1, <1>2

-----------------------------------------------------------------------------
(* Each way in which a caller changes the stored payload is a method of the    *)
(* store, or changes nothing.                                                  *)
StoreSteps == Next \/ UNCHANGED stored

LEMMA ReadingSteps ==
    ASSUME Inv, stored' = SignedIn
    PROVE  StoreSteps
<1>1. CASE stored = {} BY <1>1 DEF SignedIn, StoreSteps
<1>2. ASSUME NEW p \in stored, stored = {p} PROVE StoreSteps
  BY <1>2 DEF SignedIn, StoreSteps, Next, Clear
<1> QED BY <1>1, <1>2, AsOne

LEMMA DeletingSteps == ASSUME stored' = {} PROVE StoreSteps
  BY DEF StoreSteps, Next, Clear

LEMMA ClearingSteps ==
    ASSUME Inv, stored' = {SessionCleared(p) : p \in stored}
    PROVE  StoreSteps
<1>1. CASE stored = {} BY <1>1 DEF StoreSteps
<1>2. ASSUME NEW p \in stored, stored = {p} PROVE StoreSteps
  BY <1>2 DEF StoreSteps, Next, ClearActiveRouteSession
<1> QED BY <1>1, <1>2, AsOne

LEMMA DroppingSteps ==
    ASSUME Inv, stored' = {AccessDropped(p) : p \in stored}
    PROVE  StoreSteps
<1>1. CASE stored = {} BY <1>1 DEF StoreSteps
<1>2. ASSUME NEW p \in stored, stored = {p} PROVE StoreSteps
  BY <1>2 DEF StoreSteps, Next, ClearCachedRouteAccess
<1> QED BY <1>1, <1>2, AsOne

LEMMA DroppingSomeSteps ==
    ASSUME Inv, NEW all, NEW r,
           stored' = {IF all \/ MayDropAccess(p, r) THEN AccessDropped(p) ELSE p : p \in stored}
    PROVE  StoreSteps
<1>1. CASE stored = {} BY <1>1 DEF StoreSteps
<1>2. ASSUME NEW p \in stored, stored = {p} PROVE StoreSteps
  BY <1>2 DEF StoreSteps, Next, ClearCachedRouteAccess
<1> QED BY <1>1, <1>2, AsOne

LEMMA UntrackingSteps ==
    ASSUME Inv, NEW r, stored' = {TrackingCleared(p, r) : p \in stored}
    PROVE  StoreSteps
<1>1. CASE stored = {} BY <1>1 DEF StoreSteps
<1>2. ASSUME NEW p \in stored, stored = {p}, p \in Payload PROVE StoreSteps
  <2>1. CASE r \in Routes BY <1>2, <2>1 DEF StoreSteps, Next, ClearPreStartTracking
  <2>2. CASE r \notin Routes
    <3>1. p.preStart \subseteq Tracking BY <1>2 DEF Payload
    <3>2. {s \in p.preStart : s.route # r} = p.preStart BY <2>2, <3>1 DEF Tracking
    <3>3. TrackingCleared(p, r) = p BY <1>2, <3>2 DEF TrackingCleared, Payload
    <3> QED BY <1>2, <3>3 DEF StoreSteps
  <2> QED BY <2>1, <2>2
<1> QED BY <1>1, <1>2, AsOne

LEMMA InvitingSteps ==
    ASSUME Inv, NEW g \in Grant, stored' = {IF MayInvite(p, g) THEN Invited(p, g) ELSE p : p \in stored}
    PROVE  StoreSteps
<1>1. CASE stored = {} BY <1>1 DEF StoreSteps
<1>2. ASSUME NEW p \in stored, stored = {p} PROVE StoreSteps
  BY <1>2 DEF StoreSteps, Next, SaveFromInvitedRouteAccess
<1> QED BY <1>1, <1>2, AsOne

LEMMA RefreshingSteps ==
    ASSUME Inv, NEW read, read.of = read.account, CanIssue,
           stored' = {Renewed(x, read) : x \in {y \in stored : IsExpected(y, read.account, read.token)}},
           {y \in stored : IsExpected(y, read.account, read.token)} # {}
    PROVE  StoreSteps
<1>1. NewToken \in Tokens BY DEF CanIssue, NewToken
<1>2. ASSUME NEW p \in stored, stored = {p}, p \in Payload PROVE StoreSteps
  <2>1. IsExpected(p, read.account, read.token) BY <1>2
  <2>2. stored' = {Renewed(p, read)} BY <1>2, <2>1
  <2>3. p.account \in Accounts /\ p.token \in Tokens BY <1>2 DEF Payload
  <2>4. IsExpected(p, p.account, p.token) BY DEF IsExpected
  <2>5. stored' = {Refreshed(p, NewToken, p.account)} BY <2>1, <2>2 DEF IsExpected, Renewed
  <2> QED BY <1>1, <2>3, <2>4, <2>5 DEF StoreSteps, Next, SaveRefreshedAccountAccess
<1> QED BY <1>2, AsOne

LEMMA MarkingSteps ==
    ASSUME Inv, NEW r, NEW i,
           stored' = {IF IsSession(p, r, i) THEN StartMarked(p) ELSE p : p \in stored}
    PROVE  StoreSteps
<1>1. CASE stored = {} BY <1>1 DEF StoreSteps
<1>2. ASSUME NEW p \in stored, stored = {p}, p \in Payload PROVE StoreSteps
  <2>1. CASE IsSession(p, r, i)
    <3>1. r \in Routes /\ i \in Instants BY <1>2, <2>1 DEF IsSession, Payload, Session
    <3> QED BY <1>2, <2>1, <3>1 DEF StoreSteps, Next, MarkActiveRouteStarted
  <2>2. CASE ~IsSession(p, r, i) BY <1>2, <2>2 DEF StoreSteps
  <2> QED BY <2>1, <2>2
<1> QED BY <1>1, <1>2, AsOne

LEMMA PendingSteps ==
    ASSUME Inv, NEW r, NEW q \in stored, HasSession(q, r), stored' = {CompletionMarked(p) : p \in stored}
    PROVE  StoreSteps
<1>2. ASSUME NEW p \in stored, stored = {p}, p \in Payload PROVE StoreSteps
  <2>1. HasSession(p, r) BY <1>2
  <2>2. r \in Routes BY <1>2, <2>1 DEF HasSession, Payload, Session
  <2> QED BY <1>2, <2>1, <2>2 DEF StoreSteps, Next, MarkActiveRouteCompletionPending
<1> QED BY <1>2, AsOne

(* A session that is there already keeps its instant, whatever is given.       *)
LEMMA SavingSteps ==
    ASSUME Inv, NEW r, NEW i, NEW q \in stored, HasAccess(q, r), i \in Instants \/ HasSession(q, r),
           stored' = {SessionSaved(p, r, i) : p \in stored}
    PROVE  StoreSteps
<1>2. ASSUME NEW p \in stored, stored = {p}, p \in Payload PROVE StoreSteps
  <2>1. HasAccess(p, r) /\ (i \in Instants \/ HasSession(p, r)) BY <1>2
  <2>2. r \in Routes BY <1>2, <2>1 DEF HasAccess, Payload, Grant
  <2>3. CASE i \in Instants
    BY <1>2, <2>1, <2>2, <2>3 DEF StoreSteps, Next, SaveActiveRouteSession
  <2>4. CASE HasSession(p, r)
    <3>1. PICK s \in p.session : s.route = r BY <2>4 DEF HasSession
    <3>2. s.started \in Instants BY <1>2, <3>1 DEF Payload, Session
    <3>3. SessionSaved(p, r, i) = SessionSaved(p, r, s.started)
      <4>1. {x \in p.session : x.route = r} # {} BY <3>1
      <4> QED BY <4>1 DEF SessionSaved
    <3> QED BY <1>2, <2>1, <2>2, <3>2, <3>3 DEF StoreSteps, Next, SaveActiveRouteSession
  <2> QED BY <2>1, <2>3, <2>4
<1> QED BY <1>2, AsOne

LEMMA AgingSteps ==
    ASSUME Inv, stored' \in {stored, {IF p.life = "active" THEN [p EXCEPT !.life = "refresh_required"]
                                      ELSE p : p \in stored}}
    PROVE  StoreSteps
<1>1. CASE stored = {} BY <1>1 DEF StoreSteps
<1>2. ASSUME NEW p \in stored, stored = {p} PROVE StoreSteps
  BY <1>2 DEF StoreSteps, Next, Expires
<1> QED BY <1>1, <1>2, AsOne

-----------------------------------------------------------------------------
(* What the callers carry from one step to the next, as far as it comes back   *)
(* to the store: a payload that was read has tokens of its own account, and    *)
(* what is to be saved is an access the server can grant.                      *)
LoadStages == {"receipt", "lookup", "cleaning", "nothing", "found", "compared", "save", "restore",
               "adopt", "preStart", "reload", "adopting", "tracking", "blocked", "pickup", "track", "mark"}
Loading(w) ==
    /\ DOMAIN w = {"at", "account", "of", "session", "lineage", "choices", "running"}
    /\ w.choices \subseteq Grant /\ w.session \subseteq Session
Tasking(w) ==
    /\ w.at \in {"start", "mark", "post"} => "read" \notin DOMAIN w /\ "found" \notin DOMAIN w
    /\ w.at \in {"refresh", "lookup"} => "read" \in DOMAIN w /\ "found" \notin DOMAIN w
    /\ w.at = "save" => w.found \subseteq Grant

Carries(c, w) ==
    /\ "at" \in DOMAIN w
    /\ c \in {"check", "load", "renew", "batch"} /\ w.at = "refresh"
       => w.read \in Payload /\ w.read.of = w.read.account
    /\ c = "load" /\ w.at \in LoadStages => Loading(w)
    /\ c = "renew" /\ w.at = "save" => w.found \subseteq Grant
    /\ c = "batch" => Tasking(w)

CallsCarry == DOMAIN call = Callers /\ \A c \in Callers : Carries(c, call[c])

ServerOK ==
    server \in [Routes -> [holder : Accounts, lineage : Lineages, phase : {"ready", "started", "over"}]]

SessionInv == Inv /\ CallsCarry /\ ServerOK /\ offered \subseteq Grant

(* What a step has to show.                                                    *)
Kept == StoreSteps /\ CallsCarry' /\ ServerOK' /\ (offered \subseteq Grant)'

LEMMA IdleCarries == ASSUME NEW c PROVE Carries(c, Idle)
BY DEF Carries, Idle, LoadStages, Tasking

LEMMA GoingCarries ==
    ASSUME CallsCarry, NEW c \in Callers, NEW w, Carries(c, w), Goes(c, w)
    PROVE  CallsCarry'
<1>1. DOMAIN call' = Callers /\ call'[c] = w /\ \A d \in Callers \ {c} : call'[d] = call[d]
  BY DEF CallsCarry, Goes
<1> QED BY <1>1 DEF CallsCarry

LEMMA IdlingCarries ==
    ASSUME CallsCarry, NEW c \in Callers, Goes(c, Idle)
    PROVE  CallsCarry'
BY IdleCarries, GoingCarries

LEMMA RestingCarries == ASSUME CallsCarry, UNCHANGED call PROVE CallsCarry'
BY DEF CallsCarry

LEMMA MovingCarries ==
    ASSUME CallsCarry, NEW c \in Callers, NEW s, Moves(c, s), s # "refresh",
           c = "load" => call[c].at \in LoadStages,
           c = "renew" => s # "save",
           c = "batch" => \/ s \notin {"start", "mark", "post", "lookup", "save"}
                          \/ call[c].at \in {"start", "mark", "post"} /\ s \in {"mark", "post"}
                          \/ call[c].at = "refresh" /\ s = "lookup"
    PROVE  CallsCarry'
<1> DEFINE w == call[c]
           n == [w EXCEPT !.at = s]
<1>1. Carries(c, w) BY DEF CallsCarry
<1>2. DOMAIN n = DOMAIN w /\ n.at = s /\ \A f \in DOMAIN w \ {"at"} : n[f] = w[f]
  BY <1>1 DEF Carries
<1>3. Goes(c, n) BY DEF Moves, Goes
<1> HIDE DEF n
<1>4. c = "load" /\ n.at \in LoadStages => Loading(n)
  BY <1>1, <1>2 DEF Carries, Loading
<1>5. c = "batch" => Tasking(n)
  BY <1>1, <1>2 DEF Carries, Tasking
<1>6. Carries(c, n) BY <1>1, <1>2, <1>4, <1>5 DEF Carries
<1> QED BY <1>3, <1>6, GoingCarries

(* What the server answers is something it can grant.                          *)
LEMMA AnswersAreGrants == ASSUME ServerOK, NEW a PROVE Answer(a) \subseteq Grant
BY DEF Answer, GrantOf, Grant, ServerOK

LEMMA LoadCarries ==
    ASSUME NEW w, Loading(w), w.at # "refresh"
    PROVE  Carries("load", w)
BY DEF Carries, Loading

LEMMA LoadOfCarries ==
    ASSUME NEW p \in Payload, NEW a
    PROVE  Carries("load", LoadOf(p, a, p.session)) /\ Carries("load", LoadOf(p, a, {}))
<1>1. p.session \subseteq Session BY DEF Payload
<1>2. Loading(LoadOf(p, a, p.session)) /\ Loading(LoadOf(p, a, {}))
  BY <1>1 DEF LoadOf, Loading
<1>3. LoadOf(p, a, p.session).at # "refresh" /\ LoadOf(p, a, {}).at # "refresh"
  BY DEF LoadOf
<1> QED BY <1>2, <1>3, LoadCarries

LEMMA LoadsCarries ==
    ASSUME CallsCarry, NEW w, Carries("load", w), Loads(w)
    PROVE  CallsCarry'
<1>1. /\ DOMAIN call' = Callers /\ call'["load"] = w /\ call'["check"] = Idle /\ call'["cleanup"] = Idle
      /\ \A d \in Callers \ {"load", "check", "cleanup"} : call'[d] = call[d]
  BY DEF CallsCarry, Loads, Callers
<1>2. \A d \in Callers : Carries(d, call'[d])
  BY <1>1, IdleCarries DEF CallsCarry
<1> QED BY <1>1, <1>2 DEF CallsCarry

LEMMA SessionInitially == SessionInit => SessionInv
<1> SUFFICES ASSUME SessionInit PROVE SessionInv OBVIOUS
<1>1. Inv BY DEF SessionInit, Inv, AtMostOne
<1>2. CallsCarry BY IdleCarries DEF SessionInit, CallsCarry
<1>3. ServerOK BY DEF SessionInit, ServerOK, Lineages
<1>4. offered \subseteq Grant BY DEF SessionInit
<1> QED BY <1>1, <1>2, <1>3, <1>4 DEF SessionInv

(* A payload the store holds is of the account its tokens were issued to.      *)
LEMMA SignedInIsSound ==
    ASSUME Inv, NEW p \in SignedIn
    PROVE  p \in stored /\ p \in Payload /\ p.of = p.account /\ stored = {p}
<1>1. p \in stored BY DEF SignedIn
<1> QED BY <1>1, AsOne DEF Sound, Owned

-----------------------------------------------------------------------------
(* Step by step.                                                               *)
LEMMA KeptPlainly ==
    ASSUME SessionInv, StoreSteps, UNCHANGED <<server, offered>>, CallsCarry'
    PROVE  Kept
BY DEF SessionInv, Kept, ServerOK

LEMMA ServiceKeeps == ASSUME SessionInv, ServiceNext PROVE Kept
<1> USE DEF SessionInv
<1>1. CASE RunStart
  <2>1. UNCHANGED <<stored, server, offered, call>> BY <1>1 DEF RunStart, ui, world
  <2> QED BY <2>1, KeptPlainly, RestingCarries DEF StoreSteps
<1>2. CASE RunStop
  <2>1. UNCHANGED <<stored, server, offered, call>> BY <1>2 DEF RunStop, ui, world
  <2> QED BY <2>1, KeptPlainly, RestingCarries DEF StoreSteps
<1>3. CASE RunCheck
  <2>1. UNCHANGED <<server, offered>> /\ StoreSteps BY <1>3, ReadingSteps DEF RunCheck, ui, world
  <2>2. Goes("cleanup", Idle) \/ UNCHANGED call BY <1>3 DEF RunCheck
  <2>3. CallsCarry' BY <2>2, IdlingCarries, RestingCarries DEF Callers
  <2> QED BY <2>1, <2>3, KeptPlainly
<1>4. CASE RunCheckedStop
  <2>1. UNCHANGED <<server, offered, stored>> BY <1>4 DEF RunCheckedStop, world
  <2>2. Goes("cleanup", Idle) \/ UNCHANGED call BY <1>4 DEF RunCheckedStop
  <2>3. CallsCarry' BY <2>2, IdlingCarries, RestingCarries DEF Callers
  <2> QED BY <2>1, <2>3, KeptPlainly DEF StoreSteps
<1> QED BY <1>1, <1>2, <1>3, <1>4 DEF ServiceNext

(* A route end confirmed leaves the server's holder and assignment alone.      *)
LEMMA ConfirmedIsTyped == ASSUME ServerOK, NEW e, server' = Confirmed(e) PROVE ServerOK'
BY DEF ServerOK, Confirmed

LEMMA StartedIsTyped ==
    ASSUME ServerOK, NEW r, server' = [server EXCEPT ![r].phase = "started"] PROVE ServerOK'
BY DEF ServerOK

LEMMA CleanupKeeps == ASSUME SessionInv, CleanupNext PROVE Kept
<1> USE DEF SessionInv
<1>1. CASE PassBegins
  <2>1. UNCHANGED <<server, offered>> /\ StoreSteps BY <1>1, ReadingSteps DEF PassBegins, ui, world
  <2>2. PICK e \in owed :
          LET leases == PassLease(e.route)
          IN  Goes("cleanup", IF leases # {} THEN Only(leases)
                              ELSE [at |-> "sending", route |-> e.route, started |-> 0])
    BY <1>1 DEF PassBegins
  <2>3. ASSUME PassLease(e.route) # {} PROVE "at" \in DOMAIN Only(PassLease(e.route))
    <3>1. \A w \in PassLease(e.route) : "at" \in DOMAIN w
      <4> SUFFICES ASSUME NEW w \in PassLease(e.route) PROVE "at" \in DOMAIN w OBVIOUS
      <4>1. PICK p \in SignedIn : \E s \in {x \in p.session : x.route = e.route}, g \in p.access \cap offered :
              w = [at |-> "sending", route |-> e.route, lineage |-> g.lineage, started |-> s.started]
        BY DEF PassLease
      <4> QED BY <4>1
    <3>2. Only(PassLease(e.route)) \in PassLease(e.route) BY <2>3 DEF Only
    <3> QED BY <3>1, <3>2
  <2>4. \A w : "at" \in DOMAIN w => Carries("cleanup", w) BY DEF Carries
  <2>5. CASE PassLease(e.route) # {}
    <3>1. Goes("cleanup", Only(PassLease(e.route))) BY <2>2, <2>5
    <3>2. CallsCarry' BY <2>3, <2>4, <2>5, <3>1, GoingCarries DEF Callers
    <3> QED BY <2>1, <3>2, KeptPlainly
  <2>6. CASE PassLease(e.route) = {}
    <3> DEFINE w == [at |-> "sending", route |-> e.route, started |-> 0]
    <3>1. Goes("cleanup", w) BY <2>2, <2>6
    <3>2. "at" \in DOMAIN w OBVIOUS
    <3> HIDE DEF w
    <3>3. CallsCarry' BY <2>4, <3>1, <3>2, GoingCarries DEF Callers
    <3> QED BY <2>1, <3>3, KeptPlainly
  <2> QED BY <2>5, <2>6
<1>2. CASE PassConfirms
  <2>1. UNCHANGED <<stored, offered>> BY <1>2 DEF PassConfirms, ui
  <2>2. ServerOK' BY <1>2, ConfirmedIsTyped DEF PassConfirms
  <2>3. Goes("cleanup", Idle) \/ Moves("cleanup", "check") BY <1>2 DEF PassConfirms
  <2>4. CallsCarry' BY <2>3, IdlingCarries, MovingCarries DEF Callers
  <2> QED BY <2>1, <2>2, <2>4 DEF Kept, StoreSteps
<1>3. CASE CleanupChecks
  <2>1. UNCHANGED <<server, offered>> /\ StoreSteps BY <1>3, ReadingSteps DEF CleanupChecks, ui, world
  <2>2. Goes("cleanup", Idle) \/ Moves("cleanup", "clear") BY <1>3 DEF CleanupChecks
  <2>3. CallsCarry' BY <2>2, IdlingCarries, MovingCarries DEF Callers
  <2> QED BY <2>1, <2>3, KeptPlainly
<1>4. CASE CleanupClears
  <2>1. UNCHANGED <<server, offered>> BY <1>4 DEF CleanupClears, ui, world
  <2>2. StoreSteps BY <1>4, ClearingSteps DEF CleanupClears, StoreSteps
  <2>3. Goes("cleanup", Idle) \/ Moves("cleanup", "stop") BY <1>4 DEF CleanupClears
  <2>4. CallsCarry' BY <2>3, IdlingCarries, MovingCarries DEF Callers
  <2> QED BY <2>1, <2>2, <2>4, KeptPlainly
<1> QED BY <1>1, <1>2, <1>3, <1>4 DEF CleanupNext

(* Refreshing what was read and stored, and loading from it.                   *)
LEMMA ReadTokensAreItsOwn ==
    ASSUME SessionInv, NEW c \in {"check", "load", "renew", "batch"}, call[c].at = "refresh"
    PROVE  call[c].read \in Payload /\ call[c].read.of = call[c].read.account
BY DEF SessionInv, CallsCarry, Carries, Callers

LEMMA ReadingCarries ==
    ASSUME Inv, NEW p \in SignedIn, NEW c \in {"check", "load"}
    PROVE  Carries(c, [at |-> "refresh", read |-> p])
<1>1. p \in Payload /\ p.of = p.account BY SignedInIsSound
<1> DEFINE w == [at |-> "refresh", read |-> p]
<1>2. "at" \in DOMAIN w /\ w.at = "refresh" /\ w.read = p OBVIOUS
<1> HIDE DEF w
<1>3. Carries(c, w) BY <1>1, <1>2 DEF Carries, LoadStages
<1> QED BY <1>3 DEF w

LEMMA AccountKeeps == ASSUME SessionInv, AccountNext PROVE Kept
<1> USE DEF SessionInv
<1>1. CASE SignIn
  <2>1. PICK a \in Accounts :
          stored' = {Authenticated(a, NewToken)} /\ Loads(LoadOf(Authenticated(a, NewToken), a, {}))
    BY <1>1 DEF SignIn
  <2>2. NewToken \in Tokens BY <1>1 DEF SignIn, CanIssue, NewToken
  <2>3. StoreSteps BY <2>1, <2>2 DEF StoreSteps, Next, SaveAuthenticatedDriver
  <2>4. Authenticated(a, NewToken) \in Payload BY <2>2, AuthenticatedIsSound DEF Sound, Shaped
  <2>5. CallsCarry' BY <2>1, <2>4, LoadOfCarries, LoadsCarries
  <2>6. server' = server /\ offered' = {} BY <1>1 DEF SignIn
  <2> QED BY <2>3, <2>5, <2>6 DEF Kept, ServerOK
<1>2. CASE LogoutBegins
  <2>1. UNCHANGED <<server, offered>> /\ StoreSteps BY <1>2, ReadingSteps DEF LogoutBegins, ui
  <2> DEFINE begun1 == [at |-> "clear"]
  <2>2. /\ DOMAIN call' = Callers /\ call'["logout"] = begun1 /\ call'["load"] = Idle /\ call'["cleanup"] = Idle
        /\ call'["flow"] \in {Idle, call["flow"]}
        /\ \A d \in Callers \ {"logout", "load", "cleanup", "flow"} : call'[d] = call[d]
    BY <1>2 DEF LogoutBegins, CallsCarry, Callers
  <2>3. Carries("logout", begun1) BY DEF Carries
  <2>4. \A d \in Callers : Carries(d, call'[d]) BY <2>2, <2>3, IdleCarries DEF CallsCarry
  <2>5. CallsCarry' BY <2>2, <2>4 DEF CallsCarry
  <2> QED BY <2>1, <2>5, KeptPlainly
<1>3. CASE LogoutClears
  <2>1. UNCHANGED <<server, offered>> BY <1>3 DEF LogoutClears, ui, world
  <2>2. StoreSteps BY <1>3, ClearingSteps DEF LogoutClears, ClearsAndStopsAny
  <2>3. CallsCarry' BY <1>3, MovingCarries DEF LogoutClears, Callers
  <2> QED BY <2>1, <2>2, <2>3, KeptPlainly
<1>4. CASE LogoutResets
  <2>1. server' = server /\ offered' = {} BY <1>4 DEF LogoutResets, world
  <2>2. StoreSteps BY <1>4, DeletingSteps DEF LogoutResets
  <2>3. CallsCarry' BY <1>4, IdlingCarries DEF LogoutResets, Callers
  <2> QED BY <2>1, <2>2, <2>3 DEF Kept, ServerOK
<1>5. CASE CheckLoads
  <2>1. UNCHANGED <<server, offered>>
    BY <1>5 DEF CheckLoads, world, ShowsLogin, Restores, ui
  <2>2. CASE LoggedOutAndStops /\ Goes("check", Idle)
    <3>1. StoreSteps BY <2>2, DeletingSteps DEF LoggedOutAndStops
    <3>2. CallsCarry' BY <2>2, IdlingCarries DEF Callers
    <3> QED BY <2>1, <3>1, <3>2, KeptPlainly
  <2>3. ASSUME NEW p \in SignedIn, stored' = SignedIn,
               Restores(p, p.of) \/ Goes("check", [at |-> "refresh", read |-> p])
        PROVE  Kept
    <3>1. StoreSteps BY <2>3, ReadingSteps
    <3>2. p \in Payload BY <2>3, SignedInIsSound
    <3>3. CallsCarry'
      BY <2>3, <3>2, LoadOfCarries, LoadsCarries, ReadingCarries, GoingCarries DEF Restores, Callers
    <3> QED BY <2>1, <3>1, <3>3, KeptPlainly
  <2> QED BY <1>5, <2>2, <2>3 DEF CheckLoads
<1>6. CASE CheckRefreshes
  <2> DEFINE p == call["check"].read
             same == {x \in stored : IsExpected(x, p.account, p.token)}
  <2>1. UNCHANGED <<server, offered>>
    BY <1>6 DEF CheckRefreshes, ShowsLogin, Restores, ui
  <2>2. p \in Payload /\ p.of = p.account BY <1>6, ReadTokensAreItsOwn DEF CheckRefreshes, At
  <2>3. ASSUME CanIssue, same # {}, stored' = {Renewed(x, p) : x \in same}, Restores(p, p.of) PROVE Kept
    <3>1. StoreSteps BY <2>2, <2>3, RefreshingSteps
    <3>2. Carries("load", LoadOf(p, p.of, p.session)) BY <2>2, LoadOfCarries
    <3>3. CallsCarry' BY <2>3, <3>2, LoadsCarries DEF Restores
    <3> QED BY <2>1, <3>1, <3>3, KeptPlainly
  <2>4. ASSUME Moves("check", "load"), UNCHANGED stored PROVE Kept
    <3>1. CallsCarry' BY <2>4, MovingCarries DEF Callers
    <3> QED BY <2>1, <2>4, <3>1, KeptPlainly DEF StoreSteps
  <2>5. ASSUME LoggedOutAndStops, Goes("check", Idle) PROVE Kept
    <3>1. StoreSteps BY <2>5, DeletingSteps DEF LoggedOutAndStops
    <3>2. CallsCarry' BY <2>5, IdlingCarries DEF Callers
    <3> QED BY <2>1, <3>1, <3>2, KeptPlainly
  <2> QED BY <1>6, <2>3, <2>4, <2>5 DEF CheckRefreshes
<1> QED BY <1>1, <1>2, <1>3, <1>4, <1>5, <1>6 DEF AccountNext

(* What a load carries once it has begun.                                      *)
LEMMA LoadedWork ==
    ASSUME SessionInv, call["load"].at \in LoadStages
    PROVE  Loading(call["load"])
BY DEF SessionInv, CallsCarry, Carries, Callers

LEMMA LoadGoes ==
    ASSUME SessionInv, NEW w, Loading(w), w.at # "refresh", Goes("load", w)
    PROVE  CallsCarry'
BY LoadCarries, GoingCarries DEF SessionInv, Callers

LEMMA LoadMoves ==
    ASSUME SessionInv, call["load"].at \in LoadStages, NEW s, Moves("load", s), s # "refresh"
    PROVE  CallsCarry'
BY MovingCarries DEF SessionInv, Callers

LEMMA LoadIdles == ASSUME SessionInv, Goes("load", Idle) PROVE CallsCarry'
BY IdlingCarries DEF SessionInv, Callers

(* The load's step to another stage, with another session or other choices.    *)
LEMMA LoadingStaged ==
    ASSUME NEW w, Loading(w), NEW s
    PROVE  Loading([w EXCEPT !.at = s]) /\ [w EXCEPT !.at = s].at = s
BY DEF Loading

LEMMA LoadingSession ==
    ASSUME NEW w, Loading(w), NEW s, NEW S \in SUBSET Session
    PROVE  Loading([w EXCEPT !.at = s, !.session = S]) /\ [w EXCEPT !.at = s, !.session = S].at = s
BY DEF Loading

LEMMA LoadingChoices ==
    ASSUME NEW w, Loading(w), NEW s, NEW G \in SUBSET Grant
    PROVE  Loading([w EXCEPT !.at = s, !.choices = G]) /\ [w EXCEPT !.at = s, !.choices = G].at = s
BY DEF Loading

LEMMA LoadingFound ==
    ASSUME NEW w, Loading(w), NEW s, NEW G \in SUBSET Grant, NEW R
    PROVE  /\ Loading([w EXCEPT !.at = s, !.choices = G, !.running = R])
           /\ [w EXCEPT !.at = s, !.choices = G, !.running = R].at = s
BY DEF Loading

(* Clearing one route's session, and stopping if it was there.                 *)
LEMMA ClearsAndStopsSteps ==
    ASSUME Inv, NEW r, NEW c, ClearsAndStops(r, c)
    PROVE  StoreSteps
BY ClearingSteps DEF ClearsAndStops, StoreSteps

(* A cleanup handed over by a load.                                            *)
LEMMA HandsOver ==
    ASSUME SessionInv, call["load"].at \in LoadStages, NEW x, "at" \in DOMAIN x,
           call' = [call EXCEPT !["load"] = [call["load"] EXCEPT !.at = "cleaning", !.session = {}],
                                !["cleanup"] = x]
    PROVE  CallsCarry'
<1> DEFINE w == [call["load"] EXCEPT !.at = "cleaning", !.session = {}]
<1>0. Loading(call["load"]) /\ {} \in SUBSET Session BY LoadedWork
<1>1. Loading(w) /\ w.at = "cleaning" BY <1>0 DEF Loading
<1>2. call' = [call EXCEPT !["load"] = w, !["cleanup"] = x] OBVIOUS
<1> HIDE DEF w
<1>3. /\ DOMAIN call' = Callers /\ call'["load"] = w /\ call'["cleanup"] = x
      /\ \A d \in Callers \ {"load", "cleanup"} : call'[d] = call[d]
  BY <1>2 DEF SessionInv, CallsCarry, Callers
<1>4. Carries("load", w) /\ Carries("cleanup", x) BY <1>1, LoadCarries DEF Carries
<1>5. \A d \in Callers : Carries(d, call'[d]) BY <1>3, <1>4 DEF SessionInv, CallsCarry
<1> QED BY <1>3, <1>5 DEF CallsCarry

LEMMA LoadBeginsKeeps == ASSUME SessionInv, RefreshBegins \/ LoadRefreshes PROVE Kept
<1> USE DEF SessionInv
<1>1. CASE RefreshBegins
  <2>1. UNCHANGED <<server, offered>> BY <1>1 DEF RefreshBegins, world, DropsLogin, ShowsLogin, ui
  <2>2. CASE DropsLogin
    <3>1. StoreSteps BY <2>2, DeletingSteps DEF DropsLogin, LoggedOutAndStops
    <3>2. CallsCarry' BY <2>2, LoadIdles DEF DropsLogin
    <3> QED BY <2>1, <3>1, <3>2, KeptPlainly
  <2>3. ASSUME NEW p \in SignedIn, stored' = SignedIn,
               Loads(LoadOf(p, p.of, p.session)) \/ Goes("load", [at |-> "refresh", read |-> p])
        PROVE  Kept
    <3>1. StoreSteps BY <2>3, ReadingSteps
    <3>2. p \in Payload BY <2>3, SignedInIsSound
    <3>3. CallsCarry'
      BY <2>3, <3>2, LoadOfCarries, LoadsCarries, ReadingCarries, GoingCarries DEF Callers
    <3> QED BY <2>1, <3>1, <3>3, KeptPlainly
  <2> QED BY <1>1, <2>2, <2>3 DEF RefreshBegins
<1>2. CASE LoadRefreshes
  <2> DEFINE p == call["load"].read
             same == {x \in stored : IsExpected(x, p.account, p.token)}
  <2>1. UNCHANGED <<server, offered>> BY <1>2 DEF LoadRefreshes, DropsLogin, ShowsLogin, ui
  <2>2. p \in Payload /\ p.of = p.account BY <1>2, ReadTokensAreItsOwn DEF LoadRefreshes, At
  <2>3. ASSUME CanIssue, same # {}, stored' = {Renewed(x, p) : x \in same},
               Loads(LoadOf(p, p.of, p.session))
        PROVE  Kept
    <3>1. StoreSteps BY <2>2, <2>3, RefreshingSteps
    <3>2. Carries("load", LoadOf(p, p.of, p.session)) BY <2>2, LoadOfCarries
    <3>3. CallsCarry' BY <2>3, <3>2, LoadsCarries
    <3> QED BY <2>1, <3>1, <3>3, KeptPlainly
  <2>4. ASSUME Goes("load", Idle), UNCHANGED stored PROVE Kept
    BY <2>1, <2>4, LoadIdles, KeptPlainly DEF StoreSteps
  <2>5. ASSUME DropsLogin PROVE Kept
    <3>1. StoreSteps BY <2>5, DeletingSteps DEF DropsLogin, LoggedOutAndStops
    <3>2. CallsCarry' BY <2>5, LoadIdles DEF DropsLogin
    <3> QED BY <2>1, <3>1, <3>2, KeptPlainly
  <2> QED BY <1>2, <2>3, <2>4, <2>5 DEF LoadRefreshes
<1> QED BY <1>1, <1>2

LEMMA LoadLooksKeeps ==
    ASSUME SessionInv, LoadAsksReceipt \/ LoadCleaned \/ LoadLooksUp \/ LoadFindsNothing
    PROVE  Kept
<1> USE DEF SessionInv
<1> DEFINE w == call["load"]
<1>1. CASE LoadAsksReceipt
  <2>1. UNCHANGED <<stored, server, offered>> /\ w.at \in LoadStages
    BY <1>1 DEF LoadAsksReceipt, ui, At, LoadStages
  <2>2. CASE Moves("load", "lookup")
    <3>1. CallsCarry' BY <2>1, <2>2, LoadMoves
    <3> QED BY <2>1, <3>1, KeptPlainly DEF StoreSteps
  <2>3. ASSUME NEW e \in owed, NEW s \in w.session, NEW g \in w.lineage,
               call' = [call EXCEPT
                      !["load"] = [w EXCEPT !.at = "cleaning", !.session = {}],
                      !["cleanup"] = [at |-> "check", route |-> s.route, lineage |-> g,
                                      started |-> s.started]]
        PROVE  Kept
    <3> DEFINE x == [at |-> "check", route |-> s.route, lineage |-> g, started |-> s.started]
    <3>1. "at" \in DOMAIN x OBVIOUS
    <3>2. call' = [call EXCEPT !["load"] = [w EXCEPT !.at = "cleaning", !.session = {}], !["cleanup"] = x]
      BY <2>3
    <3> HIDE DEF x
    <3>3. CallsCarry' BY <2>1, <3>1, <3>2, HandsOver
    <3> QED BY <2>1, <3>3, KeptPlainly DEF StoreSteps
  <2> QED BY <1>1, <2>2, <2>3 DEF LoadAsksReceipt
<1>2. CASE LoadCleaned
  <2>1. UNCHANGED <<stored, server, offered>> /\ w.at \in LoadStages /\ Moves("load", "lookup")
    BY <1>2 DEF LoadCleaned, world, At, LoadStages
  <2>2. CallsCarry' BY <2>1, LoadMoves
  <2> QED BY <2>1, <2>2, KeptPlainly DEF StoreSteps
<1>3. CASE LoadLooksUp
  <2>1. UNCHANGED <<server, offered>> /\ w.at \in LoadStages
    BY <1>3 DEF LoadLooksUp, ui, At, LoadStages, ShowsLogin, DropsLogin
  <2>2. CASE Goes("load", Idle) /\ UNCHANGED stored
    BY <2>1, <2>2, LoadIdles, KeptPlainly DEF StoreSteps
  <2>3. CASE DropsLogin
    <3>1. StoreSteps BY <2>3, DeletingSteps DEF DropsLogin, LoggedOutAndStops
    <3> QED BY <2>1, <2>3, <3>1, LoadIdles, KeptPlainly DEF DropsLogin
  <2>4. CASE stored' = {AccessDropped(p) : p \in stored} /\ Moves("load", "nothing")
    <3>1. StoreSteps BY <2>4, DroppingSteps
    <3>2. CallsCarry' BY <2>1, <2>4, LoadMoves
    <3> QED BY <2>1, <3>1, <3>2, KeptPlainly
  <2>5. CASE /\ Goes("load", [w EXCEPT !.at = "found", !.choices = Answer(w.of), !.running = InProgress])
             /\ UNCHANGED stored
    <3>1. Answer(w.of) \in SUBSET Grant /\ Loading(w) BY <2>1, AnswersAreGrants, LoadedWork
    <3> DEFINE n == [w EXCEPT !.at = "found", !.choices = Answer(w.of), !.running = InProgress]
    <3>2. Loading(n) /\ n.at = "found" BY <3>1 DEF Loading
    <3>3. Goes("load", n) BY <2>5
    <3> HIDE DEF n
    <3>4. CallsCarry' BY <3>2, <3>3, LoadGoes
    <3> QED BY <2>1, <2>5, <3>4, KeptPlainly DEF StoreSteps
  <2> QED BY <1>3, <2>2, <2>3, <2>4, <2>5 DEF LoadLooksUp
<1>4. CASE LoadFindsNothing
  <2>1. server' = server /\ offered' = {} BY <1>4 DEF LoadFindsNothing, world
  <2>2. StoreSteps BY <1>4, DroppingSteps DEF LoadFindsNothing
  <2>3. CallsCarry' BY <1>4, LoadIdles DEF LoadFindsNothing
  <2> QED BY <2>1, <2>2, <2>3 DEF Kept, ServerOK
<1> QED BY <1>1, <1>2, <1>3, <1>4

LEMMA LoadComparesKeeps == ASSUME SessionInv, LoadCompares PROVE Kept
<1> USE DEF SessionInv
<1> DEFINE w == call["load"]
           gone == \E s \in w.session : ~\E g \in Choice(w, s.route) : g.lineage \in w.lineage
           owes == {e \in owed : e.account = w.account /\ \E s \in w.session : s.route = e.route}
<1>1. UNCHANGED offered /\ w.at \in LoadStages /\ w.at = "found"
  BY DEF LoadCompares, ui, At, LoadStages
<1>2. CASE Goes("load", Idle) /\ UNCHANGED <<stored, server>>
  BY <1>1, <1>2, LoadIdles, KeptPlainly DEF StoreSteps
<1>3. CASE Moves("load", "compared") /\ UNCHANGED <<stored, server>>
  BY <1>1, <1>3, LoadMoves, KeptPlainly DEF StoreSteps
<1>4. ASSUME NEW e \in owed, NEW s \in w.session, server' = Confirmed(e), UNCHANGED stored,
             call' = [call EXCEPT
                           !["load"] = [w EXCEPT !.at = "cleaning", !.session = {}],
                           !["cleanup"] = [at |-> "check", route |-> s.route,
                                           lineage |-> Only(w.lineage), started |-> s.started]]
      PROVE  Kept
  <2> DEFINE x == [at |-> "check", route |-> s.route, lineage |-> Only(w.lineage), started |-> s.started]
  <2>1. "at" \in DOMAIN x OBVIOUS
  <2>2. call' = [call EXCEPT !["load"] = [w EXCEPT !.at = "cleaning", !.session = {}], !["cleanup"] = x]
    BY <1>4
  <2> HIDE DEF x
  <2>3. CallsCarry' BY <1>1, <2>1, <2>2, HandsOver
  <2>4. ServerOK' BY <1>4, ConfirmedIsTyped
  <2> QED BY <1>1, <1>4, <2>3, <2>4 DEF Kept, StoreSteps
<1>5. CASE /\ Goes("load", [w EXCEPT !.at = "compared", !.session = IF Replaced(w) = {} THEN @ ELSE {}])
           /\ IF Replaced(w) = {} THEN UNCHANGED <<stored, ops>>
              ELSE ClearsAndStops(Only(Replaced(w)), "load")
           /\ UNCHANGED server
  <2> DEFINE S == IF Replaced(w) = {} THEN w.session ELSE {}
             n == [w EXCEPT !.at = "compared", !.session = S]
  <2>1. Loading(w) BY <1>1, LoadedWork
  <2>2. S \in SUBSET Session BY <2>1 DEF Loading
  <2>3. Goes("load", n) BY <1>5
  <2>4. Loading(n) /\ n.at = "compared"
    <3> HIDE DEF S
    <3> QED BY <2>1, <2>2, LoadingSession
  <2> HIDE DEF n
  <2>5. CallsCarry' BY <2>3, <2>4, LoadGoes
  <2>6. StoreSteps BY <1>5, ClearsAndStopsSteps DEF StoreSteps
  <2> QED BY <1>1, <1>5, <2>5, <2>6, KeptPlainly
<1>6. \/ Pending(w) /\ gone /\ Goes("load", Idle) /\ UNCHANGED <<stored, ops, server, owed>>
      \/ /\ Pending(w) /\ ~gone /\ owes # {}
         /\ \E e \in owes, s \in w.session :
              \/ Moves("load", "compared") /\ UNCHANGED <<server, owed>>
              \/ /\ server' = Confirmed(e) /\ owed' = owed \ {e}
                 /\ call' = [call EXCEPT
                      !["load"] = [w EXCEPT !.at = "cleaning", !.session = {}],
                      !["cleanup"] = [at |-> "check", route |-> s.route,
                                      lineage |-> Only(w.lineage), started |-> s.started]]
         /\ UNCHANGED <<stored, ops>>
      \/ /\ Pending(w) => ~gone /\ owes = {}
         /\ Goes("load", [w EXCEPT !.at = "compared",
                                   !.session = IF Replaced(w) = {} THEN @ ELSE {}])
         /\ IF Replaced(w) = {} THEN UNCHANGED <<stored, ops>>
            ELSE ClearsAndStops(Only(Replaced(w)), "load")
         /\ UNCHANGED <<server, owed>>
  BY DEF LoadCompares
<1>7. CASE \E e \in owes, s \in w.session :
              \/ Moves("load", "compared") /\ UNCHANGED <<server, owed, stored>>
              \/ /\ server' = Confirmed(e) /\ UNCHANGED stored
                 /\ call' = [call EXCEPT
                      !["load"] = [w EXCEPT !.at = "cleaning", !.session = {}],
                      !["cleanup"] = [at |-> "check", route |-> s.route,
                                      lineage |-> Only(w.lineage), started |-> s.started]]
  <2>1. PICK e \in owes, s \in w.session :
              \/ Moves("load", "compared") /\ UNCHANGED <<server, owed, stored>>
              \/ /\ server' = Confirmed(e) /\ UNCHANGED stored
                 /\ call' = [call EXCEPT
                      !["load"] = [w EXCEPT !.at = "cleaning", !.session = {}],
                      !["cleanup"] = [at |-> "check", route |-> s.route,
                                      lineage |-> Only(w.lineage), started |-> s.started]]
    BY <1>7
  <2>2. e \in owed OBVIOUS
  <2> QED BY <2>1, <2>2, <1>3, <1>4
<1> QED BY <1>6, <1>2, <1>5, <1>7

(* A session begun at an instant of the clock.                                 *)
LEMMA FreshIsSession ==
    ASSUME NEW w, NEW g \in Grant, begun + 1 \in Instants
    PROVE  FreshSession(w, g) \in Session
BY DEF FreshSession, Session, Grant

LEMMA LoadChoosesKeeps == ASSUME SessionInv, LoadChooses PROVE Kept
<1> USE DEF SessionInv
<1> DEFINE w == call["load"]
           kept == {s \in w.session : /\ Choice(w, s.route) # {}
                                      /\ s.status = "active" => ~EndOwed(w, s.route)}
           running == {g \in w.choices : g.route \in w.running /\ ~EndOwed(w, g.route)}
<1>1. UNCHANGED <<server, offered>> /\ w.at \in LoadStages
  BY DEF LoadChooses, ui, At, LoadStages
<1>2. Loading(w) BY <1>1, LoadedWork
<1>3. CASE ClearsAndStops(Only(w.session).route, "load") /\ Goes("load", [w EXCEPT !.at = "save", !.session = {}])
  <2> DEFINE n == [w EXCEPT !.at = "save", !.session = {}]
  <2>1. Loading(n) /\ n.at = "save" /\ Goes("load", n) BY <1>2, <1>3, LoadingSession
  <2> HIDE DEF n
  <2>2. CallsCarry' BY <2>1, LoadGoes
  <2>3. StoreSteps BY <1>3, ClearsAndStopsSteps
  <2> QED BY <1>1, <2>2, <2>3, KeptPlainly
<1>4. ASSUME NEW s \in {"restore", "preStart"}, Goes("load", [w EXCEPT !.at = s]), UNCHANGED stored
      PROVE  Kept
  <2> DEFINE n == [w EXCEPT !.at = s]
  <2>1. Loading(n) /\ n.at # "refresh" /\ Goes("load", n) BY <1>2, <1>4, LoadingStaged
  <2> HIDE DEF n
  <2>2. CallsCarry' BY <2>1, LoadGoes
  <2> QED BY <1>1, <1>4, <2>2, KeptPlainly DEF StoreSteps
<1>5. ASSUME NEW g \in w.choices, CanBegin, UNCHANGED stored,
             Goes("load", [w EXCEPT !.at = "adopt", !.session = {FreshSession(w, g)}])
      PROVE  Kept
  <2> DEFINE S == {FreshSession(w, g)}
             n == [w EXCEPT !.at = "adopt", !.session = S]
  <2>1. g \in Grant BY <1>2 DEF Loading
  <2>2. S \in SUBSET Session BY <2>1, <1>5, FreshIsSession DEF CanBegin
  <2>3. Goes("load", n) BY <1>5
  <2> HIDE DEF S
  <2>4. Loading(n) /\ n.at = "adopt" BY <1>2, <2>2, LoadingSession
  <2> HIDE DEF n
  <2>5. CallsCarry' BY <2>3, <2>4, LoadGoes
  <2> QED BY <1>1, <1>5, <2>5, KeptPlainly DEF StoreSteps
<1>6. \/ ClearsAndStops(Only(w.session).route, "load") /\ Goes("load", [w EXCEPT !.at = "save", !.session = {}])
      \/ Goes("load", [w EXCEPT !.at = "restore"]) /\ UNCHANGED stored
      \/ /\ CanBegin /\ UNCHANGED stored
         /\ \E g \in running : Goes("load", [w EXCEPT !.at = "adopt", !.session = {FreshSession(w, g)}])
      \/ Goes("load", [w EXCEPT !.at = "preStart"]) /\ UNCHANGED stored
  BY DEF LoadChooses
<1> QED BY <1>3, <1>4, <1>5, <1>6

(* saveActiveRouteSession with progress: a session it creates begins now.      *)
LEMMA ProgressSteps == ASSUME Inv, NEW r, SavesProgress(r) PROVE StoreSteps
<1>1. CASE \E p \in stored : HasAccess(p, r)
  <2>1. PICK p \in stored : HasAccess(p, r) BY <1>1
  <2>2. stored' = {SessionSaved(q, r, begun + 1) : q \in stored} BY <1>1 DEF SavesProgress
  <2>3. begun + 1 \in Instants \/ \E q \in stored : HasSession(q, r)
    BY <1>1 DEF SavesProgress, CanBegin
  <2>4. begun + 1 \in Instants \/ HasSession(p, r) BY <2>3, AsOne
  <2> QED BY <2>1, <2>2, <2>4, SavingSteps
<1>2. CASE ~\E p \in stored : HasAccess(p, r)
  BY <1>2 DEF SavesProgress, StoreSteps
<1> QED BY <1>1, <1>2

LEMMA LoadSavesKeeps == ASSUME SessionInv, LoadSaves PROVE Kept
<1> USE DEF SessionInv
<1> DEFINE w == call["load"]
           s == [restore |-> "reload", adopt |-> "adopting", preStart |-> "tracking"][w.at]
           n == [w EXCEPT !.at = s]
<1>1. w.at \in {"save", "restore", "adopt", "preStart"} /\ w.at \in LoadStages /\ server' = server
  BY DEF LoadSaves, world, LoadStages
<1>2. Loading(w) BY <1>1, LoadedWork
<1>3. offered' = w.choices BY DEF LoadSaves
<1>4. PICK g \in w.choices : stored' = {IF MayInvite(p, g) THEN Invited(p, g) ELSE p : p \in stored}
  BY DEF LoadSaves
<1>5. g \in Grant BY <1>2 DEF Loading
<1>6. StoreSteps BY <1>4, <1>5, InvitingSteps
<1>7. Goes("load", Idle) \/ (w.at # "save" /\ Goes("load", n)) BY DEF LoadSaves
<1>8. CASE Goes("load", Idle)
  <2>1. CallsCarry' BY <1>8, LoadIdles
  <2> QED BY <1>1, <1>2, <1>3, <1>6, <2>1 DEF Kept, ServerOK, Loading
<1>9. CASE w.at # "save" /\ Goes("load", n)
  <2>1. s \in {"reload", "adopting", "tracking"} BY <1>1, <1>9
  <2>2. Loading(n) /\ n.at = s
    <3> HIDE DEF s
    <3> QED BY <1>2 DEF Loading
  <2>3. n.at # "refresh" BY <2>1, <2>2
  <2>4. CallsCarry'
    <3> HIDE DEF n
    <3> QED BY <1>9, <2>2, <2>3, LoadGoes
  <2> QED BY <1>1, <1>2, <1>3, <1>6, <2>4 DEF Kept, ServerOK, Loading
<1> QED BY <1>7, <1>8, <1>9

LEMMA LoadTrackingKeeps == ASSUME SessionInv, LoadTracksBeforeStart \/ LoadTrackingBlocked PROVE Kept
<1> USE DEF SessionInv
<1> DEFINE w == call["load"]
<1>1. UNCHANGED <<server, offered>> /\ w.at \in LoadStages
  BY DEF LoadTracksBeforeStart, LoadTrackingBlocked, ui, world, At, LoadStages
<1>2. Loading(w) BY <1>1, LoadedWork
<1>3. CASE Goes("load", Idle) /\ UNCHANGED stored
  BY <1>1, <1>3, LoadIdles, KeptPlainly DEF StoreSteps
<1>4. ASSUME NEW p \in stored, NEW g \in w.choices, MayTrack(p, g.route), CanBegin,
             stored' = {TrackingSaved(p, g.route, begun + 1)},
             Goes("load", Idle) \/ Goes("load", [w EXCEPT !.at = "blocked", !.choices = {g}])
      PROVE  Kept
  <2>1. g \in Grant BY <1>2 DEF Loading
  <2>2. g.route \in Routes BY <2>1 DEF Grant
  <2>3. begun + 1 \in Instants BY <1>4 DEF CanBegin
  <2>4. StoreSteps BY <1>4, <2>2, <2>3 DEF StoreSteps, Next, SavePreStartTracking
  <2> DEFINE G == {g}
             n == [w EXCEPT !.at = "blocked", !.choices = G]
  <2>5. G \in SUBSET Grant BY <2>1
  <2>6. Loading(n) /\ n.at = "blocked"
    <3> HIDE DEF G
    <3> QED BY <1>2, <2>5 DEF Loading
  <2>7. Goes("load", Idle) \/ Goes("load", n) BY <1>4
  <2> HIDE DEF n
  <2>8. CallsCarry' BY <2>6, <2>7, LoadGoes, LoadIdles
  <2> QED BY <1>1, <2>4, <2>8, KeptPlainly
<1>5. CASE LoadTracksBeforeStart
  BY <1>5, <1>3, <1>4 DEF LoadTracksBeforeStart
<1>6. CASE LoadTrackingBlocked
  <2>1. StoreSteps BY <1>6, UntrackingSteps DEF LoadTrackingBlocked
  <2>2. CallsCarry' BY <1>6, LoadIdles DEF LoadTrackingBlocked
  <2> QED BY <1>1, <2>1, <2>2, KeptPlainly
<1> QED BY <1>5, <1>6

LEMMA LoadRestoresKeeps ==
    ASSUME SessionInv, LoadReloads \/ LoadSavesPickup \/ LoadAdopts \/ LoadMarks \/ LoadTracks
    PROVE  Kept
<1> USE DEF SessionInv
<1> DEFINE w == call["load"]
<1>1. UNCHANGED <<server, offered>> /\ w.at \in LoadStages
  BY DEF LoadReloads, LoadSavesPickup, LoadAdopts, LoadMarks, LoadTracks, ui, world, At, LoadStages
<1>2. Loading(w) BY <1>1, LoadedWork
<1>3. CASE LoadReloads
  <2> DEFINE latest == UNION {{s \in p.session : \E x \in w.session : s.route = x.route /\ s.started = x.started} :
                              p \in SignedIn}
  <2>1. StoreSteps BY <1>3, ReadingSteps DEF LoadReloads
  <2>2. latest \in SUBSET Session
    <3>1. \A p \in SignedIn : p.session \subseteq Session BY SignedInIsSound DEF Payload
    <3> QED BY <3>1
  <2>3. Goes("load", Idle) \/ \E stage \in {"pickup", "track"} :
                                Goes("load", [w EXCEPT !.at = stage, !.session = latest])
    BY <1>3 DEF LoadReloads
  <2> HIDE DEF latest
  <2>4. ASSUME NEW stage \in {"pickup", "track"}, Goes("load", [w EXCEPT !.at = stage, !.session = latest])
        PROVE  CallsCarry'
    <3> DEFINE n == [w EXCEPT !.at = stage, !.session = latest]
    <3>1. Loading(n) /\ n.at = stage BY <1>2, <2>2 DEF Loading
    <3>2. n.at # "refresh" /\ Goes("load", n) BY <2>4, <3>1
    <3> HIDE DEF n
    <3> QED BY <3>1, <3>2, LoadGoes
  <2>5. CallsCarry' BY <2>3, <2>4, LoadIdles
  <2> QED BY <1>1, <2>1, <2>5, KeptPlainly
<1>4. CASE LoadSavesPickup
  <2>1. StoreSteps BY <1>4, ProgressSteps DEF LoadSavesPickup
  <2>2. CallsCarry' BY <1>1, <1>4, LoadMoves DEF LoadSavesPickup
  <2> QED BY <1>1, <2>1, <2>2, KeptPlainly
<1>5. CASE LoadAdopts
  <2>1. PICK s \in w.session :
          IF \E p \in stored : HasAccess(p, s.route)
          THEN stored' = {SessionSaved(p, s.route, s.started) : p \in stored} /\ Moves("load", "mark")
          ELSE Goes("load", Idle) /\ UNCHANGED stored
    BY <1>5 DEF LoadAdopts
  <2>2. s.started \in Instants BY <1>2 DEF Loading, Session
  <2>3. StoreSteps BY <2>1, <2>2, SavingSteps DEF StoreSteps
  <2>4. Moves("load", "mark") \/ Goes("load", Idle) BY <2>1
  <2>5. CallsCarry' BY <1>1, <2>4, LoadMoves, LoadIdles
  <2> QED BY <1>1, <2>3, <2>5, KeptPlainly
<1>6. CASE LoadMarks
  <2>1. StoreSteps BY <1>6, MarkingSteps DEF LoadMarks
  <2>2. CallsCarry' BY <1>1, <1>6, LoadMoves DEF LoadMarks
  <2> QED BY <1>1, <2>1, <2>2, KeptPlainly
<1>7. CASE LoadTracks
  <2>1. UNCHANGED stored /\ Goes("load", Idle) BY <1>7 DEF LoadTracks
  <2> QED BY <1>1, <2>1, LoadIdles, KeptPlainly DEF StoreSteps
<1> QED BY <1>3, <1>4, <1>5, <1>6, <1>7

LEMMA LoadKeeps == ASSUME SessionInv, LoadNext PROVE Kept
BY LoadBeginsKeeps, LoadLooksKeeps, LoadComparesKeeps, LoadChoosesKeeps, LoadSavesKeeps, LoadTrackingKeeps,
   LoadRestoresKeeps DEF LoadNext

-----------------------------------------------------------------------------
(* The flows of the driver carry nothing the store gets back.                  *)
LEMMA FlowGoes ==
    ASSUME SessionInv, NEW w, "at" \in DOMAIN w, Goes("flow", w)
    PROVE  CallsCarry'
<1>1. Carries("flow", w) BY DEF Carries
<1> QED BY <1>1, GoingCarries DEF SessionInv, Callers

LEMMA FlowMoves ==
    ASSUME SessionInv, NEW s, s # "refresh", Moves("flow", s)
    PROVE  CallsCarry'
BY MovingCarries DEF SessionInv, Callers

LEMMA FlowIdles == ASSUME SessionInv, Goes("flow", Idle) PROVE CallsCarry'
BY IdlingCarries DEF SessionInv, Callers

LEMMA FlowTakesOver ==
    ASSUME SessionInv, NEW w, "at" \in DOMAIN w, FlowBegins(w)
    PROVE  CallsCarry'
<1>1. /\ DOMAIN call' = Callers /\ call'["flow"] = w /\ call'["load"] = Idle
      /\ \A d \in Callers \ {"flow", "load"} : call'[d] = call[d]
  BY DEF SessionInv, CallsCarry, FlowBegins, Callers
<1>2. Carries("flow", w) BY DEF Carries
<1>3. \A d \in Callers : Carries(d, call'[d]) BY <1>1, <1>2, IdleCarries DEF SessionInv, CallsCarry
<1> QED BY <1>1, <1>3 DEF CallsCarry

LEMMA StartKeeps ==
    ASSUME SessionInv, StartBegins \/ StartSaves \/ StartUndone \/ StartPosts \/ PickupSaves
    PROVE  Kept
<1> USE DEF SessionInv
<1>1. CASE StartBegins
  <2>1. PICK g \in offered :
          /\ \E p \in stored : MayInvite(p, g)
          /\ stored' = {Invited(p, g) : p \in stored}
          /\ FlowBegins([at |-> "save", grant |-> g, route |-> g.route, started |-> 0])
    BY <1>1 DEF StartBegins
  <2>2. g \in Grant OBVIOUS
  <2>3. {Invited(p, g) : p \in stored} = {IF MayInvite(p, g) THEN Invited(p, g) ELSE p : p \in stored}
    BY <2>1, AsOne
  <2>4. StoreSteps BY <2>1, <2>2, <2>3, InvitingSteps
  <2> DEFINE w == [at |-> "save", grant |-> g, route |-> g.route, started |-> 0]
  <2>5. "at" \in DOMAIN w /\ FlowBegins(w) BY <2>1
  <2> HIDE DEF w
  <2>6. CallsCarry' BY <2>5, FlowTakesOver
  <2>7. UNCHANGED <<server, offered>> BY <1>1 DEF StartBegins, ui, world
  <2> QED BY <2>4, <2>6, <2>7, KeptPlainly
<1>2. CASE StartSaves
  <2> DEFINE r == call["flow"].route
             w == [call["flow"] EXCEPT !.at = "start", !.started = begun + 1]
  <2>1. UNCHANGED <<server, offered>> BY <1>2 DEF StartSaves
  <2>2. CASE \E p \in stored : HasAccess(p, r)
    <3>1. PICK p \in stored : HasAccess(p, r) BY <2>2
    <3>2. begun + 1 \in Instants /\ stored' = {SessionSaved(q, r, begun + 1) : q \in stored}
      BY <1>2, <2>2 DEF StartSaves, CanBegin
    <3>3. StoreSteps BY <3>1, <3>2, SavingSteps
    <3>4. Goes("flow", w) \/ Moves("flow", "undo") BY <1>2, <2>2 DEF StartSaves
    <3>5. "at" \in DOMAIN w BY DEF CallsCarry, Carries, Callers
    <3> HIDE DEF w
    <3>6. CallsCarry' BY <3>4, <3>5, FlowGoes, FlowMoves
    <3> QED BY <2>1, <3>3, <3>6, KeptPlainly
  <2>3. CASE ~\E p \in stored : HasAccess(p, r)
    <3>1. Goes("flow", Idle) /\ UNCHANGED stored BY <1>2, <2>3 DEF StartSaves
    <3> QED BY <2>1, <3>1, FlowIdles, KeptPlainly DEF StoreSteps
  <2> QED BY <2>2, <2>3
<1>3. CASE StartUndone
  <2>1. UNCHANGED <<server, offered>> BY <1>3 DEF StartUndone, world
  <2>2. StoreSteps BY <1>3, ClearsAndStopsSteps DEF StartUndone
  <2>3. CallsCarry' BY <1>3, FlowIdles DEF StartUndone
  <2> QED BY <2>1, <2>2, <2>3, KeptPlainly
<1>4. CASE StartPosts
  <2>1. UNCHANGED offered BY <1>4 DEF StartPosts, ui
  <2>2. ServerOK' BY <1>4, StartedIsTyped DEF StartPosts, ServerOK
  <2>3. StoreSteps BY <1>4, MarkingSteps DEF StartPosts, StoreSteps
  <2>4. Moves("flow", "pickup") \/ Moves("flow", "undo") \/ Goes("flow", Idle) BY <1>4 DEF StartPosts
  <2>5. CallsCarry' BY <2>4, FlowIdles, FlowMoves
  <2> QED BY <2>1, <2>2, <2>3, <2>5 DEF Kept
<1>5. CASE PickupSaves
  <2>1. UNCHANGED <<server, offered>> BY <1>5 DEF PickupSaves, ui
  <2>2. StoreSteps BY <1>5, ProgressSteps DEF PickupSaves
  <2>3. CallsCarry' BY <1>5, FlowIdles DEF PickupSaves
  <2> QED BY <2>1, <2>2, <2>3, KeptPlainly
<1> QED BY <1>1, <1>2, <1>3, <1>4, <1>5

LEMMA StopKeeps == ASSUME SessionInv, StopBegins \/ StopSaves PROVE Kept
<1> USE DEF SessionInv
<1>1. UNCHANGED <<server, offered>> BY DEF StopBegins, StopSaves, ui, world
<1>2. CASE StopBegins
  <2>1. PICK g \in offered : Goes("flow", [at |-> "stop", grant |-> g, route |-> g.route, started |-> 0])
    BY <1>2 DEF StopBegins
  <2> DEFINE w == [at |-> "stop", grant |-> g, route |-> g.route, started |-> 0]
  <2>2. "at" \in DOMAIN w /\ Goes("flow", w) BY <2>1
  <2> HIDE DEF w
  <2>3. CallsCarry' BY <2>2, FlowGoes
  <2>4. UNCHANGED stored BY <1>2 DEF StopBegins
  <2> QED BY <1>1, <2>3, <2>4, KeptPlainly DEF StoreSteps
<1>3. CASE StopSaves
  <2>2. StoreSteps BY <1>3, ProgressSteps DEF StopSaves
  <2>3. CallsCarry' BY <1>3, FlowIdles DEF StopSaves
  <2> QED BY <1>1, <2>2, <2>3, KeptPlainly
<1> QED BY <1>2, <1>3

LEMMA FinishKeeps ==
    ASSUME SessionInv, FinishBegins \/ FinishMarks \/ FinishPosts \/ FinishClears
    PROVE  Kept
<1> USE DEF SessionInv
<1>1. CASE FinishBegins
  <2>1. UNCHANGED <<stored, server, offered>> BY <1>1 DEF FinishBegins, ui
  <2>2. PICK a \in driver, g \in offered, release \in BOOLEAN :
          FlowBegins([at |-> "mark", grant |-> g, route |-> g.route, release |-> release, account |-> a])
    BY <1>1 DEF FinishBegins
  <2> DEFINE w == [at |-> "mark", grant |-> g, route |-> g.route, release |-> release, account |-> a]
  <2>3. "at" \in DOMAIN w /\ FlowBegins(w) BY <2>2
  <2> HIDE DEF w
  <2>4. CallsCarry' BY <2>3, FlowTakesOver
  <2> QED BY <2>1, <2>4, KeptPlainly DEF StoreSteps
<1>2. CASE FinishMarks
  <2>1. UNCHANGED <<server, offered>> BY <1>2 DEF FinishMarks, ui
  <2>2. StoreSteps BY <1>2, PendingSteps DEF FinishMarks, StoreSteps
  <2>3. Moves("flow", "post") \/ Goes("flow", Idle) BY <1>2 DEF FinishMarks
  <2>4. CallsCarry' BY <2>3, FlowMoves, FlowIdles
  <2> QED BY <2>1, <2>2, <2>4, KeptPlainly
<1>3. CASE FinishPosts
  <2>1. UNCHANGED stored BY <1>3 DEF FinishPosts
  <2>2. offered' \subseteq Grant BY <1>3 DEF FinishPosts
  <2>3. ServerOK' BY <1>3, ConfirmedIsTyped DEF FinishPosts, ServerOK
  <2>4. Moves("flow", "clear") \/ Goes("flow", Idle) BY <1>3 DEF FinishPosts
  <2>5. CallsCarry' BY <2>4, FlowMoves, FlowIdles
  <2> QED BY <2>1, <2>2, <2>3, <2>5 DEF Kept, StoreSteps
<1>4. CASE FinishClears
  <2>1. UNCHANGED <<server, offered>> BY <1>4 DEF FinishClears, world
  <2>2. StoreSteps BY <1>4, ClearingSteps DEF FinishClears, StoreSteps
  <2>3. CallsCarry' BY <1>4, FlowIdles DEF FinishClears
  <2> QED BY <2>1, <2>2, <2>3, KeptPlainly
<1> QED BY <1>1, <1>2, <1>3, <1>4

LEMMA FlowKeeps == ASSUME SessionInv, FlowNext PROVE Kept
BY StartKeeps, StopKeeps, FinishKeeps DEF FlowNext

-----------------------------------------------------------------------------
LEMMA RenewGoes ==
    ASSUME SessionInv, NEW w, Carries("renew", w), Goes("renew", w)
    PROVE  CallsCarry'
BY GoingCarries DEF SessionInv, Callers

LEMMA RenewMoves ==
    ASSUME SessionInv, NEW s, s \notin {"refresh", "save"}, Moves("renew", s)
    PROVE  CallsCarry'
BY MovingCarries DEF SessionInv, Callers

LEMMA RenewIdles == ASSUME SessionInv, Goes("renew", Idle) PROVE CallsCarry'
BY IdlingCarries DEF SessionInv, Callers

LEMMA RenewKeeps == ASSUME SessionInv, RenewNext PROVE Kept
<1> USE DEF SessionInv
<1>1. CASE RenewBegins
  <2>1. UNCHANGED <<server, offered>> /\ StoreSteps BY <1>1, ReadingSteps DEF RenewBegins, ui
  <2>2. PICK p \in SignedIn :
          \/ Goes("renew", [at |-> "lookup", read |-> p, route |-> call["flow"].route])
          \/ Goes("renew", [at |-> "refresh", read |-> p, route |-> call["flow"].route])
    BY <1>1 DEF RenewBegins
  <2>3. p \in Payload /\ p.of = p.account BY SignedInIsSound
  <2> DEFINE w(s) == [at |-> s, read |-> p, route |-> call["flow"].route]
  <2>4. \A s \in {"lookup", "refresh"} : "at" \in DOMAIN w(s) /\ w(s).at = s /\ w(s).read = p
    OBVIOUS
  <2>5. Goes("renew", w("lookup")) \/ Goes("renew", w("refresh")) BY <2>2
  <2> HIDE DEF w
  <2>6. Carries("renew", w("lookup")) /\ Carries("renew", w("refresh")) BY <2>3, <2>4 DEF Carries
  <2>7. CallsCarry' BY <2>5, <2>6, RenewGoes
  <2> QED BY <2>1, <2>7, KeptPlainly
<1>2. CASE RenewRefreshes
  <2> DEFINE p == call["renew"].read
             same == {x \in stored : IsExpected(x, p.account, p.token)}
  <2>1. UNCHANGED <<server, offered>> BY <1>2 DEF RenewRefreshes, ui
  <2>2. p.of = p.account BY <1>2, ReadTokensAreItsOwn DEF RenewRefreshes, At
  <2>3. ASSUME CanIssue, same # {}, stored' = {Renewed(x, p) : x \in same}, Moves("renew", "lookup") PROVE Kept
    <3>1. StoreSteps BY <2>2, <2>3, RefreshingSteps
    <3>2. CallsCarry' BY <2>3, RenewMoves
    <3> QED BY <2>1, <3>1, <3>2, KeptPlainly
  <2>4. ASSUME Goes("renew", Idle), UNCHANGED stored PROVE Kept
    BY <2>1, <2>4, RenewIdles, KeptPlainly DEF StoreSteps
  <2> QED BY <1>2, <2>3, <2>4 DEF RenewRefreshes
<1>3. CASE RenewLooksUp
  <2> DEFINE w == call["renew"]
             found == {g \in Answer(w.read.of) : g.route = w.route}
             n == [at |-> "save", route |-> w.route, found |-> found, nothing |-> Answer(w.read.of) = {}]
  <2>1. UNCHANGED <<stored, server, offered>> BY <1>3 DEF RenewLooksUp, ui, world
  <2>2. found \subseteq Grant BY AnswersAreGrants
  <2>3. "at" \in DOMAIN n /\ n.at = "save" /\ n.found = found OBVIOUS
  <2>4. Goes("renew", Idle) \/ Goes("renew", n) BY <1>3 DEF RenewLooksUp
  <2> HIDE DEF n, found
  <2>5. Carries("renew", n) BY <2>2, <2>3 DEF Carries
  <2>6. CallsCarry' BY <2>4, <2>5, RenewGoes, RenewIdles
  <2> QED BY <2>1, <2>6, KeptPlainly DEF StoreSteps
<1>4. CASE RenewSaves
  <2> DEFINE w == call["renew"]
  <2>1. UNCHANGED <<server, offered>> BY <1>4 DEF RenewSaves, ui, world
  <2>2. w.found \subseteq Grant BY <1>4 DEF RenewSaves, At, CallsCarry, Carries, Callers
  <2>3. ASSUME NEW g \in w.found, stored' = {IF MayInvite(p, g) THEN Invited(p, g) ELSE p : p \in stored}
        PROVE  StoreSteps
    BY <2>2, <2>3, InvitingSteps
  <2>4. ASSUME ClearsAndStopsAny("renew") PROVE StoreSteps
    BY <2>4, ClearingSteps DEF ClearsAndStopsAny
  <2>8. ASSUME UNCHANGED stored PROVE StoreSteps BY <2>8 DEF StoreSteps
  <2>5. StoreSteps BY <1>4, <2>3, <2>4, <2>8, ClearsAndStopsSteps DEF RenewSaves
  <2>6. Goes("renew", Idle) \/ Moves("renew", "drop") BY <1>4 DEF RenewSaves
  <2>7. CallsCarry' BY <2>6, RenewIdles, RenewMoves
  <2> QED BY <2>1, <2>5, <2>7, KeptPlainly
<1>5. CASE RenewDrops
  <2>1. server' = server /\ offered' \subseteq offered BY <1>5 DEF RenewDrops, world
  <2>2. StoreSteps BY <1>5, DroppingSomeSteps DEF RenewDrops
  <2>3. CallsCarry' BY <1>5, RenewIdles DEF RenewDrops
  <2> QED BY <2>1, <2>2, <2>3 DEF Kept, ServerOK
<1> QED BY <1>1, <1>2, <1>3, <1>4, <1>5 DEF RenewNext

LEMMA PushKeeps == ASSUME SessionInv, PushReads \/ PushRestarts PROVE Kept
<1> USE DEF SessionInv
<1>1. CASE PushReads
  <2>1. UNCHANGED <<server, offered>> /\ StoreSteps BY <1>1, ReadingSteps DEF PushReads, ui
  <2> DEFINE w == [at |-> "restart"]
  <2>2. "at" \in DOMAIN w /\ Goes("push", w) BY <1>1 DEF PushReads
  <2> HIDE DEF w
  <2>3. Carries("push", w) BY <2>2 DEF Carries
  <2>4. CallsCarry' BY <2>2, <2>3, GoingCarries DEF Callers
  <2> QED BY <2>1, <2>4, KeptPlainly
<1>2. CASE PushRestarts
  <2>1. UNCHANGED <<stored, server, offered>> BY <1>2 DEF PushRestarts, ui, world
  <2>2. CallsCarry' BY <1>2, IdlingCarries DEF PushRestarts, Callers
  <2> QED BY <2>1, <2>2, KeptPlainly DEF StoreSteps
<1> QED BY <1>1, <1>2

LEMMA WorldKeeps == ASSUME SessionInv, WorldNext PROVE Kept
<1> USE DEF SessionInv
<1>1. CASE TokenExpires
  <2>1. UNCHANGED <<call, server, offered>> BY <1>1 DEF TokenExpires, ui
  <2>2. StoreSteps BY <1>1 DEF TokenExpires, StoreSteps, Next, Expires
  <2> QED BY <2>1, <2>2, RestingCarries, KeptPlainly
<1>2. CASE OfficeActs
  <2>1. UNCHANGED <<stored, call, offered>> BY <1>2 DEF OfficeActs, ui
  <2>2. PICK r \in Routes :
          \/ \E a \in Accounts :
                server' = [server EXCEPT ![r] = [holder |-> a, lineage |-> NewestGeneration, phase |-> "ready"]]
          \/ server' = [server EXCEPT ![r].phase = "over"]
          \/ server' = [server EXCEPT ![r].phase = "started"]
    BY <1>2 DEF OfficeActs
  <2>3. ServerOK' BY <2>2, SessionAssumption DEF ServerOK, Lineages
  <2> QED BY <2>1, <2>3, RestingCarries DEF Kept, StoreSteps
<1>3. CASE GraceEnds
  <2>1. UNCHANGED <<stored, call, server, offered>> BY <1>3 DEF GraceEnds, ui, world
  <2> QED BY <2>1, RestingCarries, KeptPlainly DEF StoreSteps
<1>4. CASE Restart
  <2>1. server' = server /\ offered' = {} BY <1>4 DEF Restart
  <2>2. StoreSteps BY <1>4, AgingSteps DEF Restart
  <2> DEFINE w == [at |-> "load"]
  <2>3. call' = [c \in Callers |-> IF c = "check" THEN w ELSE Idle] BY <1>4 DEF Restart
  <2>4. "at" \in DOMAIN w /\ w.at = "load" OBVIOUS
  <2> HIDE DEF w
  <2>5. Carries("check", w) BY <2>4 DEF Carries
  <2>6. CallsCarry' BY <2>3, <2>5, IdleCarries DEF CallsCarry
  <2> QED BY <2>1, <2>2, <2>6 DEF Kept, ServerOK
<1> QED BY <1>1, <1>2, <1>3, <1>4 DEF WorldNext

LEMMA SessionKeeps == ASSUME SessionInv, SessionNext PROVE Kept
BY ServiceKeeps, CleanupKeeps, AccountKeeps, LoadKeeps, FlowKeeps, RenewKeeps, PushKeeps, WorldKeeps
   DEF SessionNext

-----------------------------------------------------------------------------
(* The background task.                                                        *)
LEMMA BatchGoes ==
    ASSUME SessionInv, NEW w, "at" \in DOMAIN w, w.at # "refresh", Tasking(w), Goes("batch", w)
    PROVE  CallsCarry'
<1>1. Carries("batch", w) BY DEF Carries
<1> QED BY <1>1, GoingCarries DEF SessionInv, Callers

(* Stages of which nothing is remembered but the route and the session.        *)
LEMMA BatchMoves ==
    ASSUME SessionInv, NEW s \in {"settle", "over", "clear", "revoked", "drop"}, Moves("batch", s)
    PROVE  CallsCarry'
BY MovingCarries DEF SessionInv, Callers

LEMMA BatchIdles == ASSUME SessionInv, Goes("batch", Idle) PROVE CallsCarry'
BY IdlingCarries DEF SessionInv, Callers

LEMMA BatchWork == ASSUME SessionInv PROVE "at" \in DOMAIN Batch /\ Tasking(Batch)
BY DEF SessionInv, CallsCarry, Carries, Callers, Batch

LEMMA TaskBeginsKeeps ==
    ASSUME SessionInv, TaskStarts \/ TaskGivesUp \/ TaskRecordsStart \/ TaskMarksStart \/ TaskPosts
    PROVE  Kept
<1> USE DEF SessionInv
<1>1. CASE TaskStarts
  <2>1. UNCHANGED <<server, offered>> /\ StoreSteps BY <1>1, ReadingSteps DEF TaskStarts, ui, world
  <2>2. ASSUME NEW r, NEW i, NEW t, NEW s \in {"start", "post"}, Goes("batch", BatchOf(r, i, t, s))
        PROVE  CallsCarry'
    <3> DEFINE w == BatchOf(r, i, t, s)
    <3>1. DOMAIN w = {"at", "route", "started", "preStart", "marked", "revoked"} /\ w.at = s BY DEF BatchOf
    <3>2. Goes("batch", w) BY <2>2
    <3> HIDE DEF w
    <3>3. Tasking(w) BY <3>1 DEF Tasking
    <3> QED BY <3>1, <3>2, <3>3, BatchGoes
  <2>3. CallsCarry' BY <1>1, <2>2, RestingCarries DEF TaskStarts
  <2> QED BY <2>1, <2>3, KeptPlainly
<1>2. CASE TaskGivesUp
  <2>1. UNCHANGED <<server, offered>> BY <1>2 DEF TaskGivesUp, ui, world
  <2>2. StoreSteps BY <1>2, UntrackingSteps DEF TaskGivesUp
  <2>3. CallsCarry' BY <1>2, BatchIdles DEF TaskGivesUp, Ends
  <2> QED BY <2>1, <2>2, <2>3, KeptPlainly
<1>3. CASE TaskRecordsStart
  <2>1. UNCHANGED <<stored, offered>> BY <1>3 DEF TaskRecordsStart, ui
  <2>2. ServerOK' BY <1>3, StartedIsTyped DEF TaskRecordsStart, ServerOK
  <2>3. StoreSteps BY <2>1 DEF StoreSteps
  <2>4. Batch.at = "start" BY <1>3 DEF TaskRecordsStart, At, Batch
  <2>5. Moves("batch", "mark") \/ Moves("batch", "post") BY <1>3 DEF TaskRecordsStart
  <2>6. CallsCarry' BY <2>4, <2>5, MovingCarries DEF Callers, Batch
  <2> QED BY <2>1, <2>2, <2>3, <2>6 DEF Kept
<1>5. CASE TaskMarksStart
  <2> DEFINE marks == \E p \in stored : IsSession(p, Batch.route, Batch.started)
  <2>1. UNCHANGED <<server, offered>> BY <1>5 DEF TaskMarksStart, ui, world
  <2>3. {IF marks THEN StartMarked(p) ELSE p : p \in stored}
        = {IF IsSession(p, Batch.route, Batch.started) THEN StartMarked(p) ELSE p : p \in stored}
    BY AsOne
  <2>4. stored' = {IF IsSession(p, Batch.route, Batch.started) THEN StartMarked(p) ELSE p : p \in stored}
    BY <1>5, <2>3 DEF TaskMarksStart
  <2>9. StoreSteps BY <2>4, MarkingSteps DEF StoreSteps
  <2>5. Batch.at = "mark" BY <1>5 DEF TaskMarksStart, At, Batch
  <2>6. ASSUME Goes("batch", [Batch EXCEPT !.at = "post", !.marked = marks]) PROVE CallsCarry'
    <3> DEFINE w == [Batch EXCEPT !.at = "post", !.marked = marks]
    <3>1. DOMAIN w = DOMAIN Batch /\ w.at = "post" BY BatchWork
    <3>2. Goes("batch", w) BY <2>6
    <3> HIDE DEF w
    <3>3. Tasking(w) /\ "at" \in DOMAIN w BY <2>5, <3>1, BatchWork DEF Tasking
    <3> QED BY <3>1, <3>2, <3>3, BatchGoes
  <2>8. CallsCarry' BY <1>5, <2>6 DEF TaskMarksStart
  <2> QED BY <2>1, <2>8, <2>9, KeptPlainly
<1>4. CASE TaskPosts
  <2>1. UNCHANGED <<stored, server, offered>> BY <1>4 DEF TaskPosts, ui, world
  <2>2. CallsCarry' BY <1>4, BatchMoves DEF TaskPosts
  <2> QED BY <2>1, <2>2, KeptPlainly DEF StoreSteps
<1> QED BY <1>1, <1>2, <1>3, <1>4, <1>5

LEMMA TaskRenewsKeeps ==
    ASSUME SessionInv, TaskRenews \/ TaskRefreshes \/ TaskLooksUp \/ TaskSavesAccess
    PROVE  Kept
<1> USE DEF SessionInv
<1>1. CASE TaskRenews
  <2>1. UNCHANGED <<server, offered>> /\ StoreSteps BY <1>1, ReadingSteps DEF TaskRenews, ui
  <2>2. Batch.at \in {"start", "post"} BY <1>1 DEF TaskRenews, Batch
  <2>3. ASSUME NEW p \in SignedIn, NEW s \in {"lookup", "refresh"},
               Goes("batch", Learns(s, "read", p))
        PROVE  CallsCarry'
    <3> DEFINE n == Learns(s, "read", p)
    <3>1. n.at = s /\ n.read = p /\ DOMAIN n = DOMAIN Batch \cup {"read"}
      BY BatchWork DEF Learns
    <3>2. Goes("batch", n) BY <2>3
    <3> HIDE DEF n
    <3>3. "found" \notin DOMAIN Batch /\ "at" \in DOMAIN Batch BY <2>2, BatchWork DEF Tasking
    <3>4. Tasking(n) BY <3>1, <3>3 DEF Tasking
    <3>5. p \in Payload /\ p.of = p.account BY SignedInIsSound
    <3>6. Carries("batch", n) BY <3>1, <3>3, <3>4, <3>5 DEF Carries
    <3> QED BY <3>2, <3>6, GoingCarries DEF Callers
  <2>4. CallsCarry'
    <3>1. CASE Moves("batch", "settle") BY <3>1, BatchMoves
    <3>2. ASSUME NEW p \in SignedIn,
                 Goes("batch", Learns(IF p.life = "active" THEN "lookup" ELSE "refresh", "read", p))
          PROVE  CallsCarry'
      <4> DEFINE s == IF p.life = "active" THEN "lookup" ELSE "refresh"
      <4>1. s \in {"lookup", "refresh"} OBVIOUS
      <4>2. Goes("batch", Learns(s, "read", p)) BY <3>2
      <4> HIDE DEF s
      <4> QED BY <4>1, <4>2, <2>3
    <3> QED BY <1>1, <3>1, <3>2 DEF TaskRenews
  <2> QED BY <2>1, <2>4, KeptPlainly
<1>2. CASE TaskRefreshes
  <2> DEFINE p == Batch.read
             same == {x \in stored : IsExpected(x, p.account, p.token)}
  <2>1. UNCHANGED <<server, offered>> BY <1>2 DEF TaskRefreshes, ui
  <2>2. p.of = p.account /\ call["batch"].at = "refresh"
    BY <1>2, ReadTokensAreItsOwn DEF TaskRefreshes, At, Batch
  <2>3. ASSUME CanIssue, same # {}, stored' = {Renewed(x, p) : x \in same}, Moves("batch", "lookup") PROVE Kept
    <3>1. StoreSteps BY <2>2, <2>3, RefreshingSteps
    <3>2. CallsCarry' BY <2>2, <2>3, MovingCarries DEF Callers
    <3> QED BY <2>1, <3>1, <3>2, KeptPlainly
  <2>4. ASSUME Moves("batch", "settle"), UNCHANGED stored PROVE Kept
    BY <2>1, <2>4, BatchMoves, KeptPlainly DEF StoreSteps
  <2> QED BY <1>2, <2>3, <2>4 DEF TaskRefreshes
<1>3. CASE TaskLooksUp
  <2> DEFINE found == {g \in Answer(Batch.read.of) : g.route = Batch.route}
  <2>1. UNCHANGED <<stored, server, offered>> BY <1>3 DEF TaskLooksUp, ui, world
  <2>2. Batch.at = "lookup" BY <1>3 DEF TaskLooksUp, At, Batch
  <2>3. found \subseteq Grant BY AnswersAreGrants
  <2>4. CASE Moves("batch", "settle") BY <2>1, <2>4, BatchMoves, KeptPlainly DEF StoreSteps
  <2>5. CASE Goes("batch", [Batch EXCEPT !.at = "settle", !.revoked = TRUE])
    <3> DEFINE w == [Batch EXCEPT !.at = "settle", !.revoked = TRUE]
    <3>1. DOMAIN w = DOMAIN Batch /\ w.at = "settle" BY BatchWork
    <3>2. Goes("batch", w) BY <2>5
    <3> HIDE DEF w
    <3>3. Tasking(w) /\ "at" \in DOMAIN w BY <3>1, BatchWork DEF Tasking
    <3>4. CallsCarry' BY <3>1, <3>2, <3>3, BatchGoes
    <3> QED BY <2>1, <3>4, KeptPlainly DEF StoreSteps
  <2>6. CASE Goes("batch", Learns("save", "found", found))
    <3> DEFINE w == Learns("save", "found", found)
    <3>1. "at" \in DOMAIN Batch /\ "found" \notin DOMAIN Batch BY <2>2, BatchWork DEF Tasking
    <3>2. w.at = "save" /\ w.found = found /\ DOMAIN w = DOMAIN Batch \cup {"found"}
      <4> HIDE DEF found
      <4> QED BY <3>1 DEF Learns
    <3>3. Goes("batch", w) BY <2>6
    <3> HIDE DEF w, found
    <3>4. Tasking(w) /\ "at" \in DOMAIN w BY <2>3, <3>1, <3>2 DEF Tasking
    <3>5. CallsCarry' BY <3>2, <3>3, <3>4, BatchGoes
    <3> QED BY <2>1, <3>5, KeptPlainly DEF StoreSteps
  <2> QED BY <1>3, <2>4, <2>5, <2>6 DEF TaskLooksUp
<1>4. CASE TaskSavesAccess
  <2>1. UNCHANGED <<server, offered>> BY <1>4 DEF TaskSavesAccess, ui, world
  <2>2. Batch.found \subseteq Grant BY <1>4, BatchWork DEF TaskSavesAccess, At, Batch, Tasking
  <2>3. PICK g \in Batch.found : stored' = {IF MayInvite(p, g) THEN Invited(p, g) ELSE p : p \in stored}
    BY <1>4 DEF TaskSavesAccess
  <2>4. StoreSteps BY <2>2, <2>3, InvitingSteps
  <2>5. CallsCarry' BY <1>4, BatchMoves DEF TaskSavesAccess
  <2> QED BY <2>1, <2>4, <2>5, KeptPlainly
<1> QED BY <1>1, <1>2, <1>3, <1>4

LEMMA TaskEndsKeeps ==
    ASSUME SessionInv, TaskSeesEnd \/ TaskClears \/ TaskSettles \/ TaskRevokes \/ TaskDrops
    PROVE  Kept
<1> USE DEF SessionInv
<1>1. UNCHANGED <<server, offered>>
  BY DEF TaskSeesEnd, TaskClears, TaskSettles, TaskRevokes, TaskDrops, ui, world
<1>2. StoreSteps
  <2>1. CASE TaskSeesEnd BY <2>1, UntrackingSteps, ReadingSteps DEF TaskSeesEnd
  <2>2. CASE TaskClears BY <2>2, ClearingSteps DEF TaskClears, StoreSteps
  <2>3. CASE TaskSettles BY <2>3, ReadingSteps DEF TaskSettles
  <2>4. CASE TaskRevokes BY <2>4, UntrackingSteps, ClearingSteps DEF TaskRevokes, StoreSteps
  <2>5. CASE TaskDrops
    <3>1. stored' = {IF FALSE \/ MayDropAccess(p, Batch.route) THEN AccessDropped(p) ELSE p : p \in stored}
      BY <2>5 DEF TaskDrops
    <3> QED BY <3>1, DroppingSomeSteps
  <2> QED BY <2>1, <2>2, <2>3, <2>4, <2>5
<1>3. CallsCarry'
  <2>1. \/ Goes("batch", Idle)
        \/ \E s \in {"settle", "over", "clear", "revoked", "drop"} : Moves("batch", s)
    BY DEF TaskSeesEnd, TaskClears, TaskSettles, TaskRevokes, TaskDrops, Ends
  <2> QED BY <2>1, BatchIdles, BatchMoves
<1> QED BY <1>1, <1>2, <1>3, KeptPlainly

LEMMA TaskKeeps == ASSUME SessionInv, TaskNext PROVE Kept
BY TaskBeginsKeeps, TaskRenewsKeeps, TaskEndsKeeps DEF TaskNext

(* Every step of the system is a step of the store, and what the callers carry *)
(* stays in order.                                                             *)
LEMMA LocationKeeps == ASSUME SessionInv, [LocationNext]_vars PROVE Kept /\ SessionInv'
<1>1. Kept
  <2>1. CASE LocationNext BY <2>1, SessionKeeps, TaskKeeps DEF LocationNext
  <2>2. CASE UNCHANGED vars
    <3>1. UNCHANGED <<stored, server, offered, call>> BY <2>2 DEF vars, ui, world
    <3> QED BY <3>1, RestingCarries, KeptPlainly DEF StoreSteps, SessionInv
  <2> QED BY <2>1, <2>2
<1>2. Inv' BY <1>1, InvPreserved DEF Kept, StoreSteps, SessionInv
<1> QED BY <1>1, <1>2 DEF Kept, SessionInv

(* The inductive invariant: the stored payload is sound, what the callers      *)
(* carry was granted by the server or read from a sound payload.               *)
THEOREM SessionInvHolds == LocationSpec => []SessionInv
<1>1. LocationInit => SessionInv BY SessionInitially DEF LocationInit
<1>2. SessionInv /\ [LocationNext]_vars => SessionInv' BY LocationKeeps
<1> QED BY <1>1, <1>2, PTL DEF LocationSpec

(* The store the callers use is the module's own.                              *)
LEMMA SameNext == Store!Next <=> Next
BY DEF Next, SaveAuthenticatedDriver, Clear, Expires, SaveRefreshedAccountAccess,
     SaveFromInvitedRouteAccess, SaveActiveRouteSession, MarkActiveRouteStarted,
     MarkActiveRouteCompletionPending, ClearActiveRouteSession, SavePreStartTracking,
     ClearPreStartTracking, ClearCachedRouteAccess, Lineages, Grant, Only, Authenticated,
     IsExpected, Refreshed, MayInvite, SameLineage, Invited, HasAccess, SessionSaved, HasSession,
     IsSession, StartMarked, CompletionMarked, SessionCleared, MayTrack, TrackingSaved,
     TrackingCleared, AccessDropped, Store!Next, Store!SaveAuthenticatedDriver, Store!Clear,
     Store!Expires, Store!SaveRefreshedAccountAccess, Store!SaveFromInvitedRouteAccess,
     Store!SaveActiveRouteSession, Store!MarkActiveRouteStarted,
     Store!MarkActiveRouteCompletionPending, Store!ClearActiveRouteSession,
     Store!SavePreStartTracking, Store!ClearPreStartTracking, Store!ClearCachedRouteAccess,
     Store!Lineages, Store!Grant, Store!Only, Store!Authenticated, Store!IsExpected,
     Store!Refreshed, Store!MayInvite, Store!SameLineage, Store!Invited, Store!HasAccess,
     Store!SessionSaved, Store!HasSession, Store!IsSession, Store!StartMarked,
     Store!CompletionMarked, Store!SessionCleared, Store!MayTrack, Store!TrackingSaved,
     Store!TrackingCleared, Store!AccessDropped

(* StoreKeepsItsPromise: whatever the flows of the app, its retry passes, its  *)
(* loads and the background task do between two of their awaits, they change   *)
(* the stored access only as one method of the store does.                     *)
THEOREM CallersKeepTheStore == LocationSpec => StoreKeepsItsPromise
<1>1. LocationInit => Store!Init BY DEF LocationInit, SessionInit, Store!Init
<1>2. SessionInv /\ [LocationNext]_vars => [Store!Next]_stored
  <2> SUFFICES ASSUME SessionInv, [LocationNext]_vars PROVE [Store!Next]_stored OBVIOUS
  <2>1. StoreSteps BY LocationKeeps DEF Kept
  <2> QED BY <2>1, SameNext DEF StoreSteps
<1> QED BY <1>1, <1>2, SessionInvHolds, PTL DEF LocationSpec, StoreKeepsItsPromise, Store!Spec
================================================================================
