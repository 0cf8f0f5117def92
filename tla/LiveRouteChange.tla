-------------------------- MODULE LiveRouteChange --------------------------
(***************************************************************************)
(* Office changes to a route that is being delivered.  The device keeps,   *)
(* per assignment generation of the route, what it applied, the newest     *)
(* publication it saw and the acknowledgement it owes, in the encrypted    *)
(* database (liveRouteChangeStore.ts).  A periodic poll, a route refresh   *)
(* and the driver's Apply read and update that state from callbacks of one *)
(* thread, with network answers arriving between any two of their steps.   *)
(***************************************************************************)
EXTENDS Integers, FiniteSets

CONSTANTS MaxGeneration,   \* bound: assignment generations of the route
          MaxSequence,     \* bound: publications of the first generation, two fewer in each next one
          MaxTrouble,      \* bound: failed requests and saves, restarts, sign-outs
          None             \* nothing is owed, in the ledger

Generations == 1 .. MaxGeneration

ASSUME Bounds == /\ MaxGeneration \in Nat \ {0}
                 /\ {MaxSequence, MaxTrouble} \subseteq Nat
                 /\ None \notin Nat

VARIABLES
  store,       \* durable, per generation: applied, newest publication, acknowledgement owed
  seen,        \* liveRouteStatesRef: the copy the screen works with
  session,     \* the route session on the screen: its generation (0: none) and route version
  access,      \* the generation of the saved route access (0: none)
  cached,      \* the session was restored offline and is not validated yet
  blocked,     \* liveRouteAccessBlockedRef: generations the server refused
  proc,        \* the poll, the refresh and the Apply, each at one of its awaits
  refreshing,  \* the guard's refreshInFlight
  delivering,  \* the guard's activeMutations > 0
  signedIn, deleted,
  office,      \* the server: current generation, its newest publication (-1: not enrolled)
  elsewhere,   \* the newest publication is acknowledged by another device
  wire,        \* acknowledgements sent, which may arrive late and more than once
  received,    \* acknowledgements the server took from this device
  taken,       \* history: publications applied here
  trouble

vars == <<store, seen, session, access, cached, blocked, proc, refreshing, delivering,
          signedIn, deleted, office, elsewhere, wire, received, taken, trouble>>
device == <<store, seen, session, access, cached, blocked, proc, refreshing, delivering,
            signedIn, deleted, taken>>
server == <<office, elsewhere, received>>

-----------------------------------------------------------------------------
(* Values *)

Hidden == -2                  \* appliedRoute is null
Plain == -1                   \* applied before the assignment was enrolled: no sequence
NoPublication == [seq |-> -1, pending |-> FALSE]
Refused == [seq |-> -2, pending |-> FALSE]
Failed == [seq |-> -3, pending |-> FALSE]
Empty == [applied |-> Hidden, pending |-> NoPublication, owed |-> 0]
Processes == {"poll", "refresh", "apply"}
Idle == [pc |-> "idle", gen |-> 0, answer |-> NoPublication, version |-> 0, kept |-> Empty, live |-> FALSE]

\* The route version events carry: a baseline keeps the version the route started with.
Version(applied) == IF applied <= 0 THEN 0 ELSE applied

\* What the server publishes for the current generation.
Publication ==
  [seq |-> office.seq,
   pending |-> office.seq > 0 /\ <<office.gen, office.seq>> \notin received /\ ~elsewhere]

-----------------------------------------------------------------------------
(* The transitions of one stored state *)

Observed(entry, publication) ==
  IF entry.pending.seq > publication.seq THEN entry ELSE [entry EXCEPT !.pending = publication]

\* A publication that vanished from an enrolled route is an error.
CanStage(entry, publication) == publication = NoPublication => entry.pending = NoPublication

\* Mutant: a refresh takes over whatever the server publishes.
StagedSilently(entry, publication) ==
  [Observed(entry, publication) EXCEPT !.applied = publication.seq]

Staged(entry, publication) ==
  IF publication = NoPublication THEN [entry EXCEPT !.applied = Plain]
  ELSE [Observed(entry, publication) EXCEPT
          !.applied = IF entry.applied = Hidden /\ publication.seq = 0 /\ ~publication.pending
                      THEN 0 ELSE @]

CanApply(entry, publication) ==
  IF publication = NoPublication THEN entry.pending = NoPublication
  ELSE entry.applied <= publication.seq

Applied(entry, publication) ==
  IF publication = NoPublication THEN Staged(entry, publication)
  ELSE [Observed(entry, publication) EXCEPT !.applied = publication.seq, !.owed = publication.seq]

\* Mutant: any acknowledged answer ends whatever is owed.
SettledAny(entry, publication, version) == [Observed(entry, publication) EXCEPT !.owed = 0]

Settled(entry, publication, version) ==
  [Observed(entry, publication) EXCEPT !.owed = IF @ = version THEN 0 ELSE @]

\* requireMonotonicTransition: a transition that goes backwards is not written.
Monotonic(old, new) ==
  /\ old.applied >= 0 => new.applied >= old.applied
  /\ old.pending # NoPublication /\ new.pending # NoPublication => new.pending.seq >= old.pending.seq
  /\ old.pending.pending /\ new.pending = NoPublication => new.applied >= old.pending.seq

HasPending(entry) ==
  \/ entry.owed # 0
  \/ /\ entry.pending # NoPublication
     /\ \/ entry.applied = Hidden
        \/ entry.pending.seq > 0 /\ entry.pending.seq # entry.applied

-----------------------------------------------------------------------------
(* Shared steps *)

\* The account has not changed since the operation began, nor has the assignment.
Current(p) == proc[p].live /\ (p # "refresh" => session.gen = proc[p].gen)

At(p, pc) == proc[p].pc = pc
Goes(p, pc) == proc' = [proc EXCEPT ![p].pc = pc, ![p].answer = NoPublication]

\* The operation ends; Apply and a refresh release the guard.
Ends(p) ==
  /\ proc' = [proc EXCEPT ![p] = Idle]
  /\ refreshing' = IF p = "poll" THEN refreshing ELSE FALSE

Publishes(g, entry) == seen' = [seen EXCEPT ![g] = entry]

\* store.update: one exclusive transaction, its continuation before the next one.
Writes(g, entry) ==
  /\ Monotonic(store[g], entry)
  /\ store' = [store EXCEPT ![g] = entry]
  /\ Publishes(g, entry)

Troubled == trouble < MaxTrouble /\ trouble' = trouble + 1

\* Nothing the account or the stored state holds changes.
Keeps == UNCHANGED <<access, cached, delivering, signedIn, deleted, server>>

-----------------------------------------------------------------------------
(* The network *)

\* The lookup is answered with the generation the server has now.
AnswersLookup ==
  /\ At("refresh", "lookup")
  /\ proc' = [proc EXCEPT !["refresh"].pc = "gate", !["refresh"].gen = office.gen]
  /\ UNCHANGED <<store, seen, session, blocked, refreshing, wire, taken, trouble>> /\ Keeps

AnswersGet(p) ==
  /\ At(p, "get")
  /\ proc' = [proc EXCEPT ![p].pc = "got",
                          ![p].answer = IF proc[p].gen = office.gen THEN Publication ELSE Refused]
  /\ UNCHANGED <<store, seen, session, blocked, refreshing, wire, taken, trouble>> /\ Keeps

\* An acknowledgement reaches the server, at once, late or again.
ServerAcknowledges(m) ==
  /\ m[1] = office.gen
  /\ m \notin received
  /\ received' = received \cup {m}
  /\ UNCHANGED <<device, office, elsewhere, wire, trouble>>

AnswersAcknowledgement(p) ==
  /\ At(p, "acking")
  /\ LET m == <<proc[p].gen, proc[p].version>> IN
     \/ /\ m \in received /\ proc[p].gen = office.gen
        /\ proc' = [proc EXCEPT ![p].pc = "acked", ![p].answer = Publication]
     \/ /\ proc[p].gen # office.gen
        /\ proc' = [proc EXCEPT ![p].pc = "acked", ![p].answer = Refused]
  /\ UNCHANGED <<store, seen, session, blocked, refreshing, wire, taken, trouble>> /\ Keeps

\* A request fails or runs into its time limit; the server may have had it.
RequestFails(p) ==
  /\ Troubled
  /\ \/ At(p, "get") /\ proc' = [proc EXCEPT ![p].pc = "got", ![p].answer = Failed]
     \/ At(p, "acking") /\ proc' = [proc EXCEPT ![p].pc = "acked", ![p].answer = Failed]
     \/ At(p, "lookup") /\ Goes(p, "offline")
  /\ UNCHANGED <<store, seen, session, blocked, refreshing, wire, taken>> /\ Keeps

-----------------------------------------------------------------------------
(* pollLiveRouteChanges *)

PollBegins ==
  /\ signedIn /\ session.gen # 0 /\ ~cached
  /\ At("poll", "idle") /\ At("refresh", "idle") /\ At("apply", "idle")
  /\ proc' = [proc EXCEPT !["poll"] =
                [Idle EXCEPT !.pc = "get", !.gen = session.gen, !.live = TRUE]]
  /\ UNCHANGED <<store, seen, session, blocked, refreshing, wire, taken, trouble>> /\ Keeps

\* Mutant: only a publication the server still calls pending is confirmed.
RetriesPending(entry) == entry.owed # 0 /\ entry.pending.seq > entry.owed

\* What is owed is sent again by the poll that sees it.
RetriesOwed(entry) == entry.owed # 0

PollObserves ==
  /\ At("poll", "got")
  /\ LET g == proc["poll"].gen
         answer == proc["poll"].answer
         next == IF answer = NoPublication THEN store[g] ELSE Observed(store[g], answer)
     IN IF Current("poll") /\ answer.seq >= -1 /\ CanStage(store[g], answer)
        THEN /\ Writes(g, next)
             /\ IF RetriesOwed(next) THEN Goes("poll", "toAck") /\ UNCHANGED blocked
                ELSE proc' = [proc EXCEPT !["poll"] = Idle] /\ blocked' = blocked \ {g}
        ELSE /\ proc' = [proc EXCEPT !["poll"] = Idle]
             /\ blocked' = IF Current("poll") /\ answer = Refused THEN blocked \cup {g} ELSE blocked
             /\ UNCHANGED <<store, seen>>
  /\ UNCHANGED <<session, refreshing, wire, taken, trouble>> /\ Keeps

-----------------------------------------------------------------------------
(* retryLiveRouteAcknowledgement, for the poll and for Apply *)

\* The owed version is read again, then sent.
SendsAcknowledgement(p) ==
  /\ At(p, "toAck")
  /\ LET g == proc[p].gen IN
     IF Current(p) /\ store[g].owed # 0
     THEN /\ proc' = [proc EXCEPT ![p].pc = "acking", ![p].version = store[g].owed]
          /\ wire' = wire \cup {<<g, store[g].owed>>}
          /\ UNCHANGED <<refreshing, seen>>
     ELSE /\ Ends(p)
          /\ IF Current(p) THEN Publishes(g, store[g]) ELSE UNCHANGED seen
          /\ UNCHANGED wire
  /\ UNCHANGED <<store, session, blocked, taken, trouble>> /\ Keeps

TakesAcknowledgement(p) ==
  /\ At(p, "acked")
  /\ Ends(p)
  /\ LET g == proc[p].gen
         answer == proc[p].answer
     IN IF Current(p) /\ answer.seq >= 0
        THEN /\ Writes(g, Settled(store[g], answer, proc[p].version))
             /\ blocked' = IF p = "poll" THEN blocked \ {g} ELSE blocked
        ELSE /\ blocked' = IF p = "poll" /\ Current(p) /\ answer = Refused
                           THEN blocked \cup {g} ELSE blocked
             /\ UNCHANGED <<store, seen>>
  /\ UNCHANGED <<session, wire, taken, trouble>> /\ Keeps

-----------------------------------------------------------------------------
(* handleRefreshRoutes and the first load, with gateLiveRouteSession *)

\* Mutant: the guard forgets the driver's own mutations.
BeginRefreshAnyway == ~refreshing

\* routeProgressRefreshGuard.beginRefresh
BeginRefresh == ~refreshing /\ ~delivering

RefreshBegins ==
  /\ signedIn /\ At("refresh", "idle") /\ BeginRefresh
  /\ refreshing' = TRUE
  /\ proc' = [proc EXCEPT !["refresh"] = [Idle EXCEPT !.pc = "lookup", !.live = TRUE]]
  /\ UNCHANGED <<store, seen, session, blocked, wire, taken, trouble>> /\ Keeps

\* The lookup failed for want of a connection: the saved route is opened from the
\* store if it was ever applied, and stays unvalidated.
RefreshFallsBack ==
  /\ At("refresh", "offline")
  /\ Ends("refresh")
  /\ IF Current("refresh") /\ access # 0 /\ store[access].applied # Hidden
     THEN /\ session' = [gen |-> access, version |-> Version(store[access].applied)]
          /\ cached' = TRUE
          /\ Publishes(access, store[access])
     ELSE UNCHANGED <<session, cached, seen>>
  /\ UNCHANGED <<store, access, blocked, delivering, signedIn, deleted, server, wire, taken, trouble>>

RefreshReads ==
  /\ At("refresh", "gate")
  /\ IF Current("refresh")
     THEN /\ proc' = [proc EXCEPT !["refresh"].pc = "get", !["refresh"].kept = store[proc["refresh"].gen]]
          /\ UNCHANGED refreshing
     ELSE Ends("refresh")
  /\ UNCHANGED <<store, seen, session, blocked, wire, taken, trouble>> /\ Keeps

\* The publication is staged; on any error the state read before the request stands.
RefreshStages ==
  /\ At("refresh", "got")
  /\ LET g == proc["refresh"].gen
         answer == proc["refresh"].answer
         kept == proc["refresh"].kept
     IN IF ~Current("refresh") THEN Ends("refresh") /\ UNCHANGED <<store, seen, blocked>>
        ELSE /\ UNCHANGED refreshing
             /\ IF answer.seq >= -1 /\ CanStage(store[g], answer)
                THEN /\ Writes(g, Staged(store[g], answer))
                     /\ blocked' = blocked \ {g}
                     /\ proc' = [proc EXCEPT !["refresh"].pc = "adopt",
                                             !["refresh"].version = Version(store'[g].applied),
                                             !["refresh"].answer = NoPublication,
                                             !["refresh"].kept = Empty]
                ELSE /\ Publishes(g, kept)
                     /\ blocked' = IF answer = Refused THEN blocked \cup {g} ELSE blocked
                     /\ proc' = [proc EXCEPT !["refresh"].pc = "adopt",
                                             !["refresh"].version = Version(kept.applied),
                                             !["refresh"].answer = NoPublication,
                                             !["refresh"].kept = Empty]
                     /\ UNCHANGED store
  /\ UNCHANGED <<session, wire, taken, trouble>> /\ Keeps

RefreshAdopts ==
  /\ At("refresh", "adopt")
  /\ Ends("refresh")
  /\ IF Current("refresh")
     THEN /\ session' = [gen |-> proc["refresh"].gen, version |-> proc["refresh"].version]
          /\ access' = proc["refresh"].gen
          /\ cached' = FALSE
     ELSE UNCHANGED <<session, access, cached>>
  /\ UNCHANGED <<store, seen, blocked, delivering, signedIn, deleted, server, wire, taken, trouble>>

-----------------------------------------------------------------------------
(* handleApplyLiveRoute and applyLiveRouteChange *)

\* The notice is on the screen and no delivery action is under way.
ApplyBegins ==
  /\ signedIn /\ session.gen # 0 /\ At("apply", "idle") /\ At("refresh", "idle")
  /\ seen[session.gen].applied = Hidden \/ HasPending(seen[session.gen])
  /\ BeginRefresh
  /\ refreshing' = TRUE
  /\ proc' = [proc EXCEPT !["apply"] =
                [Idle EXCEPT !.pc = "read", !.gen = session.gen, !.live = TRUE]]
  /\ UNCHANGED <<store, seen, session, blocked, wire, taken, trouble>> /\ Keeps

\* A saved Apply whose acknowledgement was lost is confirmed before anything newer.
ConfirmsFirst(entry) == entry.owed # 0

ApplyReads ==
  /\ At("apply", "read")
  /\ IF ~Current("apply") THEN Ends("apply")
     ELSE /\ Goes("apply", IF ConfirmsFirst(store[proc["apply"].gen]) THEN "toAck" ELSE "get")
          /\ UNCHANGED refreshing
  /\ UNCHANGED <<store, seen, session, blocked, wire, taken, trouble>> /\ Keeps

\* The exact publication is committed with its owed acknowledgement, then shown.
ApplyStores ==
  /\ At("apply", "got")
  /\ LET g == proc["apply"].gen
         answer == proc["apply"].answer
     IN IF Current("apply") /\ answer.seq >= -1 /\ CanApply(store[g], answer)
        THEN /\ Writes(g, Applied(store[g], answer))
             /\ session' = [session EXCEPT !.version = Version(store'[g].applied)]
             /\ taken' = IF answer.seq > 0 THEN [taken EXCEPT ![g] = @ \cup {answer.seq}] ELSE taken
             /\ IF answer = NoPublication THEN Ends("apply")
                ELSE Goes("apply", "saving") /\ UNCHANGED refreshing
        ELSE Ends("apply") /\ UNCHANGED <<store, seen, session, taken>>
  /\ UNCHANGED <<blocked, wire, trouble>> /\ Keeps

\* The session marker and the route access are saved; a failure leaves the rest to a retry.
ApplySaves ==
  /\ At("apply", "saving")
  /\ \/ Current("apply") /\ Goes("apply", "toAck") /\ UNCHANGED <<refreshing, trouble>>
     \/ ~Current("apply") /\ Ends("apply") /\ UNCHANGED trouble
     \/ Troubled /\ Ends("apply")
  /\ UNCHANGED <<store, seen, session, blocked, wire, taken>> /\ Keeps

-----------------------------------------------------------------------------
(* The driver, the account and the office *)

\* A delivery action: refused while content is missing, changing or blocked.
DeliveryBegins ==
  /\ ~delivering /\ ~refreshing /\ At("apply", "idle")
  /\ session.gen # 0 /\ session.gen \notin blocked
  /\ seen[session.gen].applied # Hidden
  /\ delivering' = TRUE
  /\ UNCHANGED <<store, seen, session, access, cached, blocked, proc, refreshing, signedIn, deleted,
                 server, wire, taken, trouble>>

DeliveryEnds ==
  /\ delivering
  /\ delivering' = FALSE
  /\ UNCHANGED <<store, seen, session, access, cached, blocked, proc, refreshing, signedIn, deleted,
                 server, wire, taken, trouble>>

\* handleLogout: the account's lease ends at once; saved access and copies go.
LeavesAccount ==
  /\ signedIn' = FALSE
  /\ proc' = [p \in Processes |-> [proc[p] EXCEPT !.live = FALSE]]
  /\ session' = [gen |-> 0, version |-> 0]
  /\ access' = 0 /\ cached' = FALSE /\ blocked' = {}
  /\ seen' = [g \in Generations |-> Empty]

SignOut ==
  /\ signedIn /\ Troubled
  /\ LeavesAccount
  /\ UNCHANGED <<store, refreshing, delivering, deleted, server, wire, taken>>

\* The account is deleted: its state is removed, then the driver is signed out.
DeleteAccount ==
  /\ signedIn
  /\ deleted' = TRUE
  /\ store' = [g \in Generations |-> Empty]
  /\ LeavesAccount
  /\ UNCHANGED <<refreshing, delivering, server, wire, taken, trouble>>

SignIn ==
  /\ ~signedIn /\ ~deleted
  /\ signedIn' = TRUE
  /\ UNCHANGED <<store, seen, session, access, cached, blocked, proc, refreshing, delivering, deleted,
                 server, wire, taken, trouble>>

\* The application is killed: only the database and the saved access survive.
Restart ==
  /\ Troubled
  /\ proc' = [p \in Processes |-> Idle]
  /\ session' = [gen |-> 0, version |-> 0]
  /\ seen' = [g \in Generations |-> Empty]
  /\ cached' = FALSE /\ blocked' = {} /\ refreshing' = FALSE /\ delivering' = FALSE
  /\ UNCHANGED <<store, access, signedIn, deleted, server, wire, taken>>

\* isResolvedExpiredState: thirty idle days drop a state that owes nothing.
Expires(g) ==
  /\ session.gen = 0 /\ \A p \in Processes : At(p, "idle")
  /\ store[g] # Empty /\ store[g].owed = 0 /\ ~store[g].pending.pending
  /\ store' = [store EXCEPT ![g] = Empty]
  /\ UNCHANGED <<seen, session, access, cached, blocked, proc, refreshing, delivering, signedIn, deleted,
                 server, wire, taken, trouble>>

\* The office enrolls the assignment, publishes, or assigns the route anew.
OfficeActs ==
  /\ \/ office.seq + 2 * office.gen <= MaxSequence + 1 /\ office' = [office EXCEPT !.seq = @ + 1]
     \/ office.gen < MaxGeneration /\ office' = [gen |-> office.gen + 1, seq |-> -1]
  /\ elsewhere' = FALSE
  /\ UNCHANGED <<device, received, wire, trouble>>

\* Another device of the driver acknowledges the newest publication.
AcknowledgedElsewhere ==
  /\ Publication.pending /\ Troubled
  /\ elsewhere' = TRUE
  /\ UNCHANGED <<device, office, received, wire>>

-----------------------------------------------------------------------------
Init ==
  /\ store = [g \in Generations |-> Empty]
  /\ seen = store
  /\ session = [gen |-> 0, version |-> 0]
  /\ access = 0 /\ cached = FALSE /\ blocked = {}
  /\ proc = [p \in Processes |-> Idle]
  /\ refreshing = FALSE /\ delivering = FALSE /\ signedIn = TRUE /\ deleted = FALSE
  /\ office = [gen |-> 1, seq |-> -1] /\ elsewhere = FALSE
  /\ wire = {} /\ received = {} /\ taken = [g \in Generations |-> {}]
  /\ trouble = 0

Confirms(p) == SendsAcknowledgement(p) \/ TakesAcknowledgement(p)

PollNext == PollObserves \/ Confirms("poll")
RefreshNext == RefreshFallsBack \/ RefreshReads \/ RefreshStages \/ RefreshAdopts
ApplyNext == ApplyReads \/ ApplyStores \/ ApplySaves \/ Confirms("apply")
NetworkNext ==
  \/ AnswersLookup
  \/ \E p \in Processes : AnswersGet(p) \/ AnswersAcknowledgement(p)
  \/ \E m \in wire : ServerAcknowledges(m)

Next ==
  \/ PollBegins \/ PollNext
  \/ RefreshBegins \/ RefreshNext
  \/ ApplyBegins \/ ApplyNext
  \/ NetworkNext
  \/ \E p \in Processes : RequestFails(p)
  \/ DeliveryBegins \/ DeliveryEnds
  \/ SignOut \/ SignIn \/ DeleteAccount \/ Restart
  \/ \E g \in Generations : Expires(g)
  \/ OfficeActs \/ AcknowledgedElsewhere

\* Every callback runs, the network works again, delivery actions end, and the
\* poll and a refresh of an unvalidated or absent session come around again.
Fairness ==
  /\ WF_vars(PollNext) /\ WF_vars(RefreshNext) /\ WF_vars(ApplyNext) /\ WF_vars(AnswersLookup)
  /\ \A p \in Processes : WF_vars(AnswersGet(p)) /\ WF_vars(AnswersAcknowledgement(p))
  /\ \A g \in Generations, n \in 1 .. MaxSequence :
       WF_vars(<<g, n>> \in wire /\ ServerAcknowledges(<<g, n>>))
  /\ WF_vars(DeliveryEnds)
  /\ SF_vars(PollBegins)
  /\ SF_vars(RefreshBegins /\ (cached \/ session.gen # office.gen))

Spec == Init /\ [][Next]_vars
LiveSpec == Spec /\ Fairness

-----------------------------------------------------------------------------
\* The version the screen works with, whose events it stamps, is the one the
\* database holds as applied: nothing is shown before it is saved, and no stale
\* callback shows an older one ("persists the applied snapshot and acknowledgement
\* retry before advancing the displayed route and event version").
ShownIsStored ==
  session.gen # 0 /\ seen[session.gen].applied # Hidden
    => Version(store[session.gen].applied) = session.version

\* The visible route changes within an assignment only when the driver applies a
\* change, and never while a delivery action is under way (docs: polls and
\* notifications "do not silently replace the applied addresses or order").
ContentChangesOnlyOnApply ==
  [][ session.gen # 0 /\ session'.gen = session.gen /\ session'.version # session.version
      /\ seen[session.gen].applied # Hidden
        => At("apply", "got") /\ ~delivering ]_vars

Ledger == INSTANCE PublicationLedger WITH
  owed <- [g \in Generations |-> IF store[g].owed = 0 THEN None ELSE store[g].owed],
  taken <- taken, sent <- wire, received <- received, closed <- deleted,
  Generations <- Generations, Numbers <- 1 .. MaxSequence, None <- None

\* The stored state keeps the ledger: an acknowledgement is owed from the commit on,
\* it is for what was applied, a late answer ends only its own debt, nothing newer is
\* applied over an unconfirmed publication, and a deleted account stays deleted.
KeepsTheLedger == Ledger!Spec

\* What is owed for the current assignment is confirmed in the end, whatever got lost.
EventuallyConfirmed ==
  \A g \in Generations :
    store[g].owed # 0 ~> store[g].owed = 0 \/ ~signedIn \/ office.gen # g
=============================================================================
