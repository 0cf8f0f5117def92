----------------------------- MODULE SyncHeartbeat -----------------------------
(***************************************************************************)
(* Heartbeats (domain/operations/driverSyncHeartbeat.ts) and the outbox of *)
(* completion-clear heartbeats: a route end the server acknowledged is     *)
(* owed one heartbeat that says so, until the server observed it.  The     *)
(* marker of the delivery is an entry of the event's journal in the        *)
(* offline queue.                                                          *)
(*                                                                         *)
(* Attempts run beside each other: one per entry for a flush of the        *)
(* outbox, and a direct one of whoever just saw the acknowledgement.  An   *)
(* attempt is bounded: when its time is over or its session has changed    *)
(* its caller goes on at once (runBoundedAsyncOperation) while the attempt *)
(* itself runs to its end.                                                 *)
(* The server, the office's reassignments and the phone are external.      *)
(***************************************************************************)
EXTENDS Naturals, FiniteSets

CONSTANTS
    Entries,     \* acknowledged route ends, each of a route of its own
    NoAccess,    \* entries whose route gives no access any more
    MaxDirect,   \* bound: direct attempts
    MaxTrouble   \* bound: failures, timeouts, changes of session and crashes

ASSUME HeartbeatAssumption ==
    /\ IsFiniteSet(Entries) /\ NoAccess \subseteq Entries
    /\ "direct" \notin Entries
    /\ MaxDirect \in Nat /\ MaxTrouble \in Nat

VARIABLES
    owed,      \* entries the queue knows as acknowledged
    marked,    \* entries with the journal entry ACK_CLEAR_DELIVERED, in memory
    saved,     \* ... in the stored queue
    queue,     \* "clean", "dirty" (a save is under way) or "degraded"
    account,   \* [bound, epoch, load]: the account binding and its epoch
    scheduler, \* [mounted, redrawn, seen, captured]: the completion-clear retry
               \* scheduler; a new array of routes or another active route since its
               \* effect ran; what the last sync saw, and what the effect ran with
    identity,  \* [memory, disk]: the last sequence of every session key
    attempts,  \* every attempt
    health,    \* driverSyncHealth, the displayed answer
    observed,  \* entries whose heartbeat the server accepted
    told,      \* history: entries a caller was told are delivered
    issued,    \* history: sequences handed out
    budget     \* [direct, trouble] used so far

heartbeatVars == <<owed, marked, saved, queue, account, scheduler, identity,
                   attempts, health, observed, told, issued, budget>>
outbox == <<owed, marked, saved, queue>>
history == <<observed, told, issued>>

Attempts == Entries \cup {"direct"}
None == "none"
NoHealth == [key |-> None, seq |-> 0, epoch |-> 0]

Resting == [phase |-> "idle", entry |-> None, seq |-> 0, answer |-> None,
            waiting |-> FALSE, current |-> FALSE, wrote |-> FALSE, again |-> FALSE,
            epoch |-> 0]

Pending == owed \ marked

(* completionClearOutboxCount and offlineStorageState, as a sync sets them.     *)
Seen == [open |-> Cardinality(Pending), degraded |-> queue = "degraded"]

HeartbeatInit ==
    /\ owed = {} /\ marked = {} /\ saved = {} /\ queue = "clean"
    /\ account = [bound |-> TRUE, epoch |-> 0, load |-> "done"]
    /\ scheduler = [mounted |-> FALSE, redrawn |-> FALSE, seen |-> Seen, captured |-> Seen]
    /\ identity = [memory |-> [e \in Entries |-> 0], disk |-> [e \in Entries |-> 0]]
    /\ attempts = [a \in Attempts |-> Resting]
    /\ health = NoHealth /\ observed = {} /\ told = {} /\ issued = {}
    /\ budget = [direct |-> 0, trouble |-> 0]

Trouble ==
    /\ budget.trouble < MaxTrouble
    /\ budget' = [budget EXCEPT !.trouble = @ + 1]

At(a, phase) == attempts[a].phase = phase
Goes(a, phase) == attempts' = [attempts EXCEPT ![a].phase = phase]
Rests(a) == attempts' = [attempts EXCEPT ![a] = Resting]

--------------------------------------------------------------------------------
(* The displayed answer.                                                      *)

Answer(a) == [key |-> attempts[a].entry, seq |-> attempts[a].seq, epoch |-> attempts[a].epoch]

(* Mutant: the account epoch of a request is not looked at.                    *)
NeverOld(a, epoch) == FALSE

OfOldEpoch(a, epoch) == attempts[a].epoch # epoch

(* projectDriverSyncHeartbeatForEpoch, projectLatestDriverSyncHeartbeat.        *)
Project(shown, a) ==
    IF OfOldEpoch(a, account.epoch) \/ (shown # NoHealth /\ shown.seq > attempts[a].seq)
    THEN shown ELSE Answer(a)

(* sendCompletionAcknowledgedHeartbeatBeforeCleanup shows what the server said *)
(* however the attempt ended.                                                 *)
Shows(a) ==
    health' = IF attempts[a].answer \in {"accepted", "conflict"} THEN Project(health, a)
              ELSE health

(* An attempt that ends at its time limit knows an answer it has read.         *)
ShowsWhatWasRead(a) == IF At(a, "storing") THEN Shows(a) ELSE UNCHANGED health

--------------------------------------------------------------------------------
(* The end of an attempt for its caller.                                      *)

(* Mutant: a failed attempt reopens the entry whoever wrote the marker.        *)
ReopensAny(a) == {attempts[a].entry}

(* The catch of attemptDriverCompletionClearHeartbeat takes back the marker    *)
(* this attempt wrote.                                                        *)
Reopened(a) == IF attempts[a].wrote THEN {attempts[a].entry} ELSE {}

Touched == IF queue = "degraded" THEN queue ELSE "dirty"

Reopens(reopened) ==
    /\ marked' = marked \ reopened
    /\ queue' = IF marked' = marked THEN queue ELSE Touched

(* syncOfflineQueueState after the caller has its outcome.                     *)
Synced == scheduler' = [scheduler EXCEPT !.seen = Seen']

(* A dependency of the scheduler's effect differs from its value at the last    *)
(* run.                                                                       *)
Stale == scheduler.redrawn \/ scheduler.seen # scheduler.captured

Fails(a) ==
    /\ attempts[a].waiting
    /\ Reopens(Reopened(a)) /\ UNCHANGED <<owed, saved>>
    /\ Shows(a) /\ Synced
    /\ Rests(a)

(* Whoever no longer has a caller ends without a trace.                        *)
Vanishes(a) ==
    /\ ~attempts[a].waiting
    /\ Rests(a)
    /\ UNCHANGED <<outbox, scheduler, health>>

(* After the caller has gone: a request is cancelled, and everything else      *)
(* runs on until its own next step.                                           *)
Detached(a) ==
    IF attempts[a].phase \in {"numbering", "numbered", "answered"}
    THEN [attempts[a] EXCEPT !.waiting = FALSE, !.wrote = FALSE]
    ELSE Resting

(* The time of a flush is the outer one and aborts the signal isAttemptCurrent *)
(* asks; the time of a direct attempt is its own.                              *)
Outlives(a) == a = "direct"

TimesOut(a) ==
    /\ attempts[a].waiting /\ Trouble
    /\ Reopens(Reopened(a)) /\ UNCHANGED <<owed, saved, account, identity, history>>
    /\ ShowsWhatWasRead(a) /\ Synced
    /\ attempts' = [attempts EXCEPT ![a] = [Detached(a) EXCEPT !.current = @ /\ Outlives(a)]]

--------------------------------------------------------------------------------
(* Starting.                                                                  *)

Started(a, entry) ==
    [Resting EXCEPT !.phase = IF a \in Entries THEN "access" ELSE "numbering",
                    !.entry = entry, !.waiting = TRUE, !.current = TRUE,
                    !.epoch = account.epoch]

(* Mutant: a flush tries one entry, and begins with the same one every time.    *)
OneLane == {CHOOSE e \in Pending : TRUE}

(* flushDriverCompletionClearOutboxEntries: every open entry has its lane.      *)
Lanes == Pending

(* flushCompletionClearOutbox: an attempt for every open entry, side by side.  *)
(* React renders before the next timer of the scheduler fires.  The code may    *)
(* begin beside an attempt that timed out and runs to its end; here the next   *)
(* flush waits for it, as it is not current any more and only takes a number.  *)
FlushBegins ==
    /\ scheduler.mounted /\ ~Stale /\ account.bound /\ Pending # {}
    /\ \A e \in Entries : At(e, "idle")
    /\ attempts' = [a \in Attempts |-> IF a \in Lanes THEN Started(a, a) ELSE attempts[a]]
    /\ UNCHANGED <<outbox, account, scheduler, identity, health, history, budget>>

(* The exact entry must still be open, of the bound account.                   *)
StillOwed(a) == attempts[a].entry \in Pending /\ account.bound

ResolvesAccess(a) ==
    /\ At(a, "access") /\ attempts[a].entry \notin NoAccess
    /\ IF StillOwed(a)
       THEN Goes(a, "numbering") /\ UNCHANGED <<outbox, scheduler, health>>
       ELSE Fails(a)
    /\ UNCHANGED <<account, identity, history, budget>>

HasNoAccess(a) ==
    /\ At(a, "access") /\ attempts[a].entry \in NoAccess
    /\ Rests(a)
    /\ UNCHANGED <<outbox, account, scheduler, identity, health, history, budget>>

(* Finish, a retry pass or a receipt saw the acknowledgement.                  *)
DirectBegins(e) ==
    /\ e \in Pending \ NoAccess /\ account.bound /\ At("direct", "idle")
    /\ budget.direct < MaxDirect /\ budget' = [budget EXCEPT !.direct = @ + 1]
    /\ attempts' = [attempts EXCEPT !["direct"] = Started("direct", e)]
    /\ UNCHANGED <<outbox, account, scheduler, identity, health, history>>

--------------------------------------------------------------------------------
(* The sequence: createDriverSyncIdentity, one caller at a time.               *)

(* Mutant: the next sequence is counted in memory and not written.             *)
WritesNothing(k) == identity.disk

WritesNext(k) == [identity.disk EXCEPT ![k] = identity.memory[k] + 1]

NumberIsWritten(a) ==
    /\ At(a, "numbering") /\ \A b \in Attempts : ~At(b, "numbered")
    /\ identity' = [identity EXCEPT !.disk = WritesNext(attempts[a].entry)]
    /\ Goes(a, "numbered")
    /\ UNCHANGED <<outbox, account, scheduler, health, history, budget>>

(* The limiter lets two writes of a route through in a minute; what it counted *)
(* is left open here, and a refusal is trouble.  A request with an aborted      *)
(* signal is not sent.                                                        *)
NumberReturns(a) ==
    LET n == identity.memory[attempts[a].entry] + 1
    IN  /\ At(a, "numbered")
        /\ identity' = [identity EXCEPT !.memory[attempts[a].entry] = n]
        /\ issued' = issued \cup {<<attempts[a].entry, n>>}
        /\ IF attempts[a].current /\ attempts[a].waiting
           THEN /\ attempts' = [attempts EXCEPT ![a].phase = "sent", ![a].seq = n]
                /\ UNCHANGED <<outbox, scheduler, health>>
           ELSE Fails(a) \/ Vanishes(a)
        /\ UNCHANGED <<account, observed, told, budget>>

Limited(a) ==
    /\ At(a, "numbered") /\ Trouble
    /\ identity' = [identity EXCEPT !.memory[attempts[a].entry] = @ + 1]
    /\ issued' = issued \cup {<<attempts[a].entry, identity.memory[attempts[a].entry] + 1>>}
    /\ Fails(a) \/ Vanishes(a)
    /\ UNCHANGED <<account, observed, told>>

(* The write of the sequence fails, before or after it reached the disk.       *)
NumberFails(a) ==
    /\ At(a, "numbering") /\ \A b \in Attempts : ~At(b, "numbered")
    /\ Trouble
    /\ \E disk \in {identity.disk, WritesNext(attempts[a].entry)} : identity' = [identity EXCEPT !.disk = disk]
    /\ Fails(a) \/ Vanishes(a)
    /\ UNCHANGED <<account, history>>

--------------------------------------------------------------------------------
(* The server.                                                                *)

Observes(a) == observed' = observed \cup {attempts[a].entry}
Says(a, answer) ==
    attempts' = [attempts EXCEPT ![a].phase = "answered", ![a].answer = answer]

ServerAccepts(a) ==
    /\ At(a, "sent")
    /\ Observes(a) /\ Says(a, "accepted")
    /\ UNCHANGED <<outbox, account, scheduler, identity, health, told, issued, budget>>

(* Another device holds the route, or the token is no longer good.             *)
ServerRefuses(a, answer) ==
    /\ At(a, "sent") /\ Trouble /\ Says(a, answer)
    /\ UNCHANGED <<outbox, account, scheduler, identity, health, history>>

(* The request fails, whatever the server did with it.                         *)
RequestFails(a) ==
    /\ At(a, "sent") /\ Trouble
    /\ Observes(a) \/ UNCHANGED observed
    /\ Fails(a) \/ Vanishes(a)
    /\ UNCHANGED <<account, identity, told, issued>>

--------------------------------------------------------------------------------
(* The answer.                                                                *)

IsCurrent(a) == attempts[a].current /\ attempts[a].epoch = account.epoch /\ account.bound

(* Mutant: any answer of the server closes the entry.                          *)
ClosesOnAny(a) == attempts[a].answer # "unauthorized"

Closes(a) == attempts[a].answer = "accepted"

MayMark(a) == IsCurrent(a) /\ Closes(a) /\ attempts[a].entry \in Pending /\ queue # "degraded"

(* markCompletionClearHeartbeatDelivered; the caller, or nobody, now waits for *)
(* the queue to be stored.                                                    *)
TakesAnswer(a) ==
    /\ At(a, "answered") /\ attempts[a].answer # "unauthorized"
    /\ IF MayMark(a)
       THEN /\ marked' = marked \cup {attempts[a].entry} /\ queue' = "dirty"
            /\ IF attempts[a].waiting
               THEN attempts' = [attempts EXCEPT ![a].phase = "storing", ![a].wrote = TRUE]
               ELSE Rests(a)
            /\ UNCHANGED <<owed, saved, scheduler, health>>
       ELSE Fails(a) \/ Vanishes(a)
    /\ UNCHANGED <<account, identity, history, budget>>

IsStored(a) ==
    /\ At(a, "storing") /\ queue = "clean"
    /\ told' = told \cup {attempts[a].entry}
    /\ UNCHANGED <<outbox, account, identity, observed, issued, budget>>
    /\ Shows(a) /\ Synced /\ Rests(a)

IsNotStored(a) ==
    /\ At(a, "storing") /\ queue = "degraded"
    /\ Fails(a)
    /\ UNCHANGED <<account, identity, history, budget>>

(* A 401 is answered once with a fresh token of the same assignment, in a new  *)
(* attempt.                                                                   *)
Refreshes(a) ==
    /\ At(a, "answered") /\ attempts[a].answer = "unauthorized"
    /\ IF ~attempts[a].again /\ IsCurrent(a) /\ attempts[a].waiting /\ StillOwed(a)
       THEN /\ attempts' = [attempts EXCEPT ![a].phase = "numbering", ![a].again = TRUE,
                                            ![a].answer = None]
            /\ UNCHANGED <<outbox, scheduler, health>>
       ELSE Fails(a) \/ Vanishes(a)
    /\ UNCHANGED <<account, identity, history, budget>>

--------------------------------------------------------------------------------
(* The queue: an acknowledgement, a save, a recovery.                          *)

(* A route end is acknowledged and stored before its heartbeat is thought of.   *)
Acknowledged(e) ==
    /\ e \notin owed /\ queue # "degraded"
    /\ owed' = owed \cup {e}
    /\ UNCHANGED <<marked, saved, queue, account, identity, attempts, health, history,
                   budget>>
    /\ Synced

(* A recovery syncs what it found; a save that succeeds does not.               *)
Saves ==
    /\ queue # "clean" /\ saved' = marked /\ queue' = "clean"
    /\ UNCHANGED <<owed, marked, account, identity, attempts, health, history,
                   budget>>
    /\ IF queue = "degraded" THEN Synced ELSE UNCHANGED scheduler

SaveFails ==
    /\ queue = "dirty" /\ Trouble /\ queue' = "degraded"
    /\ UNCHANGED <<owed, marked, saved, account, identity, attempts, health, history>>
    /\ Synced

--------------------------------------------------------------------------------
(* The session.                                                               *)

Aborted(a) == [Detached(a) EXCEPT !.current = FALSE]

(* Every lifecycle signal fires: the callers go on, each taking back its own    *)
(* marker and syncing.                                                        *)
Aborts ==
    /\ Reopens(UNION {Reopened(a) : a \in {b \in Attempts : attempts[b].waiting}})
    /\ UNCHANGED <<owed, saved>>
    /\ attempts' = [a \in Attempts |-> Aborted(a)]

(* An answer that was read before the abort is shown after the display was      *)
(* cleared, unless the account epoch is another one.                           *)
ReadBefore(epoch) ==
    {Answer(a) : a \in {b \in Attempts : /\ At(b, "storing") /\ attempts[b].waiting
                                        /\ ~OfOldEpoch(b, epoch)}}

Clears(epoch) ==
    health' \in IF ReadBefore(epoch) = {} THEN {NoHealth} ELSE ReadBefore(epoch)

(* The scheduler is stopped; its effect runs again when a dependency differs.   *)
Stopped == [scheduler EXCEPT !.mounted = FALSE, !.seen = Seen']

(* Signing in and refreshing the routes, handleLoginAndLoadRoutes: transport    *)
(* stops, the account is bound again, the routes are loaded.                   *)
LoadBegins ==
    /\ Trouble
    /\ account' = [bound |-> FALSE, epoch |-> account.epoch + 1, load |-> "binding"]
    /\ Aborts /\ Clears(account'.epoch)
    /\ scheduler' = Stopped
    /\ UNCHANGED <<identity, history>>

Binds ==
    /\ account.load = "binding"
    /\ account' = [account EXCEPT !.bound = TRUE, !.load = "loading"]
    /\ UNCHANGED <<outbox, identity, attempts, health, history, budget>>
    /\ Synced

(* The loaded routes are a new array: flushCompletionClearOutbox, on which the  *)
(* effect depends, is a new function.                                         *)
LoadSucceeds ==
    /\ account.load = "loading"
    /\ account' = [account EXCEPT !.load = "done"]
    /\ scheduler' = [scheduler EXCEPT !.redrawn = TRUE]
    /\ UNCHANGED <<outbox, identity, attempts, health, history, budget>>

(* The server does not answer: only the message and the sync state change.     *)
LoadFails ==
    /\ account.load = "loading" /\ Trouble
    /\ account' = [account EXCEPT !.load = "failed"]
    /\ UNCHANGED <<outbox, scheduler, identity, attempts, health, history>>

(* Another route, or another assignment of it, becomes the active one.         *)
RouteChanges ==
    /\ Trouble
    /\ Aborts /\ Clears(account.epoch)
    /\ scheduler' = [Stopped EXCEPT !.redrawn = TRUE]
    /\ UNCHANGED <<account, identity, history>>

(* handleLogout; signing in again is LoadBegins.  The routes and the stored     *)
(* access are gone: whatever is mounted again has nothing to deliver with       *)
(* before a load succeeds.                                                    *)
SignsOut ==
    /\ account.load # "out" /\ Trouble
    /\ account' = [bound |-> FALSE, epoch |-> account.epoch + 1, load |-> "out"]
    /\ Aborts /\ Clears(account'.epoch)
    /\ scheduler' = [mounted |-> FALSE, redrawn |-> FALSE, seen |-> Seen', captured |-> Seen']
    /\ UNCHANGED <<identity, history>>

(* The process ends and starts again with what is stored.                     *)
Restarts ==
    /\ Trouble
    /\ marked' = saved /\ queue' = "clean" /\ UNCHANGED <<owed, saved>>
    /\ account' = [bound |-> FALSE, epoch |-> account.epoch + 1, load |-> "binding"]
    /\ scheduler' = [mounted |-> FALSE, redrawn |-> TRUE, seen |-> Seen', captured |-> Seen']
    /\ identity' = [identity EXCEPT !.memory = identity.disk]
    /\ attempts' = [a \in Attempts |-> Resting]
    /\ health' = NoHealth
    /\ UNCHANGED history

(* The effect stops the scheduler it mounted and mounts another one while      *)
(* there are entries and the store can be written.                            *)
EffectRuns ==
    /\ Stale
    /\ scheduler' = [scheduler EXCEPT !.mounted = scheduler.seen.open > 0 /\ ~scheduler.seen.degraded,
                                      !.redrawn = FALSE, !.captured = scheduler.seen]
    /\ UNCHANGED <<outbox, account, identity, attempts, health, history, budget>>

--------------------------------------------------------------------------------
Steps(a) ==
    \/ ResolvesAccess(a) \/ HasNoAccess(a)
    \/ NumberIsWritten(a) \/ NumberReturns(a) \/ ServerAccepts(a)
    \/ TakesAnswer(a) \/ IsStored(a) \/ IsNotStored(a)
    \/ Refreshes(a)

GoesWrong(a) ==
    \/ TimesOut(a) \/ NumberFails(a) \/ Limited(a) \/ RequestFails(a)
    \/ \E answer \in {"conflict", "unauthorized"} : ServerRefuses(a, answer)

HeartbeatNext ==
    \/ \E a \in Attempts : Steps(a) \/ GoesWrong(a)
    \/ FlushBegins
    \/ \E e \in Entries : DirectBegins(e) \/ Acknowledged(e)
    \/ Saves \/ SaveFails \/ EffectRuns
    \/ LoadBegins \/ Binds \/ LoadSucceeds \/ LoadFails
    \/ RouteChanges \/ SignsOut \/ Restarts

(* Requests are answered, saves end, a minute passes, React runs an effect that *)
(* is due, and the retry scheduler's timer fires.                             *)
HeartbeatSpec ==
    /\ HeartbeatInit /\ [][HeartbeatNext]_heartbeatVars
    /\ \A a \in Attempts : WF_heartbeatVars(Steps(a))
    /\ WF_heartbeatVars(Saves) /\ WF_heartbeatVars(EffectRuns) /\ WF_heartbeatVars(FlushBegins)
    /\ WF_heartbeatVars(Binds \/ LoadSucceeds)

--------------------------------------------------------------------------------
(* Properties.                                                                *)

(* docs/driver-pilot-runbook.md:36, "Close the exact record only after an      *)
(* accepted, non-conflicting server observation": whatever was late, repeated, *)
(* lost or refused, a closed entry is one the server observed.                 *)
ClosedOnlyIfObserved == marked \cup saved \subseteq observed

(* Whoever was told that the heartbeat is delivered may rely on it: the marker  *)
(* is stored, and no other attempt takes it back.                             *)
ToldIsStored == told \subseteq saved \cap marked

(* driverSyncHeartbeat.test.ts:338, "rejects a late account-A response after   *)
(* logout advances the session epoch".                                        *)
HealthOfThisAccount == health # NoHealth => health.epoch = account.epoch

(* A sequence is handed out once in the life of a session key, across restarts *)
(* and failed writes: the server orders heartbeats by it.                      *)
NumbersAreNew ==
    [][\A a \in Attempts :
         At(a, "numbered") /\ attempts'[a].phase = "sent"
         => <<attempts[a].entry, attempts'[a].seq>> \notin issued]_heartbeatVars

(* The routes could not be loaded after transport was stopped for loading them. *)
Stranded == ~scheduler.mounted /\ ~Stale /\ account.load = "failed"

(* driverSyncHeartbeat.test.ts:511, driver-pilot-runbook.md:38, "restart,       *)
(* timeout, 401, or session cleanup must leave it retryable": an entry whose    *)
(* route gives access is delivered, whatever happens to the others, unless a    *)
(* failed load left nothing to deliver it.                                     *)
EventuallyDelivered ==
    \A e \in Entries \ NoAccess :
        e \in owed ~> (e \in saved \/ account.load = "out" \/ Stranded)

(* driver-pilot-runbook.md:56: transport stops for a change of account and is   *)
(* armed again once the account is bound.                                     *)
RearmedAfterBinding ==
    \A e \in Entries \ NoAccess : e \in owed ~> (e \in saved \/ account.load = "out")
================================================================================
