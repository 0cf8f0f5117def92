---------------------------- MODULE RetryScheduler ----------------------------
(***************************************************************************)
(* When a retry pass runs: createOfflineRetryScheduler                     *)
(* (domain/offline/offlineRetryScheduler.ts) as the app mounts it for the  *)
(* offline queue.  The scheduler keeps one timer and reads the conditions  *)
(* when it arms it; an effect of AppRoot stops it and starts a new one     *)
(* after every render in which one of the values it depends on changed.    *)
(* A pass is single-flight over all schedulers and all other callers.      *)
(*                                                                         *)
(* The rows themselves are in OfflineRetry; here the queue is the number   *)
(* of rows a pass could send.                                              *)
(***************************************************************************)
EXTENDS Naturals

CONSTANTS
    MaxWork,       \* bound: rows waiting at once
    MaxEvents,     \* bound: changes of conditions, enqueues and direct acknowledgements
    MaxDoublings,  \* doublings that take the delay from initialDelayMs to maxDelayMs
    Abandons       \* bound: whether a pass may stop between two sessions

ASSUME SchedulerAssumption ==
    /\ MaxWork \in Nat /\ MaxEvents \in Nat /\ MaxDoublings \in Nat \ {0}
    /\ Abandons \in BOOLEAN

VARIABLES
    foreground, \* AppState.currentState = 'active'
    network,    \* networkReachability
    degraded,   \* offlineStorageState = 'STORAGE_DEGRADED'
    work,       \* rows hasPendingSubmissions finds in the queue
    count,      \* offlineQueueCount: what the last sync saw
    redrawn,    \* setRouteSessions made a new array since the effect last ran
    captured,   \* the values the mounted effect was run with
    armed,      \* handle # undefined, of the mounted scheduler
    doublings,  \* how often failureCount doubles the delay of the mounted scheduler
    pass,       \* who runs the pass: nobody, the mounted scheduler, anyone else
    visited,    \* the pass has settled rows that no sync has counted
    setbacks,   \* history: doublings due after the scheduled passes in a row that kept
                \* failed rows, nothing else having happened
    events      \* changes so far, for the bound

conditions == <<foreground, network, degraded>>
schedulerVars == <<conditions, work, count, redrawn, captured, armed, doublings, pass,
                   visited, setbacks, events>>

Networks == {"online", "offline", "unknown"}
Passes == {"none", "mounted", "other"}

Capture == [network |-> network, degraded |-> degraded, count |-> count]

SchedulerInit ==
    /\ foreground = TRUE /\ network = "unknown" /\ degraded = FALSE
    /\ work = 0 /\ count = 0 /\ redrawn = FALSE
    /\ captured = Capture
    /\ armed = FALSE /\ doublings = 0 /\ pass = "none" /\ visited = FALSE
    /\ setbacks = 0 /\ events = 0

(* Mutant: a change of conditions arms the timer while a retry is running.    *)
ArmsWhileRunning(fg, rows, running) ==
    ~captured.degraded /\ captured.network = "online" /\ fg /\ rows > 0

(* scheduleNext: cancel, and arm again if the mounted scheduler may retry.    *)
Arms(fg, rows, running) ==
    /\ ~captured.degraded       \* started
    /\ ~running
    /\ captured.network = "online"
    /\ fg
    /\ rows > 0

(* Mutant: the effect does not depend on the number of rows.                  *)
StaleWithoutCount ==
    redrawn \/ captured.network # network \/ captured.degraded # degraded

(* A dependency of the effect differs from its value at the last run.         *)
Stale == redrawn \/ captured # Capture

(* An event outside the scheduler.  React renders between two events.         *)
Happens ==
    /\ ~Stale
    /\ events < MaxEvents
    /\ events' = events + 1 /\ setbacks' = 0

(* getDelayMs is min(maxDelayMs, initialDelayMs * 2^failureCount): one failure *)
(* more doubles the delay until it is maxDelayMs.                             *)
Doubled(n) == IF n < MaxDoublings THEN n + 1 ELSE n

(* AppState's change event calls notifyConditionsChanged in the same tick.    *)
AppStateChanges ==
    /\ Happens
    /\ foreground' = ~foreground
    /\ armed' = Arms(foreground', work, pass = "mounted")
    /\ UNCHANGED <<network, degraded, work, count, redrawn, captured, doublings, pass, visited>>

(* React state; the scheduler sees it when the effect runs again.             *)
NetworkChanges ==
    /\ Happens
    /\ network' \in Networks \ {network}
    /\ UNCHANGED <<foreground, degraded, work, count, redrawn, captured, armed, doublings, pass, visited>>

StorageStateChanges ==
    /\ Happens
    /\ degraded' = ~degraded
    /\ UNCHANGED <<foreground, network, work, count, redrawn, captured, armed, doublings, pass, visited>>

(* A row is stored and syncOfflineQueueState counts.                          *)
Enqueue ==
    /\ Happens
    /\ work < MaxWork
    /\ work' = work + 1 /\ count' = work'
    /\ UNCHANGED <<conditions, redrawn, captured, armed, doublings, pass, visited>>

(* The sender that stored a row acknowledges or quarantines it itself.        *)
SenderSettles ==
    /\ Happens
    /\ work > 0
    /\ work' = work - 1 /\ count' = work'
    /\ UNCHANGED <<conditions, redrawn, captured, armed, doublings, pass, visited>>

(* The clean-up stops the old scheduler; whatever it has running belongs to   *)
(* no mounted scheduler any more.  The effect before it starts a pass at once *)
(* when the network came back with rows waiting; unknown is not offline.      *)
EffectRuns ==
    /\ Stale
    /\ captured' = Capture /\ redrawn' = FALSE
    /\ doublings' = 0
    /\ LET recovered == captured.network = "offline" /\ network = "online" /\ count > 0
       IN  pass' = IF pass = "mounted" \/ recovered THEN "other" ELSE pass
    /\ armed' = (~degraded /\ network = "online" /\ foreground /\ work > 0)
    /\ UNCHANGED <<conditions, work, count, setbacks, events, visited>>

(* The timer fires while no pass runs.                                        *)
TimerStartsPass ==
    /\ armed /\ pass = "none"
    /\ armed' = FALSE /\ pass' = "mounted"
    /\ UNCHANGED <<conditions, work, count, redrawn, captured, doublings, setbacks, events, visited>>

(* It fires while another caller's pass runs: retryOfflineSubmissionsFor-     *)
(* Sessions answers true at once, which the scheduler takes for a success.    *)
TimerIsRefused ==
    /\ armed /\ pass = "other"
    /\ doublings' = 0
    /\ armed' = Arms(foreground, work, FALSE)
    /\ UNCHANGED <<conditions, work, count, redrawn, captured, pass, setbacks, events, visited>>

(* Opening a route or signing in starts a pass as well.                       *)
AnotherCallerStartsPass ==
    /\ Happens
    /\ pass = "none" /\ pass' = "other"
    /\ UNCHANGED <<conditions, work, count, redrawn, captured, armed, doublings, visited>>

(* The pass acknowledges, quarantines or discards a row.                      *)
PassSettlesRow ==
    /\ pass # "none" /\ work > 0
    /\ work' = work - 1 /\ visited' = TRUE
    /\ UNCHANGED <<conditions, count, redrawn, captured, armed, doublings, pass, setbacks, events>>

(* retry() resolves: the scheduler it belongs to counts and schedules; one    *)
(* that was stopped meanwhile does neither.                                   *)
Report(ok) ==
    /\ pass' = "none" /\ visited' = FALSE
    /\ setbacks' = CASE ok -> 0
                     [] ~ok /\ pass = "mounted" -> Doubled(setbacks)
                     [] ~ok /\ pass # "mounted" -> setbacks
    /\ IF pass = "mounted"
       THEN /\ doublings' = IF ok THEN 0 ELSE Doubled(doublings)
            /\ armed' = Arms(foreground, work, FALSE)
       ELSE UNCHANGED <<doublings, armed>>

(* Every session was visited: the queue is synced and setRouteSessions maps   *)
(* the sessions, changed or not, into a new array.                            *)
PassEnds(ok) ==
    /\ pass # "none"
    /\ Report(ok)
    /\ count' = work /\ redrawn' = TRUE
    /\ UNCHANGED <<conditions, work, captured, events>>

(* No access token, a degraded store, a route being validated: the pass       *)
(* returns or throws before it visits a session.  With Abandons it also       *)
(* throws between two sessions, which leaves count behind.                    *)
PassStopsEarly ==
    /\ pass # "none"
    /\ Abandons \/ ~visited
    /\ Report(FALSE)
    /\ UNCHANGED <<conditions, work, count, redrawn, captured, events>>

SchedulerNext ==
    \/ AppStateChanges \/ NetworkChanges \/ StorageStateChanges
    \/ Enqueue \/ SenderSettles
    \/ EffectRuns
    \/ TimerStartsPass \/ TimerIsRefused \/ AnotherCallerStartsPass
    \/ PassSettlesRow
    \/ \E ok \in BOOLEAN : PassEnds(ok)
    \/ PassStopsEarly

SchedulerSpec == SchedulerInit /\ [][SchedulerNext]_schedulerVars

(* React runs an effect whose dependency changed, a timer that stays armed    *)
(* fires, and a pass ends: every call it awaits has a time limit.             *)
FairSchedulerSpec ==
    /\ SchedulerSpec
    /\ WF_schedulerVars(EffectRuns)
    /\ WF_schedulerVars(TimerStartsPass \/ TimerIsRefused)
    /\ WF_schedulerVars((\E ok \in BOOLEAN : PassEnds(ok)) \/ PassStopsEarly)

--------------------------------------------------------------------------------
(* Properties.                                                                *)

(* Type correctness.                                                          *)
SchedulerTypeOK ==
    /\ foreground \in BOOLEAN /\ network \in Networks /\ degraded \in BOOLEAN
    /\ work \in 0..MaxWork /\ count \in 0..MaxWork
    /\ redrawn \in BOOLEAN
    /\ captured \in [network : Networks, degraded : BOOLEAN, count : 0..MaxWork]
    /\ armed \in BOOLEAN
    /\ doublings \in 0..MaxDoublings /\ setbacks \in 0..MaxDoublings
    /\ pass \in Passes /\ visited \in BOOLEAN
    /\ events \in 0..MaxEvents

(* docs/route-access-flow.md:196, "retries run only while the app is online   *)
(* and foregrounded": a timer is armed only in the foreground, for rows the   *)
(* rendered app may send, and never beside the scheduler's own retry, whatever *)
(* order events, renders and answers come in.                                 *)
ArmedOnlyWhileAllowed ==
    armed => /\ foreground
             /\ captured.network = "online" /\ ~captured.degraded
             /\ pass # "mounted"

Allowed == foreground /\ network = "online" /\ ~degraded /\ work > 0

(* offlineRetryScheduler.test.ts:11, "retries pending work while the app      *)
(* remains online and foregrounded": rows that can be sent do not wait for    *)
(* ever without a pass.                                                       *)
PendingWorkIsRetried == [](Allowed => <>(pass # "none" \/ ~Allowed))

(* docs/route-access-flow.md:196, "with bounded exponential backoff": the     *)
(* delay of the armed timer has grown once for every scheduled pass in a row  *)
(* that kept failed rows.                                                     *)
BackoffGrows == armed => doublings >= setbacks
================================================================================
