# Verification of the Clever Routes driver app

TLA+ models of the parts of the driver app that decide whether a delivery, a
payment, a photo, a position or a confirmation reaches the delivery server, and
whether the driver works on the route the office and the driver agreed on. TLC
checks the models on small instances; TLAPS proves the most important
properties for every instance.

Paths are relative to the repository root. `APP` is `src/app/AppRoot.tsx`,
`QUEUE` is `src/domain/offline/offlineSubmissionQueue.ts`. To check a run:
`tlc -config retry_cash.cfg MCOfflineRetry`; to check proofs:
`tlapm OfflineRetry_proofs.tla`. `PROJECT.json` lists every run with its
module, for every property a mutation of the model that breaks it, the source
lines each definition stands for, the hazards of the code at their lines, what
was found, and every theorem.

## 1. Inventory

| Component | State | Operations | Hard behaviour |
|---|---|---|---|
| Offline evidence queue (`QUEUE`) | rows by id: state, reconciliation record, journal, attempts, order; bound account | about twenty mutating methods: enqueue, acknowledge, quarantine, discard, block, seal, reconcile, proof media, clear outbox | any order of calls from a dozen flows; capacity; two accounts in one map |
| Queue persistence (`QUEUE` 843-911, `offlineQueuePersistence.ts`) | latest items, promise chain, degraded flag | change, save, verify, fail, recover, `whenPersisted` | failures between writes, recovery beside the chain, restart |
| Encrypted evidence store (`expoEncryptedEvidenceStore.ts`) | SQLCipher tables, key, legacy queue | open, migrate, get, set, retain, adopt, export, purge | crash at any step of the migration; ownership; expiry |
| Retry pass (`QUEUE` 1017-1347, `APP` 1751-1965) | snapshot, blocked flags, single-flight token | receipt lookup, post, upload, isolate, give up | stale snapshot, account change under way, store failure half-way |
| Direct flows (`stopProofEvents.ts`, `deliveryFinish.ts`, `driverEvents.ts`, photo capture) | one submission each | queue, save, check order, post, settle | beside the pass and each other; lost answers |
| Retry scheduler (`offlineRetryScheduler.ts`, effects in `APP`) | one timer, failure count, values captured by React | arm, fire, stop, notify | lost wake-ups, replacement while running |
| Access token store (`driverAccessTokenStore.ts`) | account, tokens, route access, active session, tracking before a start | serialised read-modify-write with identity checks | answers that arrive after the account changed |
| Driver session (`APP`, `driverRestoreAttempt.ts`, `driverSessionReset.ts`, `involuntaryDriverSessionClear.ts`) | lifecycle, epoch, flows under way | sign in, restore, start, finish, renew, sign out, delete | every flow still awaiting when another begins |
| Location task and stream (`continuousLocationTask.ts`, `continuousLocationStream.ts`, `trackingKeepAlive.ts`) | the system service; the stores | record start, send batch, renew, end, stop | a second actor on the same store that the foreground does not see |
| Completion assistance (`completionAssistance*.ts`) | runs, visits, candidates, commands per account | record samples, serve policies, answer, synchronise, merge | late policies and samples; lost answers; two passes at once |
| Live route changes (`liveRouteChange*.ts`) | applied and newest publication, acknowledgement owed | observe, stage, apply, acknowledge | a newer publication or a refresh during an acknowledgement |
| Heartbeat and completion-clear outbox (`driverSyncHeartbeat.ts`, `driverSyncIdentity.ts`) | numbers per lane; marks in the queue | attempt, mark, reopen, flush | time limit against late success; epochs |
| Diagnostics (`driverDiagnostic*.ts`, `expoDriverDiagnosticRuntime.ts`, `diagnosticStorage.ts`) | records per owner, credential, binding | append, send a batch, settle, revoke, rebind | a chain of storage mutations that fail one by one; two bindings at once |
| Automatic completion, navigation, notifications, update check, form state, maps, parsing | view or single-call state | single calls | not modelled (section 6) |

**How they interact.** JavaScript is single-threaded: components interleave
only at awaits. All flows share ONE queue object; they call its methods
synchronously and then await `whenPersisted`; the queue calls the persistence
wrapper after every change, which writes through the encrypted store. The retry
pass is started by the scheduler's timer, by the network coming back, by
opening a route and by sign-in; it is single-flight. Sign-out aborts the pass,
seals the account's rows and clears the token store. The background location
task works on the token store, the queue and the completion state by itself.
Completion-clear heartbeats are marks in the journals of acknowledged route
ends. The live-route state decides which route version the events carry. The
server is reached by HTTP; a request may be applied and its answer lost. It is
external everywhere: it records an event id once, refuses what belongs to
another assignment, and tells on request whether it has an event.

## 2. Modules

**OfflineEvidence** - `createInMemoryOfflineSubmissionQueue`. `rows[o][i]` is
the item of account `o` with queueItemId `i`; a row nobody enqueued is
`ABSENT`. Each method is an operator on the rows of one account (`Enqueued`,
`Acknowledged`, `RouteBlocked`, ...), and an action that applies it to
`rows[owner]` behind `Mutable`, the `requireMutable` of the code. The journal is
kept as the three facts later code asks of it (`serverAck`, `cleared`, `cause`).
The trim runs inside the enqueue operators, as in the code.

**OfflineRetry** EXTENDS OfflineEvidence with the retry pass, the direct
submissions, receipt recovery and sign-out / sign-in. One action is the code
from one await to the next; while the pass handles several rows without an
await (`phase` is `loop` or `send`) nothing else of the app acts (`Free`).
`pass.snap` holds what the clones of `listPending` held. `sent` is every
request that left the phone; `ServerApplies` may happen at any later time or
never. `terms` is the server's assignment of a route, `session` the app's,
`recorder` (history) the account a driver recorded an event under.

**QueuePersistence** - the promise chain of
`createPersistentOfflineSubmissionQueue` over a store that runs operations one
at a time in the order they were issued. The content is a version number. A
`job` is one `persistLatest`; `chain` is the job whose promise `persistQueue`
is. `Recover` writes beside the chain. `Recoverers` says who calls
`recoverStorage`: the app, and account deletion. `Crash` restarts from what is
on disk. It implements **DurableCell**: memory, disk, and a promise made only
for what is on disk.

**RetryScheduler** - `createOfflineRetryScheduler` with the effect that mounts
it. `captured` holds the dependencies the mounted effect ran with, `Stale` says
that one has changed, `EffectRuns` cleans up and mounts again. `Abandons` lets
a pass throw between two route sessions.

**DriverAccessStore** - the stored payload of the token store and every method
as one serialised step, with the identity comparison each makes.
**DriverSession** EXTENDS it with the flows that call the store: sign-in and
load, restore, start, finish, renewal, push, sign-out, involuntary clear and
account deletion, each a state machine over its awaits, and the native location
service's own queue of starts and stops (`ops`). **LocationTask** EXTENDS that
with the background task. LocationTask also implements the small machine of
DriverAccessStore (`StoreKeepsItsPromise`).

**LiveRouteChange** - the stored state of a route per assignment generation,
with the poll, the refresh and the driver's Apply, each at one of its awaits
(`proc`), the refresh guard, answers that arrive between any two steps,
restarts, sign-out, deletion and expiry. It implements **PublicationLedger**:
what is applied is owed until the office confirms it.

**CompletionAssistance** - the pure transitions of the stored completion state.
**CompletionDetection** runs them on a stream of GPS samples and policies;
**CompletionSync** on two synchronisation passes, the driver and the server.

**EvidenceStore** - the database: opening with key and integrity check, the two
steps of the legacy migration, `getItem`, `setItem` with read-back, retention,
adoption, support export and purge; a crash between any two awaits.

**SyncHeartbeat** - the attempts that deliver clearing heartbeats, their number
lanes, the flush, the bounded operations around them, the epochs and the
effects that mount the outbox's scheduler.

**DiagnosticDelivery** - records from a report to the server: per binding an
outbox, a mutation chain and a transport; the credential; sign-out and rebind.

`MC*` modules name the elements of the instances; `*_proofs` modules hold the
theorems.

### Abstractions

- *Queue.* A row's identity is a model value with a kind, a route, a stop and
  the files it refers to; payloads are left out. Whether a second enqueue of one
  id carries the same identity is a parameter of the call (`same`).
  `ROUTE_STARTED` and `PICKUP_COMPLETED` are one kind. Time is left out:
  `PassRetires(old)` and `AttemptFails(_, old)` let a row be too old at any
  pass; expiry is in EvidenceStore. The queue of OfflineRetry is not restarted;
  restarts are in QueuePersistence and EvidenceStore. The pass may post an event
  quarantined after its snapshot (`QUEUE` 1127-1131 reads the clone); so does the
  model.
- *Live route.* Stop content, drafts and membership, the hiding of unapplied
  content, 404 and route-ended answers are left out; one owner; store operations
  are one step each, as their transactions are.
- *Completion.* Distances and accuracies are the zones they decide
  (`outside`, `ring`, `inside`, `edge`, `unclear`); the buffer of samples before
  the first policy drops what is too old (`MaxAge`), too much (`MaxBuffered`) or
  followed by an invalid sample, of one assignment; account deletion is left out.
- *Evidence store.* An item is a kind, a state and its times; the reads of one
  `getItem` are one step; one account; saves one at a time; the boundary
  millisecond of an expiry is left out.
- *Heartbeat.* How many attempts the limiter admits is open; network and
  foreground are RetryScheduler's; takeover and periodic beats are left out;
  saves are one step; one account. A flush of an entry waits for an attempt of
  the entry that ended at its time limit and still runs; in the code the next
  attempt may run beside it, but the detached one is no longer current: it tells,
  marks and shows nothing and can only skip numbers. The outbox's effect runs
  again only when what it depends on differs; its counts are those of the last
  `syncOfflineQueueState`.
- *Retry scheduler.* The failure count, which has no limit, is modelled by what
  it decides, the delay: `doublings` counts until the delay is `maxDelayMs`.
- *Diagnostics.* `Errors` are the records of kind ERROR, which an overflow keeps
  longest. Live snapshots other than a binding's first and last, and
  retention by age, are left out; timers may fire at any time; an operation of
  the secure store is done at once unless it is slow (a trouble); the server
  decides when a batch is complete.

## 3. Runs

| Run | Question | Properties |
|---|---|---|
| `evidence_workflow` | What can calls in any order do to a completion, its files, samples and a route end in a queue with room for one? | QuarantineConsistent, CashReceiptRetained, CompletionOwesItsProofs, OverCapacityOnlyWithEvidence, NeverRetriedAfterSettled, EvidenceEndsByDecision, DegradedOnlyReopens |
| `retry_cash` | Is cash collected once, are acknowledgements true, does the queue drain? | CashCollectedOnce, AckedOnlyIfApplied, NothingPendingForEver |
| `retry_order` | Can an event overtake an earlier one; can a pass write into the next account's rows? | SentInOrder, HeadOfLine, PassTouchesOwnRows |
| `persistence_queue` | Is what was confirmed really saved, in any order of failures? | ReadyIsSavedOrSaving, IsDurableCell, WaitsEnd |
| `scheduler_retries` | Is the timer armed only when allowed, and always when needed? | ArmedOnlyWhileAllowed, PendingWorkIsRetried |
| `location_session` | Do the stored access and session follow account and assignment; does tracking run while, and only while, there is a session? | TrackedUntilFinished, TrackedWhileActive, StoreKeepsItsPromise, TrackingEnds |
| `live_route` | Does the shown route change only by the driver's Apply; is every applied publication confirmed? | ContentChangesOnlyOnApply, KeepsTheLedger, EventuallyConfirmed |
| `completion_sync` | Is every answer of the driver kept, shown and settled? | NoAnswerLost, NewestAnswerShown, EventuallySettled |
| `completion_detection` | Is a candidate a real dwell; does a late policy find the same, and a recent visit when samples were dropped? | CandidateIsAVisit, ReplayFindsTheSame, RecentVisitIsFound |
| `evidence_store` | Does evidence leave the storage only for a stated reason, and does the store recover? | EvidenceStays, RecoveryHeals, OpensAgain |
| `sync_heartbeat` | Is what is told as delivered stored, are numbers new, is every clearing heartbeat delivered? | ToldIsStored, NumbersAreNew, EventuallyDelivered |
| `diagnostics` | Is every record kept, sent or accounted for, under its own account only? | NothingVanishes, ReachesItsOwnAccount, EventuallySent |

### Instances and bounds

Elements are few because every property is about one element or a pair, and each
instance has one of every role its properties name. Counters are bounded only
to make the state finite:

- `evidence_workflow`: a cash event, its file, a new capture, two samples, a
  route end; two generations; `MaxItems = 1` makes the queue overflow,
  `Bounds` (CONSTRAINT) explores beyond states that have rows of either the
  completion's group or the others, and in which no attempt has failed (no method
  reads the count of attempts, which has no limit of its own); the properties are
  checked one step further. The two samples are interchangeable (SYMMETRY, sound
  because no liveness is checked).
- `retry_cash`: one account, two cash events of one stop, one with a photo, one
  sender; the office closes the route, the store fails; two attempts.
  `retry_order`: two accounts, an arrival, a cash completion, a route end and a
  sample, two contracts, two senders; sign-out and reassignment. The two are
  separate because their product is too large; `Disturbances` names what each
  has. `Situations` (CONSTRAINT) lists which of the four events of
  `retry_order` are recorded together, and beside which of the second sender,
  the reassignment and the sign-out. The count of failed attempts grows without
  limit in the code and the model; in `retry_order` the pass gives a row up at
  `MaxAttempts = 1`, and `Distinguished` (VIEW) makes one state of those that
  differ only in attempts beyond it. That is sound: the pass compares the count
  with `MaxAttempts` and nothing else reads it, and the run checks no liveness.
- `persistence_queue`: `MaxVersion = 3` changes, `MaxJobs = 5` (a failing save,
  a recovery, a change during it and its own save, and one more),
  `MaxCrashes = 1`, one waiting caller.
- `scheduler_retries`: `MaxWork = 2` rows, `MaxEvents = 8` outside events,
  `MaxDoublings = 2` failures after which the delay is `maxDelayMs`.
- `location_session`: two accounts, one route, two generations, two tokens, two
  instants; `MaxQueued = 0` calls of the service still pending when another
  caller begins; `MaxMeddling = 1` disturbance in a behaviour: a restart, a
  sign-out, a refusal, an expiry, a push, an act of the office, or a second
  start of a route.
- `live_route`: `MaxGeneration = 2`, `MaxSequence = 2`, `MaxTrouble = 1` (failed
  request or save, restart or sign-out).
- `completion_sync`: three samples over two units make a dwell (`MinSamples`,
  `Dwell`, `MaxGap`), `MaxVisits = 1`, `MaxAnswers = 2` (an answer and its
  correction), `Replies` two, `MaxTrouble = 1`; its
  buffer is large enough for every sample. `completion_detection`: `MaxTime = 7`
  with `MaxOdd = 1` late, repeated, invalid or inaccurate sample or batch. A visit
  is five samples over four units; the buffer holds `MaxBuffered = 6` samples of
  at most `MaxAge = 5` units (120 and 20 minutes in the code), so that it drops
  samples by number and by age, those of a visit too.
- `evidence_store`: one item of the legacy queue and one new; `SensitiveLife =
  0`, `Retention = 1`, `MaxTime = 2`, so that content expires before the row
  does; `MaxTrouble = 1`.
- `sync_heartbeat`: two entries, one without access of its own, `MaxDirect = 1`
  direct attempt, `MaxTrouble = 2`.
- `diagnostics`: two owners, `MaxRecords = MaxKept = 2`, `BatchSize = 1`,
  `MaxBindings = 2`, `MaxSessions = 1`, `MaxTrouble = 2`, `MaxEvents = 3`.

`CHECK_DEADLOCK FALSE` in the runs: a queue without a caller, a finished route,
an idle scheduler, a signed-out phone may rest, and bounds end the behaviours of
the others.

### Fairness

Nothing is assumed of the driver, the office or the account. What is assumed:

- `FairRetrySpec`: the scheduler starts a pass while a route has something to
  send; a pass goes on, because every call it awaits is bounded in time
  (`runBoundedAsyncOperation`) and fails if it does not answer; sign-out ends.
  NothingPendingForEver excludes a failing store, a signed-out driver and what
  a person must resolve (`Stuck`).
- `FairPersistenceSpec`: the store answers each operation, successfully or not,
  and settled promises wake their callers. `StoreSpec`: an open or a save that
  has begun goes on.
- `FairSchedulerSpec`: React runs an effect whose dependencies changed, an armed
  timer fires, a pass ends.
- `LocationSpec`: the operating system performs the queued service calls and
  delivers positions to a running service, the task's awaits end, and the time
  to confirm an ended route runs out.
- `LiveSpec`: every callback runs and every answer or failure arrives; delivery
  actions end; the poll and the refresh of an unvalidated session come around
  again although other actions may disable them in between (strong fairness:
  they are periodic).
- `SyncSpec`: the foreground's pass goes on and is started again (its timer and
  the return to the foreground), and the server's snapshot is taken in.
- `HeartbeatSpec`: every step of an attempt, saves, effects, the flush timer and
  the binding or load of an account happen.
- `DiagnosticSpec`: every binding's steps or timer, and the secure store per
  account.

`MaxTrouble` and its like make trouble end: each liveness property says what
happens once requests, saves and restarts stop failing.

### Instances kept beside the runs

These show a disagreement below, or check a part by itself; run them by hand.

| Configuration | Module | Result |
|---|---|---|
| `access_store.cfg` | MCDriverAccessStore | StoreTypeOK, TokensFollowAccount, WorkHasItsAccess, SessionUnderItsAssignment hold |
| `retry_recorder.cfg` | MCOfflineRetry | EvidenceBoundToRecorder violated |
| `persistence_recovery.cfg` | MCQueuePersistence | RecoveredIsLatest violated |
| `persistence_deletion.cfg` | MCQueuePersistence | IsDurableCell violated when account deletion recovers too |
| `scheduler_abandoned.cfg` | MCRetryScheduler | PendingWorkIsRetried violated |
| `scheduler_backoff.cfg` | MCRetryScheduler | BackoffGrows violated |
| `storage_adoption.cfg` | MCEvidenceStore | RecoveryHeals violated for an adopted quarantined legacy item |
| `heartbeat_rearmed.cfg` | MCSyncHeartbeat | RearmedAfterBinding violated |

### Disagreements found

`PROJECT.json` quotes code and document of each.

1. *Recorder* (`driverEvents.ts:324`): arrival and pickup post first and queue on
   failure, under the account bound by then, which may be the next driver's;
   `docs/route-access-flow.md:201` binds every row to an account.
2. *Recovered is latest* (`QUEUE` 792): `reopenCompletionClearHeartbeat` is not
   blocked while degraded; reopened during a recovery it can stay unsaved.
3. *Deletion's recovery* (`APP` 1329): account deletion recovers a queue that is
   not degraded or already recovering, and a caller is told that a change is
   saved which is not.
4. *Abandoned pass* (`APP` 1944): a pass that throws between two sessions leaves
   `offlineQueueCount` behind and the next equal count wakes nobody.
5. *Backoff* (`APP` 1945): every finished pass remounts the scheduler with
   `failureCount` 0.
6. *Adopted quarantine* (`expoEncryptedEvidenceStore.ts:639`): an adopted
   quarantined item is stored under two keys and the store stays degraded.
7. *Rearming* (`APP` 2969): a failed load leaves the heartbeat's schedulers
   stopped.
8. *Late heartbeat answers* (`driverSyncHeartbeat.ts:527`): a change of the route
   session does not reject them, only a change of account does.
9. *Legacy bytes* (`expoEncryptedEvidenceStore.ts:442`): a manifest with an HMAC
   is kept, not the bytes.
10. *Unvalidated cache* (`APP` 3983): Apply does not look at it.
11. *Diagnostic credential* (`expoDriverDiagnosticRuntime.ts:314`): one registered
    during the sign-out stays.
12. *Rebinding* (`expoDriverDiagnosticRuntime.ts:127`): the same account bound
    again drops or delays records as if it were another one.

Smaller observations, met while modelling and not checked by a run:

- A pending event whose plain payload expires after seven days reads back as
  discarded; a queue whose rows have all expired saves zero rows and then fails
  its read-back (`getItem` returns null) until restart; quarantined rows deleted
  by a support purge are rewritten by the queue's next save.
- Account deletion removes the live-route state of whichever account is bound
  after its awaits (`APP` 1337), and clears completion rows before sign-out, so
  that a GPS batch can write one again (`APP` 1320-1340).
- An invalid sample before the first policy empties the whole buffer
  (`completionAssistance.ts:447`); an answer the server refuses without a
  candidate blocks those behind it (`completionAssistanceSync.ts:249`); an
  outcome entered by hand is forgotten when the terminal status came from
  inference.
- A session that is `completion_pending` becomes active again by
  `saveActiveRouteSession` before its receipt (`APP` 3588), unlike the title of
  the test at `driverAccessTokenStore.test.ts:698`; a late lookup writes one
  account's route access into another's payload (`APP` 1466); a finish that
  outlives its account stops the next one's tracking (`trackingKeepAlive.ts:7`);
  saving stop progress recreates a cleared session; the finish marks a session
  by its route only (`deliveryFinish.ts:125`); a restart between the
  acknowledgement of a route end and the session's clean-up leaves a
  `completion_pending` session behind (`QUEUE` 938).
- Health numbers are compared across session keys, and the continuation of a
  takeover does not compare epochs (`APP` 4646).

## 4. Proofs

TLAPS proves the theorems below for all values of the constants, from the named
assumptions of the modules (finite identities, positive bounds) and nothing
else unless stated. Every inductive invariant was first checked by TLC on the
instances above.

**OfflineEvidence_proofs.** `InvariantHolds`: `Spec => []Inv`, and from it
`TypeCorrect`, `QuarantineIsConsistent`, `CashReceiptIsRetained`,
`QueueOrderIsTotal` (QueueOrderTotal, a part of `Inv`, has no run of its own).
`Inv` adds to the properties that every number given out is below `nextSeq`
(without it a new row could meet an old number) and a
soundness predicate for single rows. Every operator either *keeps* rows
(`Keeps`) or inserts one under a fresh number (`Numbered`); a lemma says so of
each operator, `StepKeepsInvariant` that such a step preserves `Inv`. The
action properties follow from lemmas on the same operators:
`SettledIsNeverRetried`, `EvidenceIsKept`, `DegradedQueueOnlyReopens`.
`CapacityIsKept` counts the samples above a row by their rank in the queue order
to show that the trim discards enough of them. `ProofsAreKeptForCompletions`
assumes `FilesOfOneCompletion`: no file belongs to a cash completion and to
another event. The code justifies it (`retainProofFile` gives each file a UUID,
`durableProofFile.ts:10`) and needs it, because acknowledging any event clears
the mark of every file it refers to (`QUEUE` 379-391).

**OfflineRetry_proofs.** `RetryInvariantHolds`: `RetrySpec => []RetryInv`; then
`AcknowledgedWasReceived`, `ResultsLeaveInOrder`, `CashIsNotCollectedAgain`,
`PassStaysInItsAccount`, `OnlyTheHeadIsPosted`. Rows only ever advance: no row
is renumbered, a settled row stays settled, a SERVER_ACK is vouched for by the
server (`Progress`); `Writes(ins, off)` says this of a whole step that inserts
the rows `ins` and settles within `off`. What an operation read before an await
therefore stays true in the direction it needs: what was settled in the pass's
snapshot is settled now. `RetryInv` joins the queue's `Inv` with what the pass
(`PassGood`) and each sender (`SendersGood`) still know at their awaits, with
the history (`HistoryGood`), that route ends are last (`EndsAreLast`), with the
causes of settled rows (`CausesGood`), what stands behind acknowledgements
(`AcksGood`), the server (`WorldGood`), and the two properties themselves.

**QueuePersistence_proofs.** `PersistenceIsTypeCorrect`, `NoChangeIsForgotten`
(ReadyIsSavedOrSaving), `NoOlderSnapshot`, the refinement `QueueIsDurableCell`
and `PromisesAreOnDisk`. The invariant says in which order the snapshots under
way were taken and what each promise a caller can hold stands for. They assume
`Recoverers \subseteq {"app"}`; `persistence_deletion.cfg` is the
counterexample otherwise (disagreement 3). `PromisesAreKeptForever` is about the
abstract machine alone (`Cell!CellSpec`): a kept promise stays on disk.

**LiveRouteChange_proofs.** `LiveInvHolds`, `ShownVersionIsStored`,
`ContentIsTheDrivers` (ContentChangesOnlyOnApply), the refinement
`DeviceKeepsTheLedger`, and through it `NoAppliedPublicationIsForgotten` and
`OnlyAppliedPublicationsAreConfirmed`. All but one of the steps move one
operation; `Fits` says what an operation at its await must satisfy, `MoveKeeps`
that moving one that fits keeps the invariant. The guard of the refresh
(`GuardHolds`) is what makes a refresh's reading of the store current when it
is adopted (`RefreshIsStored`): only Apply changes what is applied, and no Apply
runs beside it. An Apply that fetches saw nothing owed, and nothing comes to be
owed beside it (`NothingOwedAtApply`); answers follow the order of the office's
publications (`TakenInOrder`): hence a `Take` of the ledger.
`AcknowledgedWasApplied` and `NoDebtIsDropped` are the ledger's own theorems,
from its invariant (`LedgerKeeps`); `DeletedOwesNothing` says of the store that
a deleted account owes nothing.

**LocationTask_proofs.** First the store by itself, for any sequence of its
methods with any arguments (DriverAccessStore): `StoredIsSound`, `StoreIsTyped`,
`TokensAreTheAccounts`, `WorkIsCovered`, `SessionEndsWithItsAssignment`. Each
method has a lemma that it turns one sound payload into another. Then all its
callers: `SessionInvHolds` and the refinement `CallersKeepTheStore`
(StoreKeepsItsPromise): each of the 59 actions of the app's flows, the loads and
the background task leaves the store alone or is one of its methods, called
with arguments it accepts. What makes this hard is that a flow acts on what it
read before an await. `SessionInv` adds to the store's own `Inv` what every flow
carries (`CallsCarry`): a payload read before a token refresh is one the store
could hold, with tokens of its own account; what a driver chose, a push brought
or a lookup found is an assignment that exists; and that the server's tokens
and assignments are such too. With it the store's theorems are theorems of the
app. `SessionAssumption` (`NewestGeneration \in Generations`) is new for it.

**SyncHeartbeat_proofs.** `HeartbeatInvHolds`, and from it
`ToldDeliveriesAreStored` (ToldIsStored), `ClosedEntriesWereObserved`,
`HealthIsOfThisAccount`; `NumbersAreHandedOutOnce` (NumbersAreNew).
ToldIsStored is not inductive: a save may be under way for a marker that is
taken back. `MarkersAreOwned` says that a marker belongs to the one attempt that
wrote it until its caller was told, hence that the attempt which reopens an
entry reopens its own; `CleanIsStored` that a queue that reports itself clean
has stored all marks. For the numbers, `NumbersAreWritten` says that at most one
attempt holds a number that is on disk and not yet in memory, and that nothing
handed out is above what is in memory, which is not above the disk: a crash
between the two only skips numbers.

**DiagnosticDelivery_proofs.** `DiagnosticInvHolds`, and from it
`NoRecordVanishes` (NothingVanishes), `AccountsStayApart` (ReachesItsOwnAccount),
`HandlesSpeakTrue` (ReportStatusIsTrue) and `DecidedStaysOut` (SettledStaysOut),
for any accounts, bindings, records and limits. The properties leave open what a
chain of mutations, a read, an answer or a queued operation carries while other
steps run; the invariant says it, of a `View` of who made which record and what
was decided about it, which only grows. `Sound`: a binding holds, reads and
mutates records of its own account only, removes only what is decided about, and
its answer says what the server did; a tighter account than NothingVanishes
asks for is kept (`Accounted`): until it is decided about, a record is in the
database or in an append under way, so the outbox's memory is never the only
copy. `Speaks` is what each handle's status stands for; `SecureGood` that a
queued operation on a credential is of a binding of that account, carrying a
token of it - also when the binding has ended. Lemmas show that each step of
outbox, storage, transport, binding and sign-out keeps these for one binding
(`OneMoves`) while the others' views only grow (`SoundLater`). The attempt found
a fault of the model: a credential read of a sign-out that had given up answered
the next sign-out's read; `SecureRuns` now answers its own sign-out only.

**RetryScheduler_proofs.** `TimersAreAllowed` (ArmedOnlyWhileAllowed): in any
order of events, renders and answers, a timer is armed only in the foreground,
for the network and store the mounted effect was rendered with, and never beside
the scheduler's own retry.

**Only model-checked.** Liveness (NothingPendingForEver, WaitsEnd,
PendingWorkIsRetried, TrackingEnds, EventuallyConfirmed, EventuallySettled,
RecoveryHeals, OpensAgain, EventuallyDelivered, EventuallySent): fairness and
ENABLED are beyond the prover. CandidateIsAVisit, ReplayFindsTheSame and RecentVisitIsFound speak of
folds over a log of samples, and NoAnswerLost and NewestAnswerShown of what a
pass makes of a set of commands by folds: they need induction over data, which
the installed provers cannot instantiate. TrackedUntilFinished and
TrackedWhileActive need an account of the system service's whole queue of
starts and stops; EvidenceStays of both steps of the migration: not attempted.

## 5. Plan

The models and proofs planned are done. Worth adding next: an invariant
of the service's queue in LocationTask, from which TrackedWhileActive would
follow; EvidenceStays; a second bearer of records in DiagnosticDelivery (the
live snapshots).

## 6. Not modelled, and why

Parsing and validation of stored and received documents is data without
interleavings and has unit tests. HTTP, SQLCipher, the secure store, React
rendering, maps, deep links, local notifications, the update check and native
code are used through what the code relies on. Automatic completion, the
takeover and periodic heartbeats, storage recovery's and the pending receipt's
own schedulers, membership and content of live changes, the sizes of location
batches and the panel of completion assistance are left out; the components of
`PROJECT.json` say of each part what is missing.
