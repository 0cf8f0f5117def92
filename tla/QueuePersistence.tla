---------------------------- MODULE QueuePersistence ----------------------------
(***************************************************************************)
(* createPersistentOfflineSubmissionQueue: how the queue in memory reaches *)
(* the encrypted store.  Every change appends a job to a promise chain; a  *)
(* job writes the queue as it is when the job starts, reads it back and    *)
(* compares.  A job that fails makes the queue read-only; recoverStorage   *)
(* runs a job of its own beside the chain and then starts a new chain.     *)
(*                                                                         *)
(* The store runs its operations one at a time, in the order they were     *)
(* issued (serializeEvidenceOperations), each all or nothing.  The content *)
(* of the queue is its version: 0 at first, then one more per change.      *)
(***************************************************************************)
EXTENDS Naturals, Sequences

CONSTANTS
    Recoverers,    \* who calls recoverStorage: the app's recovery, account deletion
    Waiters,       \* callers that can be inside whenPersisted at once
    MaxVersion,    \* bound: changes
    MaxJobs,       \* bound: jobs of one process
    MaxCrashes     \* bound: restarts

ASSUME PersistenceAssumption ==
    /\ MaxVersion \in Nat /\ MaxJobs \in Nat /\ MaxCrashes \in Nat
    /\ Recoverers \subseteq {"app", "deletion"}

VARIABLES
    memory,     \* latestItems
    disk,       \* what the store holds
    clock,      \* the last version number given out
    jobs,       \* persistLatest calls of this process, in the order they were made
    chain,      \* persistQueue: the job it is the promise of, 0 for a resolved one
    operations, \* the store's queue: what jobs asked it to do, first come first served
    degraded,   \* storageDegraded
    waiting,    \* [Waiters -> what the caller inside whenPersisted waits for]
    reopened,   \* versions made by a change the degraded queue let through
    promised,   \* history: the latest version a caller was told is saved
    crashes

storage == <<disk, operations>>
callers == <<waiting, promised>>
persistenceVars == <<memory, disk, clock, jobs, chain, operations, degraded, waiting,
                     reopened, promised, crashes>>

Job == [before   : 0..MaxJobs,       \* the job it follows in the chain, 0 for none
        by       : {"change"} \cup Recoverers,
        phase    : {"queued", "writing", "reading", "done", "failed"},
        payload  : 0..MaxVersion]

NotWaiting == [phase |-> "idle", version |-> 0, job |-> 0]

In(phases) == {j \in 1..Len(jobs) : jobs[j].phase \in phases}
Open == In({"queued", "writing", "reading"})
Recovering(r) == \E j \in Open : jobs[j].by = r

PersistenceInit ==
    /\ memory = 0 /\ disk = 0 /\ clock = 0 /\ jobs = <<>> /\ chain = 0
    /\ operations = <<>> /\ degraded = FALSE
    /\ waiting = [w \in Waiters |-> NotWaiting]
    /\ reopened = {} /\ promised = 0 /\ crashes = 0

(* onChange: the new content, and a job behind the current chain.             *)
Emit ==
    /\ clock < MaxVersion /\ Len(jobs) < MaxJobs
    /\ clock' = clock + 1
    /\ memory' = clock + 1
    /\ jobs' = Append(jobs, [before |-> chain, by |-> "change", phase |-> "queued",
                             payload |-> clock + 1])
    /\ chain' = Len(jobs) + 1
    /\ UNCHANGED <<storage, degraded, callers, crashes>>

Change == ~degraded /\ Emit /\ UNCHANGED reopened

(* reopenCompletionClearHeartbeat has no requireMutable.                      *)
Reopen == degraded /\ Emit /\ reopened' = reopened \cup {clock + 1}

(* Mutant: the payload is what the change made, not what the queue is now.    *)
SnapshotOfChange(j) == jobs[j].payload

Snapshot(j) == memory

(* Mutant: a job after one that failed does not run.                          *)
ItsTurnAfterSuccess(j) == jobs[j].before \notin Open \cup In({"failed"})

(* The chain catches a failure before it goes on.                             *)
ItsTurn(j) == jobs[j].before \notin Open

(* persistLatest begins: the payload is taken and the write is issued.        *)
JobStarts(j) ==
    /\ jobs[j].phase = "queued" /\ ItsTurn(j)
    /\ jobs' = [jobs EXCEPT ![j].phase = "writing", ![j].payload = Snapshot(j)]
    /\ operations' = Append(operations, j)
    /\ UNCHANGED <<memory, disk, clock, chain, degraded, callers, reopened, crashes>>

(* recoverStorage.  The app runs its own once at a time and on a degraded     *)
(* queue; account deletion calls it after any failure, whatever the state.    *)
Recover(r) ==
    /\ r = "app" => degraded
    /\ ~Recovering(r) /\ Len(jobs) < MaxJobs
    /\ jobs' = Append(jobs, [before |-> 0, by |-> r, phase |-> "writing",
                             payload |-> memory])
    /\ operations' = Append(operations, Len(jobs) + 1)
    /\ UNCHANGED <<memory, disk, clock, chain, degraded, callers, reopened, crashes>>

(* The store performs the operation at the head of its queue.                 *)
Asking == Head(operations)

StoreWrites ==
    /\ operations # <<>> /\ jobs[Asking].phase = "writing"
    /\ disk' = jobs[Asking].payload
    /\ jobs' = [jobs EXCEPT ![Asking].phase = "reading"]
    /\ operations' = Append(Tail(operations), Asking)
    /\ UNCHANGED <<memory, clock, chain, degraded, callers, reopened, crashes>>

(* persistLatest's comparison holds.                                          *)
Verified == operations # <<>> /\ jobs[Asking].phase = "reading" /\ disk = jobs[Asking].payload

StoreConfirms ==
    /\ Verified
    /\ jobs' = [jobs EXCEPT ![Asking].phase = "done"]
    /\ operations' = Tail(operations)
    /\ IF jobs[Asking].by # "change" THEN degraded' = FALSE /\ chain' = 0
                                ELSE UNCHANGED <<degraded, chain>>
    /\ UNCHANGED <<memory, disk, clock, callers, reopened, crashes>>

(* Mutant: a failure leaves the queue writable.                               *)
StoreFailsQuietly ==
    /\ operations # <<>>
    /\ jobs' = [jobs EXCEPT ![Asking].phase = "failed"]
    /\ operations' = Tail(operations)
    /\ UNCHANGED <<memory, disk, clock, chain, degraded, callers, reopened, crashes>>

(* The write or the read fails, or what was read back is something else.      *)
StoreFails ==
    /\ operations # <<>>
    /\ jobs' = [jobs EXCEPT ![Asking].phase = "failed"]
    /\ operations' = Tail(operations)
    /\ degraded' = TRUE
    /\ UNCHANGED <<memory, disk, clock, chain, callers, reopened, crashes>>

(* whenPersisted hands out the promise of the last job.                        *)
Waits(w) ==
    /\ waiting[w].phase = "idle"
    /\ waiting' = [waiting EXCEPT ![w] = [phase |-> "waiting", version |-> memory, job |-> chain]]
    /\ UNCHANGED <<memory, storage, clock, jobs, chain, degraded, reopened, promised, crashes>>

(* Mutant: a rejected promise is taken for a resolved one.                     *)
ResolvedAnyhow(j) == TRUE

Resolved(j) == j \notin In({"failed"})

WaitEnds(w) ==
    /\ waiting[w].phase = "waiting" /\ waiting[w].job \notin Open
    /\ waiting' = [waiting EXCEPT ![w] = NotWaiting]
    /\ promised' = IF /\ Resolved(waiting[w].job)
                      /\ waiting[w].version \notin reopened /\ waiting[w].version > promised
                   THEN waiting[w].version
                   ELSE promised
    /\ UNCHANGED <<memory, storage, clock, jobs, chain, degraded, reopened, crashes>>

(* Mutant: the chain of the old process is not forgotten.                     *)
CrashKeepsChain ==
    /\ crashes < MaxCrashes
    /\ disk' = disk /\ memory' = disk
    /\ jobs' = <<>> /\ operations' = <<>> /\ degraded' = FALSE
    /\ waiting' = [w \in Waiters |-> NotWaiting]
    /\ reopened' = {} /\ crashes' = crashes + 1
    /\ UNCHANGED <<clock, promised, chain>>

(* The process dies and starts again.  The write under way may have been made. *)
Crash ==
    /\ crashes < MaxCrashes
    /\ \/ disk' = disk
       \/ operations # <<>> /\ jobs[Asking].phase = "writing" /\ disk' = jobs[Asking].payload
    /\ memory' = disk'
    /\ jobs' = <<>> /\ chain' = 0 /\ operations' = <<>> /\ degraded' = FALSE
    /\ waiting' = [w \in Waiters |-> NotWaiting]
    /\ reopened' = {} /\ crashes' = crashes + 1
    /\ UNCHANGED <<clock, promised>>

PersistenceNext ==
    \/ Change \/ Reopen
    \/ \E j \in 1..Len(jobs) : JobStarts(j)
    \/ \E r \in Recoverers : Recover(r)
    \/ StoreWrites \/ StoreConfirms \/ StoreFails
    \/ \E w \in Waiters : Waits(w)
    \/ \E w \in Waiters : WaitEnds(w)
    \/ Crash

PersistenceSpec == PersistenceInit /\ [][PersistenceNext]_persistenceVars

(* The store answers, a job whose turn it is starts, a settled promise wakes  *)
(* its callers.                                                               *)
FairPersistenceSpec ==
    /\ PersistenceSpec
    /\ WF_persistenceVars(\E j \in 1..Len(jobs) : JobStarts(j))
    /\ WF_persistenceVars(StoreWrites \/ StoreConfirms \/ StoreFails)
    /\ \A w \in Waiters : WF_persistenceVars(WaitEnds(w))

--------------------------------------------------------------------------------
(* Properties.                                                                *)

(* Type correctness.                                                          *)
PersistenceTypeOK ==
    /\ {memory, disk, clock, promised} \subseteq 0..MaxVersion
    /\ jobs \in Seq(Job) /\ Len(jobs) <= MaxJobs
    /\ chain \in 0..Len(jobs)
    /\ operations \in Seq(1..Len(jobs))
    /\ degraded \in BOOLEAN
    /\ waiting \in [Waiters -> [phase : {"idle", "waiting"}, version : 0..MaxVersion,
                                job : 0..Len(jobs)]]
    /\ reopened \subseteq 1..MaxVersion
    /\ crashes \in 0..MaxCrashes

(* The queue implements the durable cell: what whenPersisted confirms is what *)
(* a restart reads, whatever order writes, failures, recoveries and crashes   *)
(* come in.  Changes a degraded queue let through are not confirmed.  It      *)
(* holds of the app's own recovery; a second one beside it breaks it.         *)
Cell == INSTANCE DurableCell WITH memory <- memory, disk <- disk, promised <- promised
IsDurableCell == Cell!CellSpec

(* The snapshot on disk never goes back to an older one, although recovery    *)
(* writes beside the chain of jobs.                                           *)
DiskNeverRegresses == [][disk' >= disk]_persistenceVars

(* A queue that takes changes again has everything saved, or has a job that   *)
(* will save it: no change is forgotten by a failure and the recovery after   *)
(* it, except one that was let through while the queue was degraded.          *)
ReadyIsSavedOrSaving ==
    ~degraded => \/ disk >= memory
                 \/ memory \in reopened
                 \/ Open # {}

(* docs/route-access-flow.md:203: mutations "are blocked until the latest     *)
(* in-memory snapshot is successfully recovered": a queue that is READY again *)
(* with nothing left to write has its latest snapshot on disk.                *)
RecoveredIsLatest ==
    ~degraded /\ Open = {} => disk = memory

(* Nobody waits for ever for a change to be saved: whenPersisted resolves or  *)
(* rejects.                                                                   *)
WaitsEnd == \A w \in Waiters : waiting[w].phase = "waiting" ~> waiting[w].phase = "idle"
================================================================================
