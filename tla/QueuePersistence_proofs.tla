------------------------ MODULE QueuePersistence_proofs ------------------------
(***************************************************************************)
(* For any number of callers, changes, jobs and restarts, the persistent   *)
(* queue implements DurableCell step by step, never writes an older        *)
(* snapshot over a newer one, and forgets no change, as long as only the   *)
(* app's own recovery runs.  The inductive invariant says in which order   *)
(* the snapshots under way were taken, and what each promise a caller can  *)
(* hold stands for.                                                        *)
(***************************************************************************)
EXTENDS QueuePersistence, SequenceTheorems, TLAPS

(* The versions follow one another: promised, saved, seen, given out.         *)
VersionsFollow ==
    /\ promised <= disk /\ disk <= memory /\ memory <= clock
    /\ \A j \in 1..Len(jobs) : jobs[j].payload <= memory

Writing(n) == jobs[operations[n]].phase = "writing"

(* The writes the store still has to make are newer than what it holds, and   *)
(* each is at least as new as the one before it.                              *)
WritesInOrder ==
    /\ \A n \in 1..Len(operations) : jobs[operations[n]].phase # "queued"
    /\ \A n \in 1..Len(operations) : Writing(n) => disk <= jobs[operations[n]].payload
    /\ \A m, n \in 1..Len(operations) :
          m < n /\ Writing(m) /\ Writing(n)
          => jobs[operations[m]].payload <= jobs[operations[n]].payload

(* What a job has confirmed is saved.                                         *)
DoneIsSaved == \A j \in 1..Len(jobs) : jobs[j].phase = "done" => jobs[j].payload <= disk

(* The promise whenPersisted hands out stands for the latest version; the     *)
(* resolved one only when that version is saved already.                      *)
ChainIsLatest ==
    /\ chain = 0 => memory <= disk \/ memory \in reopened
    /\ chain # 0 => jobs[chain].payload = memory
    /\ chain # 0 /\ ~degraded => jobs[chain].phase # "failed"

(* One recovery at a time, on a degraded queue; nothing but reopenings has    *)
(* happened since its snapshot.                                               *)
RecoversDegraded ==
    /\ \A i, j \in Open : jobs[i].by # "change" /\ jobs[j].by # "change" => i = j
    /\ \A j \in Open :
          jobs[j].by # "change" => degraded /\ (jobs[j].payload = memory \/ memory \in reopened)

(* A caller's job will save, or has saved, the version the caller waits for.  *)
WaitsForItsVersion ==
    \A w \in Waiters :
        waiting[w].phase = "waiting"
        => IF waiting[w].job = 0
           THEN waiting[w].version <= disk \/ waiting[w].version \in reopened
           ELSE waiting[w].version <= jobs[waiting[w].job].payload

Inv ==
    /\ PersistenceTypeOK
    /\ VersionsFollow /\ WritesInOrder /\ DoneIsSaved
    /\ ChainIsLatest /\ RecoversDegraded /\ WaitsForItsVersion

--------------------------------------------------------------------------------
(* Facts about the two sequences.                                             *)

USE PersistenceAssumption

(* Setting phase and payload of one job.                                      *)
LEMMA JobUpdated ==
    ASSUME jobs \in Seq(Job), NEW j \in 1..Len(jobs), NEW x \in Job,
           jobs' = [jobs EXCEPT ![j] = x]
    PROVE  /\ jobs' \in Seq(Job) /\ Len(jobs') = Len(jobs)
           /\ \A i \in 1..Len(jobs) : jobs'[i] = IF i = j THEN x ELSE jobs[i]
  <1>1. /\ [jobs EXCEPT ![j] = x] \in Seq(Job)
        /\ Len([jobs EXCEPT ![j] = x]) = Len(jobs)
        /\ \A i \in 1..Len(jobs) : [jobs EXCEPT ![j] = x][i] = IF i = j THEN x ELSE jobs[i]
    <2> HIDE DEF Job
    <2> QED BY ExceptSeq
  <1> QED BY <1>1, Zenon

LEMMA JobAdded ==
    ASSUME jobs \in Seq(Job), NEW x \in Job, jobs' = Append(jobs, x)
    PROVE  /\ jobs' \in Seq(Job) /\ Len(jobs') = Len(jobs) + 1 /\ Len(jobs) \in Nat
           /\ \A i \in 1..Len(jobs) : jobs'[i] = jobs[i]
           /\ jobs'[Len(jobs) + 1] = x
  <1>1. /\ Append(jobs, x) \in Seq(Job) /\ Len(Append(jobs, x)) = Len(jobs) + 1
        /\ \A i \in 1..Len(jobs) : Append(jobs, x)[i] = jobs[i]
        /\ Append(jobs, x)[Len(jobs) + 1] = x
        /\ Len(jobs) \in Nat
    <2> HIDE DEF Job
    <2> QED BY AppendProperties, LenProperties
  <1> QED BY <1>1, Zenon

(* Operations are numbers of jobs, however many jobs there are.               *)
LEMMA OperationsRetyped ==
    ASSUME NEW m \in Nat, NEW n \in Nat, m <= n, NEW s \in Seq(1..m)
    PROVE  s \in Seq(1..n)
  <1>1. 1..m \subseteq 1..n
    OBVIOUS
  <1> QED BY <1>1, SeqMonotonic, Zenon

LEMMA OperationAdded ==
    ASSUME NEW n \in Nat, operations \in Seq(1..n), NEW j \in 1..n,
           operations' = Append(operations, j)
    PROVE  /\ operations' \in Seq(1..n)
           /\ Len(operations) \in Nat /\ Len(operations') = Len(operations) + 1
           /\ \A k \in 1..Len(operations) : operations'[k] = operations[k] /\ operations[k] \in 1..n
           /\ operations'[Len(operations) + 1] = j
  <1> DEFINE S == 1..n
  <1>1. /\ Append(operations, j) \in Seq(S)
        /\ Len(Append(operations, j)) = Len(operations) + 1
        /\ \A k \in 1..Len(operations) : Append(operations, j)[k] = operations[k]
        /\ Append(operations, j)[Len(operations) + 1] = j
        /\ Len(operations) \in Nat
        /\ \A k \in 1..Len(operations) : operations[k] \in S
    <2>1. operations \in Seq(S) /\ j \in S
      OBVIOUS
    <2> HIDE DEF S
    <2> QED BY <2>1, AppendProperties, LenProperties, ElementOfSeq
  <1> QED BY <1>1, Zenon

LEMMA OperationTaken ==
    ASSUME NEW n \in Nat, operations \in Seq(1..n), operations # <<>>
    PROVE  /\ Asking \in 1..n /\ Asking = operations[1]
           /\ Len(operations) \in Nat \ {0}
           /\ Tail(operations) \in Seq(1..n)
           /\ Len(Tail(operations)) = Len(operations) - 1
           /\ \A k \in 1..Len(Tail(operations)) :
                 Tail(operations)[k] = operations[k + 1] /\ operations[k + 1] \in 1..n
  <1>1. Len(operations) \in Nat \ {0}
    BY EmptySeq, LenProperties, Zenon
  <1>2. /\ Head(operations) \in 1..n /\ Tail(operations) \in Seq(1..n)
        /\ Len(Tail(operations)) = Len(operations) - 1
        /\ \A k \in 1..Len(Tail(operations)) : Tail(operations)[k] = operations[k + 1]
    BY HeadTailProperties, Zenon
  <1>3. Head(operations) = operations[1]
    OBVIOUS
  <1>4. \A k \in 1..Len(Tail(operations)) : k + 1 \in 1..Len(operations)
    BY <1>1, <1>2
  <1>5. \A k \in 1..Len(operations) : operations[k] \in 1..n
    BY ElementOfSeq, Zenon
  <1> QED BY <1>1, <1>2, <1>3, <1>4, <1>5 DEF Asking

(* What a job is made of.                                                     *)
LEMMA JobFields ==
    ASSUME jobs \in Seq(Job), NEW j \in 1..Len(jobs)
    PROVE  /\ jobs[j] \in Job
           /\ jobs[j].phase \in {"queued", "writing", "reading", "done", "failed"}
           /\ jobs[j].payload \in 0..MaxVersion
           /\ jobs[j] = [before |-> jobs[j].before, by |-> jobs[j].by,
                         phase |-> jobs[j].phase, payload |-> jobs[j].payload]
  <1>1. jobs[j] \in Job
    BY ElementOfSeq, Zenon
  <1> QED BY <1>1 DEF Job

--------------------------------------------------------------------------------
(* The invariant holds at first and is kept by every action.                  *)

LEMMA InitIsSound == PersistenceInit => Inv
  <1> SUFFICES ASSUME PersistenceInit PROVE Inv
    OBVIOUS
  <1>1. PersistenceTypeOK
    <2>1. jobs = <<>> /\ operations = <<>> /\ Len(jobs) = 0
      BY EmptySeq DEF PersistenceInit
    <2>2. jobs \in Seq(Job) /\ operations \in Seq(1..Len(jobs))
      <3>1. <<>> \in Seq(Job) /\ <<>> \in Seq(1..0)
        <4> HIDE DEF Job
        <4> QED OBVIOUS
      <3>2. 1..Len(jobs) = 1..0
        BY <2>1
      <3> QED BY <2>1, <3>1, <3>2, Zenon
    <2>3. waiting \in [Waiters -> [phase : {"idle", "waiting"}, version : 0..MaxVersion,
                                   job : 0..Len(jobs)]]
      BY <2>1 DEF PersistenceInit, NotWaiting
    <2>4. chain \in 0..Len(jobs) /\ Len(jobs) <= MaxJobs
      BY <2>1 DEF PersistenceInit
    <2>5. {memory, disk, clock, promised} \subseteq 0..MaxVersion
      BY DEF PersistenceInit
    <2>6. degraded \in BOOLEAN /\ reopened \subseteq 1..MaxVersion /\ crashes \in 0..MaxCrashes
      <3>1. degraded \in BOOLEAN
        BY DEF PersistenceInit
      <3>2. reopened \subseteq 1..MaxVersion
        BY DEF PersistenceInit
      <3>3. crashes \in 0..MaxCrashes
        BY DEF PersistenceInit
      <3> QED BY <3>1, <3>2, <3>3
    <2> QED BY <2>2, <2>3, <2>4, <2>5, <2>6, Zenon DEF PersistenceTypeOK
  <1>2. VersionsFollow /\ WritesInOrder /\ DoneIsSaved /\ ChainIsLatest /\ RecoversDegraded
    BY EmptySeq DEF PersistenceInit, VersionsFollow, WritesInOrder, DoneIsSaved,
                    ChainIsLatest, RecoversDegraded, Open, In
  <1>3. WaitsForItsVersion
    BY DEF PersistenceInit, WaitsForItsVersion, NotWaiting
  <1> QED BY <1>1, <1>2, <1>3 DEF Inv

(* A change appends a job whose snapshot is the newest version.               *)
LEMMA EmitKeepsTypes ==
    ASSUME Inv, Emit, reopened' \subseteq 1..MaxVersion
    PROVE  PersistenceTypeOK'
  <1> DEFINE x == [before |-> chain, by |-> "change", phase |-> "queued", payload |-> clock + 1]
  <1> USE DEF Inv, PersistenceTypeOK
  <1>1. x \in Job
    BY DEF Emit, Job
  <1>2. /\ jobs' \in Seq(Job) /\ Len(jobs') = Len(jobs) + 1 /\ Len(jobs) \in Nat
    BY <1>1, JobAdded DEF Emit
  <1>3. operations' \in Seq(1..Len(jobs'))
    <2>1. operations \in Seq(1..Len(jobs)) /\ operations' = operations
      BY DEF Emit, storage
    <2>2. Len(jobs') \in Nat /\ Len(jobs) <= Len(jobs')
      BY <1>2
    <2> HIDE DEF Inv, PersistenceTypeOK
    <2>3. operations \in Seq(1..Len(jobs'))
      BY <1>2, <2>1, <2>2, OperationsRetyped
    <2> QED BY <2>1, <2>3
  <1>4. {memory, disk, clock, promised}' \subseteq 0..MaxVersion
    BY DEF Emit, storage, callers
  <1>5. chain' \in 0..Len(jobs') /\ Len(jobs') <= MaxJobs
    BY <1>2 DEF Emit
  <1>6. waiting' \in [Waiters -> [phase : {"idle", "waiting"}, version : 0..MaxVersion,
                                  job : 0..Len(jobs')]]
    <2>1. 0..Len(jobs) \subseteq 0..Len(jobs')
      BY <1>2
    <2> QED BY <2>1 DEF Emit, callers
  <1> QED BY <1>2, <1>3, <1>4, <1>5, <1>6 DEF Emit, storage, callers

LEMMA EmitIsSound ==
    ASSUME Inv, Emit,
           \/ ~degraded /\ UNCHANGED reopened
           \/ reopened' = reopened \cup {clock + 1}
    PROVE  Inv'
  <1> DEFINE x == [before |-> chain, by |-> "change", phase |-> "queued", payload |-> clock + 1]
  <1>t. PersistenceTypeOK /\ jobs \in Seq(Job) /\ Len(jobs) \in Nat
    BY LenProperties DEF Inv, PersistenceTypeOK
  <1>n. /\ memory \in Nat /\ disk \in Nat /\ clock \in Nat /\ promised \in Nat
        /\ memory <= clock /\ disk <= memory /\ promised <= disk
    BY <1>t DEF Inv, VersionsFollow, PersistenceTypeOK
  <1>x. x \in Job
    BY <1>t DEF Emit, Job, PersistenceTypeOK
  <1>1. /\ jobs' \in Seq(Job) /\ Len(jobs') = Len(jobs) + 1
        /\ \A i \in 1..Len(jobs) : jobs'[i] = jobs[i]
        /\ jobs'[Len(jobs) + 1] = x
    BY <1>t, <1>x, JobAdded DEF Emit
  <1>2. \A i \in 1..Len(jobs') : i \in 1..Len(jobs) \/ i = Len(jobs) + 1
    BY <1>1, <1>t
  <1>3. PersistenceTypeOK'
    <2>1. reopened \subseteq 1..MaxVersion /\ clock + 1 \in 1..MaxVersion
      BY <1>t, <1>n DEF Emit, PersistenceTypeOK
    <2> QED BY <2>1, EmitKeepsTypes
  <1>p. \A i \in 1..Len(jobs) : jobs[i].payload \in Nat /\ jobs[i].payload <= memory
    <2> SUFFICES ASSUME NEW i \in 1..Len(jobs)
                 PROVE  jobs[i].payload \in Nat /\ jobs[i].payload <= memory
      OBVIOUS
    <2>1. jobs[i].payload \in 0..MaxVersion
      BY <1>t, JobFields
    <2> QED BY <2>1 DEF Inv, VersionsFollow
  <1>4. VersionsFollow'
    <2>1. \A i \in 1..Len(jobs') : jobs'[i].payload <= clock + 1
      BY <1>1, <1>2, <1>p, <1>n
    <2> QED BY <2>1, <1>n DEF Emit, storage, callers, VersionsFollow
  <1>o. \A n \in 1..Len(operations) : operations[n] \in 1..Len(jobs)
    BY <1>t, ElementOfSeq DEF PersistenceTypeOK
  <1>5. WritesInOrder'
    BY <1>1, <1>o DEF Inv, Emit, storage, WritesInOrder, Writing
  <1>6. DoneIsSaved'
    BY <1>1, <1>2 DEF Inv, Emit, storage, DoneIsSaved
  <1>7. ChainIsLatest'
    BY <1>1, <1>t DEF Emit, ChainIsLatest
  <1>8. RecoversDegraded'
    <2>1. Open' = Open \cup {Len(jobs) + 1}
      BY <1>1, <1>2, <1>t DEF Open, In
    <2>2. \A j \in Open' : jobs'[j].by # "change" => j \in Open /\ jobs'[j] = jobs[j]
      BY <2>1, <1>1 DEF Open, In
    <2>3. ASSUME NEW j \in Open', jobs'[j].by # "change"
          PROVE  degraded' /\ memory' \in reopened'
      <3>1. j \in Open /\ jobs[j].by # "change"
        BY <2>2, <2>3
      <3>2. degraded
        BY <3>1 DEF Inv, RecoversDegraded
      <3> QED BY <3>2 DEF Emit
    <2>4. ASSUME NEW i \in Open', NEW j \in Open', jobs'[i].by # "change", jobs'[j].by # "change"
          PROVE  i = j
      BY <2>2, <2>4 DEF Inv, RecoversDegraded
    <2> QED BY <2>3, <2>4 DEF RecoversDegraded
  <1>9. WaitsForItsVersion'
    <2> SUFFICES ASSUME NEW w \in Waiters, waiting[w].phase = "waiting"
                 PROVE  IF waiting[w].job = 0
                        THEN waiting[w].version <= disk \/ waiting[w].version \in reopened'
                        ELSE waiting[w].version <= jobs'[waiting[w].job].payload
      BY DEF WaitsForItsVersion, Emit, storage, callers
    <2>1. waiting[w].job \in 0..Len(jobs)
      BY <1>t DEF PersistenceTypeOK
    <2> QED BY <2>1, <1>1, <1>t DEF Inv, WaitsForItsVersion, Emit
  <1> QED BY <1>3, <1>4, <1>5, <1>6, <1>7, <1>8, <1>9 DEF Inv

LEMMA ChangeIsSound == ASSUME Inv, Change PROVE Inv'
  BY EmitIsSound DEF Change

LEMMA ReopenIsSound == ASSUME Inv, Reopen PROVE Inv'
  BY EmitIsSound DEF Reopen

(* A job starts: its snapshot is the newest, and it goes behind the others.   *)
LEMMA JobStartIsSound ==
    ASSUME Inv, NEW j \in 1..Len(jobs), JobStarts(j)
    PROVE  Inv'
  <1> DEFINE x == [jobs[j] EXCEPT !.phase = "writing", !.payload = memory]
  <1>t. /\ PersistenceTypeOK /\ jobs \in Seq(Job) /\ Len(jobs) \in Nat
        /\ operations \in Seq(1..Len(jobs)) /\ memory \in 0..MaxVersion
    BY LenProperties DEF Inv, PersistenceTypeOK
  <1>v. /\ VersionsFollow /\ WritesInOrder /\ DoneIsSaved
        /\ ChainIsLatest /\ RecoversDegraded /\ WaitsForItsVersion
    BY DEF Inv
  <1>n. disk \in Nat /\ memory \in Nat /\ disk <= memory
    BY <1>t, <1>v DEF VersionsFollow, PersistenceTypeOK
  <1>x. x \in Job /\ x.phase = "writing" /\ x.payload = memory /\ x.by = jobs[j].by
    BY <1>t, JobFields DEF Job
  <1>1. /\ jobs' \in Seq(Job) /\ Len(jobs') = Len(jobs)
        /\ \A i \in 1..Len(jobs) : jobs'[i] = IF i = j THEN x ELSE jobs[i]
    <2>1. jobs' = [jobs EXCEPT ![j] = x]
      BY DEF JobStarts, Snapshot
    <2> HIDE DEF x
    <2> QED BY <1>t, <1>x, <2>1, JobUpdated
  <1>2. /\ operations' \in Seq(1..Len(jobs)) /\ Len(operations) \in Nat
        /\ Len(operations') = Len(operations) + 1
        /\ \A k \in 1..Len(operations) : operations'[k] = operations[k] /\ operations[k] \in 1..Len(jobs)
        /\ operations'[Len(operations) + 1] = j
    BY <1>t, OperationAdded DEF JobStarts
  <1>p. \A i \in 1..Len(jobs) : jobs[i].payload \in Nat /\ jobs[i].payload <= memory
    <2> SUFFICES ASSUME NEW i \in 1..Len(jobs)
                 PROVE  jobs[i].payload \in Nat /\ jobs[i].payload <= memory
      OBVIOUS
    <2>1. jobs[i].payload \in 0..MaxVersion
      BY <1>t, JobFields
    <2> QED BY <2>1, <1>v DEF VersionsFollow
  <1>3. PersistenceTypeOK'
    <2>1. UNCHANGED <<memory, disk, clock, chain, degraded, waiting, promised, reopened, crashes>>
      BY DEF JobStarts, callers
    <2> QED BY <1>t, <1>1, <1>2, <2>1 DEF PersistenceTypeOK
  <1> HIDE DEF x
  <1>q. jobs[j].phase = "queued"
    BY DEF JobStarts
  <1>4. VersionsFollow'
    <2>1. \A i \in 1..Len(jobs') : jobs'[i].payload <= memory
      BY <1>1, <1>x, <1>n, <1>p
    <2> QED BY <2>1, <1>v DEF VersionsFollow, JobStarts, callers
  <1>5. WritesInOrder'
    <2>1. \A k \in 1..Len(operations) : operations[k] # j
      BY <1>q, <1>v, <1>2 DEF WritesInOrder
    <2>2. \A k \in 1..Len(operations) : jobs'[operations'[k]] = jobs[operations[k]]
      BY <2>1, <1>1, <1>2
    <2>3. jobs'[operations'[Len(operations) + 1]] = x
      BY <1>1, <1>2
    <2>4. \A k \in 1..Len(operations') : k \in 1..Len(operations) \/ k = Len(operations) + 1
      BY <1>2
    <2>5. disk' = disk
      BY DEF JobStarts
    <2>6. \A n \in 1..Len(operations') : jobs'[operations'[n]].phase # "queued"
      BY <2>2, <2>3, <2>4, <1>x, <1>v DEF WritesInOrder
    <2>7. \A n \in 1..Len(operations') : Writing(n)' => disk' <= jobs'[operations'[n]].payload
      BY <2>2, <2>3, <2>4, <2>5, <1>x, <1>v, <1>n DEF WritesInOrder, Writing
    <2>8. ASSUME NEW m \in 1..Len(operations'), NEW n \in 1..Len(operations'),
                 m < n, Writing(m)', Writing(n)'
          PROVE  jobs'[operations'[m]].payload <= jobs'[operations'[n]].payload
      <3>1. m \in 1..Len(operations) /\ Writing(m)
        BY <2>2, <2>4, <2>8, <1>2 DEF Writing
      <3>2. CASE n \in 1..Len(operations)
        BY <3>1, <3>2, <2>2, <2>8, <1>v DEF WritesInOrder, Writing
      <3>3. CASE n = Len(operations) + 1
        BY <3>1, <3>3, <2>2, <2>3, <1>x, <1>p, <1>2
      <3> QED BY <2>4, <3>2, <3>3
    <2> QED BY <2>6, <2>7, <2>8 DEF WritesInOrder
  <1>6. DoneIsSaved'
    BY <1>v, <1>1, <1>x DEF DoneIsSaved, JobStarts
  <1>7. ChainIsLatest'
    <2>1. UNCHANGED <<memory, disk, chain, degraded, reopened>>
      BY DEF JobStarts
    <2>2. chain \in 0..Len(jobs)
      BY <1>t DEF PersistenceTypeOK
    <2> QED BY <1>v, <1>1, <1>x, <2>1, <2>2 DEF ChainIsLatest
  <1>8. RecoversDegraded'
    <2>1. Open' = Open /\ \A i \in Open : jobs'[i].by = jobs[i].by
      <3>1. \A i \in 1..Len(jobs) : jobs'[i].by = jobs[i].by
        BY <1>1, <1>x
      <3>2. Open' = {i \in 1..Len(jobs) : jobs'[i].phase \in {"queued", "writing", "reading"}}
        BY <1>1 DEF Open, In
      <3>3. \A i \in 1..Len(jobs) : jobs'[i].phase \in {"queued", "writing", "reading"}
                                     <=> jobs[i].phase \in {"queued", "writing", "reading"}
        BY <1>q, <1>1, <1>x
      <3> QED BY <3>1, <3>2, <3>3 DEF Open, In
    <2>2. \A i \in Open : i \in 1..Len(jobs)
      BY DEF Open, In
    <2>3. UNCHANGED <<memory, degraded, reopened>>
      BY DEF JobStarts
    <2> QED BY <1>v, <1>1, <1>x, <2>1, <2>2, <2>3 DEF RecoversDegraded
  <1>9. WaitsForItsVersion'
    <2> SUFFICES ASSUME NEW w \in Waiters, waiting[w].phase = "waiting"
                 PROVE  IF waiting[w].job = 0
                        THEN waiting[w].version <= disk \/ waiting[w].version \in reopened
                        ELSE waiting[w].version <= jobs'[waiting[w].job].payload
      BY DEF WaitsForItsVersion, JobStarts, callers
    <2>1. waiting[w].job \in 0..Len(jobs) /\ waiting[w].version \in Nat
      BY <1>t DEF PersistenceTypeOK
    <2>2. waiting[w].job # 0 => jobs[waiting[w].job].payload <= jobs'[waiting[w].job].payload
      BY <2>1, <1>1, <1>x, <1>p, <1>n
    <2>3. waiting[w].job # 0 => jobs'[waiting[w].job].payload \in Nat
      BY <2>1, <1>1, <1>x, <1>p, <1>n
    <2> QED BY <2>1, <2>2, <2>3, <1>p, <1>v DEF WaitsForItsVersion
  <1> QED BY <1>3, <1>4, <1>5, <1>6, <1>7, <1>8, <1>9 DEF Inv

(* The store makes the write at the head of its queue: no older snapshot is   *)
(* behind it.                                                                 *)
LEMMA WriteIsSound ==
    ASSUME Inv, StoreWrites
    PROVE  Inv' /\ disk' >= disk /\ disk' <= memory
  <1> DEFINE x == [jobs[Asking] EXCEPT !.phase = "reading"]
             rest == Tail(operations)
  <1>t. /\ PersistenceTypeOK /\ jobs \in Seq(Job) /\ Len(jobs) \in Nat
        /\ operations \in Seq(1..Len(jobs)) /\ disk \in Nat /\ memory \in Nat
    BY LenProperties DEF Inv, PersistenceTypeOK
  <1>v. /\ VersionsFollow /\ WritesInOrder /\ DoneIsSaved
        /\ ChainIsLatest /\ RecoversDegraded /\ WaitsForItsVersion
    BY DEF Inv
  <1>h. operations # <<>> /\ jobs[Asking].phase = "writing" /\ disk' = jobs[Asking].payload
    BY DEF StoreWrites
  <1>a. /\ Asking \in 1..Len(jobs) /\ Asking = operations[1]
        /\ Len(operations) \in Nat \ {0}
        /\ rest \in Seq(1..Len(jobs)) /\ Len(rest) = Len(operations) - 1
        /\ \A k \in 1..Len(rest) : rest[k] = operations[k + 1] /\ operations[k + 1] \in 1..Len(jobs)
    BY <1>t, <1>h, OperationTaken
  <1>x. x \in Job /\ x.phase = "reading" /\ x.payload = jobs[Asking].payload
        /\ x.by = jobs[Asking].by
    <2>1. jobs[Asking] \in Job
      BY <1>t, <1>a, JobFields
    <2> QED BY <2>1 DEF Job
  <1>1. /\ jobs' \in Seq(Job) /\ Len(jobs') = Len(jobs)
        /\ \A i \in 1..Len(jobs) : jobs'[i] = IF i = Asking THEN x ELSE jobs[i]
    <2>1. jobs' = [jobs EXCEPT ![Asking] = x]
      BY DEF StoreWrites
    <2> HIDE DEF x, Asking
    <2> QED BY <1>t, <1>a, <1>x, <2>1, JobUpdated
  <1>p. jobs[Asking].payload \in 0..MaxVersion
    BY <1>t, <1>a, JobFields
  <1> HIDE DEF x, rest, Asking
  <1>2. /\ operations' \in Seq(1..Len(jobs)) /\ Len(operations') = Len(operations)
        /\ \A k \in 1..Len(rest) : operations'[k] = operations[k + 1]
        /\ operations'[Len(operations)] = Asking
    <2>1. operations' = Append(rest, Asking)
      BY DEF StoreWrites, rest
    <2> DEFINE S == 1..Len(jobs)
    <2>2. rest \in Seq(S) /\ Asking \in S
      BY <1>a
    <2> HIDE DEF S
    <2>3. /\ Append(rest, Asking) \in Seq(S) /\ Len(Append(rest, Asking)) = Len(rest) + 1
          /\ \A k \in 1..Len(rest) : Append(rest, Asking)[k] = rest[k]
          /\ Append(rest, Asking)[Len(rest) + 1] = Asking
      BY <2>2, AppendProperties
    <2> QED BY <2>1, <2>3, <1>a DEF S
  <1>u. UNCHANGED <<memory, clock, chain, degraded, waiting, promised, reopened, crashes>>
    BY DEF StoreWrites, callers
  <1>d. disk' >= disk /\ disk' <= memory /\ disk' \in 0..MaxVersion
    BY <1>p, <1>h, <1>a, <1>v DEF WritesInOrder, Writing, VersionsFollow
  <1>3. PersistenceTypeOK'
    BY <1>t, <1>1, <1>2, <1>u, <1>d DEF PersistenceTypeOK
  <1>4. VersionsFollow'
    <2>1. \A i \in 1..Len(jobs) : jobs'[i].payload = jobs[i].payload
      BY <1>1, <1>x
    <2>2. promised \in Nat
      BY <1>t DEF PersistenceTypeOK
    <2> QED BY <2>1, <2>2, <1>1, <1>v, <1>d, <1>u, <1>t DEF VersionsFollow
  <1>5. WritesInOrder'
    <2>1. \A k \in 1..Len(operations') :
             \/ k \in 1..Len(rest) /\ k + 1 \in 1..Len(operations)
             \/ k = Len(operations)
      BY <1>2, <1>a
    <2>2. \A k \in 1..Len(operations') :
             Writing(k)' => /\ k \in 1..Len(rest) /\ k + 1 \in 1..Len(operations)
                            /\ operations'[k] = operations[k + 1]
                            /\ jobs'[operations'[k]] = jobs[operations[k + 1]]
                            /\ Writing(k + 1)
      BY <2>1, <1>1, <1>2, <1>x, <1>a DEF Writing
    <2>3. \A n \in 1..Len(operations') : jobs'[operations'[n]].phase # "queued"
      <3> SUFFICES ASSUME NEW n \in 1..Len(operations')
                   PROVE  jobs'[operations'[n]].phase # "queued"
        OBVIOUS
      <3>1. CASE n = Len(operations)
        BY <3>1, <1>1, <1>2, <1>x, <1>a
      <3>2. CASE n \in 1..Len(rest) /\ n + 1 \in 1..Len(operations)
        <4>1. jobs[operations[n + 1]].phase # "queued"
          BY <3>2, <1>v DEF WritesInOrder
        <4>2. operations'[n] = operations[n + 1] /\ operations[n + 1] \in 1..Len(jobs)
          BY <3>2, <1>2, <1>a
        <4> QED BY <4>1, <4>2, <1>1, <1>x
      <3> QED BY <2>1, <3>1, <3>2
    <2>4. ASSUME NEW n \in 1..Len(operations'), Writing(n)'
          PROVE  disk' <= jobs'[operations'[n]].payload
      <3>1. 1 \in 1..Len(operations) /\ n + 1 \in 1..Len(operations) /\ 1 < n + 1
            /\ Writing(1) /\ Writing(n + 1)
        BY <2>2, <2>4, <1>a, <1>h DEF Writing
      <3>2. jobs[operations[1]].payload <= jobs[operations[n + 1]].payload
        BY <3>1, <1>v DEF WritesInOrder
      <3> QED BY <3>2, <2>2, <2>4, <1>h, <1>a
    <2>5. ASSUME NEW m \in 1..Len(operations'), NEW n \in 1..Len(operations'),
                 m < n, Writing(m)', Writing(n)'
          PROVE  jobs'[operations'[m]].payload <= jobs'[operations'[n]].payload
      <3>1. m + 1 < n + 1
        BY <2>5
      <3> QED BY <3>1, <2>2, <2>5, <1>v DEF WritesInOrder
    <2> QED BY <2>3, <2>4, <2>5 DEF WritesInOrder
  <1>6. DoneIsSaved'
    <2> SUFFICES ASSUME NEW i \in 1..Len(jobs), jobs'[i].phase = "done"
                 PROVE  jobs'[i].payload <= disk'
      BY <1>1 DEF DoneIsSaved
    <2>1. jobs'[i] = jobs[i] /\ jobs[i].payload <= disk
      BY <1>1, <1>x, <1>v DEF DoneIsSaved
    <2>2. jobs[i].payload \in 0..MaxVersion
      BY <1>t, JobFields
    <2> QED BY <2>1, <2>2, <1>d, <1>t
  <1>7. ChainIsLatest'
    <2>1. chain \in 0..Len(jobs)
      BY <1>t DEF PersistenceTypeOK
    <2> QED BY <1>v, <1>1, <1>x, <1>u, <1>d, <1>t, <1>h, <2>1 DEF ChainIsLatest
  <1>8. RecoversDegraded'
    <2>1. Open' = Open /\ \A i \in Open : jobs'[i].by = jobs[i].by /\ jobs'[i].payload = jobs[i].payload
      <3>1. \A i \in 1..Len(jobs) : jobs'[i].by = jobs[i].by /\ jobs'[i].payload = jobs[i].payload
        BY <1>1, <1>x
      <3>2. Open' = {i \in 1..Len(jobs) : jobs'[i].phase \in {"queued", "writing", "reading"}}
        BY <1>1 DEF Open, In
      <3>3. \A i \in 1..Len(jobs) : jobs'[i].phase \in {"queued", "writing", "reading"}
                                     <=> jobs[i].phase \in {"queued", "writing", "reading"}
        BY <1>h, <1>1, <1>x
      <3> QED BY <3>1, <3>2, <3>3 DEF Open, In
    <2> QED BY <1>v, <1>u, <2>1 DEF RecoversDegraded
  <1>9. WaitsForItsVersion'
    <2> SUFFICES ASSUME NEW w \in Waiters, waiting[w].phase = "waiting"
                 PROVE  IF waiting[w].job = 0
                        THEN waiting[w].version <= disk' \/ waiting[w].version \in reopened
                        ELSE waiting[w].version <= jobs'[waiting[w].job].payload
      BY <1>u DEF WaitsForItsVersion
    <2>1. waiting[w].job \in 0..Len(jobs) /\ waiting[w].version \in Nat
      BY <1>t DEF PersistenceTypeOK
    <2>2. waiting[w].job # 0 => jobs[waiting[w].job].payload = jobs'[waiting[w].job].payload
      BY <2>1, <1>1, <1>x
    <2> QED BY <2>1, <2>2, <1>d, <1>t, <1>v DEF WaitsForItsVersion
  <1> QED BY <1>3, <1>4, <1>5, <1>6, <1>7, <1>8, <1>9, <1>d DEF Inv

(* The store is done with the operation at the head of its queue: its job     *)
(* ends, confirmed or failed, and the other operations move up.               *)
LEMMA OperationEnds ==
    ASSUME Inv, operations # <<>>, NEW p \in {"done", "failed"},
           jobs' = [jobs EXCEPT ![Asking].phase = p], operations' = Tail(operations),
           UNCHANGED <<memory, disk, clock, callers, reopened, crashes>>,
           degraded' \in BOOLEAN, chain' \in {0, chain}
    PROVE  /\ Asking \in 1..Len(jobs)
           /\ Len(jobs') = Len(jobs)
           /\ \A i \in 1..Len(jobs) : /\ jobs'[i].payload = jobs[i].payload
                                      /\ jobs'[i].by = jobs[i].by
                                      /\ jobs'[i].phase = IF i = Asking THEN p ELSE jobs[i].phase
           /\ Open' = Open \ {Asking}
           /\ PersistenceTypeOK' /\ VersionsFollow' /\ WritesInOrder' /\ WaitsForItsVersion'
  <1> DEFINE x == [jobs[Asking] EXCEPT !.phase = p]
  <1>t. /\ PersistenceTypeOK /\ jobs \in Seq(Job) /\ Len(jobs) \in Nat
        /\ operations \in Seq(1..Len(jobs)) /\ chain \in 0..Len(jobs)
    BY LenProperties DEF Inv, PersistenceTypeOK
  <1>v. VersionsFollow /\ WritesInOrder /\ WaitsForItsVersion
    BY DEF Inv
  <1>a. /\ Asking \in 1..Len(jobs) /\ Asking = operations[1]
        /\ Len(operations) \in Nat \ {0}
        /\ operations' \in Seq(1..Len(jobs)) /\ Len(operations') = Len(operations) - 1
        /\ \A k \in 1..Len(operations') :
              operations'[k] = operations[k + 1] /\ operations[k + 1] \in 1..Len(jobs)
    BY <1>t, OperationTaken
  <1>x. x \in Job /\ x.phase = p /\ x.payload = jobs[Asking].payload /\ x.by = jobs[Asking].by
    <2>1. jobs[Asking] \in Job
      BY <1>t, <1>a, JobFields
    <2> QED BY <2>1 DEF Job
  <1>1. /\ jobs' \in Seq(Job) /\ Len(jobs') = Len(jobs)
        /\ \A i \in 1..Len(jobs) : jobs'[i] = IF i = Asking THEN x ELSE jobs[i]
    <2>1. jobs' = [jobs EXCEPT ![Asking] = x]
      OBVIOUS
    <2>2. jobs \in Seq(Job) /\ Asking \in 1..Len(jobs) /\ x \in Job
      BY <1>t, <1>a, <1>x
    <2> HIDE DEF x, Asking, Job
    <2> QED BY <2>1, <2>2, JobUpdated, Zenon
  <1> HIDE DEF x
  <1>2. \A i \in 1..Len(jobs) : /\ jobs'[i].payload = jobs[i].payload
                                /\ jobs'[i].by = jobs[i].by
                                /\ jobs'[i].phase = IF i = Asking THEN p ELSE jobs[i].phase
    BY <1>1, <1>x
  <1>3. Open' = Open \ {Asking}
    <2>1. Open' = {i \in 1..Len(jobs) : jobs'[i].phase \in {"queued", "writing", "reading"}}
      BY <1>1 DEF Open, In
    <2> QED BY <2>1, <1>2 DEF Open, In
  <1>u. UNCHANGED <<memory, disk, clock, waiting, promised, reopened, crashes>>
    BY DEF callers
  <1>4. PersistenceTypeOK'
    <2>1. chain' \in 0..Len(jobs')
      BY <1>t, <1>1
    <2>2. jobs' \in Seq(Job) /\ operations' \in Seq(1..Len(jobs')) /\ Len(jobs') <= MaxJobs
      BY <1>t, <1>1, <1>a DEF PersistenceTypeOK
    <2>3. waiting' \in [Waiters -> [phase : {"idle", "waiting"}, version : 0..MaxVersion,
                                    job : 0..Len(jobs')]]
      BY <1>t, <1>1, <1>u DEF PersistenceTypeOK
    <2>4. {memory, disk, clock, promised}' \subseteq 0..MaxVersion
      BY <1>t, <1>u DEF PersistenceTypeOK
    <2>5. reopened' \subseteq 1..MaxVersion /\ crashes' \in 0..MaxCrashes
      BY <1>t, <1>u DEF PersistenceTypeOK
    <2> QED BY <2>1, <2>2, <2>3, <2>4, <2>5, Zenon DEF PersistenceTypeOK
  <1>5. VersionsFollow'
    BY <1>v, <1>1, <1>2, <1>u DEF VersionsFollow
  <1>6. WritesInOrder'
    <2>1. \A k \in 1..Len(operations') :
             /\ k + 1 \in 1..Len(operations)
             /\ jobs'[operations'[k]].payload = jobs[operations[k + 1]].payload
             /\ jobs'[operations'[k]].phase \in {p, jobs[operations[k + 1]].phase}
      BY <1>a, <1>2
    <2>2. \A k \in 1..Len(operations') : Writing(k)' => Writing(k + 1)
      BY <2>1 DEF Writing
    <2>3. \A n \in 1..Len(operations') : jobs'[operations'[n]].phase # "queued"
      BY <2>1, <1>v DEF WritesInOrder
    <2>4. \A n \in 1..Len(operations') : Writing(n)' => disk' <= jobs'[operations'[n]].payload
      BY <2>1, <2>2, <1>v, <1>u DEF WritesInOrder
    <2>5. ASSUME NEW m \in 1..Len(operations'), NEW n \in 1..Len(operations'),
                 m < n, Writing(m)', Writing(n)'
          PROVE  jobs'[operations'[m]].payload <= jobs'[operations'[n]].payload
      <3>1. m + 1 < n + 1
        BY <2>5
      <3> QED BY <3>1, <2>1, <2>2, <2>5, <1>v DEF WritesInOrder
    <2> QED BY <2>3, <2>4, <2>5 DEF WritesInOrder
  <1>7. WaitsForItsVersion'
    <2> SUFFICES ASSUME NEW w \in Waiters, waiting[w].phase = "waiting"
                 PROVE  IF waiting[w].job = 0
                        THEN waiting[w].version <= disk \/ waiting[w].version \in reopened
                        ELSE waiting[w].version <= jobs'[waiting[w].job].payload
      BY <1>u DEF WaitsForItsVersion
    <2>1. waiting[w].job \in 0..Len(jobs)
      BY <1>t DEF PersistenceTypeOK
    <2> QED BY <2>1, <1>2, <1>v DEF WaitsForItsVersion
  <1> QED BY <1>a, <1>1, <1>2, <1>3, <1>4, <1>5, <1>6, <1>7

(* What was read back is what was written.  A recovery that ends makes the    *)
(* queue ready: what it saved is the latest version but for reopenings.       *)
LEMMA ConfirmIsSound ==
    ASSUME Inv, StoreConfirms
    PROVE  Inv'
  <1>c. /\ operations # <<>> /\ jobs[Asking].phase = "reading" /\ disk = jobs[Asking].payload
        /\ jobs' = [jobs EXCEPT ![Asking].phase = "done"] /\ operations' = Tail(operations)
        /\ UNCHANGED <<memory, disk, clock, callers, reopened, crashes>>
    BY DEF StoreConfirms, Verified
  <1>r. \/ jobs[Asking].by # "change" /\ degraded' = FALSE /\ chain' = 0
        \/ jobs[Asking].by = "change" /\ UNCHANGED <<degraded, chain>>
    BY DEF StoreConfirms
  <1>t. /\ degraded \in BOOLEAN /\ memory \in Nat /\ disk \in Nat /\ chain \in 0..Len(jobs)
    BY DEF Inv, PersistenceTypeOK
  <1>v. DoneIsSaved /\ ChainIsLatest /\ RecoversDegraded
    BY DEF Inv
  <1>b. degraded' \in BOOLEAN /\ chain' \in {0, chain}
    BY <1>r, <1>t
  <1>1. /\ Asking \in 1..Len(jobs)
        /\ Len(jobs') = Len(jobs)
        /\ \A i \in 1..Len(jobs) : /\ jobs'[i].payload = jobs[i].payload
                                   /\ jobs'[i].by = jobs[i].by
                                   /\ jobs'[i].phase = IF i = Asking THEN "done" ELSE jobs[i].phase
        /\ Open' = Open \ {Asking}
        /\ PersistenceTypeOK' /\ VersionsFollow' /\ WritesInOrder' /\ WaitsForItsVersion'
    BY <1>c, <1>b, OperationEnds
  <1> HIDE DEF Asking
  <1>o. Asking \in Open
    BY <1>c, <1>1 DEF Open, In
  <1>s. Open \subseteq 1..Len(jobs)
    BY DEF Open, In
  <1>2. DoneIsSaved'
    BY <1>c, <1>1, <1>v, <1>t DEF DoneIsSaved
  <1>3. ChainIsLatest'
    <2>1. CASE jobs[Asking].by # "change"
      <3>1. jobs[Asking].payload = memory \/ memory \in reopened
        BY <2>1, <1>o, <1>v DEF RecoversDegraded
      <3> QED BY <3>1, <2>1, <1>r, <1>c, <1>t DEF ChainIsLatest
    <2>2. CASE jobs[Asking].by = "change"
      BY <2>2, <1>r, <1>c, <1>1, <1>t, <1>v DEF ChainIsLatest
    <2> QED BY <2>1, <2>2
  <1>4. RecoversDegraded'
    <2>1. CASE jobs[Asking].by # "change"
      BY <2>1, <1>o, <1>s, <1>1, <1>v DEF RecoversDegraded
    <2>2. CASE jobs[Asking].by = "change"
      BY <2>2, <1>r, <1>c, <1>s, <1>1, <1>v DEF RecoversDegraded
    <2> QED BY <2>1, <2>2
  <1> QED BY <1>1, <1>2, <1>3, <1>4 DEF Inv

(* A failure makes the queue read-only, whatever job it belongs to.           *)
LEMMA FailureIsSound ==
    ASSUME Inv, StoreFails
    PROVE  Inv'
  <1>c. /\ operations # <<>> /\ degraded' = TRUE /\ chain' = chain
        /\ jobs' = [jobs EXCEPT ![Asking].phase = "failed"] /\ operations' = Tail(operations)
        /\ UNCHANGED <<memory, disk, clock, callers, reopened, crashes>>
    BY DEF StoreFails
  <1>t. memory \in Nat /\ disk \in Nat /\ chain \in 0..Len(jobs)
    BY DEF Inv, PersistenceTypeOK
  <1>v. DoneIsSaved /\ ChainIsLatest /\ RecoversDegraded
    BY DEF Inv
  <1>b. degraded' \in BOOLEAN /\ chain' \in {0, chain}
    BY <1>c
  <1>1. /\ Len(jobs') = Len(jobs)
        /\ \A i \in 1..Len(jobs) : /\ jobs'[i].payload = jobs[i].payload
                                   /\ jobs'[i].by = jobs[i].by
                                   /\ jobs'[i].phase = IF i = Asking THEN "failed" ELSE jobs[i].phase
        /\ Open' = Open \ {Asking}
        /\ PersistenceTypeOK' /\ VersionsFollow' /\ WritesInOrder' /\ WaitsForItsVersion'
    BY <1>c, <1>b, OperationEnds
  <1> HIDE DEF Asking
  <1>s. Open \subseteq 1..Len(jobs)
    BY DEF Open, In
  <1>2. DoneIsSaved'
    BY <1>c, <1>1, <1>v, <1>t DEF DoneIsSaved
  <1>3. ChainIsLatest'
    BY <1>c, <1>1, <1>v, <1>t DEF ChainIsLatest
  <1>4. RecoversDegraded'
    BY <1>c, <1>s, <1>1, <1>v DEF RecoversDegraded
  <1> QED BY <1>1, <1>2, <1>3, <1>4 DEF Inv

(* A recovery takes the newest version beside the chain.                      *)
LEMMA RecoverIsSound ==
    ASSUME Inv, Recoverers \subseteq {"app"}, NEW r \in Recoverers, Recover(r)
    PROVE  Inv'
  <1> DEFINE x == [before |-> 0, by |-> r, phase |-> "writing", payload |-> memory]
             l == Len(jobs) + 1
  <1>t. /\ PersistenceTypeOK /\ jobs \in Seq(Job) /\ Len(jobs) \in Nat
        /\ operations \in Seq(1..Len(jobs)) /\ memory \in 0..MaxVersion /\ disk \in Nat
        /\ chain \in 0..Len(jobs)
    BY LenProperties DEF Inv, PersistenceTypeOK
  <1>v. /\ VersionsFollow /\ WritesInOrder /\ DoneIsSaved
        /\ ChainIsLatest /\ RecoversDegraded /\ WaitsForItsVersion
    BY DEF Inv
  <1>r. r = "app" /\ degraded /\ ~Recovering(r)
    BY DEF Recover
  <1>x. x \in Job
    BY <1>t DEF Job
  <1>1. /\ jobs' \in Seq(Job) /\ Len(jobs') = l
        /\ \A i \in 1..Len(jobs) : jobs'[i] = jobs[i]
        /\ jobs'[l] = x
    BY <1>t, <1>x, JobAdded DEF Recover
  <1>i. \A i \in 1..Len(jobs') : i \in 1..Len(jobs) \/ i = l
    BY <1>1, <1>t
  <1>2. /\ operations' \in Seq(1..l) /\ Len(operations) \in Nat
        /\ Len(operations') = Len(operations) + 1
        /\ \A k \in 1..Len(operations) : operations'[k] = operations[k] /\ operations[k] \in 1..Len(jobs)
        /\ operations'[Len(operations) + 1] = l
    <2>1. l \in Nat /\ Len(jobs) <= l /\ l \in 1..l
      BY <1>t
    <2>2. operations \in Seq(1..l)
      BY <1>t, <2>1, OperationsRetyped
    <2>3. operations' = Append(operations, l)
      BY DEF Recover
    <2>4. \A k \in 1..Len(operations) : operations[k] \in 1..Len(jobs)
      BY <1>t, ElementOfSeq
    <2> HIDE DEF l
    <2> QED BY <2>1, <2>2, <2>3, <2>4, OperationAdded
  <1>u. UNCHANGED <<memory, disk, clock, chain, degraded, waiting, promised, reopened, crashes>>
    BY DEF Recover, callers
  <1>p. ASSUME NEW i \in 1..Len(jobs)
        PROVE  jobs[i].payload \in Nat /\ jobs[i].payload <= memory
    <2>1. jobs[i].payload \in 0..MaxVersion
      BY <1>t, JobFields
    <2> QED BY <2>1, <1>v DEF VersionsFollow
  <1>n. memory \in Nat /\ disk <= memory
    BY <1>t, <1>v DEF VersionsFollow
  <1>3. PersistenceTypeOK'
    <2>1. chain' \in 0..Len(jobs') /\ Len(jobs') <= MaxJobs
      BY <1>t, <1>1, <1>u DEF Recover, PersistenceTypeOK
    <2>2. jobs' \in Seq(Job) /\ operations' \in Seq(1..Len(jobs'))
      BY <1>1, <1>2
    <2>3. waiting' \in [Waiters -> [phase : {"idle", "waiting"}, version : 0..MaxVersion,
                                    job : 0..Len(jobs')]]
      <3>1. 0..Len(jobs) \subseteq 0..Len(jobs')
        BY <1>1, <1>t
      <3> QED BY <3>1, <1>t, <1>u DEF PersistenceTypeOK
    <2>4. {memory, disk, clock, promised}' \subseteq 0..MaxVersion
      BY <1>t, <1>u DEF PersistenceTypeOK
    <2>5. reopened' \subseteq 1..MaxVersion /\ crashes' \in 0..MaxCrashes /\ degraded' \in BOOLEAN
      BY <1>t, <1>u DEF PersistenceTypeOK
    <2> QED BY <2>1, <2>2, <2>3, <2>4, <2>5, Zenon DEF PersistenceTypeOK
  <1>4. VersionsFollow'
    <2>1. \A i \in 1..Len(jobs') : jobs'[i].payload <= memory
      BY <1>1, <1>i, <1>p, <1>n
    <2> QED BY <2>1, <1>v, <1>u DEF VersionsFollow
  <1>5. WritesInOrder'
    <2>2. \A k \in 1..Len(operations) : jobs'[operations'[k]] = jobs[operations[k]]
      BY <1>1, <1>2
    <2>3. jobs'[operations'[Len(operations) + 1]] = x
      BY <1>1, <1>2
    <2>4. \A k \in 1..Len(operations') : k \in 1..Len(operations) \/ k = Len(operations) + 1
      BY <1>2
    <2>6. \A n \in 1..Len(operations') : jobs'[operations'[n]].phase # "queued"
      BY <2>2, <2>3, <2>4, <1>v DEF WritesInOrder
    <2>7. \A n \in 1..Len(operations') : Writing(n)' => disk' <= jobs'[operations'[n]].payload
      BY <2>2, <2>3, <2>4, <1>u, <1>v, <1>n DEF WritesInOrder, Writing
    <2>8. ASSUME NEW m \in 1..Len(operations'), NEW n \in 1..Len(operations'),
                 m < n, Writing(m)', Writing(n)'
          PROVE  jobs'[operations'[m]].payload <= jobs'[operations'[n]].payload
      <3>0. Len(operations) \in Nat /\ Len(operations') = Len(operations) + 1
        BY <1>2
      <3>1. m \in 1..Len(operations) /\ Writing(m)
        <4>1. m \in 1..Len(operations)
          BY <2>8, <3>0
        <4> QED BY <4>1, <2>2, <2>8 DEF Writing
      <3>2. CASE n \in 1..Len(operations)
        BY <3>1, <3>2, <2>2, <2>8, <1>v DEF WritesInOrder, Writing
      <3>3. CASE n = Len(operations) + 1
        <4>1. jobs'[operations'[n]] = x /\ x.payload = memory
          BY <3>3, <2>3
        <4>2. operations[m] \in 1..Len(jobs)
          BY <3>1, <1>2
        <4>3. jobs'[operations'[m]] = jobs[operations[m]] /\ jobs[operations[m]].payload <= memory
          BY <3>1, <4>2, <2>2, <1>p
        <4> HIDE DEF x
        <4> QED BY <4>1, <4>3
      <3> QED BY <2>4, <3>2, <3>3
    <2> QED BY <2>6, <2>7, <2>8 DEF WritesInOrder
  <1>6. DoneIsSaved'
    BY <1>v, <1>1, <1>i, <1>u DEF DoneIsSaved
  <1>7. ChainIsLatest'
    BY <1>v, <1>1, <1>u, <1>t DEF ChainIsLatest
  <1>8. RecoversDegraded'
    <2>1. \A j \in Open' : (j \in Open /\ j \in 1..Len(jobs)) \/ j = l
      BY <1>1, <1>i DEF Open, In
    <2>2. \A j \in Open : jobs[j].by = "change"
      <3> SUFFICES ASSUME NEW j \in Open PROVE jobs[j].by = "change"
        OBVIOUS
      <3>1. j \in 1..Len(jobs)
        BY DEF Open, In
      <3>2. jobs[j] \in Job
        BY <1>t, <3>1, JobFields
      <3>3. jobs[j].by \in {"change"} \cup Recoverers /\ jobs[j].by # "app"
        BY <1>r, <3>2 DEF Recovering, Job
      <3> QED BY <3>3
    <2> QED BY <2>1, <2>2, <1>1, <1>u, <1>r DEF RecoversDegraded
  <1>9. WaitsForItsVersion'
    <2> SUFFICES ASSUME NEW w \in Waiters, waiting[w].phase = "waiting"
                 PROVE  IF waiting[w].job = 0
                        THEN waiting[w].version <= disk \/ waiting[w].version \in reopened
                        ELSE waiting[w].version <= jobs'[waiting[w].job].payload
      BY <1>u DEF WaitsForItsVersion
    <2>1. waiting[w].job \in 0..Len(jobs)
      BY <1>t DEF PersistenceTypeOK
    <2> QED BY <2>1, <1>1, <1>t, <1>v DEF WaitsForItsVersion
  <1> QED BY <1>3, <1>4, <1>5, <1>6, <1>7, <1>8, <1>9 DEF Inv

(* A caller asks: the promise it gets stands for the version it sees.         *)
LEMMA WaitIsSound ==
    ASSUME Inv, NEW w \in Waiters, Waits(w)
    PROVE  Inv'
  <1>t. /\ PersistenceTypeOK /\ chain \in 0..Len(jobs) /\ memory \in 0..MaxVersion
        /\ waiting \in [Waiters -> [phase : {"idle", "waiting"}, version : 0..MaxVersion,
                                    job : 0..Len(jobs)]]
    BY DEF Inv, PersistenceTypeOK
  <1>u. UNCHANGED <<memory, disk, operations, clock, jobs, chain, degraded, reopened, promised, crashes>>
    BY DEF Waits, storage
  <1>1. waiting' \in [Waiters -> [phase : {"idle", "waiting"}, version : 0..MaxVersion,
                                  job : 0..Len(jobs)]]
    BY <1>t DEF Waits
  <1>2. PersistenceTypeOK'
    BY <1>t, <1>u, <1>1 DEF PersistenceTypeOK
  <1>3. VersionsFollow' /\ WritesInOrder' /\ DoneIsSaved' /\ ChainIsLatest'
    BY <1>u DEF Inv, VersionsFollow, WritesInOrder, Writing, DoneIsSaved, ChainIsLatest
  <1>4. RecoversDegraded'
    <2>1. Open' = Open
      BY <1>u DEF Open, In
    <2> QED BY <1>u, <2>1 DEF Inv, RecoversDegraded
  <1>5. WaitsForItsVersion'
    <2> SUFFICES ASSUME NEW o \in Waiters, waiting'[o].phase = "waiting"
                 PROVE  IF waiting'[o].job = 0
                        THEN waiting'[o].version <= disk \/ waiting'[o].version \in reopened
                        ELSE waiting'[o].version <= jobs[waiting'[o].job].payload
      BY <1>u DEF WaitsForItsVersion
    <2>1. CASE o = w
      <3>1. waiting'[o] = [phase |-> "waiting", version |-> memory, job |-> chain]
        BY <1>t, <2>1 DEF Waits
      <3> QED BY <3>1, <1>t DEF Inv, ChainIsLatest
    <2>2. CASE o # w
      BY <1>t, <2>2 DEF Waits, Inv, WaitsForItsVersion
    <2> QED BY <2>1, <2>2
  <1> QED BY <1>2, <1>3, <1>4, <1>5 DEF Inv

(* A caller hears that its change is saved only of a version that is saved.   *)
LEMMA WaitEndIsSound ==
    ASSUME Inv, NEW w \in Waiters, WaitEnds(w)
    PROVE  Inv' /\ promised <= promised' /\ promised' <= disk
  <1>t. /\ PersistenceTypeOK /\ jobs \in Seq(Job)
        /\ promised \in 0..MaxVersion /\ disk \in 0..MaxVersion
        /\ waiting \in [Waiters -> [phase : {"idle", "waiting"}, version : 0..MaxVersion,
                                    job : 0..Len(jobs)]]
    BY DEF Inv, PersistenceTypeOK
  <1>u. UNCHANGED <<memory, disk, operations, clock, jobs, chain, degraded, reopened, crashes>>
    BY DEF WaitEnds, storage
  <1>w. /\ waiting[w].phase = "waiting"
        /\ waiting[w].job \in 0..Len(jobs) /\ waiting[w].version \in 0..MaxVersion
    BY <1>t DEF WaitEnds
  <1>1. waiting' \in [Waiters -> [phase : {"idle", "waiting"}, version : 0..MaxVersion,
                                  job : 0..Len(jobs)]]
    <2>1. NotWaiting \in [phase : {"idle", "waiting"}, version : 0..MaxVersion, job : 0..Len(jobs)]
      <3>1. 0 \in 0..MaxVersion /\ 0 \in 0..Len(jobs)
        BY <1>t, LenProperties, PersistenceAssumption
      <3> QED BY <3>1 DEF NotWaiting
    <2> QED BY <1>t, <2>1 DEF WaitEnds
  <1>2. promised' \in 0..MaxVersion /\ promised <= promised' /\ promised' <= disk
    <2>1. CASE promised' = promised
      BY <1>t, <2>1 DEF Inv, VersionsFollow
    <2>2. CASE /\ promised' = waiting[w].version /\ waiting[w].version > promised
               /\ waiting[w].version \notin reopened /\ Resolved(waiting[w].job)
      <3>1. CASE waiting[w].job = 0
        BY <2>2, <3>1, <1>w, <1>t DEF Inv, WaitsForItsVersion
      <3>2. CASE waiting[w].job # 0
        <4>1. waiting[w].job \in 1..Len(jobs)
          BY <3>2, <1>w, <1>t, LenProperties
        <4>2. jobs[waiting[w].job] \in Job
          BY <4>1, <1>t, JobFields
        <4>3. jobs[waiting[w].job].phase \in {"queued", "writing", "reading", "done", "failed"}
          BY <4>2 DEF Job
        <4>4. jobs[waiting[w].job].phase \notin {"queued", "writing", "reading"}
          BY <4>1 DEF WaitEnds, Open, In
        <4>5. jobs[waiting[w].job].phase # "failed"
          BY <4>1, <2>2 DEF Resolved, In
        <4>6. jobs[waiting[w].job].payload \in Nat /\ jobs[waiting[w].job].payload <= disk
          BY <4>1, <4>2, <4>3, <4>4, <4>5 DEF Inv, DoneIsSaved, Job
        <4>7. waiting[w].version <= jobs[waiting[w].job].payload
          BY <3>2, <1>w DEF Inv, WaitsForItsVersion
        <4> QED BY <2>2, <4>6, <4>7, <1>w, <1>t
      <3> QED BY <3>1, <3>2
    <2> QED BY <2>1, <2>2 DEF WaitEnds
  <1>3. PersistenceTypeOK'
    <2>1. {memory, disk, clock, promised}' \subseteq 0..MaxVersion
      BY <1>t, <1>u, <1>2 DEF PersistenceTypeOK
    <2>2. jobs' \in Seq(Job) /\ Len(jobs') <= MaxJobs /\ chain' \in 0..Len(jobs')
      BY <1>t, <1>u DEF PersistenceTypeOK
    <2>3. operations' \in Seq(1..Len(jobs')) /\ degraded' \in BOOLEAN
      BY <1>t, <1>u DEF PersistenceTypeOK
    <2>4. reopened' \subseteq 1..MaxVersion /\ crashes' \in 0..MaxCrashes
      BY <1>t, <1>u DEF PersistenceTypeOK
    <2>5. waiting' \in [Waiters -> [phase : {"idle", "waiting"}, version : 0..MaxVersion,
                                    job : 0..Len(jobs')]]
      BY <1>1, <1>u
    <2> QED BY <2>1, <2>2, <2>3, <2>4, <2>5, Zenon DEF PersistenceTypeOK
  <1>4. VersionsFollow'
    BY <1>2, <1>u DEF Inv, VersionsFollow
  <1>5. WritesInOrder' /\ DoneIsSaved' /\ ChainIsLatest'
    BY <1>u DEF Inv, WritesInOrder, Writing, DoneIsSaved, ChainIsLatest
  <1>6. RecoversDegraded'
    <2>1. Open' = Open
      BY <1>u DEF Open, In
    <2> QED BY <1>u, <2>1 DEF Inv, RecoversDegraded
  <1>7. WaitsForItsVersion'
    <2> SUFFICES ASSUME NEW o \in Waiters, waiting'[o].phase = "waiting"
                 PROVE  IF waiting'[o].job = 0
                        THEN waiting'[o].version <= disk \/ waiting'[o].version \in reopened
                        ELSE waiting'[o].version <= jobs[waiting'[o].job].payload
      BY <1>u DEF WaitsForItsVersion
    <2>1. o # w /\ waiting'[o] = waiting[o]
      BY <1>t DEF WaitEnds, NotWaiting
    <2> QED BY <2>1 DEF Inv, WaitsForItsVersion
  <1> QED BY <1>2, <1>3, <1>4, <1>5, <1>6, <1>7 DEF Inv

(* A restart has no jobs, no callers and nothing to be read-only about.       *)
LEMMA CrashIsSound ==
    ASSUME Inv, Crash
    PROVE  Inv' /\ disk <= disk' /\ disk' <= memory
  <1>t. /\ PersistenceTypeOK /\ jobs \in Seq(Job) /\ Len(jobs) \in Nat
        /\ operations \in Seq(1..Len(jobs)) /\ crashes \in 0..MaxCrashes
        /\ promised \in 0..MaxVersion /\ disk \in 0..MaxVersion
        /\ memory \in 0..MaxVersion /\ clock \in 0..MaxVersion
    BY LenProperties DEF Inv, PersistenceTypeOK
  <1>1. disk' \in 0..MaxVersion /\ disk <= disk' /\ disk' <= memory
    <2>1. CASE disk' = disk
      BY <1>t, <2>1 DEF Inv, VersionsFollow
    <2>2. CASE /\ operations # <<>> /\ jobs[Asking].phase = "writing"
               /\ disk' = jobs[Asking].payload
      <3>1. Asking \in 1..Len(jobs) /\ Asking = operations[1] /\ 1 \in 1..Len(operations)
        BY <1>t, <2>2, OperationTaken, LenProperties
      <3>2. jobs[Asking].payload \in 0..MaxVersion
        BY <1>t, <3>1, JobFields
      <3>3. disk <= jobs[Asking].payload
        BY <2>2, <3>1 DEF Inv, WritesInOrder, Writing
      <3>4. jobs[Asking].payload <= memory
        BY <3>1 DEF Inv, VersionsFollow
      <3> QED BY <2>2, <3>2, <3>3, <3>4
    <2> QED BY <2>1, <2>2 DEF Crash
  <1>2. /\ memory' = disk' /\ jobs' = <<>> /\ chain' = 0 /\ operations' = <<>>
        /\ degraded' = FALSE /\ reopened' = {} /\ crashes' = crashes + 1
        /\ clock' = clock /\ promised' = promised
        /\ waiting' = [w \in Waiters |-> NotWaiting]
    BY DEF Crash
  <1>3. Len(jobs') = 0 /\ Len(operations') = 0
    BY <1>2
  <1>4. PersistenceTypeOK'
    <2>1. {memory, disk, clock, promised}' \subseteq 0..MaxVersion
      BY <1>t, <1>1, <1>2
    <2>2. jobs' \in Seq(Job) /\ operations' \in Seq(1..Len(jobs'))
      BY <1>2
    <2>3. Len(jobs') <= MaxJobs /\ chain' \in 0..Len(jobs')
      BY <1>2, <1>3, PersistenceAssumption
    <2>4. crashes' \in 0..MaxCrashes
      BY <1>t, PersistenceAssumption DEF Crash
    <2>5. waiting' \in [Waiters -> [phase : {"idle", "waiting"}, version : 0..MaxVersion,
                                    job : 0..Len(jobs')]]
      <3>1. 0 \in 0..MaxVersion /\ 0 \in 0..Len(jobs')
        BY <1>3, PersistenceAssumption
      <3> QED BY <1>2, <3>1 DEF NotWaiting
    <2>6. reopened' \subseteq 1..MaxVersion /\ degraded' \in BOOLEAN
      BY <1>2
    <2> QED BY <2>1, <2>2, <2>3, <2>4, <2>5, <2>6, Zenon DEF PersistenceTypeOK
  <1>5. VersionsFollow'
    BY <1>t, <1>1, <1>2, <1>3 DEF Inv, VersionsFollow
  <1>6. WritesInOrder' /\ DoneIsSaved'
    BY <1>3 DEF WritesInOrder, DoneIsSaved
  <1>7. ChainIsLatest'
    BY <1>1, <1>2, <1>t DEF ChainIsLatest
  <1>8. RecoversDegraded'
    BY <1>3 DEF RecoversDegraded, Open, In
  <1>9. WaitsForItsVersion'
    BY <1>2 DEF WaitsForItsVersion, NotWaiting
  <1> QED BY <1>1, <1>4, <1>5, <1>6, <1>7, <1>8, <1>9 DEF Inv

LEMMA NextIsSound ==
    ASSUME Recoverers \subseteq {"app"}, Inv, [PersistenceNext]_persistenceVars
    PROVE  Inv'
  <1>1. CASE UNCHANGED persistenceVars
    <2>1. Open' = Open
      BY <1>1 DEF persistenceVars, Open, In
    <2>2. PersistenceTypeOK' /\ VersionsFollow' /\ WritesInOrder' /\ DoneIsSaved' /\ ChainIsLatest'
      BY <1>1 DEF persistenceVars, Inv, PersistenceTypeOK, VersionsFollow, WritesInOrder, Writing,
                  DoneIsSaved, ChainIsLatest
    <2>3. RecoversDegraded' /\ WaitsForItsVersion'
      BY <1>1, <2>1 DEF persistenceVars, Inv, RecoversDegraded, WaitsForItsVersion
    <2> QED BY <2>2, <2>3 DEF Inv
  <1>2. CASE PersistenceNext
    BY <1>2, ChangeIsSound, ReopenIsSound, JobStartIsSound, RecoverIsSound, WriteIsSound,
       ConfirmIsSound, FailureIsSound, WaitIsSound, WaitEndIsSound, CrashIsSound
       DEF PersistenceNext
  <1> QED BY <1>1, <1>2

LEMMA InvariantHolds ==
    ASSUME Recoverers \subseteq {"app"}
    PROVE  PersistenceSpec => []Inv
  BY InitIsSound, NextIsSound, PTL DEF PersistenceSpec

--------------------------------------------------------------------------------
(* The theorems.                                                              *)

(* PersistenceTypeOK.                                                         *)
THEOREM PersistenceIsTypeCorrect ==
    ASSUME Recoverers \subseteq {"app"}
    PROVE  PersistenceSpec => []PersistenceTypeOK
<1>1. Inv => PersistenceTypeOK
  BY DEF Inv
<1> QED BY <1>1, InvariantHolds, PTL

(* ReadyIsSavedOrSaving: a queue that takes changes has everything saved or   *)
(* has a job that will save it, but for changes let through while degraded.   *)
THEOREM NoChangeIsForgotten ==
    ASSUME Recoverers \subseteq {"app"}
    PROVE  PersistenceSpec => []ReadyIsSavedOrSaving
<1>1. Inv => ReadyIsSavedOrSaving
  <2> SUFFICES ASSUME Inv, ~degraded
               PROVE  disk >= memory \/ memory \in reopened \/ Open # {}
    BY DEF ReadyIsSavedOrSaving
  <2>t. jobs \in Seq(Job) /\ chain \in 0..Len(jobs) /\ disk \in Nat /\ memory \in Nat
    BY DEF Inv, PersistenceTypeOK
  <2>1. CASE chain = 0
    BY <2>1, <2>t DEF Inv, ChainIsLatest
  <2>2. CASE chain # 0
    <3>1. chain \in 1..Len(jobs)
      BY <2>2, <2>t, LenProperties
    <3>2. jobs[chain] \in Job
      BY <3>1, <2>t, JobFields
    <3>3. jobs[chain].phase \in {"queued", "writing", "reading", "done"}
      BY <3>2, <2>2 DEF Inv, ChainIsLatest, Job
    <3>4. CASE jobs[chain].phase = "done"
      BY <3>1, <3>4, <2>2, <2>t DEF Inv, ChainIsLatest, DoneIsSaved
    <3>5. CASE jobs[chain].phase # "done"
      <4>1. chain \in Open
        BY <3>1, <3>3, <3>5 DEF Open, In
      <4> QED BY <4>1
    <3> QED BY <3>4, <3>5
  <2> QED BY <2>1, <2>2
<1> QED BY <1>1, InvariantHolds, PTL

(* What is on disk, in memory and promised after a step, step by step.        *)
LEMMA StepsOfTheCell ==
    ASSUME Recoverers \subseteq {"app"}, Inv, [PersistenceNext]_persistenceVars
    PROVE  [Cell!CellNext]_(Cell!cell) /\ disk' >= disk
  <1>t. {memory, disk, promised, clock} \subseteq Nat /\ {memory, disk, promised, clock}' \subseteq Nat
    <2>1. Inv'
      BY NextIsSound
    <2> QED BY <2>1 DEF Inv, PersistenceTypeOK
  <1>d. disk <= disk
    BY <1>t
  <1>1. CASE UNCHANGED <<memory, disk, promised>>
    BY <1>1, <1>d DEF Cell!cell
  <1>2. CASE Emit
    <2>1. memory <= clock /\ memory' = clock + 1 /\ UNCHANGED <<disk, promised>>
      BY <1>2 DEF Inv, VersionsFollow, Emit, storage, callers
    <2> QED BY <2>1, <1>t DEF Cell!CellNext, Cell!CellChange
  <1>3. CASE StoreWrites
    <2>1. disk' >= disk /\ disk' <= memory
      BY <1>3, WriteIsSound
    <2>2. UNCHANGED <<memory, promised>>
      BY <1>3 DEF StoreWrites, callers
    <2>3. CASE disk' = disk
      BY <1>1, <2>2, <2>3
    <2>4. CASE disk' # disk
      BY <2>1, <2>2, <2>4, <1>t DEF Cell!CellNext, Cell!CellSave
    <2> QED BY <2>3, <2>4
  <1>4. ASSUME NEW w \in Waiters, WaitEnds(w)
        PROVE  [Cell!CellNext]_(Cell!cell) /\ disk' >= disk
    <2>1. promised <= promised' /\ promised' <= disk
      BY <1>4, WaitEndIsSound
    <2>2. UNCHANGED <<memory, disk>>
      BY <1>4 DEF WaitEnds, storage
    <2>3. CASE promised' = promised
      BY <1>1, <2>2, <2>3
    <2>4. CASE promised' # promised
      BY <2>1, <2>2, <2>4, <1>t DEF Cell!CellNext, Cell!CellPromise
    <2> QED BY <2>3, <2>4
  <1>5. CASE Crash
    <2>1. disk <= disk' /\ disk' <= memory
      BY <1>5, CrashIsSound
    <2> QED BY <2>1, <1>5, <1>t DEF Crash, Cell!CellNext, Cell!CellCrash
  <1>6. CASE PersistenceNext
    <2>1. ASSUME NEW j \in 1..Len(jobs), JobStarts(j)
          PROVE  UNCHANGED <<memory, disk, promised>>
      BY <2>1 DEF JobStarts, callers
    <2>2. ASSUME NEW r \in Recoverers, Recover(r)
          PROVE  UNCHANGED <<memory, disk, promised>>
      BY <2>2 DEF Recover, callers
    <2>3. ASSUME StoreConfirms \/ StoreFails
          PROVE  UNCHANGED <<memory, disk, promised>>
      BY <2>3 DEF StoreConfirms, StoreFails, callers
    <2>4. ASSUME NEW w \in Waiters, Waits(w)
          PROVE  UNCHANGED <<memory, disk, promised>>
      BY <2>4 DEF Waits, storage
    <2> QED BY <1>6, <1>1, <1>2, <1>3, <1>4, <1>5, <2>1, <2>2, <2>3, <2>4
            DEF PersistenceNext, Change, Reopen
  <1>7. CASE UNCHANGED persistenceVars
    BY <1>7, <1>1 DEF persistenceVars
  <1> QED BY <1>6, <1>7

(* DiskNeverRegresses: no write, recovery or crash puts an older snapshot     *)
(* over a newer one.                                                          *)
THEOREM NoOlderSnapshot ==
    ASSUME Recoverers \subseteq {"app"}
    PROVE  PersistenceSpec => DiskNeverRegresses
<1>1. Inv /\ [PersistenceNext]_persistenceVars => [disk' >= disk]_persistenceVars
  BY StepsOfTheCell
<1> QED BY <1>1, InvariantHolds, PTL DEF PersistenceSpec, DiskNeverRegresses

(* IsDurableCell: the queue implements the durable cell, step by step.        *)
THEOREM QueueIsDurableCell ==
    ASSUME Recoverers \subseteq {"app"}
    PROVE  PersistenceSpec => IsDurableCell
<1>1. PersistenceInit => Cell!CellInit
  BY DEF PersistenceInit, Cell!CellInit
<1>2. Inv /\ [PersistenceNext]_persistenceVars => [Cell!CellNext]_(Cell!cell)
  BY StepsOfTheCell
<1> QED BY <1>1, <1>2, InvariantHolds, PTL DEF PersistenceSpec, IsDurableCell, Cell!CellSpec

(* Whatever a caller was told is saved is on disk, and stays there.           *)
THEOREM PromisesAreOnDisk ==
    ASSUME Recoverers \subseteq {"app"}
    PROVE  PersistenceSpec => []Cell!PromisesAreKept
<1>1. Inv => Cell!PromisesAreKept
  BY DEF Inv, VersionsFollow, Cell!PromisesAreKept
<1> QED BY <1>1, InvariantHolds, PTL

(* What the refinement amounts to.  Memory is never behind the disk, and the  *)
(* disk never behind a promise.                                               *)
CellInv ==
    /\ memory \in Nat /\ disk \in Nat /\ promised \in Nat
    /\ promised <= disk /\ disk <= memory

(* PromisesAreKept: whatever implements the cell, a change a caller was told   *)
(* is saved is what a restart reads, whatever saves, promises and crashes came *)
(* before.                                                                     *)
THEOREM PromisesAreKeptForever == Cell!CellSpec => []Cell!PromisesAreKept
<1>1. Cell!CellInit => CellInv
  BY DEF Cell!CellInit, CellInv
<1>2. CellInv /\ [Cell!CellNext]_(Cell!cell) => CellInv'
  <2> SUFFICES ASSUME CellInv, [Cell!CellNext]_(Cell!cell) PROVE CellInv'
    OBVIOUS
  <2>1. CASE Cell!CellChange
    BY <2>1 DEF CellInv, Cell!CellChange
  <2>2. CASE Cell!CellSave
    BY <2>2 DEF CellInv, Cell!CellSave
  <2>3. CASE Cell!CellPromise
    BY <2>3 DEF CellInv, Cell!CellPromise
  <2>4. CASE Cell!CellCrash
    BY <2>4 DEF CellInv, Cell!CellCrash
  <2>5. CASE UNCHANGED Cell!cell
    BY <2>5 DEF CellInv, Cell!cell
  <2>6. QED
    BY <2>1, <2>2, <2>3, <2>4, <2>5 DEF Cell!CellNext
<1>3. CellInv => Cell!PromisesAreKept
  BY DEF CellInv, Cell!PromisesAreKept
<1>4. QED
  BY <1>1, <1>2, <1>3, PTL DEF Cell!CellSpec
================================================================================
