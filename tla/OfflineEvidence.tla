---------------------------- MODULE OfflineEvidence ----------------------------
(***************************************************************************)
(* The offline evidence queue of the driver app                            *)
(* (domain/offline/offlineSubmissionQueue.ts, createInMemoryOffline-       *)
(* SubmissionQueue): the rows a driver's phone keeps for everything that   *)
(* must reach the delivery server, and every method that changes them.     *)
(*                                                                         *)
(* A queue holds the rows of several accounts; a method only sees those of *)
(* the account that is bound (activeItems).  So every method is an         *)
(* operator on the rows q of ONE account, q \in [Ids -> Row], and the      *)
(* actions apply it to rows[owner].  OfflineRetry, the retry pass and the  *)
(* direct senders, reuses the operators.                                   *)
(***************************************************************************)
EXTENDS Naturals, FiniteSets

CONSTANTS
    Owners,        \* account owner hashes
    NoOwner,       \* the queue before bindAccountOwnerHash
    Ids,           \* queueItemId: one per client event, one per proof file
    Routes,        \* route plan ids
    Contracts,     \* (assignment generation, route version) pairs
    NoContract,    \* an event recorded without them
    KindOf,        \* [Ids -> Kinds]
    RouteOf,       \* [Ids -> Routes]
    ProofsOf,      \* [Ids -> SUBSET Ids]: the local media a completion refers to
    ProofScope,    \* [Ids -> contract]: the generation a proof file belongs to
    Generation,    \* [Contracts \cup {NoContract} -> a value]
    MaxItems,      \* OFFLINE_SUBMISSION_QUEUE_MAX_ITEMS
    MaxAttempts    \* retryPolicy.maxAttempts

(* "step" is ROUTE_STARTED or PICKUP_COMPLETED, "arrival" is STOP_ARRIVED;    *)
(* "stop" is a STOP_DELIVERED or STOP_FAILED; "cash" is a STOP_DELIVERED that *)
(* carries a cash completion; "completed" and "paused" end the route.         *)
Kinds == {"location", "step", "arrival", "stop", "cash", "completed", "paused", "proof"}
TerminalStops == {"stop", "cash"}
RouteEnds == {"completed", "paused"}
OrderedKinds == {"step", "arrival"} \cup TerminalStops \cup RouteEnds

States == {"ABSENT", "PENDING", "QUARANTINED", "ACKNOWLEDGED", "DISCARDED"}

(* The reconciliation record of a row.  "route" is assignment_changed or      *)
(* route_not_in_progress, the two reasons that block the whole route in a     *)
(* retry pass; "event" is every other reason.                                 *)
Reasons == {"event", "route"}

(* Why a row was DISCARDED, by who decided it: "decision" is                  *)
(* EXPLICIT_OPERATOR_PURGE or ACCOUNT_DELETION_SERVER_AUDITED, "refused" is   *)
(* PROOF_MEDIA_REJECTED, "calledOff" is EXPLICIT_DISCARD, and "cleanup" is the *)
(* transient state of a route, of an account or of a full queue.              *)
Causes == {"decision", "refused", "calledOff", "cleanup"}

AnyContract == Contracts \cup {NoContract}

Row == [state     : States,
        recon     : Reasons \cup {"none"},
        cause     : Causes \cup {"none"},
        contract  : AnyContract,
        seq       : Nat,                \* queueSequence
        attempts  : Nat,
        serverAck : BOOLEAN,            \* journal has an ACK / SERVER_ACK entry
        cleared   : BOOLEAN,            \* journal has HEARTBEAT / ACK_CLEAR_DELIVERED
        receipt   : BOOLEAN,            \* completionReceipt
        uploaded  : BOOLEAN,            \* uploadedMedia
        rejected  : BOOLEAN,            \* proofRejected
        owed      : BOOLEAN,            \* proofCompletionPending
        standsFor : Ids]                \* replacesRejectedUri, or its own uri

ASSUME OwnersAssumption == NoOwner \notin Owners
ASSUME ContractsAssumption == NoContract \notin Contracts
ASSUME ItemsAssumption ==
    /\ IsFiniteSet(Ids)
    /\ KindOf \in [Ids -> Kinds]
    /\ RouteOf \in [Ids -> Routes]
    /\ ProofsOf \in [Ids -> SUBSET Ids]
    /\ ProofScope \in [Ids -> AnyContract]
ASSUME BoundsAssumption == MaxItems \in Nat \ {0} /\ MaxAttempts \in Nat \ {0}

VARIABLES
    rows,      \* [Owners -> [Ids -> Row]]: the Map of createInMemoryOfflineSubmissionQueue
    owner,     \* activeAccountOwnerHash
    nextSeq,   \* nextQueueSequence
    writable   \* isMutationAllowed(): FALSE while the store is STORAGE_DEGRADED

vars == <<rows, owner, nextSeq, writable>>

--------------------------------------------------------------------------------
(* Rows of one account.                                                       *)

NewRow(i, c, n) ==
    [state |-> "PENDING", recon |-> "none", cause |-> "none", contract |-> c,
     seq |-> n, attempts |-> 0, serverAck |-> FALSE, cleared |-> FALSE,
     receipt |-> FALSE, uploaded |-> FALSE, rejected |-> FALSE, owed |-> FALSE,
     standsFor |-> i]

NoRow(i) == [NewRow(i, NoContract, 0) EXCEPT !.state = "ABSENT"]

(* item.state of a row that has not been settled: what listPending returns.   *)
Live(row) == row.state \in {"PENDING", "QUARANTINED"}
Settled(row) == row.state \in {"ACKNOWLEDGED", "DISCARDED"}

IsLocation(i) == KindOf[i] = "location"
IsProof(i) == KindOf[i] = "proof"
IsOrdered(i) == KindOf[i] \in OrderedKinds

(* Mutant: the record is written, the state is not.                           *)
RecordedOnly(row, reason) == [row EXCEPT !.recon = reason, !.cause = "none"]

Quarantined(row, reason) ==
    [row EXCEPT !.state = "QUARANTINED", !.recon = reason, !.cause = "none"]
Discarded(row, code) == [row EXCEPT !.state = "DISCARDED", !.cause = code]
Acked(row) == [row EXCEPT !.state = "ACKNOWLEDGED", !.cause = "none"]

(* The proof row p carries a file that the event e, recorded under contract   *)
(* c, refers to: itself, or as the replacement of a rejected one.             *)
IsEvidenceOf(q, p, e, c) ==
    /\ IsProof(p)
    /\ q[p].state # "ABSENT"
    /\ q[p].standsFor \in ProofsOf[e]
    /\ Generation[q[p].contract] = Generation[c]

ReferenceProofs(q, e, c, owed) ==
    [p \in Ids |-> IF IsEvidenceOf(q, p, e, c) THEN [q[p] EXCEPT !.owed = owed] ELSE q[p]]

(* Every local file of the event has an upload receipt.                       *)
ProofsUploaded(q, e, c) ==
    \A u \in ProofsOf[e] :
        \E p \in Ids : IsEvidenceOf(q, p, e, c) /\ q[p].standsFor = u /\ q[p].uploaded

(* Mutant: the trim stops one row early.                                      *)
TrimmedLate(q) ==
    LET pending == {i \in Ids : q[i].state = "PENDING"}
        samples == {i \in pending : IsLocation(i) /\ q[i].recon = "none"}
        Rank(i) == Cardinality({j \in samples : q[j].seq <= q[i].seq})
    IN  [i \in Ids |-> IF i \in samples /\ Rank(i) + MaxItems < Cardinality(pending)
                       THEN Discarded(q[i], "cleanup")
                       ELSE q[i]]

(* trimOfflineSubmissionQueue: over capacity, the oldest location samples go; *)
(* workflow evidence and proofs are never trimmed.                            *)
Trimmed(q) ==
    LET pending == {i \in Ids : q[i].state = "PENDING"}
        samples == {i \in pending : IsLocation(i) /\ q[i].recon = "none"}
        Rank(i) == Cardinality({j \in samples : q[j].seq <= q[i].seq})
    IN  [i \in Ids |-> IF i \in samples /\ Rank(i) + MaxItems <= Cardinality(pending)
                       THEN Discarded(q[i], "cleanup")
                       ELSE q[i]]

Complete(i, c) == ~IsLocation(i) /\ c # NoContract

(* upsertDriverEvent on a row that exists, whatever its state: `same` says    *)
(* whether the immutable identity of the event is that of the row.            *)
Merged(row, i, c, same) ==
    CASE row.recon = "none" /\ ~same -> Quarantined(row, "event")
      [] same /\ Complete(i, c) /\ ~Complete(i, row.contract) -> [row EXCEPT !.contract = c]
      [] /\ row.recon = "none" /\ same
         /\ Complete(i, c) /\ Complete(i, row.contract) /\ c # row.contract
            -> Quarantined(row, "route")
      [] OTHER -> row

Upserted(q, i, c, same, n) ==
    IF q[i].state = "ABSENT"
    THEN [ReferenceProofs(q, i, c, TRUE) EXCEPT ![i] = NewRow(i, c, n)]
    ELSE [q EXCEPT ![i] = Merged(q[i], i, c, same)]

(* enqueueDriverEvent: the trim runs only when the upsert changed the row.    *)
Enqueued(q, i, c, same, n) ==
    LET u == Upserted(q, i, c, same, n) IN IF u = q THEN q ELSE Trimmed(u)

(* Mutant: a settled file is queued again.                                    *)
ProofRequeued(q, p, n) ==
    IF q[p].state \in {"ABSENT", "ACKNOWLEDGED", "DISCARDED"}
    THEN Trimmed([q EXCEPT ![p] = NewRow(p, ProofScope[p], n)])
    ELSE q

ProofEnqueued(q, p, n) ==
    IF q[p].state = "ABSENT"
    THEN Trimmed([q EXCEPT ![p] = NewRow(p, ProofScope[p], n)])
    ELSE q

Inserts(q, i) == IF q[i].state = "ABSENT" THEN 1 ELSE 0

(* Mutant: an acknowledgement does not ask for the cash receipt.              *)
AcknowledgedBlindly(q, i, hasReceipt) ==
    IF ~Live(q[i]) THEN q
    ELSE [ReferenceProofs(q, i, q[i].contract, FALSE) EXCEPT ![i] =
            [Acked(q[i]) EXCEPT !.serverAck = TRUE, !.receipt = q[i].receipt \/ hasReceipt]]

(* acknowledge: a cash completion needs the receipt that matches it.          *)
Acknowledged(q, i, hasReceipt) ==
    IF ~Live(q[i]) \/ (KindOf[i] = "cash" /\ ~hasReceipt)
    THEN q
    ELSE [ReferenceProofs(q, i, q[i].contract, FALSE) EXCEPT ![i] =
            [Acked(q[i]) EXCEPT !.serverAck = TRUE,
                                              !.receipt = q[i].receipt \/ KindOf[i] = "cash"]]

(* quarantine                                                                 *)
Isolated(q, i, reason) ==
    IF q[i].state = "PENDING" /\ q[i].recon = "none"
    THEN [q EXCEPT ![i] = Quarantined(q[i], reason)]
    ELSE q

(* Mutant: attempts are not counted.                                          *)
RetryUncounted(q, i, transient) == q

(* recordRetryFailure: a transient failure does not count against a location. *)
RetryFailed(q, i, transient) ==
    IF q[i].state = "PENDING" /\ ~(IsLocation(i) /\ transient)
    THEN [q EXCEPT ![i] = [q[i] EXCEPT !.attempts = q[i].attempts + 1]]
    ELSE q

Dropped(q, i, code) == IF Live(q[i]) THEN [q EXCEPT ![i] = Discarded(q[i], code)] ELSE q

(* blockRouteSubmissionsForReconciliation                                     *)
RouteBlocked(q, r) ==
    [i \in Ids |->
        IF ~Live(q[i]) \/ RouteOf[i] # r THEN q[i]
        ELSE IF IsLocation(i) THEN Discarded(q[i], "cleanup")
        ELSE IF q[i].recon = "none" THEN Quarantined(q[i], "route")
        ELSE q[i]]

(* Mutant: the clean-up of a finished route takes its files along.            *)
RouteCleanedOut(q, r) ==
    [i \in Ids |->
        IF /\ q[i].state = "PENDING" /\ RouteOf[i] = r
           /\ KindOf[i] \notin TerminalStops \cup RouteEnds
        THEN Discarded(q[i], "cleanup")
        ELSE q[i]]

(* discardRouteSubmissions: what a finished route no longer needs.            *)
RouteCleaned(q, r) ==
    [i \in Ids |->
        IF /\ q[i].state = "PENDING" /\ RouteOf[i] = r
           /\ KindOf[i] \notin TerminalStops \cup RouteEnds \cup {"proof"}
        THEN Discarded(q[i], "cleanup")
        ELSE q[i]]

(* sealForAccountChange                                                       *)
Sealed(q) ==
    [i \in Ids |->
        IF q[i].state # "PENDING" THEN q[i]
        ELSE IF IsLocation(i) THEN Discarded(q[i], "cleanup")
        ELSE IF q[i].recon = "none" THEN Quarantined(q[i], "event")
        ELSE q[i]]

(* clear                                                                      *)
Purged(q) ==
    [i \in Ids |-> IF Live(q[i]) THEN Discarded(q[i], "decision") ELSE q[i]]

(* completeAccountDeletionAfterServerAudit                                    *)
Erased(q) ==
    [i \in Ids |-> IF q[i].state \in {"ABSENT", "DISCARDED"} THEN q[i]
                   ELSE Discarded(q[i], "decision")]

(* discardReconciliationRecords: the operator settles what was quarantined,   *)
(* except cash completions.                                                   *)
Reconciled(q) ==
    [i \in Ids |-> IF q[i].state = "QUARANTINED" /\ q[i].recon # "none" /\ KindOf[i] # "cash"
                   THEN Acked(q[i])
                   ELSE q[i]]

(* recordProofMediaUpload, rejectProofMedia, replaceRejectedProofMedia        *)
MediaRecorded(q, p) ==
    IF IsProof(p) /\ q[p].state # "ABSENT" THEN [q EXCEPT ![p] = [q[p] EXCEPT !.uploaded = TRUE]] ELSE q

MediaRejected(q, p) ==
    IF IsProof(p) /\ q[p].state = "PENDING" /\ ~q[p].uploaded
    THEN [q EXCEPT ![p] = [Discarded(q[p], "refused") EXCEPT !.rejected = TRUE]]
    ELSE q

(* rejectedProofForCompletion: file u of the pending event e was refused and  *)
(* nothing else stands for it.                                                *)
ProofWasRejected(q, e, u) ==
    LET standIns == {p \in Ids : IsEvidenceOf(q, p, e, q[e].contract) /\ q[p].standsFor = u}
    IN  /\ q[e].state = "PENDING" /\ ~q[e].receipt
        /\ u \in ProofsOf[e]
        /\ \A p \in standIns : q[p].state = "DISCARDED" /\ ~q[p].uploaded
        /\ \E p \in standIns : q[p].rejected

(* Mutant: the new capture is not marked as owed.                             *)
MediaReplacedUnowed(q, p, u, n) ==
    LET stored == ProofEnqueued(q, p, n)
    IN  [stored EXCEPT ![p] = [stored[p] EXCEPT !.standsFor = u]]

MediaReplaced(q, p, u, n) ==
    LET stored == ProofEnqueued(q, p, n)
    IN  [stored EXCEPT ![p] = [stored[p] EXCEPT !.standsFor = u, !.owed = TRUE]]

(* listPendingCompletionClearEntries: the completions whose clearing          *)
(* heartbeat the server has not confirmed.                                    *)
ClearOutbox(q) ==
    {i \in Ids : /\ KindOf[i] = "completed" /\ q[i].state = "ACKNOWLEDGED"
                 /\ q[i].serverAck /\ ~q[i].cleared}

ClearMarked(q, i) ==
    IF i \in ClearOutbox(q) THEN [q EXCEPT ![i] = [q[i] EXCEPT !.cleared = TRUE]] ELSE q

ClearReopened(q, i) ==
    IF KindOf[i] = "completed" /\ q[i].state # "ABSENT"
    THEN [q EXCEPT ![i] = [q[i] EXCEPT !.cleared = FALSE]] ELSE q

--------------------------------------------------------------------------------
(* The queue as an object: any method, any argument, in any order.            *)

Init ==
    /\ rows = [o \in Owners |-> [i \in Ids |-> NoRow(i)]]
    /\ owner = NoOwner
    /\ nextSeq = 1
    /\ writable = TRUE

(* Mutant: requireMutable does not look at the store.                         *)
Bound == owner # NoOwner

(* requireMutable                                                             *)
Mutable == writable /\ owner # NoOwner

active == rows[owner]

(* A method that gives the bound account the rows q and inserts k of them.    *)
Become(q, k) ==
    /\ rows' = [rows EXCEPT ![owner] = q]
    /\ nextSeq' = nextSeq + k
    /\ UNCHANGED <<owner, writable>>

BindAccountOwnerHash(o) == owner' = o /\ UNCHANGED <<rows, nextSeq, writable>>

(* recordStopProof refuses a completion without assignment identity, and the  *)
(* app stores a completion's files before the completion.                     *)
EnqueueDriverEvent(i, c, same) ==
    /\ Mutable /\ ~IsProof(i)
    /\ KindOf[i] = "cash" => c # NoContract
    /\ Become(Enqueued(active, i, c, same, nextSeq), Inserts(active, i))

(* enqueueDriverEvents: one trim after the whole batch of samples.            *)
EnqueueDriverEvents(i, j, c) ==
    LET first == Upserted(active, i, c, TRUE, nextSeq)
        both  == Upserted(first, j, c, TRUE, nextSeq + Inserts(active, i))
    IN  /\ Mutable /\ i # j /\ IsLocation(i) /\ IsLocation(j)
        /\ Become(IF both = active THEN active ELSE Trimmed(both),
                  Inserts(active, i) + Inserts(first, j))

EnqueueProofMediaUpload(p) ==
    /\ Mutable /\ IsProof(p)
    /\ \A e \in Ids : p \in ProofsOf[e] => active[e].state = "ABSENT"
    /\ Become(ProofEnqueued(active, p, nextSeq), Inserts(active, p))

(* The new capture has a file name of its own, so it is a row of its own.     *)
ReplaceRejectedProofMedia(e, u, p) ==
    /\ Mutable /\ IsProof(p) /\ active[p].state = "ABSENT"
    /\ \A other \in Ids : p \notin ProofsOf[other]
    /\ ProofWasRejected(active, e, u)
    /\ Generation[ProofScope[p]] = Generation[active[e].contract]
    /\ Become(MediaReplaced(active, p, u, nextSeq), 1)

Acknowledge(i, hasReceipt) == Mutable /\ Become(Acknowledged(active, i, hasReceipt), 0)
Quarantine(i, reason) ==
    Mutable /\ Become(Isolated(active, i, reason), 0)
RecordRetryFailure(i, transient) == Mutable /\ Become(RetryFailed(active, i, transient), 0)
RecordProofMediaUpload(p) == Mutable /\ Become(MediaRecorded(active, p), 0)
RejectProofMedia(p) == Mutable /\ Become(MediaRejected(active, p), 0)
BlockRouteSubmissions(r) == Mutable /\ Become(RouteBlocked(active, r), 0)
DiscardRouteSubmissions(r) == Mutable /\ Become(RouteCleaned(active, r), 0)
SealForAccountChange == Mutable /\ Become(Sealed(active), 0)
Clear == Mutable /\ Become(Purged(active), 0)
CompleteAccountDeletion == Mutable /\ Become(Erased(active), 0)
DiscardReconciliationRecords == Mutable /\ Become(Reconciled(active), 0)
MarkCompletionClearHeartbeatDelivered(i) == Mutable /\ Become(ClearMarked(active, i), 0)

(* discard has two callers: the retry policy, for a location, and a route end *)
(* whose session could not be deactivated (finishDeliveryAfterActive).        *)
Discard(i) ==
    /\ Mutable /\ (IsLocation(i) \/ KindOf[i] \in RouteEnds)
    /\ Become(Dropped(active, i, "calledOff"), 0)

(* The one method without requireMutable.                                     *)
ReopenCompletionClearHeartbeat(i) ==
    owner # NoOwner /\ Become(ClearReopened(active, i), 0)

(* The persistent wrapper's callback (createPersistentOfflineSubmissionQueue). *)
StorageChanges == writable' = ~writable /\ UNCHANGED <<rows, owner, nextSeq>>

Next ==
    \/ \E o \in Owners : BindAccountOwnerHash(o)
    \/ \E i \in Ids, c \in AnyContract, same \in BOOLEAN : EnqueueDriverEvent(i, c, same)
    \/ \E i, j \in Ids, c \in AnyContract : EnqueueDriverEvents(i, j, c)
    \/ \E p \in Ids : EnqueueProofMediaUpload(p)
    \/ \E e, u, p \in Ids : ReplaceRejectedProofMedia(e, u, p)
    \/ \E i \in Ids, ok \in BOOLEAN : Acknowledge(i, ok)
    \/ \E i \in Ids, reason \in Reasons : Quarantine(i, reason)
    \/ \E i \in Ids, transient \in BOOLEAN : RecordRetryFailure(i, transient)
    \/ \E i \in Ids : Discard(i)
    \/ \E p \in Ids : RecordProofMediaUpload(p)
    \/ \E p \in Ids : RejectProofMedia(p)
    \/ \E r \in Routes : BlockRouteSubmissions(r)
    \/ \E r \in Routes : DiscardRouteSubmissions(r)
    \/ SealForAccountChange
    \/ Clear
    \/ CompleteAccountDeletion
    \/ DiscardReconciliationRecords
    \/ \E i \in Ids : MarkCompletionClearHeartbeatDelivered(i)
    \/ \E i \in Ids : ReopenCompletionClearHeartbeat(i)
    \/ StorageChanges

Spec == Init /\ [][Next]_vars

--------------------------------------------------------------------------------
(* Properties.                                                                *)

(* Type correctness of the queue's state.                                     *)
TypeOK ==
    /\ rows \in [Owners -> [Ids -> Row]]
    /\ owner \in Owners \cup {NoOwner}
    /\ nextSeq \in Nat
    /\ writable \in BOOLEAN

(* The two ways the code asks whether a row may be sent again agree: a row is *)
(* PENDING exactly while it is live and has no reconciliation record.  Every  *)
(* method tests only one of the two (listPending filters on state, the retry  *)
(* pass on reconciliation), so a row on which they differ would be either     *)
(* retried for ever or stuck for ever.                                        *)
QuarantineConsistent ==
    \A o \in Owners, i \in Ids :
        Live(rows[o][i]) => (rows[o][i].state = "PENDING" <=> rows[o][i].recon = "none")

(* queueSequence orders all rows: no two rows, of one account or of two, were *)
(* given the same number, so listPending has one order and a route's first    *)
(* unsent event is well defined.                                              *)
QueueOrderTotal ==
    \A o1, o2 \in Owners, i, j \in Ids :
        /\ rows[o1][i].state # "ABSENT"
        /\ rows[o2][j].state # "ABSENT"
        /\ rows[o1][i].seq = rows[o2][j].seq
        => o1 = o2 /\ i = j

(* readPersistedQueueItem rejects the WHOLE envelope when it meets a cash     *)
(* completion that is ACKNOWLEDGED without its receipt, so no sequence of     *)
(* calls may produce one.                                                     *)
CashReceiptRetained ==
    \A o \in Owners, i \in Ids :
        KindOf[i] = "cash" /\ rows[o][i].state = "ACKNOWLEDGED" => rows[o][i].receipt

(* trimOfflineSubmissionQueue: an account is over capacity only with rows     *)
(* that must not be dropped.                                                  *)
OverCapacityOnlyWithEvidence ==
    \A o \in Owners :
        Cardinality({i \in Ids : rows[o][i].state = "PENDING"}) > MaxItems
        => \A i \in Ids : rows[o][i].state = "PENDING" => ~IsLocation(i)

(* isOfflineTerminalEvidenceExpired may purge an uploaded proof after the     *)
(* retention period unless proofCompletionPending is set.  While a cash       *)
(* completion the server has not confirmed can still be sent, every proof row *)
(* it refers to carries that mark: original files and replacements.           *)
CompletionOwesItsProofs ==
    \A o \in Owners, e, p \in Ids :
        /\ KindOf[e] = "cash" /\ Live(rows[o][e]) /\ ~rows[o][e].serverAck
        /\ IsEvidenceOf(rows[o], p, e, rows[o][e].contract)
        => rows[o][p].owed

(* What has been settled is never sent again: only an insertion makes a row   *)
(* PENDING.  (A settled row may be quarantined, by an identity conflict.)     *)
NeverRetriedAfterSettled ==
    [][\A o \in Owners, i \in Ids :
          rows'[o][i].state = "PENDING" => rows[o][i].state \in {"ABSENT", "PENDING"}]_vars

(* Delivery evidence (stop results, route ends, proofs) that is still owed to *)
(* the server disappears only by a decision: of the operator, of an account   *)
(* deletion the server audited, of the server refusing the file, or of the    *)
(* driver's own route end being called off.  Capacity, route clean-up, route  *)
(* blocking and sign-out never lose it.                                       *)
EvidenceEndsByDecision ==
    [][\A o \in Owners, i \in Ids :
          /\ Live(rows[o][i]) /\ rows'[o][i].state = "DISCARDED"
          /\ KindOf[i] \in TerminalStops \cup RouteEnds \cup {"proof"}
          => \/ rows'[o][i].cause = "decision"
             \/ rows'[o][i].cause = "refused" /\ IsProof(i)
             \/ rows'[o][i].cause = "calledOff" /\ KindOf[i] \in RouteEnds]_vars

(* docs/route-access-flow.md:203: "any durable snapshot failure enters        *)
(* STORAGE_DEGRADED; further queue mutations are blocked".  The one change a  *)
(* degraded queue does accept is that a route completion's clearing heartbeat *)
(* is owed again.                                                             *)
DegradedOnlyReopens ==
    [][~writable =>
        \A o \in Owners, i \in Ids :
            rows'[o][i] \in {rows[o][i], [rows[o][i] EXCEPT !.cleared = FALSE]}]_vars

================================================================================
