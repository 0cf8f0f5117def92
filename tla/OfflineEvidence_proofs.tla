------------------------ MODULE OfflineEvidence_proofs ------------------------
(***************************************************************************)
(* What holds of the offline evidence queue for every set of accounts,     *)
(* rows, routes and contracts and every capacity.                          *)
(*                                                                         *)
(* Each method is an operator on the rows of one account, so the work is   *)
(* in one lemma per operator: it keeps every row sound (Sound) and gives   *)
(* out sequence numbers in order (Numbered).  A step of the queue then     *)
(* preserves the invariant by StepKeepsInvariant.                          *)
(***************************************************************************)
EXTENDS OfflineEvidence, FiniteSetTheorems, TLAPS

(* The part of the invariant that concerns one row alone.                     *)
RowIsSound(i, row) ==
    /\ row \in Row
    /\ Live(row) => (row.state = "PENDING" <=> row.recon = "none")
    /\ KindOf[i] = "cash" /\ row.state = "ACKNOWLEDGED" => row.receipt

Sound(q) == q \in [Ids -> Row] /\ \A i \in Ids : RowIsSound(i, q[i])

(* Between q and r, rows were only inserted, with distinct numbers from n to  *)
(* m - 1; no row was renumbered and none disappeared.                         *)
Numbered(q, r, n, m) ==
    /\ \A i \in Ids :
          r[i].state # "ABSENT" =>
             \/ q[i].state # "ABSENT" /\ r[i].seq = q[i].seq
             \/ q[i].state = "ABSENT" /\ r[i].seq \in n..(m - 1)
    /\ \A i, j \in Ids :
          /\ q[i].state = "ABSENT" /\ q[j].state = "ABSENT"
          /\ r[i].state # "ABSENT" /\ r[j].state # "ABSENT"
          /\ r[i].seq = r[j].seq
          => i = j
    /\ \A i \in Ids : q[i].state # "ABSENT" => r[i].state # "ABSENT"

(* The inductive invariant: sound rows, and numbers below the next one that   *)
(* no two rows share.                                                         *)
NumbersBelowNext ==
    \A o \in Owners, i \in Ids : rows[o][i].state # "ABSENT" => rows[o][i].seq < nextSeq

Inv ==
    /\ rows \in [Owners -> [Ids -> Row]]
    /\ \A o \in Owners : Sound(rows[o])
    /\ owner \in Owners \cup {NoOwner}
    /\ nextSeq \in Nat
    /\ writable \in BOOLEAN
    /\ NumbersBelowNext
    /\ QueueOrderTotal

--------------------------------------------------------------------------------
(* Facts about the updates of one row.                                        *)

USE DEF Live

LEMMA NewRowIsSound ==
    ASSUME NEW i \in Ids, NEW c \in AnyContract, NEW n \in Nat
    PROVE  /\ RowIsSound(i, NewRow(i, c, n))
           /\ NewRow(i, c, n).state = "PENDING" /\ NewRow(i, c, n).seq = n
  BY BoundsAssumption DEF NewRow, RowIsSound, Row, States

LEMMA NoRowIsSound ==
    ASSUME NEW i \in Ids
    PROVE  RowIsSound(i, NoRow(i)) /\ NoRow(i).state = "ABSENT"
<1>1. NewRow(i, NoContract, 0) \in Row
  BY NewRowIsSound DEF RowIsSound, AnyContract
<1>2. QED
  BY <1>1 DEF NoRow, RowIsSound, Row, States

LEMMA QuarantinedIsSound ==
    ASSUME NEW i \in Ids, NEW row \in Row, NEW reason \in Reasons
    PROVE  /\ RowIsSound(i, Quarantined(row, reason))
           /\ Quarantined(row, reason).state # "ABSENT"
           /\ Quarantined(row, reason).seq = row.seq
  BY DEF Quarantined, RowIsSound, Row, States, Reasons

LEMMA DiscardedIsSound ==
    ASSUME NEW i \in Ids, NEW row \in Row, NEW code \in Causes
    PROVE  /\ RowIsSound(i, Discarded(row, code))
           /\ Discarded(row, code).state # "ABSENT"
           /\ Discarded(row, code).seq = row.seq
  BY DEF Discarded, RowIsSound, Row, States, Causes

LEMMA AckedIsSound ==
    ASSUME NEW i \in Ids, NEW row \in Row, KindOf[i] # "cash"
    PROVE  /\ RowIsSound(i, Acked(row))
           /\ Acked(row).state # "ABSENT"
           /\ Acked(row).seq = row.seq
  BY DEF Acked, RowIsSound, Row, States

--------------------------------------------------------------------------------
(* Methods that insert nothing: every row keeps its number.                   *)

Keeps(q, r) ==
    /\ Sound(r)
    /\ \A i \in Ids : /\ r[i].seq = q[i].seq
                      /\ r[i].state = "ABSENT" <=> q[i].state = "ABSENT"

LEMMA KeepsSelf ==
    ASSUME NEW q, Sound(q)
    PROVE  Keeps(q, q)
  BY DEF Keeps

LEMMA KeepsOneRow ==
    ASSUME NEW q, Sound(q), NEW i \in Ids, NEW row, RowIsSound(i, row),
           row.seq = q[i].seq, row.state = "ABSENT" <=> q[i].state = "ABSENT"
    PROVE  Keeps(q, [q EXCEPT ![i] = row])
  BY DEF Keeps, Sound, RowIsSound

LEMMA KeepsAreNumbered ==
    ASSUME NEW q, NEW r, Keeps(q, r), NEW n \in Nat
    PROVE  Numbered(q, r, n, n)
  BY DEF Keeps, Numbered

LEMMA KeepsComposes ==
    ASSUME NEW q, NEW r, NEW s, Keeps(q, r), Keeps(r, s)
    PROVE  Keeps(q, s)
  BY DEF Keeps

LEMMA ReferenceProofsKeeps ==
    ASSUME NEW q, Sound(q), NEW e \in Ids, NEW c \in AnyContract, NEW owed \in BOOLEAN
    PROVE  Keeps(q, ReferenceProofs(q, e, c, owed))
<1> DEFINE r == ReferenceProofs(q, e, c, owed)
<1>1. ASSUME NEW p \in Ids
      PROVE  r[p] = q[p] \/ r[p] = [q[p] EXCEPT !.owed = owed]
  BY DEF ReferenceProofs
<1>2. ASSUME NEW p \in Ids
      PROVE  /\ RowIsSound(p, [q[p] EXCEPT !.owed = owed])
             /\ [q[p] EXCEPT !.owed = owed].seq = q[p].seq
             /\ [q[p] EXCEPT !.owed = owed].state = q[p].state
  BY DEF Sound, RowIsSound, Row
<1>3. ASSUME NEW p \in Ids
      PROVE  /\ RowIsSound(p, r[p]) /\ r[p].seq = q[p].seq /\ r[p].state = q[p].state
  BY <1>1, <1>2 DEF Sound
<1>4. r \in [Ids -> Row]
  <2>1. r = [p \in Ids |-> r[p]]
    BY DEF ReferenceProofs
  <2>2. QED
    BY <1>3, <2>1 DEF RowIsSound
<1>5. QED
  BY <1>3, <1>4 DEF Keeps, Sound

LEMMA TrimmedKeeps ==
    ASSUME NEW q, Sound(q)
    PROVE  Keeps(q, Trimmed(q))
<1> DEFINE r == Trimmed(q)
<1>1. ASSUME NEW i \in Ids
      PROVE  \/ r[i] = q[i]
             \/ q[i].state = "PENDING" /\ r[i] = Discarded(q[i], "cleanup")
  BY DEF Trimmed
<1>2. ASSUME NEW i \in Ids
      PROVE  /\ RowIsSound(i, r[i]) /\ r[i].seq = q[i].seq
             /\ r[i].state = "ABSENT" <=> q[i].state = "ABSENT"
  BY <1>1, DiscardedIsSound DEF Sound, RowIsSound, Causes
<1>3. r \in [Ids -> Row]
  <2>1. r = [i \in Ids |-> r[i]]
    BY DEF Trimmed
  <2>2. QED
    BY <1>2, <2>1 DEF RowIsSound
<1>4. QED
  BY <1>2, <1>3 DEF Keeps, Sound

LEMMA MergedIsSound ==
    ASSUME NEW q, Sound(q), NEW i \in Ids, NEW c \in AnyContract, NEW same \in BOOLEAN
    PROVE  /\ RowIsSound(i, Merged(q[i], i, c, same))
           /\ Merged(q[i], i, c, same).seq = q[i].seq
           /\ Merged(q[i], i, c, same).state # "ABSENT" \/ q[i].state = "ABSENT"
<1> DEFINE m == Merged(q[i], i, c, same)
<1>1. q[i] \in Row /\ RowIsSound(i, q[i])
  BY DEF Sound
<1>2. \/ m = q[i]
      \/ m = [q[i] EXCEPT !.contract = c]
      \/ m = Quarantined(q[i], "event")
      \/ m = Quarantined(q[i], "route")
  BY DEF Merged
<1>3. CASE m = q[i]
  BY <1>1, <1>3
<1>4. CASE m = [q[i] EXCEPT !.contract = c]
  BY <1>1, <1>4 DEF RowIsSound, Row
<1>5. CASE m = Quarantined(q[i], "event") \/ m = Quarantined(q[i], "route")
  BY <1>1, <1>5, QuarantinedIsSound DEF Reasons
<1>6. QED
  BY <1>2, <1>3, <1>4, <1>5

LEMMA AcknowledgedKeeps ==
    ASSUME NEW q, Sound(q), NEW i \in Ids, NEW hasReceipt \in BOOLEAN
    PROVE  Keeps(q, Acknowledged(q, i, hasReceipt))
<1> DEFINE r == ReferenceProofs(q, i, q[i].contract, FALSE)
           row == [Acked(q[i]) EXCEPT !.serverAck = TRUE,
                                      !.receipt = q[i].receipt \/ KindOf[i] = "cash"]
<1>1. CASE ~Live(q[i]) \/ (KindOf[i] = "cash" /\ ~hasReceipt)
  BY <1>1, KeepsSelf DEF Acknowledged
<1>2. CASE Live(q[i]) /\ (KindOf[i] = "cash" => hasReceipt)
  <2>1. q[i] \in Row
    BY DEF Sound
  <2>2. Keeps(q, r)
    BY <2>1, ReferenceProofsKeeps DEF Row
  <2>3. /\ RowIsSound(i, row)
        /\ row.seq = q[i].seq
    BY <2>1 DEF Acked, RowIsSound, Row, States
  <2>4. /\ r[i].seq = q[i].seq /\ r[i].state = q[i].state
    BY DEF ReferenceProofs
  <2>5. row.state # "ABSENT" /\ r[i].state # "ABSENT"
    <3>1. row.state = "ACKNOWLEDGED"
      BY <2>1 DEF Acked, Row
    <3> HIDE DEF r, row
    <3>2. QED
      BY <1>2, <2>4, <3>1
  <2>6. Keeps(r, [r EXCEPT ![i] = row])
    <3>1. Sound(r) /\ row.seq = r[i].seq
      BY <2>2, <2>3, <2>4 DEF Keeps
    <3> HIDE DEF r, row
    <3>2. QED
      BY <2>3, <2>5, <3>1, KeepsOneRow
  <2>7. Acknowledged(q, i, hasReceipt) = [r EXCEPT ![i] = row]
    BY <1>2 DEF Acknowledged
  <2>8. QED
    BY <2>2, <2>6, <2>7, KeepsComposes
<1>3. QED
  BY <1>1, <1>2

LEMMA IsolatedKeeps ==
    ASSUME NEW q, Sound(q), NEW i \in Ids, NEW reason \in Reasons
    PROVE  Keeps(q, Isolated(q, i, reason))
  BY KeepsSelf, KeepsOneRow, QuarantinedIsSound DEF Isolated, Sound

LEMMA RetryFailedKeeps ==
    ASSUME NEW q, Sound(q), NEW i \in Ids, NEW transient \in BOOLEAN
    PROVE  Keeps(q, RetryFailed(q, i, transient))
<1> DEFINE row == [q[i] EXCEPT !.attempts = q[i].attempts + 1]
<1>1. q[i] \in Row /\ RowIsSound(i, q[i])
  BY DEF Sound
<1>2. CASE q[i].state = "PENDING"
  <2>1. RowIsSound(i, row) /\ row.seq = q[i].seq /\ row.state = q[i].state
    BY <1>1, <1>2, BoundsAssumption DEF RowIsSound, Row
  <2>2. QED
    BY <2>1, KeepsOneRow, KeepsSelf DEF RetryFailed
<1>3. QED
  BY <1>2, KeepsSelf DEF RetryFailed

LEMMA DroppedKeeps ==
    ASSUME NEW q, Sound(q), NEW i \in Ids, NEW code \in Causes
    PROVE  Keeps(q, Dropped(q, i, code))
  BY KeepsSelf, KeepsOneRow, DiscardedIsSound DEF Dropped, Sound

(* An operator that treats every row by itself.                               *)
IsFunctionOfRows(r) == r = [i \in Ids |-> r[i]]

LEMMA KeepsRowByRow ==
    ASSUME NEW q, NEW r, IsFunctionOfRows(r),
           \A i \in Ids : /\ RowIsSound(i, r[i]) /\ r[i].seq = q[i].seq
                          /\ r[i].state = "ABSENT" <=> q[i].state = "ABSENT"
    PROVE  Keeps(q, r)
<1>1. \A i \in Ids : r[i] \in Row
  BY DEF RowIsSound
<1>2. [i \in Ids |-> r[i]] \in [Ids -> Row]
  BY <1>1
<1>3. r \in [Ids -> Row]
  BY <1>2 DEF IsFunctionOfRows
<1>4. QED
  BY <1>3 DEF Keeps, Sound

LEMMA RouteBlockedKeeps ==
    ASSUME NEW q, Sound(q), NEW r \in Routes
    PROVE  Keeps(q, RouteBlocked(q, r))
<1> DEFINE s == RouteBlocked(q, r)
<1>1. IsFunctionOfRows(s)
  BY DEF RouteBlocked, IsFunctionOfRows
<1>2. ASSUME NEW i \in Ids
      PROVE  \/ s[i] = q[i]
             \/ q[i].state # "ABSENT" /\ s[i] = Discarded(q[i], "cleanup")
             \/ q[i].state # "ABSENT" /\ s[i] = Quarantined(q[i], "route")
  BY DEF RouteBlocked
<1>3. QED
  BY <1>1, <1>2, KeepsRowByRow, DiscardedIsSound, QuarantinedIsSound
     DEF Sound, Causes, Reasons

LEMMA RouteCleanedKeeps ==
    ASSUME NEW q, Sound(q), NEW r \in Routes
    PROVE  Keeps(q, RouteCleaned(q, r))
<1> DEFINE s == RouteCleaned(q, r)
<1>1. IsFunctionOfRows(s)
  BY DEF RouteCleaned, IsFunctionOfRows
<1>2. ASSUME NEW i \in Ids
      PROVE  \/ s[i] = q[i]
             \/ q[i].state # "ABSENT" /\ s[i] = Discarded(q[i], "cleanup")
  BY DEF RouteCleaned
<1>3. QED
  BY <1>1, <1>2, KeepsRowByRow, DiscardedIsSound, QuarantinedIsSound
     DEF Sound, Causes, Reasons

LEMMA SealedKeeps ==
    ASSUME NEW q, Sound(q)
    PROVE  Keeps(q, Sealed(q))
<1> DEFINE s == Sealed(q)
<1>1. IsFunctionOfRows(s)
  BY DEF Sealed, IsFunctionOfRows
<1>2. ASSUME NEW i \in Ids
      PROVE  \/ s[i] = q[i]
             \/ q[i].state # "ABSENT" /\ s[i] = Discarded(q[i], "cleanup")
             \/ q[i].state # "ABSENT" /\ s[i] = Quarantined(q[i], "event")
  BY DEF Sealed
<1>3. QED
  BY <1>1, <1>2, KeepsRowByRow, DiscardedIsSound, QuarantinedIsSound
     DEF Sound, Causes, Reasons

LEMMA PurgedKeeps ==
    ASSUME NEW q, Sound(q)
    PROVE  Keeps(q, Purged(q))
<1> DEFINE s == Purged(q)
<1>1. IsFunctionOfRows(s)
  BY DEF Purged, IsFunctionOfRows
<1>2. ASSUME NEW i \in Ids
      PROVE  \/ s[i] = q[i]
             \/ q[i].state # "ABSENT" /\ s[i] = Discarded(q[i], "decision")
  BY DEF Purged
<1>3. QED
  BY <1>1, <1>2, KeepsRowByRow, DiscardedIsSound, QuarantinedIsSound
     DEF Sound, Causes, Reasons

LEMMA ErasedKeeps ==
    ASSUME NEW q, Sound(q)
    PROVE  Keeps(q, Erased(q))
<1> DEFINE s == Erased(q)
<1>1. IsFunctionOfRows(s)
  BY DEF Erased, IsFunctionOfRows
<1>2. ASSUME NEW i \in Ids
      PROVE  \/ s[i] = q[i]
             \/ q[i].state # "ABSENT" /\ s[i] = Discarded(q[i], "decision")
  BY DEF Erased
<1>3. QED
  BY <1>1, <1>2, KeepsRowByRow, DiscardedIsSound, QuarantinedIsSound
     DEF Sound, Causes, Reasons

LEMMA ReconciledKeeps ==
    ASSUME NEW q, Sound(q)
    PROVE  Keeps(q, Reconciled(q))
<1> DEFINE s == Reconciled(q)
<1>1. IsFunctionOfRows(s)
  BY DEF Reconciled, IsFunctionOfRows
<1>2. ASSUME NEW i \in Ids
      PROVE  \/ s[i] = q[i]
             \/ /\ q[i].state # "ABSENT" /\ KindOf[i] # "cash"
                /\ s[i] = Acked(q[i])
  BY DEF Reconciled
<1>3. QED
  BY <1>1, <1>2, KeepsRowByRow, AckedIsSound DEF Sound

LEMMA MediaRecordedKeeps ==
    ASSUME NEW q, Sound(q), NEW p \in Ids
    PROVE  Keeps(q, MediaRecorded(q, p))
<1> DEFINE row == [q[p] EXCEPT !.uploaded = TRUE]
<1>1. RowIsSound(p, row) /\ row.seq = q[p].seq /\ row.state = q[p].state
  BY DEF Sound, RowIsSound, Row
<1>2. QED
  BY <1>1, KeepsOneRow, KeepsSelf DEF MediaRecorded

LEMMA MediaRejectedKeeps ==
    ASSUME NEW q, Sound(q), NEW p \in Ids
    PROVE  Keeps(q, MediaRejected(q, p))
<1> DEFINE row == [Discarded(q[p], "refused") EXCEPT !.rejected = TRUE]
<1>1. RowIsSound(p, row) /\ row.seq = q[p].seq /\ row.state # "ABSENT"
  BY DEF Sound, RowIsSound, Row, Discarded, States, Causes
<1>2. QED
  BY <1>1, KeepsOneRow, KeepsSelf DEF MediaRejected

LEMMA ClearMarkedKeeps ==
    ASSUME NEW q, Sound(q), NEW i \in Ids
    PROVE  Keeps(q, ClearMarked(q, i))
<1> DEFINE row == [q[i] EXCEPT !.cleared = TRUE]
<1>1. RowIsSound(i, row) /\ row.seq = q[i].seq /\ row.state = q[i].state
  BY DEF Sound, RowIsSound, Row
<1>2. QED
  BY <1>1, KeepsOneRow, KeepsSelf DEF ClearMarked

LEMMA ClearReopenedKeeps ==
    ASSUME NEW q, Sound(q), NEW i \in Ids
    PROVE  Keeps(q, ClearReopened(q, i))
<1> DEFINE row == [q[i] EXCEPT !.cleared = FALSE]
<1>1. RowIsSound(i, row) /\ row.seq = q[i].seq /\ row.state = q[i].state
  BY DEF Sound, RowIsSound, Row
<1>2. QED
  BY <1>1, KeepsOneRow, KeepsSelf DEF ClearReopened

--------------------------------------------------------------------------------
(* Methods that insert.                                                       *)

LEMMA InsertIsNumbered ==
    ASSUME NEW q, NEW r, Keeps(q, r), NEW i \in Ids, q[i].state = "ABSENT",
           NEW n \in Nat, NEW row, RowIsSound(i, row), row.seq = n
    PROVE  /\ Sound([r EXCEPT ![i] = row])
           /\ Numbered(q, [r EXCEPT ![i] = row], n, n + 1)
<1> DEFINE s == [r EXCEPT ![i] = row]
<1>1. s[i] = row /\ \A j \in Ids \ {i} : s[j] = r[j]
  BY DEF Keeps, Sound
<1>2. Sound(s)
  BY <1>1 DEF Keeps, Sound, RowIsSound
<1>3. \A j \in Ids \ {i} : /\ s[j].state = "ABSENT" <=> q[j].state = "ABSENT"
                           /\ s[j].seq = q[j].seq
  BY <1>1 DEF Keeps
<1>4. n \in n..((n + 1) - 1)
  OBVIOUS
<1> HIDE DEF s
<1>5. Numbered(q, s, n, n + 1)
  BY <1>1, <1>3, <1>4 DEF Numbered
<1>6. QED
  BY <1>2, <1>5 DEF s

LEMMA KeepingStaysNumbered ==
    ASSUME NEW q, NEW r, NEW s, NEW n \in Nat, NEW m \in Nat,
           Numbered(q, r, n, m), Keeps(r, s)
    PROVE  Numbered(q, s, n, m)
  BY DEF Keeps, Numbered

LEMMA NumberedComposes ==
    ASSUME NEW q, NEW r, NEW s, NEW n \in Nat, NEW m \in Nat, NEW k \in Nat,
           n <= m, m <= k, Numbered(q, r, n, m), Numbered(r, s, m, k)
    PROVE  Numbered(q, s, n, k)
<1>1. ASSUME NEW i \in Ids, s[i].state # "ABSENT"
      PROVE  \/ q[i].state # "ABSENT" /\ s[i].seq = q[i].seq
             \/ /\ q[i].state = "ABSENT" /\ r[i].state # "ABSENT"
                /\ s[i].seq = r[i].seq /\ s[i].seq \in n..(m - 1)
             \/ /\ q[i].state = "ABSENT" /\ r[i].state = "ABSENT"
                /\ s[i].seq \in m..(k - 1)
  BY <1>1 DEF Numbered
<1>2. ASSUME NEW i \in Ids, s[i].state # "ABSENT"
      PROVE  \/ q[i].state # "ABSENT" /\ s[i].seq = q[i].seq
             \/ q[i].state = "ABSENT" /\ s[i].seq \in n..(k - 1)
  BY <1>1, <1>2
<1>3. ASSUME NEW i \in Ids, NEW j \in Ids, q[i].state = "ABSENT", q[j].state = "ABSENT",
             s[i].state # "ABSENT", s[j].state # "ABSENT", s[i].seq = s[j].seq
      PROVE  i = j
  BY <1>1, <1>3 DEF Numbered
<1>4. ASSUME NEW i \in Ids, q[i].state # "ABSENT"
      PROVE  s[i].state # "ABSENT"
  BY <1>4 DEF Numbered
<1>5. QED
  BY <1>2, <1>3, <1>4 DEF Numbered

(* What an insertion of at most one row gives.                                *)
LEMMA UpsertedIsNumbered ==
    ASSUME NEW q, Sound(q), NEW i \in Ids, NEW c \in AnyContract, NEW same \in BOOLEAN,
           NEW n \in Nat
    PROVE  /\ Sound(Upserted(q, i, c, same, n))
           /\ Numbered(q, Upserted(q, i, c, same, n), n, n + Inserts(q, i))
<1>1. CASE q[i].state = "ABSENT"
  <2>1. Keeps(q, ReferenceProofs(q, i, c, TRUE))
    BY ReferenceProofsKeeps
  <2>2. QED
    BY <1>1, <2>1, InsertIsNumbered, NewRowIsSound DEF Upserted, Inserts
<1>2. CASE q[i].state # "ABSENT"
  <2>1. Keeps(q, [q EXCEPT ![i] = Merged(q[i], i, c, same)])
    BY <1>2, MergedIsSound, KeepsOneRow
  <2>2. n + Inserts(q, i) = n
    BY <1>2 DEF Inserts
  <2>3. QED
    BY <1>2, <2>1, <2>2, KeepsAreNumbered DEF Upserted, Keeps
<1>3. QED
  BY <1>1, <1>2

LEMMA InsertsIsBinary ==
    ASSUME NEW q, NEW i \in Ids
    PROVE  Inserts(q, i) \in {0, 1}
  BY DEF Inserts

LEMMA EnqueuedIsNumbered ==
    ASSUME NEW q, Sound(q), NEW i \in Ids, NEW c \in AnyContract, NEW same \in BOOLEAN,
           NEW n \in Nat
    PROVE  /\ Sound(Enqueued(q, i, c, same, n))
           /\ Numbered(q, Enqueued(q, i, c, same, n), n, n + Inserts(q, i))
<1> DEFINE u == Upserted(q, i, c, same, n)
           m == n + Inserts(q, i)
<1>1. Sound(u) /\ Numbered(q, u, n, m)
  BY UpsertedIsNumbered
<1>2. m \in Nat
  BY InsertsIsBinary
<1>3. Enqueued(q, i, c, same, n) \in {u, Trimmed(u)}
  BY DEF Enqueued
<1> HIDE DEF u, m
<1>4. Keeps(u, Trimmed(u))
  BY <1>1, TrimmedKeeps
<1>5. Sound(Trimmed(u)) /\ Numbered(q, Trimmed(u), n, m)
  BY <1>1, <1>2, <1>4, KeepingStaysNumbered DEF Keeps
<1>6. QED
  BY <1>1, <1>3, <1>5 DEF m

LEMMA ProofEnqueuedIsNumbered ==
    ASSUME NEW q, Sound(q), NEW p \in Ids, NEW n \in Nat
    PROVE  /\ Sound(ProofEnqueued(q, p, n))
           /\ Numbered(q, ProofEnqueued(q, p, n), n, n + Inserts(q, p))
<1>1. CASE q[p].state = "ABSENT"
  <2> DEFINE u == [q EXCEPT ![p] = NewRow(p, ProofScope[p], n)]
  <2>1. ProofScope[p] \in AnyContract
    BY ItemsAssumption
  <2>2. Sound(u) /\ Numbered(q, u, n, n + 1)
    BY <1>1, <2>1, KeepsSelf, InsertIsNumbered, NewRowIsSound
  <2>3. ProofEnqueued(q, p, n) = Trimmed(u) /\ Inserts(q, p) = 1
    BY <1>1 DEF ProofEnqueued, Inserts
  <2> HIDE DEF u
  <2>4. Keeps(u, Trimmed(u))
    BY <2>2, TrimmedKeeps
  <2>5. QED
    BY <2>2, <2>3, <2>4, KeepingStaysNumbered DEF Keeps
<1>2. CASE q[p].state # "ABSENT"
  <2>1. ProofEnqueued(q, p, n) = q /\ n + Inserts(q, p) = n
    BY <1>2 DEF ProofEnqueued, Inserts
  <2>2. QED
    BY <2>1, KeepsSelf, KeepsAreNumbered
<1>3. QED
  BY <1>1, <1>2

LEMMA MediaReplacedIsNumbered ==
    ASSUME NEW q, Sound(q), NEW p \in Ids, NEW u \in Ids, NEW n \in Nat,
           q[p].state = "ABSENT"
    PROVE  /\ Sound(MediaReplaced(q, p, u, n))
           /\ Numbered(q, MediaReplaced(q, p, u, n), n, n + 1)
<1> DEFINE stored == ProofEnqueued(q, p, n)
           row == [stored[p] EXCEPT !.standsFor = u, !.owed = TRUE]
<1>1. Sound(stored) /\ Numbered(q, stored, n, n + 1)
  BY ProofEnqueuedIsNumbered DEF Inserts
<1>2. /\ RowIsSound(p, row)
      /\ row.seq = stored[p].seq /\ row.state = stored[p].state
  <2> HIDE DEF stored
  <2>1. stored[p] \in Row /\ RowIsSound(p, stored[p])
    BY <1>1 DEF Sound
  <2>2. QED
    BY <2>1 DEF RowIsSound, Row
<1>3. MediaReplaced(q, p, u, n) = [stored EXCEPT ![p] = row]
  BY DEF MediaReplaced
<1> HIDE DEF stored, row
<1>4. Keeps(stored, [stored EXCEPT ![p] = row])
  BY <1>1, <1>2, KeepsOneRow
<1>5. Numbered(q, [stored EXCEPT ![p] = row], n, n + 1)
  BY <1>1, <1>4, KeepingStaysNumbered
<1>6. QED
  BY <1>3, <1>4, <1>5 DEF Keeps

--------------------------------------------------------------------------------
(* How one step may change a row: what is settled is not made PENDING again,  *)
(* and delivery evidence is DISCARDED only for a reason that settles it.      *)

Evidence(i) == KindOf[i] \in TerminalStops \cup RouteEnds \cup {"proof"}

EndsByDecision(i, row) ==
    \/ row.cause = "decision"
    \/ row.cause = "refused" /\ IsProof(i)
    \/ row.cause = "calledOff" /\ KindOf[i] \in RouteEnds

Moves(i, before, after) ==
    /\ after.state = "PENDING" => before.state \in {"ABSENT", "PENDING"}
    /\ after.state = "ABSENT" => before.state = "ABSENT"
    /\ after.state = "DISCARDED" /\ Evidence(i) =>
          \/ EndsByDecision(i, after)
          \/ before.state = "DISCARDED" /\ after.cause = before.cause

RowsMove(q, r) == \A i \in Ids : Moves(i, q[i], r[i])

(* A method that inserts nothing makes no row PENDING.                        *)
Settles(q, r) ==
    /\ RowsMove(q, r)
    /\ \A i \in Ids : r[i].state = "PENDING" => q[i].state = "PENDING"

LEMMA MovesCompose ==
    ASSUME NEW q, NEW r, NEW s, RowsMove(q, r), RowsMove(r, s)
    PROVE  RowsMove(q, s)
  BY DEF RowsMove, Moves, EndsByDecision

LEMMA SoundRow ==
    ASSUME NEW q, Sound(q), NEW i \in Ids
    PROVE  q[i] \in Row
  BY DEF Sound

LEMMA DiscardedFields ==
    ASSUME NEW row \in Row, NEW code
    PROVE  Discarded(row, code).state = "DISCARDED" /\ Discarded(row, code).cause = code
  BY DEF Discarded, Row

LEMMA QuarantinedFields ==
    ASSUME NEW row \in Row, NEW reason
    PROVE  Quarantined(row, reason).state = "QUARANTINED"
  BY DEF Quarantined, Row

LEMMA AckedFields ==
    ASSUME NEW row \in Row
    PROVE  Acked(row).state = "ACKNOWLEDGED"
  BY DEF Acked, Row

LEMMA LocationIsNoEvidence ==
    ASSUME NEW i \in Ids, IsLocation(i)
    PROVE  ~Evidence(i)
  BY DEF IsLocation, Evidence, TerminalStops, RouteEnds

(* The three ways an operator leaves a row as far as this is concerned.       *)
LEMMA RowSettles ==
    ASSUME NEW i \in Ids, NEW before \in Row, NEW after,
           \/ after = before
           \/ after.state \in {"QUARANTINED", "ACKNOWLEDGED"}
           \/ after.state = before.state /\ after.cause = before.cause
           \/ after.state = "DISCARDED" /\ (Evidence(i) => EndsByDecision(i, after))
    PROVE  Moves(i, before, after) /\ (after.state = "PENDING" => before.state = "PENDING")
  BY DEF Moves

LEMMA SettlesSelf ==
    ASSUME NEW q, Sound(q)
    PROVE  Settles(q, q)
  BY SoundRow, RowSettles DEF Settles, RowsMove

LEMMA SettlesOneRow ==
    ASSUME NEW q, Sound(q), NEW i \in Ids, NEW row,
           Moves(i, q[i], row), row.state = "PENDING" => q[i].state = "PENDING"
    PROVE  Settles(q, [q EXCEPT ![i] = row])
<1> DEFINE r == [q EXCEPT ![i] = row]
<1>1. r[i] = row /\ \A j \in Ids \ {i} : r[j] = q[j]
  BY DEF Sound
<1>2. \A j \in Ids : Moves(j, q[j], q[j])
  BY SoundRow, RowSettles
<1>3. QED
  BY <1>1, <1>2 DEF Settles, RowsMove

LEMMA TrimmedRow ==
    ASSUME NEW q, NEW i \in Ids
    PROVE  \/ Trimmed(q)[i] = q[i]
           \/ /\ q[i].state = "PENDING" /\ IsLocation(i)
              /\ Trimmed(q)[i] = Discarded(q[i], "cleanup")
  BY DEF Trimmed

(* A trim after a change of the rows that moves them.                         *)
LEMMA TrimmedMoves ==
    ASSUME NEW q, NEW u, Sound(u), RowsMove(q, u)
    PROVE  RowsMove(q, Trimmed(u))
<1>1. ASSUME NEW i \in Ids
      PROVE  Moves(i, u[i], Trimmed(u)[i])
  <2>1. CASE Trimmed(u)[i] = u[i]
    BY <2>1, SoundRow, RowSettles
  <2>2. CASE IsLocation(i) /\ Trimmed(u)[i] = Discarded(u[i], "cleanup")
    BY <2>2, SoundRow, DiscardedFields, LocationIsNoEvidence, RowSettles
  <2>3. QED
    BY <2>1, <2>2, TrimmedRow
<1>2. QED
  BY <1>1, MovesCompose DEF RowsMove

LEMMA ReferenceProofsSettles ==
    ASSUME NEW q, Sound(q), NEW e \in Ids, NEW c \in AnyContract, NEW owed \in BOOLEAN
    PROVE  Settles(q, ReferenceProofs(q, e, c, owed))
<1> SUFFICES ASSUME NEW i \in Ids
             PROVE  LET after == ReferenceProofs(q, e, c, owed)[i]
                    IN  /\ Moves(i, q[i], after)
                        /\ after.state = "PENDING" => q[i].state = "PENDING"
  BY DEF Settles, RowsMove
<1>1. /\ ReferenceProofs(q, e, c, owed)[i].state = q[i].state
      /\ ReferenceProofs(q, e, c, owed)[i].cause = q[i].cause
  BY SoundRow DEF ReferenceProofs, Row
<1>2. QED
  BY <1>1, SoundRow, RowSettles

LEMMA UpsertedMoves ==
    ASSUME NEW q, Sound(q), NEW i \in Ids, NEW c \in AnyContract, NEW same \in BOOLEAN,
           NEW n \in Nat
    PROVE  RowsMove(q, Upserted(q, i, c, same, n))
<1>1. CASE q[i].state = "ABSENT"
  <2> DEFINE r == ReferenceProofs(q, i, c, TRUE)
             u == [r EXCEPT ![i] = NewRow(i, c, n)]
  <2>1. Settles(q, r)
    BY ReferenceProofsSettles
  <2>2. u[i] = NewRow(i, c, n) /\ \A j \in Ids \ {i} : u[j] = r[j]
    BY DEF ReferenceProofs
  <2>3. NewRow(i, c, n).state = "PENDING"
    BY DEF NewRow
  <2> HIDE DEF u, r
  <2>4. Moves(i, q[i], u[i])
    BY <1>1, <2>2, <2>3 DEF Moves
  <2>5. RowsMove(q, u)
    BY <2>1, <2>2, <2>4 DEF RowsMove, Settles
  <2>6. QED
    BY <1>1, <2>5 DEF Upserted, u, r
<1>2. CASE q[i].state # "ABSENT"
  <2> DEFINE m == Merged(q[i], i, c, same)
  <2>1. q[i] \in Row
    BY SoundRow
  <2>2. \/ m = q[i]
        \/ m = [q[i] EXCEPT !.contract = c]
        \/ m = Quarantined(q[i], "event")
        \/ m = Quarantined(q[i], "route")
    BY DEF Merged
  <2>3. m = q[i] \/ m.state = "QUARANTINED" \/ (m.state = q[i].state /\ m.cause = q[i].cause)
    BY <2>1, <2>2, QuarantinedFields DEF Row
  <2>4. Moves(i, q[i], m) /\ (m.state = "PENDING" => q[i].state = "PENDING")
    BY <2>1, <2>3, RowSettles
  <2>5. Settles(q, [q EXCEPT ![i] = m])
    BY <2>4, SettlesOneRow
  <2>6. QED
    BY <1>2, <2>5 DEF Upserted, Settles
<1>3. QED
  BY <1>1, <1>2

LEMMA EnqueuedMoves ==
    ASSUME NEW q, Sound(q), NEW i \in Ids, NEW c \in AnyContract, NEW same \in BOOLEAN,
           NEW n \in Nat
    PROVE  RowsMove(q, Enqueued(q, i, c, same, n))
<1> DEFINE u == Upserted(q, i, c, same, n)
<1>1. Sound(u) /\ RowsMove(q, u)
  BY UpsertedIsNumbered, UpsertedMoves
<1> HIDE DEF u
<1>2. RowsMove(q, Trimmed(u))
  BY <1>1, TrimmedMoves
<1>3. Enqueued(q, i, c, same, n) \in {u, Trimmed(u)}
  BY DEF Enqueued, u
<1>4. QED
  BY <1>1, <1>2, <1>3

LEMMA ProofEnqueuedMoves ==
    ASSUME NEW q, Sound(q), NEW p \in Ids, NEW n \in Nat
    PROVE  RowsMove(q, ProofEnqueued(q, p, n))
<1>1. CASE q[p].state = "ABSENT"
  <2> DEFINE row == NewRow(p, ProofScope[p], n)
             u == [q EXCEPT ![p] = row]
  <2>1. RowIsSound(p, row) /\ row.state = "PENDING" /\ row.seq = n
    BY ItemsAssumption, NewRowIsSound
  <2>2. ProofEnqueued(q, p, n) = Trimmed(u)
    BY <1>1 DEF ProofEnqueued
  <2> HIDE DEF row
  <2>3. u[p] = row /\ \A j \in Ids \ {p} : u[j] = q[j]
    BY DEF Sound
  <2>4. Sound(u)
    BY <1>1, <2>1, KeepsSelf, InsertIsNumbered
  <2> HIDE DEF u
  <2>5. RowsMove(q, u)
    BY <1>1, <2>1, <2>3, SettlesSelf DEF RowsMove, Settles, Moves
  <2>6. QED
    BY <2>2, <2>4, <2>5, TrimmedMoves
<1>2. CASE q[p].state # "ABSENT"
  BY <1>2, SettlesSelf DEF ProofEnqueued, Settles
<1>3. QED
  BY <1>1, <1>2

LEMMA MediaReplacedMoves ==
    ASSUME NEW q, Sound(q), NEW p \in Ids, NEW u \in Ids, NEW n \in Nat
    PROVE  RowsMove(q, MediaReplaced(q, p, u, n))
<1> DEFINE stored == ProofEnqueued(q, p, n)
           row == [stored[p] EXCEPT !.standsFor = u, !.owed = TRUE]
<1>1. Sound(stored) /\ RowsMove(q, stored)
  BY ProofEnqueuedIsNumbered, ProofEnqueuedMoves
<1>2. MediaReplaced(q, p, u, n) = [stored EXCEPT ![p] = row]
  BY DEF MediaReplaced
<1> HIDE DEF stored
<1>3. row.state = stored[p].state /\ row.cause = stored[p].cause
  BY <1>1, SoundRow DEF Row
<1> HIDE DEF row
<1>4. /\ [stored EXCEPT ![p] = row][p] = row
      /\ \A j \in Ids \ {p} : [stored EXCEPT ![p] = row][j] = stored[j]
  BY <1>1 DEF Sound
<1>5. QED
  BY <1>1, <1>2, <1>3, <1>4 DEF RowsMove, Moves, EndsByDecision

LEMMA AcknowledgedSettles ==
    ASSUME NEW q, Sound(q), NEW i \in Ids, NEW hasReceipt \in BOOLEAN
    PROVE  Settles(q, Acknowledged(q, i, hasReceipt))
<1> DEFINE r == ReferenceProofs(q, i, q[i].contract, FALSE)
           row == [Acked(q[i]) EXCEPT !.serverAck = TRUE,
                                      !.receipt = q[i].receipt \/ KindOf[i] = "cash"]
           s == [r EXCEPT ![i] = row]
<1>1. CASE Acknowledged(q, i, hasReceipt) = q
  BY <1>1, SettlesSelf
<1>2. CASE Acknowledged(q, i, hasReceipt) = s
  <2>1. q[i] \in Row /\ q[i].contract \in AnyContract
    BY SoundRow DEF Row
  <2>2. Settles(q, r)
    BY <2>1, ReferenceProofsSettles
  <2>3. row.state = "ACKNOWLEDGED"
    BY <2>1 DEF Acked, Row
  <2>4. s[i] = row /\ \A j \in Ids \ {i} : s[j] = r[j]
    BY DEF ReferenceProofs
  <2> HIDE DEF r, row, s
  <2>5. Moves(i, q[i], row)
    BY <2>1, <2>3, RowSettles
  <2>6. Settles(q, s)
    BY <2>2, <2>3, <2>4, <2>5 DEF Settles, RowsMove
  <2>7. QED
    BY <1>2, <2>6
<1>3. QED
  BY <1>1, <1>2 DEF Acknowledged

LEMMA IsolatedSettles ==
    ASSUME NEW q, Sound(q), NEW i \in Ids, NEW reason \in Reasons
    PROVE  Settles(q, Isolated(q, i, reason))
  BY SettlesSelf, SettlesOneRow, SoundRow, QuarantinedFields, RowSettles DEF Isolated

LEMMA RetryFailedSettles ==
    ASSUME NEW q, Sound(q), NEW i \in Ids, NEW transient \in BOOLEAN
    PROVE  Settles(q, RetryFailed(q, i, transient))
<1> DEFINE row == [q[i] EXCEPT !.attempts = q[i].attempts + 1]
<1>1. row.state = q[i].state /\ row.cause = q[i].cause /\ q[i] \in Row
  BY SoundRow DEF Row
<1>2. RetryFailed(q, i, transient) \in {q, [q EXCEPT ![i] = row]}
  BY DEF RetryFailed
<1> HIDE DEF row
<1>3. QED
  BY <1>1, <1>2, RowSettles, SettlesSelf, SettlesOneRow

LEMMA DiscardSettles ==
    ASSUME NEW q, Sound(q), NEW i \in Ids, IsLocation(i) \/ KindOf[i] \in RouteEnds
    PROVE  Settles(q, Dropped(q, i, "calledOff"))
<1> DEFINE row == Discarded(q[i], "calledOff")
<1>1. row.state = "DISCARDED" /\ row.cause = "calledOff" /\ q[i] \in Row
  BY SoundRow, DiscardedFields
<1>2. Evidence(i) => EndsByDecision(i, row)
  BY <1>1, LocationIsNoEvidence DEF EndsByDecision
<1>3. Dropped(q, i, "calledOff") \in {q, [q EXCEPT ![i] = row]}
  BY DEF Dropped
<1> HIDE DEF row
<1>4. QED
  BY <1>1, <1>2, <1>3, RowSettles, SettlesSelf, SettlesOneRow

(* The methods that go over all rows.                                         *)
LEMMA RouteBlockedSettles ==
    ASSUME NEW q, Sound(q), NEW r \in Routes
    PROVE  Settles(q, RouteBlocked(q, r))
<1> SUFFICES ASSUME NEW i \in Ids
             PROVE  LET after == RouteBlocked(q, r)[i]
                    IN  /\ Moves(i, q[i], after)
                        /\ after.state = "PENDING" => q[i].state = "PENDING"
  BY DEF Settles, RowsMove
<1>1. \/ RouteBlocked(q, r)[i] = q[i]
      \/ IsLocation(i) /\ RouteBlocked(q, r)[i] = Discarded(q[i], "cleanup")
      \/ RouteBlocked(q, r)[i] = Quarantined(q[i], "route")
  BY DEF RouteBlocked
<1>2. QED
  BY <1>1, SoundRow, DiscardedFields, QuarantinedFields, LocationIsNoEvidence, RowSettles

LEMMA RouteCleanedSettles ==
    ASSUME NEW q, Sound(q), NEW r \in Routes
    PROVE  Settles(q, RouteCleaned(q, r))
<1> SUFFICES ASSUME NEW i \in Ids
             PROVE  LET after == RouteCleaned(q, r)[i]
                    IN  /\ Moves(i, q[i], after)
                        /\ after.state = "PENDING" => q[i].state = "PENDING"
  BY DEF Settles, RowsMove
<1>1. \/ RouteCleaned(q, r)[i] = q[i]
      \/ ~Evidence(i) /\ RouteCleaned(q, r)[i] = Discarded(q[i], "cleanup")
  BY DEF RouteCleaned, Evidence
<1>2. QED
  BY <1>1, SoundRow, DiscardedFields, RowSettles

LEMMA SealedSettles ==
    ASSUME NEW q, Sound(q)
    PROVE  Settles(q, Sealed(q))
<1> SUFFICES ASSUME NEW i \in Ids
             PROVE  LET after == Sealed(q)[i]
                    IN  /\ Moves(i, q[i], after)
                        /\ after.state = "PENDING" => q[i].state = "PENDING"
  BY DEF Settles, RowsMove
<1>1. \/ Sealed(q)[i] = q[i]
      \/ IsLocation(i) /\ Sealed(q)[i] = Discarded(q[i], "cleanup")
      \/ Sealed(q)[i] = Quarantined(q[i], "event")
  BY DEF Sealed
<1>2. QED
  BY <1>1, SoundRow, DiscardedFields, QuarantinedFields, LocationIsNoEvidence, RowSettles

LEMMA DecidedSettles ==
    ASSUME NEW q, Sound(q), NEW i \in Ids, NEW after,
           after = q[i] \/ after = Discarded(q[i], "decision")
    PROVE  Moves(i, q[i], after) /\ (after.state = "PENDING" => q[i].state = "PENDING")
  BY SoundRow, DiscardedFields, RowSettles DEF EndsByDecision

LEMMA PurgedSettles ==
    ASSUME NEW q, Sound(q)
    PROVE  Settles(q, Purged(q)) /\ Settles(q, Erased(q))
<1>1. ASSUME NEW i \in Ids
      PROVE  /\ Purged(q)[i] = q[i] \/ Purged(q)[i] = Discarded(q[i], "decision")
             /\ Erased(q)[i] = q[i] \/ Erased(q)[i] = Discarded(q[i], "decision")
  BY DEF Purged, Erased
<1>2. QED
  BY <1>1, DecidedSettles DEF Settles, RowsMove

LEMMA ReconciledSettles ==
    ASSUME NEW q, Sound(q)
    PROVE  Settles(q, Reconciled(q))
<1> SUFFICES ASSUME NEW i \in Ids
             PROVE  LET after == Reconciled(q)[i]
                    IN  /\ Moves(i, q[i], after)
                        /\ after.state = "PENDING" => q[i].state = "PENDING"
  BY DEF Settles, RowsMove
<1>1. Reconciled(q)[i] = q[i] \/ Reconciled(q)[i] = Acked(q[i])
  BY DEF Reconciled
<1>2. QED
  BY <1>1, SoundRow, AckedFields, RowSettles

(* The methods that write marks on one row.                                   *)
LEMMA MarksSettle ==
    ASSUME NEW q, Sound(q), NEW i \in Ids
    PROVE  /\ Settles(q, MediaRecorded(q, i))
           /\ Settles(q, ClearMarked(q, i))
           /\ Settles(q, ClearReopened(q, i))
<1>1. ASSUME NEW row, row.state = q[i].state, row.cause = q[i].cause
      PROVE  Settles(q, [q EXCEPT ![i] = row])
  BY <1>1, SoundRow, RowSettles, SettlesOneRow
<1>2. /\ [q[i] EXCEPT !.uploaded = TRUE].state = q[i].state
      /\ [q[i] EXCEPT !.uploaded = TRUE].cause = q[i].cause
      /\ [q[i] EXCEPT !.cleared = TRUE].state = q[i].state
      /\ [q[i] EXCEPT !.cleared = TRUE].cause = q[i].cause
      /\ [q[i] EXCEPT !.cleared = FALSE].state = q[i].state
      /\ [q[i] EXCEPT !.cleared = FALSE].cause = q[i].cause
  BY SoundRow DEF Row
<1>3. QED
  BY <1>1, <1>2, SettlesSelf DEF MediaRecorded, ClearMarked, ClearReopened

LEMMA MediaRejectedSettles ==
    ASSUME NEW q, Sound(q), NEW p \in Ids
    PROVE  Settles(q, MediaRejected(q, p))
<1> DEFINE row == [Discarded(q[p], "refused") EXCEPT !.rejected = TRUE]
<1>1. CASE MediaRejected(q, p) = q
  BY <1>1, SettlesSelf
<1>2. CASE IsProof(p) /\ MediaRejected(q, p) = [q EXCEPT ![p] = row]
  <2>1. row.state = "DISCARDED" /\ row.cause = "refused" /\ q[p] \in Row
    BY SoundRow DEF Discarded, Row
  <2>2. EndsByDecision(p, row)
    BY <1>2, <2>1 DEF EndsByDecision
  <2> HIDE DEF row
  <2>3. Moves(p, q[p], row) /\ (row.state = "PENDING" => q[p].state = "PENDING")
    BY <2>1, <2>2, RowSettles
  <2>4. Settles(q, [q EXCEPT ![p] = row])
    BY <2>3, SettlesOneRow
  <2>5. QED
    BY <1>2, <2>4
<1>3. QED
  BY <1>1, <1>2 DEF MediaRejected

--------------------------------------------------------------------------------
(* One step of the queue.                                                     *)

LEMMA NumberedRow ==
    ASSUME NEW q, NEW r, NEW n, NEW m, Numbered(q, r, n, m), NEW i \in Ids,
           r[i].state # "ABSENT"
    PROVE  \/ q[i].state # "ABSENT" /\ r[i].seq = q[i].seq
           \/ q[i].state = "ABSENT" /\ r[i].seq \in n..(m - 1)
  BY DEF Numbered

LEMMA StepKeepsInvariant ==
    ASSUME Inv, owner \in Owners, NEW q, Sound(q), NEW k \in Nat,
           Numbered(rows[owner], q, nextSeq, nextSeq + k), Become(q, k)
    PROVE  Inv'
<1>1. /\ rows' = [rows EXCEPT ![owner] = q] /\ nextSeq' = nextSeq + k
      /\ UNCHANGED <<owner, writable>>
  BY DEF Become
<1>2. /\ rows'[owner] = q
      /\ \A o \in Owners \ {owner} : rows'[o] = rows[o]
  BY <1>1 DEF Inv
<1>3. rows' \in [Owners -> [Ids -> Row]] /\ nextSeq' \in Nat
  BY <1>1 DEF Inv, Sound
<1>4. \A o \in Owners : Sound(rows'[o])
  BY <1>2 DEF Inv
<1>5. ASSUME NEW i \in Ids, q[i].state # "ABSENT"
      PROVE  \/ rows[owner][i].state # "ABSENT" /\ q[i].seq = rows[owner][i].seq
             \/ rows[owner][i].state = "ABSENT" /\ q[i].seq \in nextSeq..((nextSeq + k) - 1)
  BY <1>5, NumberedRow
<1>6. \A o \in Owners, i \in Ids : rows[o][i].seq \in Nat
  BY DEF Inv, Row
<1>7. NumbersBelowNext'
  <2> SUFFICES ASSUME NEW o \in Owners, NEW i \in Ids, rows'[o][i].state # "ABSENT"
               PROVE  rows'[o][i].seq < nextSeq'
    BY DEF NumbersBelowNext
  <2>1. CASE o = owner
    BY <1>1, <1>2, <1>5, <1>6, <2>1 DEF Inv, NumbersBelowNext
  <2>2. CASE o # owner
    BY <1>1, <1>2, <1>6, <2>2 DEF Inv, NumbersBelowNext
  <2>3. QED
    BY <2>1, <2>2
<1>8. QueueOrderTotal'
  <2> SUFFICES ASSUME NEW o1 \in Owners, NEW o2 \in Owners, NEW i \in Ids, NEW j \in Ids,
                      rows'[o1][i].state # "ABSENT", rows'[o2][j].state # "ABSENT",
                      rows'[o1][i].seq = rows'[o2][j].seq
               PROVE  o1 = o2 /\ i = j
    BY DEF QueueOrderTotal
  <2>1. ASSUME NEW o \in Owners, NEW r \in Ids, rows'[o][r].state # "ABSENT"
        PROVE  \/ rows[o][r].state # "ABSENT" /\ rows'[o][r].seq = rows[o][r].seq
                  /\ rows'[o][r].seq < nextSeq
               \/ /\ o = owner /\ rows[o][r].state = "ABSENT"
                  /\ rows'[o][r].seq >= nextSeq
    <3>1. CASE o = owner
      BY <1>2, <1>5, <1>6, <2>1, <3>1 DEF Inv, NumbersBelowNext
    <3>2. CASE o # owner
      BY <1>2, <1>6, <2>1, <3>2 DEF Inv, NumbersBelowNext
    <3>3. QED
      BY <3>1, <3>2
  <2>2. rows'[o1][i].seq \in Nat /\ rows'[o2][j].seq \in Nat /\ nextSeq \in Nat
    BY <1>3 DEF Row, Inv
  <2>3. CASE rows[o1][i].state # "ABSENT" /\ rows[o2][j].state # "ABSENT"
    BY <2>1, <2>2, <2>3 DEF Inv, QueueOrderTotal
  <2>4. CASE rows[o1][i].state = "ABSENT" /\ rows[o2][j].state = "ABSENT"
    <3>1. o1 = owner /\ o2 = owner
      BY <2>1, <2>4
    <3>2. QED
      BY <1>2, <2>4, <3>1 DEF Numbered
  <2>5. CASE ~(rows[o1][i].state = "ABSENT" <=> rows[o2][j].state = "ABSENT")
    BY <2>1, <2>2, <2>5
  <2>6. QED
    BY <2>3, <2>4, <2>5
<1>9. QED
  BY <1>1, <1>3, <1>4, <1>7, <1>8 DEF Inv

LEMMA KeepingStepKeepsInvariant ==
    ASSUME Inv, owner \in Owners, NEW q, Keeps(rows[owner], q), Become(q, 0)
    PROVE  Inv'
<1>1. nextSeq \in Nat /\ nextSeq + 0 = nextSeq
  BY DEF Inv
<1>2. Numbered(rows[owner], q, nextSeq, nextSeq + 0)
  BY <1>1, KeepsAreNumbered
<1>3. QED
  BY <1>2, StepKeepsInvariant DEF Keeps

LEMMA MutableRows ==
    ASSUME Inv, owner # NoOwner
    PROVE  owner \in Owners /\ Sound(rows[owner]) /\ nextSeq \in Nat
  BY DEF Inv

--------------------------------------------------------------------------------
(* The theorems.                                                              *)

LEMMA InitGivesInvariant == Init => Inv
<1> SUFFICES ASSUME Init PROVE Inv
  OBVIOUS
<1>1. ASSUME NEW o \in Owners, NEW i \in Ids
      PROVE  rows[o][i] = NoRow(i) /\ RowIsSound(i, rows[o][i]) /\ rows[o][i].state = "ABSENT"
  BY NoRowIsSound DEF Init
<1>2. [i \in Ids |-> NoRow(i)] \in [Ids -> Row]
  BY NoRowIsSound DEF RowIsSound
<1>3. rows \in [Owners -> [Ids -> Row]]
  BY <1>2 DEF Init
<1>4. \A o \in Owners : Sound(rows[o])
  BY <1>1, <1>3 DEF Sound
<1>5. QED
  BY <1>1, <1>3, <1>4 DEF Init, Inv, NumbersBelowNext, QueueOrderTotal

LEMMA EnqueueDriverEventsKeepsInvariant ==
    ASSUME Inv, NEW i \in Ids, NEW j \in Ids, NEW c \in AnyContract,
           EnqueueDriverEvents(i, j, c)
    PROVE  Inv'
<1> DEFINE first == Upserted(active, i, c, TRUE, nextSeq)
           middle == nextSeq + Inserts(active, i)
           both == Upserted(first, j, c, TRUE, middle)
           k == Inserts(active, i) + Inserts(first, j)
           q == IF both = active THEN active ELSE Trimmed(both)
<1>1. owner \in Owners /\ Sound(active) /\ nextSeq \in Nat
  BY MutableRows DEF EnqueueDriverEvents, Mutable, active
<1>2. Sound(first) /\ Numbered(active, first, nextSeq, middle)
  BY <1>1, UpsertedIsNumbered
<1>3. Inserts(active, i) \in {0, 1} /\ Inserts(first, j) \in {0, 1}
  BY InsertsIsBinary
<1>4. middle \in Nat
  BY <1>1, <1>3
<1> HIDE DEF first, middle
<1>5. Sound(both) /\ Numbered(first, both, middle, middle + Inserts(first, j))
  BY <1>2, <1>4, UpsertedIsNumbered
<1>6. middle + Inserts(first, j) = nextSeq + k /\ k \in Nat /\ nextSeq + k \in Nat
      /\ nextSeq <= middle /\ middle <= nextSeq + k
  BY <1>1, <1>3 DEF middle
<1> HIDE DEF both, k
<1>7. Numbered(active, both, nextSeq, nextSeq + k)
  BY <1>1, <1>2, <1>4, <1>5, <1>6, NumberedComposes
<1>8. Keeps(both, Trimmed(both))
  BY <1>5, TrimmedKeeps
<1>9. Numbered(active, Trimmed(both), nextSeq, nextSeq + k)
  BY <1>1, <1>6, <1>7, <1>8, KeepingStaysNumbered
<1>10. Sound(q) /\ Numbered(active, q, nextSeq, nextSeq + k)
  <2>1. CASE both = active
    BY <1>1, <1>7, <2>1
  <2>2. CASE both # active
    BY <1>8, <1>9, <2>2 DEF Keeps
  <2>3. QED
    BY <2>1, <2>2
<1>11. Become(q, k)
  BY DEF EnqueueDriverEvents, first, both, middle, k
<1> HIDE DEF q
<1>12. QED
  BY <1>1, <1>6, <1>10, <1>11, StepKeepsInvariant DEF active

LEMMA NextKeepsInvariant == Inv /\ [Next]_vars => Inv'
<1> SUFFICES ASSUME Inv, [Next]_vars PROVE Inv'
  OBVIOUS
<1>1. ASSUME owner # NoOwner
      PROVE  owner \in Owners /\ Sound(active) /\ nextSeq \in Nat
  BY <1>1, MutableRows DEF active
<1>2. ASSUME NEW o \in Owners, BindAccountOwnerHash(o)
      PROVE  Inv'
  BY <1>2 DEF Inv, BindAccountOwnerHash, NumbersBelowNext, QueueOrderTotal, Sound
<1>3. ASSUME NEW i \in Ids, NEW c \in AnyContract, NEW same \in BOOLEAN,
             EnqueueDriverEvent(i, c, same)
      PROVE  Inv'
  <2> DEFINE q == Enqueued(active, i, c, same, nextSeq)
             k == Inserts(active, i)
  <2>1. owner \in Owners /\ Sound(active) /\ nextSeq \in Nat /\ Become(q, k)
    BY <1>1, <1>3 DEF EnqueueDriverEvent, Mutable
  <2>2. Sound(q) /\ Numbered(active, q, nextSeq, nextSeq + k) /\ k \in Nat
    BY <2>1, EnqueuedIsNumbered, InsertsIsBinary
  <2> HIDE DEF q, k
  <2>3. QED
    BY <2>1, <2>2, StepKeepsInvariant DEF active
<1>4. ASSUME NEW i \in Ids, NEW j \in Ids, NEW c \in AnyContract, EnqueueDriverEvents(i, j, c)
      PROVE  Inv'
  BY <1>4, EnqueueDriverEventsKeepsInvariant
<1>5. ASSUME NEW p \in Ids, EnqueueProofMediaUpload(p)
      PROVE  Inv'
  <2> DEFINE q == ProofEnqueued(active, p, nextSeq)
             k == Inserts(active, p)
  <2>1. owner \in Owners /\ Sound(active) /\ nextSeq \in Nat /\ Become(q, k)
    BY <1>1, <1>5 DEF EnqueueProofMediaUpload, Mutable
  <2>2. Sound(q) /\ Numbered(active, q, nextSeq, nextSeq + k) /\ k \in Nat
    BY <2>1, ProofEnqueuedIsNumbered, InsertsIsBinary
  <2> HIDE DEF q, k
  <2>3. QED
    BY <2>1, <2>2, StepKeepsInvariant DEF active
<1>6. ASSUME NEW e \in Ids, NEW u \in Ids, NEW p \in Ids, ReplaceRejectedProofMedia(e, u, p)
      PROVE  Inv'
  <2> DEFINE q == MediaReplaced(active, p, u, nextSeq)
  <2>1. /\ owner \in Owners /\ Sound(active) /\ nextSeq \in Nat
        /\ active[p].state = "ABSENT" /\ Become(q, 1)
    BY <1>1, <1>6 DEF ReplaceRejectedProofMedia, Mutable
  <2>2. Sound(q) /\ Numbered(active, q, nextSeq, nextSeq + 1)
    BY <2>1, MediaReplacedIsNumbered
  <2> HIDE DEF q
  <2>3. QED
    BY <2>1, <2>2, StepKeepsInvariant DEF active
<1>7. ASSUME NEW i \in Ids, NEW hasReceipt \in BOOLEAN, Acknowledge(i, hasReceipt)
      PROVE  Inv'
  BY <1>1, <1>7, AcknowledgedKeeps, KeepingStepKeepsInvariant
     DEF Acknowledge, Mutable, active
<1>8. ASSUME NEW i \in Ids, NEW reason \in Reasons, Quarantine(i, reason)
      PROVE  Inv'
  BY <1>1, <1>8, IsolatedKeeps, KeepingStepKeepsInvariant
     DEF Quarantine, Mutable, active
<1>9. ASSUME NEW i \in Ids, NEW transient \in BOOLEAN, RecordRetryFailure(i, transient)
      PROVE  Inv'
  BY <1>1, <1>9, RetryFailedKeeps, KeepingStepKeepsInvariant
     DEF RecordRetryFailure, Mutable, active
<1>10. ASSUME NEW i \in Ids, Discard(i)
      PROVE  Inv'
  BY <1>1, <1>10, DroppedKeeps, KeepingStepKeepsInvariant
     DEF Discard, Causes, Mutable, active
<1>11. ASSUME NEW p \in Ids, RecordProofMediaUpload(p)
      PROVE  Inv'
  BY <1>1, <1>11, MediaRecordedKeeps, KeepingStepKeepsInvariant
     DEF RecordProofMediaUpload, Mutable, active
<1>12. ASSUME NEW p \in Ids, RejectProofMedia(p)
      PROVE  Inv'
  BY <1>1, <1>12, MediaRejectedKeeps, KeepingStepKeepsInvariant
     DEF RejectProofMedia, Mutable, active
<1>13. ASSUME NEW r \in Routes, BlockRouteSubmissions(r)
      PROVE  Inv'
  BY <1>1, <1>13, RouteBlockedKeeps, KeepingStepKeepsInvariant
     DEF BlockRouteSubmissions, Mutable, active
<1>14. ASSUME NEW r \in Routes, DiscardRouteSubmissions(r)
      PROVE  Inv'
  BY <1>1, <1>14, RouteCleanedKeeps, KeepingStepKeepsInvariant
     DEF DiscardRouteSubmissions, Mutable, active
<1>15. ASSUME SealForAccountChange
      PROVE  Inv'
  BY <1>1, <1>15, SealedKeeps, KeepingStepKeepsInvariant
     DEF SealForAccountChange, Mutable, active
<1>16. ASSUME Clear
      PROVE  Inv'
  BY <1>1, <1>16, PurgedKeeps, KeepingStepKeepsInvariant
     DEF Clear, Mutable, active
<1>17. ASSUME CompleteAccountDeletion
      PROVE  Inv'
  BY <1>1, <1>17, ErasedKeeps, KeepingStepKeepsInvariant
     DEF CompleteAccountDeletion, Mutable, active
<1>18. ASSUME DiscardReconciliationRecords
      PROVE  Inv'
  BY <1>1, <1>18, ReconciledKeeps, KeepingStepKeepsInvariant
     DEF DiscardReconciliationRecords, Mutable, active
<1>19. ASSUME NEW i \in Ids, MarkCompletionClearHeartbeatDelivered(i)
      PROVE  Inv'
  BY <1>1, <1>19, ClearMarkedKeeps, KeepingStepKeepsInvariant
     DEF MarkCompletionClearHeartbeatDelivered, Mutable, active
<1>20. ASSUME NEW i \in Ids, ReopenCompletionClearHeartbeat(i)
      PROVE  Inv'
  BY <1>1, <1>20, ClearReopenedKeeps, KeepingStepKeepsInvariant
     DEF ReopenCompletionClearHeartbeat, active
<1>21. ASSUME StorageChanges
      PROVE  Inv'
  BY <1>21 DEF Inv, StorageChanges, NumbersBelowNext, QueueOrderTotal, Sound
<1>22. CASE UNCHANGED vars
  BY <1>22 DEF Inv, vars, NumbersBelowNext, QueueOrderTotal, Sound
<1>23. QED
  BY <1>2, <1>3, <1>4, <1>5, <1>6, <1>7, <1>8, <1>9, <1>10, <1>11, <1>12, <1>13, <1>14, <1>15, <1>16, <1>17, <1>18, <1>19, <1>20, <1>21, <1>22 DEF Next

(* No call of any method, by any account, breaks the invariant.               *)
THEOREM InvariantHolds == Spec => []Inv
<1>1. Init => Inv
  BY InitGivesInvariant
<1>2. Inv /\ [Next]_vars => Inv'
  BY NextKeepsInvariant
<1>3. QED
  BY <1>1, <1>2, PTL DEF Spec

(* TypeOK: the state of the queue keeps its type.                             *)
THEOREM TypeCorrect == Spec => []TypeOK
<1>1. Inv => TypeOK
  BY DEF Inv, TypeOK
<1>2. QED
  BY <1>1, InvariantHolds, PTL

(* QuarantineConsistent: a row that listPending returns is either to be sent  *)
(* and has no reconciliation record, or it is quarantined and has one.        *)
THEOREM QuarantineIsConsistent == Spec => []QuarantineConsistent
<1>1. Inv => QuarantineConsistent
  BY DEF Inv, Sound, RowIsSound, QuarantineConsistent
<1>2. QED
  BY <1>1, InvariantHolds, PTL

(* CashReceiptRetained: no sequence of calls makes an acknowledged cash       *)
(* completion without a receipt, the row that would make                      *)
(* readPersistedQueueItem reject the whole envelope after a restart.          *)
THEOREM CashReceiptIsRetained == Spec => []CashReceiptRetained
<1>1. Inv => CashReceiptRetained
  BY DEF Inv, Sound, RowIsSound, CashReceiptRetained
<1>2. QED
  BY <1>1, InvariantHolds, PTL

(* QueueOrderTotal: queueSequence orders the rows of all accounts, whichever  *)
(* methods inserted them, one at a time or in batches.                        *)
THEOREM QueueOrderIsTotal == Spec => []QueueOrderTotal
<1>1. Inv => QueueOrderTotal
  BY DEF Inv
<1>2. QED
  BY <1>1, InvariantHolds, PTL

--------------------------------------------------------------------------------
(* Every step either leaves the rows alone or gives the bound account rows    *)
(* that moved from its own; only an insertion can make a row PENDING.         *)

AllMove == \A o \in Owners, i \in Ids : Moves(i, rows[o][i], rows'[o][i])

LEMMA StepMoves ==
    ASSUME Inv, owner \in Owners, NEW q, NEW k, RowsMove(active, q), Become(q, k)
    PROVE  AllMove
<1>1. rows' = [rows EXCEPT ![owner] = q]
  BY DEF Become
<1>2. /\ rows'[owner] = q
      /\ \A o \in Owners \ {owner} : rows'[o] = rows[o]
  BY <1>1 DEF Inv
<1>3. \A o \in Owners, i \in Ids : Moves(i, rows[o][i], rows[o][i])
  BY SoundRow, RowSettles DEF Inv
<1>4. QED
  BY <1>2, <1>3 DEF AllMove, RowsMove, active

LEMMA SettlingStepMoves ==
    ASSUME Inv, owner \in Owners, NEW q, NEW k, Settles(active, q), Become(q, k)
    PROVE  AllMove
  BY StepMoves DEF Settles

LEMMA SameRowsMove ==
    ASSUME Inv, UNCHANGED rows
    PROVE  AllMove
  BY SoundRow, RowSettles DEF Inv, AllMove

LEMMA NextMoves == Inv /\ [Next]_vars => AllMove
<1> SUFFICES ASSUME Inv, [Next]_vars PROVE AllMove
  OBVIOUS
<1>1. ASSUME owner # NoOwner
      PROVE  owner \in Owners /\ Sound(active) /\ nextSeq \in Nat
  BY <1>1, MutableRows DEF active
<1>2. ASSUME NEW o \in Owners, BindAccountOwnerHash(o)
      PROVE  AllMove
  BY <1>2, SameRowsMove DEF BindAccountOwnerHash
<1>3. ASSUME NEW i \in Ids, NEW c \in AnyContract, NEW same \in BOOLEAN,
             EnqueueDriverEvent(i, c, same)
      PROVE  AllMove
  BY <1>1, <1>3, EnqueuedMoves, StepMoves DEF EnqueueDriverEvent, Mutable
<1>4. ASSUME NEW i \in Ids, NEW j \in Ids, NEW c \in AnyContract, EnqueueDriverEvents(i, j, c)
      PROVE  AllMove
  <2> DEFINE first == Upserted(active, i, c, TRUE, nextSeq)
             middle == nextSeq + Inserts(active, i)
             both == Upserted(first, j, c, TRUE, middle)
             k == Inserts(active, i) + Inserts(first, j)
  <2>1. owner \in Owners /\ Sound(active) /\ nextSeq \in Nat /\ i # j /\ Mutable
    BY <1>1, <1>4 DEF EnqueueDriverEvents, Mutable
  <2>2. Sound(first) /\ RowsMove(active, first)
    BY <2>1, UpsertedIsNumbered, UpsertedMoves
  <2>3. middle \in Nat
    BY <2>1, InsertsIsBinary
  <2> HIDE DEF first, middle
  <2>4. Sound(both) /\ RowsMove(first, both)
    BY <2>2, <2>3, UpsertedIsNumbered, UpsertedMoves
  <2>5. RowsMove(active, both)
    BY <2>2, <2>4, MovesCompose
  <2>6. Become(IF both = active THEN active ELSE Trimmed(both), k)
    BY <1>4 DEF EnqueueDriverEvents, first, middle
  <2> HIDE DEF both, k
  <2>7. RowsMove(active, Trimmed(both)) /\ RowsMove(active, active)
    BY <2>1, <2>4, <2>5, TrimmedMoves, SettlesSelf DEF Settles
  <2>8. CASE both = active
    BY <2>1, <2>6, <2>7, <2>8, StepMoves
  <2>9. CASE both # active
    BY <2>1, <2>6, <2>7, <2>9, StepMoves
  <2>10. QED
    BY <2>8, <2>9
<1>5. ASSUME NEW p \in Ids, EnqueueProofMediaUpload(p)
      PROVE  AllMove
  BY <1>1, <1>5, ProofEnqueuedMoves, StepMoves DEF EnqueueProofMediaUpload, Mutable
<1>6. ASSUME NEW e \in Ids, NEW u \in Ids, NEW p \in Ids, ReplaceRejectedProofMedia(e, u, p)
      PROVE  AllMove
  BY <1>1, <1>6, MediaReplacedMoves, StepMoves DEF ReplaceRejectedProofMedia, Mutable
<1>7. ASSUME NEW i \in Ids, NEW hasReceipt \in BOOLEAN, Acknowledge(i, hasReceipt)
      PROVE  AllMove
  BY <1>1, <1>7, AcknowledgedSettles, SettlingStepMoves DEF Acknowledge, Mutable
<1>8. ASSUME NEW i \in Ids, NEW reason \in Reasons, Quarantine(i, reason)
      PROVE  AllMove
  BY <1>1, <1>8, IsolatedSettles, SettlingStepMoves DEF Quarantine, Mutable
<1>9. ASSUME NEW i \in Ids, NEW transient \in BOOLEAN, RecordRetryFailure(i, transient)
      PROVE  AllMove
  BY <1>1, <1>9, RetryFailedSettles, SettlingStepMoves DEF RecordRetryFailure, Mutable
<1>10. ASSUME NEW i \in Ids, Discard(i)
      PROVE  AllMove
  BY <1>1, <1>10, DiscardSettles, SettlingStepMoves DEF Discard, Mutable
<1>11. ASSUME NEW p \in Ids, RecordProofMediaUpload(p)
      PROVE  AllMove
  BY <1>1, <1>11, MarksSettle, SettlingStepMoves DEF RecordProofMediaUpload, Mutable
<1>12. ASSUME NEW p \in Ids, RejectProofMedia(p)
      PROVE  AllMove
  BY <1>1, <1>12, MediaRejectedSettles, SettlingStepMoves DEF RejectProofMedia, Mutable
<1>13. ASSUME NEW r \in Routes, BlockRouteSubmissions(r)
      PROVE  AllMove
  BY <1>1, <1>13, RouteBlockedSettles, SettlingStepMoves DEF BlockRouteSubmissions, Mutable
<1>14. ASSUME NEW r \in Routes, DiscardRouteSubmissions(r)
      PROVE  AllMove
  BY <1>1, <1>14, RouteCleanedSettles, SettlingStepMoves DEF DiscardRouteSubmissions, Mutable
<1>15. ASSUME SealForAccountChange
      PROVE  AllMove
  BY <1>1, <1>15, SealedSettles, SettlingStepMoves DEF SealForAccountChange, Mutable
<1>16. ASSUME Clear
      PROVE  AllMove
  BY <1>1, <1>16, PurgedSettles, SettlingStepMoves DEF Clear, Mutable
<1>17. ASSUME CompleteAccountDeletion
      PROVE  AllMove
  BY <1>1, <1>17, PurgedSettles, SettlingStepMoves DEF CompleteAccountDeletion, Mutable
<1>18. ASSUME DiscardReconciliationRecords
      PROVE  AllMove
  BY <1>1, <1>18, ReconciledSettles, SettlingStepMoves DEF DiscardReconciliationRecords, Mutable
<1>19. ASSUME NEW i \in Ids, MarkCompletionClearHeartbeatDelivered(i)
      PROVE  AllMove
  BY <1>1, <1>19, MarksSettle, SettlingStepMoves DEF MarkCompletionClearHeartbeatDelivered, Mutable
<1>20. ASSUME NEW i \in Ids, ReopenCompletionClearHeartbeat(i)
      PROVE  AllMove
  BY <1>1, <1>20, MarksSettle, SettlingStepMoves DEF ReopenCompletionClearHeartbeat
<1>21. ASSUME StorageChanges
      PROVE  AllMove
  BY <1>21, SameRowsMove DEF StorageChanges
<1>22. CASE UNCHANGED vars
  BY <1>22, SameRowsMove DEF vars
<1>23. QED
  BY <1>2, <1>3, <1>4, <1>5, <1>6, <1>7, <1>8, <1>9, <1>10, <1>11, <1>12, <1>13, <1>14, <1>15, <1>16, <1>17, <1>18, <1>19, <1>20, <1>21, <1>22 DEF Next

(* NeverRetriedAfterSettled: whatever is called, in whatever order, a row     *)
(* that was acknowledged, discarded or quarantined is not sent again.         *)
THEOREM SettledIsNeverRetried == Spec => NeverRetriedAfterSettled
<1>1. Inv /\ [Next]_vars =>
        [\A o \in Owners, i \in Ids :
          rows'[o][i].state = "PENDING" => rows[o][i].state \in {"ABSENT", "PENDING"}]_vars
  BY NextMoves DEF AllMove, Moves
<1>2. QED
  BY <1>1, InvariantHolds, PTL DEF Spec, NeverRetriedAfterSettled

(* EvidenceEndsByDecision: a stop result, a route end or a proof that is      *)
(* still owed to the server is discarded by a decision, never by capacity, by *)
(* the clean-up or the blocking of its route, or by a sign-out.               *)
THEOREM EvidenceIsKept == Spec => EvidenceEndsByDecision
<1>1. Inv /\ [Next]_vars =>
        [\A o \in Owners, i \in Ids :
          /\ Live(rows[o][i]) /\ rows'[o][i].state = "DISCARDED"
          /\ KindOf[i] \in TerminalStops \cup RouteEnds \cup {"proof"}
          => \/ rows'[o][i].cause = "decision"
             \/ rows'[o][i].cause = "refused" /\ IsProof(i)
             \/ rows'[o][i].cause = "calledOff" /\ KindOf[i] \in RouteEnds]_vars
  BY NextMoves DEF AllMove, Moves, Evidence, EndsByDecision
<1>2. QED
  BY <1>1, InvariantHolds, PTL DEF Spec, EvidenceEndsByDecision

(* DegradedOnlyReopens: while the store is degraded a row changes in one way  *)
(* only, a completion's clearing heartbeat is owed again.                     *)
THEOREM DegradedQueueOnlyReopens == Spec => DegradedOnlyReopens
<1> DEFINE Step == ~writable =>
             \A o \in Owners, i \in Ids :
                rows'[o][i] \in {rows[o][i], [rows[o][i] EXCEPT !.cleared = FALSE]}
<1>1. ASSUME UNCHANGED rows
      PROVE  Step
  BY <1>1
<1>2. ASSUME Inv, NEW r \in Ids, ReopenCompletionClearHeartbeat(r)
      PROVE  Step
  <2>1. /\ owner \in Owners
        /\ rows' = [rows EXCEPT ![owner] = ClearReopened(rows[owner], r)]
    BY <1>2 DEF Inv, ReopenCompletionClearHeartbeat, Become, active
  <2>2. /\ rows'[owner] = ClearReopened(rows[owner], r)
        /\ \A o \in Owners \ {owner} : rows'[o] = rows[o]
    BY <1>2, <2>1 DEF Inv
  <2>3. \A i \in Ids : ClearReopened(rows[owner], r)[i] \in
                          {rows[owner][i], [rows[owner][i] EXCEPT !.cleared = FALSE]}
    BY <1>2, <2>1 DEF Inv, ClearReopened
  <2>4. QED
    BY <2>2, <2>3
<1>3. ASSUME Next, ~writable
      PROVE  \/ \E r \in Ids : ReopenCompletionClearHeartbeat(r)
             \/ UNCHANGED rows
  BY <1>3 DEF Next, BindAccountOwnerHash, EnqueueDriverEvent, EnqueueDriverEvents,
       EnqueueProofMediaUpload, ReplaceRejectedProofMedia, Acknowledge, Quarantine,
       RecordRetryFailure, Discard, RecordProofMediaUpload, RejectProofMedia,
       BlockRouteSubmissions, DiscardRouteSubmissions, SealForAccountChange, Clear,
       CompleteAccountDeletion, DiscardReconciliationRecords,
       MarkCompletionClearHeartbeatDelivered, StorageChanges, Mutable
<1>4. Inv /\ [Next]_vars => [Step]_vars
  <2> HIDE DEF Step
  <2>1. Inv /\ Next /\ ~writable => Step
    BY <1>1, <1>2, <1>3
  <2>2. Next /\ writable => Step
    BY DEF Step
  <2>3. QED
    BY <2>1, <2>2
<1>5. QED
  BY <1>4, InvariantHolds, PTL DEF Spec, DegradedOnlyReopens

--------------------------------------------------------------------------------
(* Capacity.  Trimmed drops the samples of the lowest ranks; the rank is a    *)
(* bijection between the samples and 1..n because no two rows share a number, *)
(* so as many samples go as there are rows too many, or all of them.          *)

PendingRows(q) == {i \in Ids : q[i].state = "PENDING"}

Fits(q) ==
    Cardinality(PendingRows(q)) > MaxItems
    => \A i \in Ids : q[i].state = "PENDING" => ~IsLocation(i)

(* The numbers given out so far: below n, and one row each.                   *)
Below(q, n) ==
    /\ \A i \in Ids : q[i].state # "ABSENT" => q[i].seq < n
    /\ \A i, j \in Ids :
          q[i].state # "ABSENT" /\ q[j].state # "ABSENT" /\ q[i].seq = q[j].seq => i = j

LEMMA PendingIsFinite ==
    ASSUME NEW q
    PROVE  IsFiniteSet(PendingRows(q)) /\ Cardinality(PendingRows(q)) \in Nat
<1>1. PendingRows(q) \in SUBSET Ids /\ IsFiniteSet(Ids)
  BY ItemsAssumption DEF PendingRows
<1>2. QED
  BY <1>1, FS_Subset, FS_CardinalityType

LEMMA NumberedStaysBelow ==
    ASSUME NEW q, Sound(q), NEW r, Sound(r), NEW n \in Nat, NEW m \in Nat, n <= m,
           Below(q, n), Numbered(q, r, n, m)
    PROVE  Below(r, m)
<1>1. ASSUME NEW i \in Ids, r[i].state # "ABSENT"
      PROVE  \/ q[i].state # "ABSENT" /\ r[i].seq = q[i].seq /\ r[i].seq < n
             \/ q[i].state = "ABSENT" /\ r[i].seq >= n /\ r[i].seq < m
  <2>1. r[i].seq \in Nat
    BY SoundRow DEF Row
  <2>2. QED
    BY <1>1, <2>1, NumberedRow DEF Below
<1>2. ASSUME NEW i \in Ids, r[i].state # "ABSENT"
      PROVE  r[i].seq < m
  BY <1>1, <1>2, SoundRow DEF Row
<1>3. ASSUME NEW i \in Ids, NEW j \in Ids, r[i].state # "ABSENT", r[j].state # "ABSENT",
             r[i].seq = r[j].seq
      PROVE  i = j
  <2>1. r[i].seq \in Nat /\ r[j].seq \in Nat
    BY SoundRow DEF Row
  <2>2. CASE q[i].state # "ABSENT" /\ q[j].state # "ABSENT"
    BY <1>1, <1>3, <2>2 DEF Below
  <2>3. CASE q[i].state = "ABSENT" /\ q[j].state = "ABSENT"
    BY <1>3, <2>3 DEF Numbered
  <2>4. QED
    BY <1>1, <1>3, <2>1, <2>2, <2>3
<1>4. QED
  BY <1>2, <1>3 DEF Below

LEMMA TrimmedFits ==
    ASSUME NEW q, Sound(q), NEW n, Below(q, n)
    PROVE  Fits(Trimmed(q))
<1> DEFINE pending == PendingRows(q)
           samples == {i \in pending : IsLocation(i) /\ q[i].recon = "none"}
           Upto(i) == {j \in samples : q[j].seq <= q[i].seq}
           rank == [i \in samples |-> Cardinality(Upto(i))]
           all == Cardinality(samples)
           size == Cardinality(pending)
           gone == {i \in samples : rank[i] + MaxItems <= size}
           kept == PendingRows(Trimmed(q))
<1>1. IsFiniteSet(pending) /\ size \in Nat
  BY PendingIsFinite
<1>2. IsFiniteSet(samples) /\ all \in Nat
  <2>1. samples \in SUBSET pending
    OBVIOUS
  <2>2. QED
    BY <1>1, <2>1, FS_Subset, FS_CardinalityType
<1>3. IsFiniteSet(gone) /\ Cardinality(gone) \in Nat /\ gone \subseteq pending
  <2>1. gone \in SUBSET samples
    OBVIOUS
  <2>2. QED
    BY <1>2, <2>1, FS_Subset, FS_CardinalityType
<1>4. kept = pending \ gone
  <2>1. ASSUME NEW i \in Ids
        PROVE  Trimmed(q)[i] = IF i \in gone THEN Discarded(q[i], "cleanup") ELSE q[i]
    BY DEF Trimmed, PendingRows
  <2>2. \A i \in Ids : Discarded(q[i], "cleanup").state = "DISCARDED"
    BY SoundRow, DiscardedFields
  <2>3. pending \subseteq Ids
    BY DEF PendingRows
  <2> HIDE DEF gone
  <2>4. \A i \in Ids : i \in kept <=> i \in pending /\ i \notin gone
    BY <2>1, <2>2 DEF PendingRows
  <2>5. kept \subseteq Ids
    BY DEF PendingRows
  <2> HIDE DEF kept, pending
  <2>6. QED
    BY <2>3, <2>4, <2>5
<1>5. Cardinality(kept) = size - Cardinality(gone)
  <2>1. pending \cap gone = gone
    BY <1>3
  <2> HIDE DEF pending, gone, kept
  <2>2. Cardinality(pending \ gone) = Cardinality(pending) - Cardinality(pending \cap gone)
    BY <1>1, FS_Difference
  <2>3. QED
    BY <1>4, <2>1, <2>2
<1>6. ASSUME NEW i \in samples
      PROVE  /\ Upto(i) \in SUBSET samples /\ i \in Upto(i)
             /\ IsFiniteSet(Upto(i)) /\ rank[i] \in 1..all
  <2>1. q[i].seq \in Nat
    BY SoundRow DEF PendingRows, Row
  <2>2. Upto(i) \in SUBSET samples /\ i \in Upto(i)
    BY <2>1
  <2>3. rank[i] = Cardinality(Upto(i))
    OBVIOUS
  <2> HIDE DEF samples, Upto, rank
  <2>4. /\ IsFiniteSet(Upto(i)) /\ Cardinality(Upto(i)) <= all
        /\ Cardinality(Upto(i)) \in Nat
    BY <1>2, <2>2, FS_Subset, FS_CardinalityType
  <2>5. Cardinality(Upto(i)) # 0
    BY <2>2, <2>4, FS_EmptySet
  <2> HIDE DEF all
  <2>6. QED
    BY <1>2, <2>2, <2>3, <2>4, <2>5
<1>7. ASSUME NEW i \in samples, NEW j \in samples, rank[i] = rank[j]
      PROVE  i = j
  <2>1. ASSUME NEW a \in samples, NEW b \in samples, rank[a] = rank[b], q[a].seq < q[b].seq
        PROVE  FALSE
    <3>1. \A s \in samples : q[s].seq \in Nat
      BY SoundRow DEF PendingRows, Row
    <3>2. Upto(a) \subseteq Upto(b) /\ b \notin Upto(a) /\ b \in Upto(b)
      BY <2>1, <3>1
    <3>3. Cardinality(Upto(a)) = Cardinality(Upto(b)) /\ IsFiniteSet(Upto(b))
      BY <1>6, <2>1
    <3> HIDE DEF samples, Upto
    <3>4. Upto(b) = Upto(a)
      BY <3>2, <3>3, FS_Subset
    <3>5. QED
      BY <3>2, <3>4
  <2>2. q[i].seq \in Nat /\ q[j].seq \in Nat /\ i \in Ids /\ j \in Ids
    BY SoundRow DEF PendingRows, Row
  <2>3. q[i].seq = q[j].seq
    <3> HIDE DEF samples, rank
    <3>1. QED
      BY <1>7, <2>1, <2>2
  <2>4. q[i].state = "PENDING" /\ q[j].state = "PENDING"
    BY DEF PendingRows
  <2>5. QED
    BY <2>2, <2>3, <2>4 DEF Below
<1>8. \A y \in 1..all : \E i \in samples : rank[i] = y
  <2>1. rank \in [samples -> 1..all]
    <3>1. rank = [i \in samples |-> rank[i]]
      OBVIOUS
    <3> HIDE DEF samples, rank, all
    <3>2. QED
      BY <1>6, <3>1
  <2> HIDE DEF samples, rank
  <2>2. rank \in Injection(samples, 1..all)
    BY <1>7, <2>1 DEF Injection, IsInjective
  <2>3. IsFiniteSet(1..all) /\ Cardinality(1..all) = all
    BY <1>2, FS_Interval
  <2>4. rank \in Surjection(samples, 1..all)
    BY <2>2, <2>3, FS_Injection
  <2>5. QED
    BY <2>4 DEF Surjection
<1>9. ASSUME Cardinality(kept) > MaxItems, NEW j \in Ids, j \in kept, IsLocation(j)
      PROVE  FALSE
  <2> DEFINE x == size - MaxItems
             f == [i \in gone |-> rank[i]]
  <2>1. MaxItems \in Nat
    BY BoundsAssumption
  <2>2. j \in samples
    BY <1>4, <1>9 DEF Sound, RowIsSound, PendingRows
  <2>3. j \notin gone /\ rank[j] \in 1..all
    BY <1>4, <1>6, <1>9, <2>2
  <2>4. size > MaxItems
    BY <1>1, <1>3, <1>5, <1>9, <2>1
  <2>5. rank[j] > x
    <3>1. ~(rank[j] + MaxItems <= size)
      BY <2>2, <2>3
    <3> HIDE DEF rank, size, all, samples
    <3>2. QED
      BY <1>1, <1>2, <2>1, <2>3, <3>1
  <2>6. x \in Nat /\ x <= all
    <3> HIDE DEF rank, size, all, samples
    <3>1. QED
      BY <1>1, <1>2, <2>1, <2>3, <2>4, <2>5
  <2>7. \A i \in samples : i \in gone <=> rank[i] <= x
    <3>1. \A i \in samples : i \in gone <=> rank[i] + MaxItems <= size
      OBVIOUS
    <3> HIDE DEF rank, size, gone, samples, all
    <3>2. ASSUME NEW i \in samples
          PROVE  rank[i] \in Nat
      <4>1. rank[i] \in 1..all
        BY <1>6
      <4>2. QED
        BY <1>2, <4>1
    <3>3. QED
      BY <1>1, <2>1, <3>1, <3>2
  <2>8. gone \subseteq samples
    OBVIOUS
  <2>9. \A i \in gone : f[i] = rank[i] /\ rank[i] \in 1..x
    <3>1. \A i \in gone : f[i] = rank[i]
      OBVIOUS
    <3> HIDE DEF rank, gone, samples, x, f, all
    <3>2. ASSUME NEW i \in gone
          PROVE  rank[i] \in 1..x
      <4>1. rank[i] \in 1..all /\ rank[i] <= x
        BY <1>6, <2>7, <2>8
      <4>2. QED
        BY <1>2, <2>6, <4>1
    <3>3. QED
      BY <3>1, <3>2
  <2>10. f \in [gone -> 1..x]
    <3>1. f = [i \in gone |-> f[i]]
      OBVIOUS
    <3> HIDE DEF rank, gone, samples, x, f
    <3>2. QED
      BY <2>9, <3>1
  <2>11. \A y \in 1..x : \E i \in gone : f[i] = y
    <3> HIDE DEF rank, gone, samples, x, f, all
    <3>1. QED
      BY <1>2, <1>8, <2>6, <2>7, <2>9
  <2>12. f \in Surjection(gone, 1..x)
    <3> HIDE DEF gone, x, f
    <3>1. QED
      BY <2>10, <2>11 DEF Surjection
  <2> HIDE DEF rank, gone, samples, f, all, kept, size
  <2>13. Cardinality(1..x) <= Cardinality(gone)
    BY <1>3, <2>12, FS_Surjection
  <2>14. Cardinality(1..x) = x
    BY <2>6, FS_Interval
  <2>15. QED
    BY <1>1, <1>3, <1>5, <1>9, <2>1, <2>6, <2>13, <2>14
<1>10. QED
  <2> HIDE DEF kept, gone, rank, samples, pending
  <2>1. \A j \in Ids : Trimmed(q)[j].state = "PENDING" => j \in kept
    BY DEF kept, PendingRows
  <2>2. QED
    BY <1>9, <2>1 DEF Fits, kept

LEMMA SettlesFits ==
    ASSUME NEW q, NEW r, Settles(q, r), Fits(q)
    PROVE  Fits(r)
<1>1. PendingRows(r) \in SUBSET PendingRows(q)
  BY DEF Settles, PendingRows
<1>2. Cardinality(PendingRows(r)) <= Cardinality(PendingRows(q))
  BY <1>1, PendingIsFinite, FS_Subset
<1>3. ASSUME Cardinality(PendingRows(r)) > MaxItems
      PROVE  Cardinality(PendingRows(q)) > MaxItems
  BY <1>2, <1>3, PendingIsFinite, BoundsAssumption
<1>4. QED
  BY <1>3 DEF Fits, Settles

LEMMA EnqueuedFits ==
    ASSUME NEW q, Sound(q), Fits(q), NEW n \in Nat, Below(q, n),
           NEW i \in Ids, NEW c \in AnyContract, NEW same \in BOOLEAN
    PROVE  Fits(Enqueued(q, i, c, same, n))
<1> DEFINE u == Upserted(q, i, c, same, n)
           m == n + Inserts(q, i)
<1>1. Sound(u) /\ Numbered(q, u, n, m)
  BY UpsertedIsNumbered
<1>2. m \in Nat /\ n <= m
  BY InsertsIsBinary
<1>3. Enqueued(q, i, c, same, n) = IF u = q THEN q ELSE Trimmed(u)
  BY DEF Enqueued
<1> HIDE DEF u, m
<1>4. Fits(Trimmed(u))
  BY <1>1, <1>2, NumberedStaysBelow, TrimmedFits
<1>5. QED
  BY <1>3, <1>4

LEMMA ProofEnqueuedFits ==
    ASSUME NEW q, Sound(q), Fits(q), NEW n \in Nat, Below(q, n), NEW p \in Ids
    PROVE  Fits(ProofEnqueued(q, p, n))
<1>1. CASE q[p].state = "ABSENT"
  <2> DEFINE u == [q EXCEPT ![p] = NewRow(p, ProofScope[p], n)]
  <2>1. ProofScope[p] \in AnyContract
    BY ItemsAssumption
  <2>2. Sound(u) /\ Numbered(q, u, n, n + 1)
    BY <1>1, <2>1, KeepsSelf, InsertIsNumbered, NewRowIsSound
  <2>3. ProofEnqueued(q, p, n) = Trimmed(u)
    BY <1>1 DEF ProofEnqueued
  <2> HIDE DEF u
  <2>4. n + 1 \in Nat /\ n <= n + 1
    OBVIOUS
  <2>5. Fits(Trimmed(u))
    BY <2>2, <2>4, NumberedStaysBelow, TrimmedFits
  <2>6. QED
    BY <2>3, <2>5
<1>2. CASE q[p].state # "ABSENT"
  BY <1>2 DEF ProofEnqueued
<1>3. QED
  BY <1>1, <1>2

LEMMA MediaReplacedFits ==
    ASSUME NEW q, Sound(q), Fits(q), NEW n \in Nat, Below(q, n), NEW p \in Ids, NEW u \in Ids
    PROVE  Fits(MediaReplaced(q, p, u, n))
<1> DEFINE stored == ProofEnqueued(q, p, n)
           row == [stored[p] EXCEPT !.standsFor = u, !.owed = TRUE]
<1>1. Sound(stored) /\ Fits(stored)
  BY ProofEnqueuedIsNumbered, ProofEnqueuedFits
<1>2. MediaReplaced(q, p, u, n) = [stored EXCEPT ![p] = row]
  BY DEF MediaReplaced
<1> HIDE DEF stored
<1>3. row.state = stored[p].state /\ row.cause = stored[p].cause
  BY <1>1, SoundRow DEF Row
<1>4. Moves(p, stored[p], row)
  BY <1>1, <1>3, SoundRow, RowSettles
<1> HIDE DEF row
<1>5. Settles(stored, [stored EXCEPT ![p] = row])
  BY <1>1, <1>3, <1>4, SettlesOneRow
<1>6. QED
  BY <1>1, <1>2, <1>5, SettlesFits

FitsAll == \A o \in Owners : Fits(rows[o])

LEMMA StepFits ==
    ASSUME Inv, FitsAll, owner \in Owners, NEW q, NEW k, Fits(q), Become(q, k)
    PROVE  FitsAll'
<1>1. /\ rows'[owner] = q
      /\ \A o \in Owners \ {owner} : rows'[o] = rows[o]
  BY DEF Become, Inv
<1>2. ASSUME NEW o \in Owners
      PROVE  Fits(rows'[o])
  BY <1>1 DEF FitsAll
<1>3. QED
  BY <1>2 DEF FitsAll, Fits, PendingRows

LEMMA SettlingStepFits ==
    ASSUME Inv, FitsAll, owner \in Owners, NEW q, NEW k, Settles(active, q), Become(q, k)
    PROVE  FitsAll'
<1>1. Fits(active)
  BY DEF FitsAll, active
<1>2. Fits(q)
  BY <1>1, SettlesFits
<1>3. QED
  BY <1>2, StepFits

LEMMA MutableFits ==
    ASSUME Inv, FitsAll, owner # NoOwner
    PROVE  /\ owner \in Owners /\ Sound(active) /\ nextSeq \in Nat
           /\ Fits(active) /\ Below(active, nextSeq)
<1>1. owner \in Owners
  BY DEF Inv
<1>2. Below(active, nextSeq)
  BY <1>1 DEF Inv, NumbersBelowNext, QueueOrderTotal, Below, active
<1>3. QED
  BY <1>1, <1>2 DEF Inv, FitsAll, active

LEMMA NextFits == Inv /\ FitsAll /\ [Next]_vars => FitsAll'
<1> SUFFICES ASSUME Inv, FitsAll, [Next]_vars PROVE FitsAll'
  OBVIOUS
<1>1. ASSUME owner # NoOwner
      PROVE  /\ owner \in Owners /\ Sound(active) /\ nextSeq \in Nat
             /\ Fits(active) /\ Below(active, nextSeq)
  BY <1>1, MutableFits
<1>2. ASSUME UNCHANGED rows
      PROVE  FitsAll'
  BY <1>2 DEF FitsAll, Fits, PendingRows
<1>3. ASSUME NEW i \in Ids, NEW c \in AnyContract, NEW same \in BOOLEAN,
             EnqueueDriverEvent(i, c, same)
      PROVE  FitsAll'
  BY <1>1, <1>3, EnqueuedFits, StepFits DEF EnqueueDriverEvent, Mutable
<1>4. ASSUME NEW i \in Ids, NEW j \in Ids, NEW c \in AnyContract, EnqueueDriverEvents(i, j, c)
      PROVE  FitsAll'
  <2> DEFINE first == Upserted(active, i, c, TRUE, nextSeq)
             middle == nextSeq + Inserts(active, i)
             both == Upserted(first, j, c, TRUE, middle)
             last == middle + Inserts(first, j)
             k == Inserts(active, i) + Inserts(first, j)
  <2>1. /\ owner \in Owners /\ Sound(active) /\ nextSeq \in Nat
        /\ Fits(active) /\ Below(active, nextSeq)
    BY <1>1, <1>4 DEF EnqueueDriverEvents, Mutable
  <2>2. Sound(first) /\ Numbered(active, first, nextSeq, middle)
    BY <2>1, UpsertedIsNumbered
  <2>3. middle \in Nat /\ nextSeq <= middle
    BY <2>1, InsertsIsBinary
  <2>4. Become(IF both = active THEN active ELSE Trimmed(both), k)
    BY <1>4 DEF EnqueueDriverEvents
  <2> HIDE DEF first, middle
  <2>5. Below(first, middle)
    BY <2>1, <2>2, <2>3, NumberedStaysBelow
  <2>6. Sound(both) /\ Numbered(first, both, middle, last)
    BY <2>2, <2>3, UpsertedIsNumbered
  <2>7. last \in Nat /\ middle <= last
    BY <2>3, InsertsIsBinary
  <2> HIDE DEF both, k, last
  <2>8. Fits(Trimmed(both))
    BY <2>2, <2>3, <2>5, <2>6, <2>7, NumberedStaysBelow, TrimmedFits
  <2>9. Fits(IF both = active THEN active ELSE Trimmed(both))
    BY <2>1, <2>8
  <2>10. QED
    BY <2>1, <2>4, <2>9, StepFits
<1>5. ASSUME NEW p \in Ids, EnqueueProofMediaUpload(p)
      PROVE  FitsAll'
  BY <1>1, <1>5, ProofEnqueuedFits, StepFits DEF EnqueueProofMediaUpload, Mutable
<1>6. ASSUME NEW e \in Ids, NEW u \in Ids, NEW p \in Ids, ReplaceRejectedProofMedia(e, u, p)
      PROVE  FitsAll'
  BY <1>1, <1>6, MediaReplacedFits, StepFits DEF ReplaceRejectedProofMedia, Mutable
<1>7. ASSUME NEW i \in Ids, NEW hasReceipt \in BOOLEAN, Acknowledge(i, hasReceipt)
      PROVE  FitsAll'
  BY <1>1, <1>7, AcknowledgedSettles, SettlingStepFits DEF Acknowledge, Mutable
<1>8. ASSUME NEW i \in Ids, NEW reason \in Reasons, Quarantine(i, reason)
      PROVE  FitsAll'
  BY <1>1, <1>8, IsolatedSettles, SettlingStepFits DEF Quarantine, Mutable
<1>9. ASSUME NEW i \in Ids, NEW transient \in BOOLEAN, RecordRetryFailure(i, transient)
      PROVE  FitsAll'
  BY <1>1, <1>9, RetryFailedSettles, SettlingStepFits DEF RecordRetryFailure, Mutable
<1>10. ASSUME NEW i \in Ids, Discard(i)
      PROVE  FitsAll'
  BY <1>1, <1>10, DiscardSettles, SettlingStepFits DEF Discard, Mutable
<1>11. ASSUME NEW p \in Ids, RecordProofMediaUpload(p)
      PROVE  FitsAll'
  BY <1>1, <1>11, MarksSettle, SettlingStepFits DEF RecordProofMediaUpload, Mutable
<1>12. ASSUME NEW p \in Ids, RejectProofMedia(p)
      PROVE  FitsAll'
  BY <1>1, <1>12, MediaRejectedSettles, SettlingStepFits DEF RejectProofMedia, Mutable
<1>13. ASSUME NEW r \in Routes, BlockRouteSubmissions(r)
      PROVE  FitsAll'
  BY <1>1, <1>13, RouteBlockedSettles, SettlingStepFits DEF BlockRouteSubmissions, Mutable
<1>14. ASSUME NEW r \in Routes, DiscardRouteSubmissions(r)
      PROVE  FitsAll'
  BY <1>1, <1>14, RouteCleanedSettles, SettlingStepFits DEF DiscardRouteSubmissions, Mutable
<1>15. ASSUME SealForAccountChange
      PROVE  FitsAll'
  BY <1>1, <1>15, SealedSettles, SettlingStepFits DEF SealForAccountChange, Mutable
<1>16. ASSUME Clear
      PROVE  FitsAll'
  BY <1>1, <1>16, PurgedSettles, SettlingStepFits DEF Clear, Mutable
<1>17. ASSUME CompleteAccountDeletion
      PROVE  FitsAll'
  BY <1>1, <1>17, PurgedSettles, SettlingStepFits DEF CompleteAccountDeletion, Mutable
<1>18. ASSUME DiscardReconciliationRecords
      PROVE  FitsAll'
  BY <1>1, <1>18, ReconciledSettles, SettlingStepFits DEF DiscardReconciliationRecords, Mutable
<1>19. ASSUME NEW i \in Ids, MarkCompletionClearHeartbeatDelivered(i)
      PROVE  FitsAll'
  BY <1>1, <1>19, MarksSettle, SettlingStepFits DEF MarkCompletionClearHeartbeatDelivered, Mutable
<1>20. ASSUME NEW i \in Ids, ReopenCompletionClearHeartbeat(i)
      PROVE  FitsAll'
  BY <1>1, <1>20, MarksSettle, SettlingStepFits DEF ReopenCompletionClearHeartbeat
<1>21. ASSUME \E o \in Owners : BindAccountOwnerHash(o)
      PROVE  FitsAll'
  BY <1>2, <1>21 DEF BindAccountOwnerHash
<1>22. CASE StorageChanges \/ UNCHANGED vars
  BY <1>2, <1>22 DEF StorageChanges, vars
<1>23. QED
  BY <1>3, <1>4, <1>5, <1>6, <1>7, <1>8, <1>9, <1>10, <1>11, <1>12, <1>13, <1>14, <1>15, <1>16, <1>17, <1>18, <1>19, <1>20, <1>21, <1>22 DEF Next

(* OverCapacityOnlyWithEvidence: after any insertion, single or in a batch,   *)
(* an account has more pending rows than the capacity only when none of them  *)
(* is a location sample, for every capacity and any number of rows.           *)
THEOREM CapacityIsKept == Spec => []OverCapacityOnlyWithEvidence
<1>1. Init => FitsAll
  <2> SUFFICES ASSUME Init, NEW o \in Owners
               PROVE  Fits(rows[o])
    BY DEF FitsAll
  <2>1. \A i \in Ids : rows[o][i].state = "ABSENT"
    BY NoRowIsSound DEF Init
  <2>2. QED
    BY <2>1 DEF Fits
<1>2. FitsAll => OverCapacityOnlyWithEvidence
  BY DEF FitsAll, Fits, PendingRows, OverCapacityOnlyWithEvidence
<1>3. QED
  BY <1>1, <1>2, NextFits, InvariantHolds, PTL DEF Spec

--------------------------------------------------------------------------------
(* The files a cash completion owes.  A row is marked when the completion is  *)
(* inserted, or when it is captured to replace a refused file; the mark goes  *)
(* when a completion that refers to the row is acknowledged.  So the files of *)
(* two completions must be different ones; retainProofFile gives the copy of  *)
(* every capture a new UUID (durableProofFile.ts).                            *)

FilesOfOneCompletion ==
    \A e, f \in Ids : KindOf[e] = "cash" /\ e # f => ProofsOf[e] \cap ProofsOf[f] = {}

(* Stronger than CompletionOwesItsProofs: it also holds of a completion that  *)
(* was settled without the server's word, because an identity conflict may    *)
(* bring its row back as QUARANTINED.                                         *)
Unconfirmed(q, e) == KindOf[e] = "cash" /\ q[e].state # "ABSENT" /\ ~q[e].serverAck

Owes(q) ==
    \A e \in Ids :
        Unconfirmed(q, e) =>
            /\ q[e].contract # NoContract
            /\ \A p \in Ids : IsEvidenceOf(q, p, e, q[e].contract) => q[p].owed

(* An operator that touches nothing of this.                                  *)
SameMarks(i, before, after) ==
    /\ after.state = "ABSENT" <=> before.state = "ABSENT"
    /\ after.standsFor = before.standsFor
    /\ after.owed = before.owed
    /\ after.serverAck = before.serverAck
    /\ KindOf[i] \in {"cash", "proof"} => after.contract = before.contract

Stays(q, r) == \A i \in Ids : SameMarks(i, q[i], r[i])

LEMMA StaysOwes ==
    ASSUME NEW q, NEW r, Stays(q, r), Owes(q)
    PROVE  Owes(r)
<1> SUFFICES ASSUME NEW e \in Ids, Unconfirmed(r, e)
             PROVE  /\ r[e].contract # NoContract
                    /\ \A p \in Ids : IsEvidenceOf(r, p, e, r[e].contract) => r[p].owed
  BY DEF Owes
<1>1. Unconfirmed(q, e) /\ r[e].contract = q[e].contract
  BY DEF Unconfirmed, Stays, SameMarks
<1>2. ASSUME NEW p \in Ids, IsEvidenceOf(r, p, e, r[e].contract)
      PROVE  IsEvidenceOf(q, p, e, q[e].contract) /\ r[p].owed = q[p].owed
  BY <1>1, <1>2 DEF IsEvidenceOf, IsProof, Stays, SameMarks
<1>3. QED
  BY <1>1, <1>2 DEF Owes

LEMMA StaysOneRow ==
    ASSUME NEW q, Sound(q), NEW i \in Ids, NEW row, SameMarks(i, q[i], row)
    PROVE  Stays(q, [q EXCEPT ![i] = row])
  BY DEF Stays, SameMarks, Sound

LEMMA SettlingMarks ==
    ASSUME NEW i \in Ids, NEW row \in Row, row.state # "ABSENT", NEW word
    PROVE  /\ SameMarks(i, row, Discarded(row, word))
           /\ SameMarks(i, row, Quarantined(row, word))
           /\ SameMarks(i, row, Acked(row))
           /\ SameMarks(i, row, [Discarded(row, word) EXCEPT !.rejected = TRUE])
  BY DEF SameMarks, Discarded, Quarantined, Acked, Row

LEMMA CountingMarks ==
    ASSUME NEW i \in Ids, NEW row \in Row, NEW n, NEW yes
    PROVE  /\ SameMarks(i, row, row)
           /\ SameMarks(i, row, [row EXCEPT !.attempts = n])
           /\ SameMarks(i, row, [row EXCEPT !.uploaded = yes])
           /\ SameMarks(i, row, [row EXCEPT !.cleared = yes])
  BY DEF SameMarks, Row

LEMMA TrimmedStays ==
    ASSUME NEW q, Sound(q)
    PROVE  Stays(q, Trimmed(q))
<1>1. ASSUME NEW i \in Ids
      PROVE  SameMarks(i, q[i], Trimmed(q)[i])
  <2>1. CASE Trimmed(q)[i] = q[i]
    BY <2>1, SoundRow, CountingMarks
  <2>2. CASE q[i].state = "PENDING" /\ Trimmed(q)[i] = Discarded(q[i], "cleanup")
    <3>1. q[i] \in Row /\ q[i].state # "ABSENT"
      BY <2>2, SoundRow
    <3>2. SameMarks(i, q[i], Discarded(q[i], "cleanup"))
      BY <3>1, SettlingMarks
    <3>3. QED
      BY <2>2, <3>2
  <2>3. QED
    BY <2>1, <2>2, TrimmedRow
<1>2. QED
  BY <1>1 DEF Stays

LEMMA RowMethodsStay ==
    ASSUME NEW q, Sound(q), NEW i \in Ids
    PROVE  /\ \A reason \in Reasons : Stays(q, Isolated(q, i, reason))
           /\ \A transient \in BOOLEAN : Stays(q, RetryFailed(q, i, transient))
           /\ Stays(q, Dropped(q, i, "calledOff"))
           /\ Stays(q, MediaRecorded(q, i))
           /\ Stays(q, MediaRejected(q, i))
           /\ Stays(q, ClearMarked(q, i))
           /\ Stays(q, ClearReopened(q, i))
<1>1. q[i] \in Row
  BY SoundRow
<1>2. Stays(q, q)
  BY SoundRow, CountingMarks DEF Stays
<1>3. ASSUME q[i].state # "ABSENT", NEW word
      PROVE  /\ Stays(q, [q EXCEPT ![i] = Discarded(q[i], word)])
             /\ Stays(q, [q EXCEPT ![i] = Quarantined(q[i], word)])
             /\ Stays(q, [q EXCEPT ![i] = [Discarded(q[i], word) EXCEPT !.rejected = TRUE]])
  BY <1>1, <1>3, SettlingMarks, StaysOneRow
<1>4. ASSUME NEW n, NEW yes
      PROVE  /\ Stays(q, [q EXCEPT ![i] = [q[i] EXCEPT !.attempts = n]])
             /\ Stays(q, [q EXCEPT ![i] = [q[i] EXCEPT !.uploaded = yes]])
             /\ Stays(q, [q EXCEPT ![i] = [q[i] EXCEPT !.cleared = yes]])
  BY <1>1, CountingMarks, StaysOneRow
<1>5. \A reason \in Reasons : Stays(q, Isolated(q, i, reason))
  BY <1>2, <1>3 DEF Isolated
<1>6. \A transient \in BOOLEAN : Stays(q, RetryFailed(q, i, transient))
  BY <1>2, <1>4 DEF RetryFailed
<1>7. Stays(q, Dropped(q, i, "calledOff"))
  BY <1>2, <1>3 DEF Dropped
<1>8. Stays(q, MediaRecorded(q, i))
  BY <1>2, <1>4 DEF MediaRecorded
<1>9. Stays(q, MediaRejected(q, i))
  BY <1>2, <1>3 DEF MediaRejected
<1>10. Stays(q, ClearMarked(q, i)) /\ Stays(q, ClearReopened(q, i))
  BY <1>2, <1>4 DEF ClearMarked, ClearReopened
<1>11. QED
  BY <1>5, <1>6, <1>7, <1>8, <1>9, <1>10

LEMMA QueueMethodsStay ==
    ASSUME NEW q, Sound(q)
    PROVE  /\ \A r \in Routes : Stays(q, RouteBlocked(q, r)) /\ Stays(q, RouteCleaned(q, r))
           /\ Stays(q, Sealed(q)) /\ Stays(q, Purged(q)) /\ Stays(q, Erased(q))
           /\ Stays(q, Reconciled(q))
<1>1. ASSUME NEW i \in Ids, NEW row,
             \/ row = q[i]
             \/ /\ q[i].state # "ABSENT"
                /\ \/ \E word \in Causes : row = Discarded(q[i], word)
                   \/ \E word \in Reasons : row = Quarantined(q[i], word)
                   \/ row = Acked(q[i])
      PROVE  SameMarks(i, q[i], row)
  <2>1. q[i] \in Row
    BY SoundRow
  <2>2. SameMarks(i, q[i], q[i])
    BY <2>1, CountingMarks
  <2>3. ASSUME q[i].state # "ABSENT", NEW word
        PROVE  /\ SameMarks(i, q[i], Discarded(q[i], word))
               /\ SameMarks(i, q[i], Quarantined(q[i], word))
               /\ SameMarks(i, q[i], Acked(q[i]))
    BY <2>1, <2>3, SettlingMarks
  <2>4. QED
    BY <1>1, <2>2, <2>3
<1>2. ASSUME NEW r \in Routes, NEW i \in Ids
      PROVE  /\ \/ RouteBlocked(q, r)[i] = q[i]
                \/ /\ q[i].state # "ABSENT"
                   /\ \/ RouteBlocked(q, r)[i] = Discarded(q[i], "cleanup")
                      \/ RouteBlocked(q, r)[i] = Quarantined(q[i], "route")
             /\ \/ RouteCleaned(q, r)[i] = q[i]
                \/ q[i].state # "ABSENT" /\ RouteCleaned(q, r)[i] = Discarded(q[i], "cleanup")
  BY DEF RouteBlocked, RouteCleaned
<1>3. ASSUME NEW i \in Ids
      PROVE  /\ \/ Sealed(q)[i] = q[i]
                \/ /\ q[i].state # "ABSENT"
                   /\ \/ Sealed(q)[i] = Discarded(q[i], "cleanup")
                      \/ Sealed(q)[i] = Quarantined(q[i], "event")
             /\ \/ Purged(q)[i] = q[i]
                \/ q[i].state # "ABSENT" /\ Purged(q)[i] = Discarded(q[i], "decision")
             /\ \/ Erased(q)[i] = q[i]
                \/ q[i].state # "ABSENT" /\ Erased(q)[i] = Discarded(q[i], "decision")
             /\ \/ Reconciled(q)[i] = q[i]
                \/ q[i].state # "ABSENT" /\ Reconciled(q)[i] = Acked(q[i])
  BY DEF Sealed, Purged, Erased, Reconciled
<1>4. /\ "cleanup" \in Causes /\ "decision" \in Causes
      /\ "event" \in Reasons /\ "route" \in Reasons
  BY DEF Causes, Reasons
<1>5. \A r \in Routes : Stays(q, RouteBlocked(q, r)) /\ Stays(q, RouteCleaned(q, r))
  BY <1>1, <1>2, <1>4 DEF Stays
<1>6. /\ Stays(q, Sealed(q)) /\ Stays(q, Purged(q)) /\ Stays(q, Erased(q))
      /\ Stays(q, Reconciled(q))
  BY <1>1, <1>3, <1>4 DEF Stays
<1>7. QED
  BY <1>5, <1>6

LEMMA AcknowledgedOwes ==
    ASSUME FilesOfOneCompletion, NEW q, Sound(q), Owes(q), NEW i \in Ids,
           NEW hasReceipt \in BOOLEAN
    PROVE  Owes(Acknowledged(q, i, hasReceipt))
<1> DEFINE r == ReferenceProofs(q, i, q[i].contract, FALSE)
           row == [Acked(q[i]) EXCEPT !.serverAck = TRUE,
                                      !.receipt = q[i].receipt \/ KindOf[i] = "cash"]
           s == [r EXCEPT ![i] = row]
<1>1. CASE Acknowledged(q, i, hasReceipt) = q
  BY <1>1
<1>2. CASE q[i].state # "ABSENT" /\ Acknowledged(q, i, hasReceipt) = s
  <2>1. q[i] \in Row
    BY SoundRow
  <2>2. /\ row.serverAck = TRUE /\ row.state # "ABSENT"
        /\ row.standsFor = q[i].standsFor /\ row.contract = q[i].contract
        /\ row.owed = q[i].owed
    BY <2>1 DEF Acked, Row
  <2>3. s[i] = row /\ \A j \in Ids \ {i} : s[j] = r[j]
    BY DEF ReferenceProofs
  <2>4. ASSUME NEW j \in Ids
        PROVE  /\ r[j].state = q[j].state /\ r[j].serverAck = q[j].serverAck
               /\ r[j].standsFor = q[j].standsFor /\ r[j].contract = q[j].contract
               /\ r[j].owed = q[j].owed \/ IsEvidenceOf(q, j, i, q[i].contract)
    <3>1. q[j] \in Row
      BY SoundRow
    <3>2. \/ r[j] = q[j]
          \/ /\ IsEvidenceOf(q, j, i, q[i].contract)
             /\ r[j] = [q[j] EXCEPT !.owed = FALSE]
      BY DEF ReferenceProofs
    <3> HIDE DEF r
    <3>3. QED
      BY <3>1, <3>2 DEF Row
  <2> HIDE DEF r, row, s
  <2>5. ASSUME NEW e \in Ids, Unconfirmed(s, e)
        PROVE  e # i /\ Unconfirmed(q, e) /\ s[e].contract = q[e].contract
    BY <2>2, <2>3, <2>4, <2>5 DEF Unconfirmed
  <2>6. ASSUME NEW e \in Ids, NEW p \in Ids, Unconfirmed(s, e),
               IsEvidenceOf(s, p, e, s[e].contract)
        PROVE  s[p].owed
    <3>1. e # i /\ Unconfirmed(q, e) /\ s[e].contract = q[e].contract
      BY <2>5, <2>6
    <3>2. IsEvidenceOf(q, p, e, q[e].contract)
      BY <1>2, <2>2, <2>3, <2>4, <2>6, <3>1 DEF IsEvidenceOf
    <3>3. q[p].owed
      BY <3>1, <3>2 DEF Owes
    <3>4. ~IsEvidenceOf(q, p, i, q[i].contract)
      BY <3>1, <3>2 DEF IsEvidenceOf, FilesOfOneCompletion, Unconfirmed
    <3>5. s[p].owed = q[p].owed
      BY <2>2, <2>3, <2>4, <3>4
    <3>6. QED
      BY <3>3, <3>5
  <2>7. Owes(s)
    BY <2>5, <2>6 DEF Owes
  <2>8. QED
    BY <1>2, <2>7
<1>3. QED
  BY <1>1, <1>2 DEF Acknowledged

LEMMA UpsertedOwes ==
    ASSUME NEW q, Sound(q), Owes(q), NEW i \in Ids, NEW c \in AnyContract,
           NEW same \in BOOLEAN, NEW n \in Nat,
           ~IsProof(i), KindOf[i] = "cash" => c # NoContract
    PROVE  Owes(Upserted(q, i, c, same, n))
<1>1. CASE q[i].state = "ABSENT"
  <2> DEFINE r == ReferenceProofs(q, i, c, TRUE)
             row == NewRow(i, c, n)
             u == [r EXCEPT ![i] = row]
  <2>1. u[i] = row /\ \A j \in Ids \ {i} : u[j] = r[j]
    BY DEF ReferenceProofs
  <2>2. ASSUME NEW j \in Ids
        PROVE  /\ r[j].state = q[j].state /\ r[j].serverAck = q[j].serverAck
               /\ r[j].standsFor = q[j].standsFor /\ r[j].contract = q[j].contract
               /\ q[j].owed => r[j].owed
               /\ IsEvidenceOf(q, j, i, c) => r[j].owed
    BY SoundRow DEF ReferenceProofs, Row
  <2>3. row.contract = c
    BY DEF NewRow
  <2> HIDE DEF r, row, u
  <2>4. ASSUME NEW e \in Ids, Unconfirmed(u, e)
        PROVE  /\ u[e].contract # NoContract
               /\ \A p \in Ids : IsEvidenceOf(u, p, e, u[e].contract) => u[p].owed
    <3>1. ASSUME NEW p \in Ids, NEW d, IsEvidenceOf(u, p, e, d)
          PROVE  p # i /\ IsEvidenceOf(q, p, e, d)
      BY <2>1, <2>2, <3>1 DEF IsEvidenceOf
    <3>2. CASE e = i
      BY <2>1, <2>2, <2>3, <2>4, <3>1, <3>2 DEF Unconfirmed
    <3>3. CASE e # i
      <4>1. Unconfirmed(q, e) /\ u[e].contract = q[e].contract
        BY <2>1, <2>2, <2>4, <3>3 DEF Unconfirmed
      <4>2. QED
        BY <2>1, <2>2, <3>1, <4>1 DEF Owes
    <3>4. QED
      BY <3>2, <3>3
  <2>5. Owes(u)
    BY <2>4 DEF Owes
  <2>6. QED
    BY <1>1, <2>5 DEF Upserted, u, r, row
<1>2. CASE q[i].state # "ABSENT"
  <2> DEFINE m == Merged(q[i], i, c, same)
             u == [q EXCEPT ![i] = m]
  <2>1. q[i] \in Row
    BY SoundRow
  <2>2. CASE Unconfirmed(q, i) \/ KindOf[i] # "cash"
    <3>1. Unconfirmed(q, i) => Complete(i, q[i].contract)
      BY DEF Owes, Unconfirmed, Complete, IsLocation
    <3>2. \/ m = q[i]
          \/ KindOf[i] \notin {"cash", "proof"} /\ m = [q[i] EXCEPT !.contract = c]
          \/ m = Quarantined(q[i], "event")
          \/ m = Quarantined(q[i], "route")
      BY <2>2, <3>1 DEF Merged, IsProof
    <3>3. KindOf[i] \notin {"cash", "proof"}
             => SameMarks(i, q[i], [q[i] EXCEPT !.contract = c])
      BY <2>1 DEF SameMarks, Row
    <3>4. SameMarks(i, q[i], m)
      <4>1. /\ SameMarks(i, q[i], q[i])
            /\ SameMarks(i, q[i], Quarantined(q[i], "event"))
            /\ SameMarks(i, q[i], Quarantined(q[i], "route"))
        BY <1>2, <2>1, SettlingMarks, CountingMarks
      <4> HIDE DEF m
      <4>2. QED
        BY <3>2, <3>3, <4>1
    <3>5. Owes(u)
      BY <3>4, StaysOneRow, StaysOwes
    <3>6. QED
      BY <1>2, <3>5 DEF Upserted
  <2>3. CASE KindOf[i] = "cash" /\ ~Unconfirmed(q, i)
    <3>1. m.serverAck = q[i].serverAck /\ q[i].serverAck /\ m.state # "ABSENT"
      <4>1. \/ m = q[i]
            \/ m = [q[i] EXCEPT !.contract = c]
            \/ m = Quarantined(q[i], "event")
            \/ m = Quarantined(q[i], "route")
        BY DEF Merged
      <4>2. QED
        BY <1>2, <2>1, <2>3, <4>1 DEF Quarantined, Row, Unconfirmed
    <3> HIDE DEF m
    <3>2. u[i] = m /\ \A j \in Ids \ {i} : u[j] = q[j]
      BY DEF Sound
    <3>3. ASSUME NEW e \in Ids, Unconfirmed(u, e)
          PROVE  e # i /\ Unconfirmed(q, e)
      BY <3>1, <3>2, <3>3 DEF Unconfirmed
    <3>4. ASSUME NEW p \in Ids, NEW e \in Ids, NEW d, IsEvidenceOf(u, p, e, d)
          PROVE  p # i /\ IsEvidenceOf(q, p, e, d)
      BY <3>2, <3>4 DEF IsEvidenceOf
    <3>5. Owes(u)
      BY <3>2, <3>3, <3>4 DEF Owes
    <3>6. QED
      BY <1>2, <3>5 DEF Upserted, m
  <2>4. QED
    BY <2>2, <2>3
<1>3. QED
  BY <1>1, <1>2

LEMMA EnqueuedOwes ==
    ASSUME NEW q, Sound(q), Owes(q), NEW i \in Ids, NEW c \in AnyContract,
           NEW same \in BOOLEAN, NEW n \in Nat,
           ~IsProof(i), KindOf[i] = "cash" => c # NoContract
    PROVE  Owes(Enqueued(q, i, c, same, n))
<1> DEFINE u == Upserted(q, i, c, same, n)
<1>1. Sound(u) /\ Owes(u)
  BY UpsertedIsNumbered, UpsertedOwes
<1>2. Enqueued(q, i, c, same, n) \in {u, Trimmed(u)}
  BY DEF Enqueued
<1> HIDE DEF u
<1>3. Owes(Trimmed(u))
  BY <1>1, TrimmedStays, StaysOwes
<1>4. QED
  BY <1>1, <1>2, <1>3

(* A file is queued before the completion that refers to it.                  *)
LEMMA ProofEnqueuedOwes ==
    ASSUME NEW q, Sound(q), Owes(q), NEW p \in Ids, NEW n \in Nat, IsProof(p),
           \A e \in Ids : p \in ProofsOf[e] => q[e].state = "ABSENT"
    PROVE  Owes(ProofEnqueued(q, p, n))
<1>1. CASE q[p].state = "ABSENT"
  <2> DEFINE row == NewRow(p, ProofScope[p], n)
             u == [q EXCEPT ![p] = row]
  <2>1. RowIsSound(p, row) /\ row.seq = n /\ row.standsFor = p
    BY ItemsAssumption, NewRowIsSound DEF NewRow
  <2>2. ProofEnqueued(q, p, n) = Trimmed(u)
    BY <1>1 DEF ProofEnqueued
  <2> HIDE DEF row
  <2>3. u[p] = row /\ \A j \in Ids \ {p} : u[j] = q[j]
    BY DEF Sound
  <2>4. Sound(u)
    BY <1>1, <2>1, KeepsSelf, InsertIsNumbered
  <2> HIDE DEF u
  <2>5. ASSUME NEW e \in Ids, Unconfirmed(u, e)
        PROVE  e # p /\ Unconfirmed(q, e) /\ u[e].contract = q[e].contract
    BY <2>3, <2>5 DEF Unconfirmed, IsProof
  <2>6. ASSUME NEW e \in Ids, NEW f \in Ids, NEW d, q[e].state # "ABSENT",
               IsEvidenceOf(u, f, e, d)
        PROVE  f # p /\ IsEvidenceOf(q, f, e, d)
    BY <2>1, <2>3, <2>6 DEF IsEvidenceOf
  <2>7. Owes(u)
    BY <2>3, <2>5, <2>6 DEF Owes, Unconfirmed
  <2>8. QED
    BY <2>2, <2>4, <2>7, TrimmedStays, StaysOwes
<1>2. CASE q[p].state # "ABSENT"
  BY <1>2 DEF ProofEnqueued
<1>3. QED
  BY <1>1, <1>2

LEMMA MediaReplacedOwes ==
    ASSUME NEW q, Sound(q), Owes(q), NEW p \in Ids, NEW u \in Ids, NEW n \in Nat, IsProof(p),
           \A e \in Ids : p \notin ProofsOf[e]
    PROVE  Owes(MediaReplaced(q, p, u, n))
<1> DEFINE stored == ProofEnqueued(q, p, n)
           row == [stored[p] EXCEPT !.standsFor = u, !.owed = TRUE]
           s == [stored EXCEPT ![p] = row]
<1>1. Sound(stored) /\ Owes(stored)
  BY ProofEnqueuedIsNumbered, ProofEnqueuedOwes
<1>2. MediaReplaced(q, p, u, n) = s
  BY DEF MediaReplaced
<1> HIDE DEF stored
<1>3. row.owed = TRUE
  BY <1>1, SoundRow DEF Row
<1> HIDE DEF row
<1>4. s[p] = row /\ \A j \in Ids \ {p} : s[j] = stored[j]
  BY <1>1 DEF Sound
<1> HIDE DEF s
<1>5. ASSUME NEW e \in Ids, Unconfirmed(s, e)
      PROVE  e # p /\ Unconfirmed(stored, e) /\ s[e].contract = stored[e].contract
  BY <1>4, <1>5 DEF Unconfirmed, IsProof
<1>6. ASSUME NEW e \in Ids, NEW f \in Ids, NEW d, f # p, IsEvidenceOf(s, f, e, d)
      PROVE  IsEvidenceOf(stored, f, e, d) /\ s[f] = stored[f]
  BY <1>4, <1>6 DEF IsEvidenceOf
<1>7. ASSUME NEW e \in Ids, Unconfirmed(s, e)
      PROVE  /\ s[e].contract # NoContract
             /\ \A f \in Ids : IsEvidenceOf(s, f, e, s[e].contract) => s[f].owed
  BY <1>1, <1>3, <1>4, <1>5, <1>6, <1>7 DEF Owes
<1>8. QED
  BY <1>2, <1>7 DEF Owes

OwesAll == \A o \in Owners : Owes(rows[o])

LEMMA StepOwes ==
    ASSUME Inv, OwesAll, owner \in Owners, NEW q, NEW k, Owes(q), Become(q, k)
    PROVE  OwesAll'
<1>1. /\ rows'[owner] = q
      /\ \A o \in Owners \ {owner} : rows'[o] = rows[o]
  BY DEF Become, Inv
<1>2. ASSUME NEW o \in Owners
      PROVE  Owes(rows'[o])
  BY <1>1 DEF OwesAll
<1>3. QED
  BY <1>2 DEF OwesAll, Owes, Unconfirmed, IsEvidenceOf

LEMMA StayingStepOwes ==
    ASSUME Inv, OwesAll, owner \in Owners, NEW q, NEW k, Stays(active, q), Become(q, k)
    PROVE  OwesAll'
<1>1. Owes(active)
  BY DEF OwesAll, active
<1>2. Owes(q)
  BY <1>1, StaysOwes
<1>3. QED
  BY <1>2, StepOwes

LEMMA NextOwes ==
    ASSUME FilesOfOneCompletion
    PROVE  Inv /\ OwesAll /\ [Next]_vars => OwesAll'
<1> SUFFICES ASSUME Inv, OwesAll, [Next]_vars PROVE OwesAll'
  OBVIOUS
<1>1. ASSUME owner # NoOwner
      PROVE  /\ owner \in Owners /\ Sound(active) /\ nextSeq \in Nat
             /\ Owes(active)
  BY <1>1 DEF Inv, OwesAll, active
<1>2. ASSUME UNCHANGED rows
      PROVE  OwesAll'
  BY <1>2 DEF OwesAll, Owes, Unconfirmed, IsEvidenceOf
<1>3. ASSUME NEW i \in Ids, NEW c \in AnyContract, NEW same \in BOOLEAN,
             EnqueueDriverEvent(i, c, same)
      PROVE  OwesAll'
  BY <1>1, <1>3, EnqueuedOwes, StepOwes DEF EnqueueDriverEvent, Mutable
<1>4. ASSUME NEW i \in Ids, NEW j \in Ids, NEW c \in AnyContract, EnqueueDriverEvents(i, j, c)
      PROVE  OwesAll'
  <2> DEFINE first == Upserted(active, i, c, TRUE, nextSeq)
             middle == nextSeq + Inserts(active, i)
             both == Upserted(first, j, c, TRUE, middle)
             k == Inserts(active, i) + Inserts(first, j)
  <2>1. /\ owner \in Owners /\ Sound(active) /\ nextSeq \in Nat /\ Owes(active)
        /\ KindOf[i] = "location" /\ KindOf[j] = "location"
    BY <1>1, <1>4 DEF EnqueueDriverEvents, Mutable, IsLocation
  <2>2. /\ ~IsProof(i) /\ ~IsProof(j) /\ KindOf[i] # "cash" /\ KindOf[j] # "cash"
    BY <2>1 DEF IsProof
  <2>3. Sound(first) /\ Owes(first)
    BY <2>1, <2>2, UpsertedIsNumbered, UpsertedOwes
  <2>4. middle \in Nat
    BY <2>1, InsertsIsBinary
  <2>5. Become(IF both = active THEN active ELSE Trimmed(both), k)
    BY <1>4 DEF EnqueueDriverEvents
  <2> HIDE DEF first, middle
  <2>6. Sound(both) /\ Owes(both)
    BY <2>2, <2>3, <2>4, UpsertedIsNumbered, UpsertedOwes
  <2> HIDE DEF both, k
  <2>7. Owes(Trimmed(both))
    BY <2>6, TrimmedStays, StaysOwes
  <2>8. Owes(IF both = active THEN active ELSE Trimmed(both))
    BY <2>1, <2>7
  <2>9. QED
    BY <2>1, <2>5, <2>8, StepOwes
<1>5. ASSUME NEW p \in Ids, EnqueueProofMediaUpload(p)
      PROVE  OwesAll'
  BY <1>1, <1>5, ProofEnqueuedOwes, StepOwes DEF EnqueueProofMediaUpload, Mutable
<1>6. ASSUME NEW e \in Ids, NEW u \in Ids, NEW p \in Ids, ReplaceRejectedProofMedia(e, u, p)
      PROVE  OwesAll'
  BY <1>1, <1>6, MediaReplacedOwes, StepOwes DEF ReplaceRejectedProofMedia, Mutable
<1>7. ASSUME NEW i \in Ids, NEW hasReceipt \in BOOLEAN, Acknowledge(i, hasReceipt)
      PROVE  OwesAll'
  BY <1>1, <1>7, AcknowledgedOwes, StepOwes DEF Acknowledge, Mutable
<1>8. ASSUME NEW i \in Ids, NEW reason \in Reasons, Quarantine(i, reason)
      PROVE  OwesAll'
  BY <1>1, <1>8, RowMethodsStay, StayingStepOwes DEF Quarantine, Mutable
<1>9. ASSUME NEW i \in Ids, NEW transient \in BOOLEAN, RecordRetryFailure(i, transient)
      PROVE  OwesAll'
  BY <1>1, <1>9, RowMethodsStay, StayingStepOwes DEF RecordRetryFailure, Mutable
<1>10. ASSUME NEW i \in Ids, Discard(i)
      PROVE  OwesAll'
  BY <1>1, <1>10, RowMethodsStay, StayingStepOwes DEF Discard, Mutable
<1>11. ASSUME NEW p \in Ids, RecordProofMediaUpload(p)
      PROVE  OwesAll'
  BY <1>1, <1>11, RowMethodsStay, StayingStepOwes DEF RecordProofMediaUpload, Mutable
<1>12. ASSUME NEW p \in Ids, RejectProofMedia(p)
      PROVE  OwesAll'
  BY <1>1, <1>12, RowMethodsStay, StayingStepOwes DEF RejectProofMedia, Mutable
<1>13. ASSUME NEW r \in Routes, BlockRouteSubmissions(r)
      PROVE  OwesAll'
  BY <1>1, <1>13, QueueMethodsStay, StayingStepOwes DEF BlockRouteSubmissions, Mutable
<1>14. ASSUME NEW r \in Routes, DiscardRouteSubmissions(r)
      PROVE  OwesAll'
  BY <1>1, <1>14, QueueMethodsStay, StayingStepOwes DEF DiscardRouteSubmissions, Mutable
<1>15. ASSUME SealForAccountChange
      PROVE  OwesAll'
  BY <1>1, <1>15, QueueMethodsStay, StayingStepOwes DEF SealForAccountChange, Mutable
<1>16. ASSUME Clear
      PROVE  OwesAll'
  BY <1>1, <1>16, QueueMethodsStay, StayingStepOwes DEF Clear, Mutable
<1>17. ASSUME CompleteAccountDeletion
      PROVE  OwesAll'
  BY <1>1, <1>17, QueueMethodsStay, StayingStepOwes DEF CompleteAccountDeletion, Mutable
<1>18. ASSUME DiscardReconciliationRecords
      PROVE  OwesAll'
  BY <1>1, <1>18, QueueMethodsStay, StayingStepOwes DEF DiscardReconciliationRecords, Mutable
<1>19. ASSUME NEW i \in Ids, MarkCompletionClearHeartbeatDelivered(i)
      PROVE  OwesAll'
  BY <1>1, <1>19, RowMethodsStay, StayingStepOwes DEF MarkCompletionClearHeartbeatDelivered, Mutable
<1>20. ASSUME NEW i \in Ids, ReopenCompletionClearHeartbeat(i)
      PROVE  OwesAll'
  BY <1>1, <1>20, RowMethodsStay, StayingStepOwes DEF ReopenCompletionClearHeartbeat
<1>21. ASSUME \E o \in Owners : BindAccountOwnerHash(o)
      PROVE  OwesAll'
  BY <1>2, <1>21 DEF BindAccountOwnerHash
<1>22. CASE StorageChanges \/ UNCHANGED vars
  BY <1>2, <1>22 DEF StorageChanges, vars
<1>23. QED
  BY <1>3, <1>4, <1>5, <1>6, <1>7, <1>8, <1>9, <1>10, <1>11, <1>12, <1>13, <1>14, <1>15, <1>16, <1>17, <1>18, <1>19, <1>20, <1>21, <1>22 DEF Next

(* CompletionOwesItsProofs: while the server has not confirmed a cash         *)
(* completion, every proof row it refers to is kept from the purge, in        *)
(* whatever order files were stored, uploaded, refused and replaced.          *)
THEOREM ProofsAreKeptForCompletions ==
    ASSUME FilesOfOneCompletion
    PROVE  Spec => []CompletionOwesItsProofs
<1>1. Init => OwesAll
  <2> SUFFICES ASSUME Init, NEW o \in Owners
               PROVE  Owes(rows[o])
    BY DEF OwesAll
  <2>1. \A i \in Ids : rows[o][i].state = "ABSENT"
    BY NoRowIsSound DEF Init
  <2>2. QED
    BY <2>1 DEF Owes, Unconfirmed
<1>2. OwesAll => CompletionOwesItsProofs
  BY DEF OwesAll, Owes, Unconfirmed, CompletionOwesItsProofs
<1>3. Inv /\ OwesAll /\ [Next]_vars => OwesAll'
  BY NextOwes
<1>4. QED
  BY <1>1, <1>2, <1>3, InvariantHolds, PTL DEF Spec

================================================================================
