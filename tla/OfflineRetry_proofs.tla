-------------------------- MODULE OfflineRetry_proofs --------------------------
(***************************************************************************)
(* What holds of the retry pass, the direct senders and everything that    *)
(* runs beside them, for every set of accounts, rows, routes, publications *)
(* and senders and every bound.                                            *)
(*                                                                         *)
(* The rows only ever advance (Progress): they are not renumbered, what is *)
(* settled stays settled, and a SERVER_ACK has something to vouch for it.  *)
(* `Writes` says so of a whole step, so that the rest of the invariant is  *)
(* about what the pass (PassGood), the senders (SendersGood) and the       *)
(* history (HistoryGood) may rely on while the rows advance under them.    *)
(***************************************************************************)
EXTENDS OfflineRetry, OfflineEvidence_proofs

Present(row) == row.state # "ABSENT"
HasBeenSent(i) == \E req \in sent : req.id = i
IsResult(i) == KindOf[i] \in TerminalStops
IsRouteEnd(i) == KindOf[i] \in RouteEnds

--------------------------------------------------------------------------------
(* The retry pass p over the rows R, with the account own bound.              *)

Phases == {"idle", "loop", "send", "stopReceipt", "endReceipt", "post", "upload", "persist"}

PassRecord ==
    [phase : Phases, route : Routes \cup {IdlePass.route}, access : AnyContract,
     allow : BOOLEAN, by : Owners \cup {NoOwner}, aborted : BOOLEAN, todo : SUBSET Ids,
     snap : [Ids -> [recon : Reasons \cup {"none"}, contract : AnyContract, spent : BOOLEAN]],
     item : Ids \cup {IdlePass.item}, resume : {"next", "posted", "completed", "uploaded"},
     workflowBlocked : BOOLEAN, routeBlocked : BOOLEAN, completed : BOOLEAN,
     suspended : BOOLEAN]

(* The rows the pass has not finished with.                                   *)
Remaining(p) == p.todo \cup (IF p.phase = "loop" THEN {} ELSE {p.item})
Blocked(p) == p.workflowBlocked \/ p.routeBlocked

(* What the phase says of the row the pass is at.                             *)
ItemFits(p, row) ==
    /\ p.phase = "stopReceipt" => KindOf[p.item] = "cash"
    /\ p.phase = "endReceipt" => IsRouteEnd(p.item) /\ ~Blocked(p)
    /\ p.phase = "post" => ~IsProof(p.item)
    /\ p.phase = "upload" => IsProof(p.item)
    /\ p.phase = "persist" =>
          /\ IsOrdered(p.item) => Settled(row)
          /\ p.resume = "uploaded" => IsProof(p.item) /\ row.uploaded
          /\ p.resume = "completed" => IsRouteEnd(p.item)

(* No live workflow event of the route is ahead of what remains: those that   *)
(* are live and not in the pass's snapshot were queued after it was taken.    *)
HeadsFirst(p, q) ==
    ~Blocked(p) /\ ~p.completed =>
        \A j \in Ids \ Remaining(p), k \in Remaining(p) :
            IsOrdered(j) /\ RouteOf[j] = p.route /\ Live(q[j]) => q[j].seq > q[k].seq

PassAtWork(p, q, own) ==
    /\ p.by \in Owners /\ own \in Owners /\ p.item \in Ids
    /\ p.phase \in {"loop", "send", "persist"} => own = p.by
    /\ \A i \in Remaining(p) : RouteOf[i] = p.route /\ Present(q[i])
    /\ p.phase # "loop" => \A i \in p.todo : q[p.item].seq < q[i].seq
    /\ ItemFits(p, q[p.item])
    /\ p.completed => p.phase = "loop" /\ \A i \in p.todo : ~IsResult(i)
    /\ \A i \in Remaining(p) : p.snap[i].recon # "none" /\ IsOrdered(i) => p.workflowBlocked
    /\ \A e, f \in Remaining(p) : IsRouteEnd(e) /\ IsResult(f) => q[f].seq < q[e].seq
    /\ HeadsFirst(p, q)

PassGood(p, R, own) ==
    /\ p \in PassRecord
    /\ p.phase # "idle" => PassAtWork(p, R[p.by], own)

--------------------------------------------------------------------------------
(* The senders, and what the history of the rows tells.                       *)

SenderRecord ==
    [phase : {"idle", "saving", "deactivating", "post"}, item : Ids \cup {IdleSender.item},
     contract : AnyContract, by : Owners \cup {NoOwner}]

SenderAtWork(s) ==
    /\ s.item \in Ids /\ s.by \in Owners /\ owner \in Owners
    /\ IsOrdered(s.item) /\ s.contract \in Contracts /\ recorder[s.item] = s.by
    /\ \A o \in Owners : Present(rows[o][s.item]) => rows[o][s.item].contract = s.contract
    /\ s.phase \in {"saving", "deactivating"} =>
          owner = s.by /\ \A o \in Owners \ {s.by} : ~Present(rows[o][s.item])
    /\ s.phase = "saving" => IsResult(s.item) \/ IsRouteEnd(s.item)
    /\ s.phase = "deactivating" => IsRouteEnd(s.item)
    /\ s.phase = "post" => HasBeenSent(s.item)
    /\ IsRouteEnd(s.item) => rows[s.by][s.item].cause # "calledOff"

SendersGood ==
    /\ live \in [Senders -> SenderRecord]
    /\ \A x \in Senders : live[x].phase # "idle" => SenderAtWork(live[x])
    /\ \A x, y \in Senders :
          live[x].phase # "idle" /\ live[y].phase # "idle" /\ live[x].item = live[y].item
          => x = y

(* Every row that is not a file was recorded; results and route ends are      *)
(* queued when they are recorded, and a route end reaches another account's   *)
(* rows only after it was sent.                                               *)
HistoryGood ==
    /\ recorder \in [Ids -> Owners \cup {NoOwner}]
    /\ sent \in SUBSET [id : Ids, contract : AnyContract]
    /\ \A i \in Ids : HasBeenSent(i) => recorder[i] # NoOwner
    /\ \A o \in Owners, i \in Ids : Present(rows[o][i]) /\ ~IsProof(i) => recorder[i] # NoOwner
    /\ \A i \in Ids : (IsResult(i) \/ IsRouteEnd(i)) /\ recorder[i] # NoOwner
                      => Present(rows[recorder[i]][i])
    /\ \A i \in Ids : KindOf[i] = "cash" /\ recorder[i] # NoOwner
                      => rows[recorder[i]][i].state # "DISCARDED"
    /\ \A o \in Owners, i \in Ids : IsResult(i) /\ Present(rows[o][i]) => recorder[i] = o
    /\ \A o \in Owners, i \in Ids :
          IsRouteEnd(i) /\ Present(rows[o][i]) /\ recorder[i] # o
          => HasBeenSent(i) /\ rows[recorder[i]][i].cause # "calledOff"

(* After a route end no result of the route is queued, unless the end was     *)
(* called off.                                                                *)
EndsAreLast ==
    \A o \in Owners, e, f \in Ids :
        /\ IsRouteEnd(e) /\ IsResult(f) /\ RouteOf[e] = RouteOf[f]
        /\ Present(rows[o][e]) /\ Present(rows[o][f]) /\ rows[o][e].seq < rows[o][f].seq
        => rows[o][e].state = "DISCARDED"

CausesGood ==
    \A o \in Owners, i \in Ids : rows[o][i].cause # "none" => rows[o][i].state = "DISCARDED"

(* A SERVER_ACK has an upload or the server's record behind it.               *)
Vouched(i, row) == IF IsProof(i) THEN row.uploaded ELSE i \in Applied

AcksGood ==
    \A o \in Owners, i \in Ids :
        rows[o][i].serverAck => Present(rows[o][i]) /\ Vouched(i, rows[o][i])

WorldGood ==
    /\ account \in {"in", "leaving", "out"}
    /\ account # "out" => owner \in Owners
    /\ session \in [Routes -> Contracts]
    /\ terms \in [Routes -> Contracts]
    /\ applied \in Seq(Ids)

RetryInv ==
    /\ Inv
    /\ PassGood(pass, rows, owner)
    /\ SendersGood
    /\ HistoryGood
    /\ EndsAreLast
    /\ CausesGood
    /\ AcksGood
    /\ WorldGood
    /\ SentInOrder
    /\ CashCollectedOnce

--------------------------------------------------------------------------------
(* How the rows advance.                                                      *)

USE DEF Live, Settled, Present

Progress(i, a, b) ==
    /\ Present(a) => Present(b) /\ b.contract = a.contract /\ b.seq = a.seq
    /\ b.serverAck => a.serverAck \/ (Present(b) /\ Vouched(i, b))
    /\ Present(a) /\ a.uploaded => b.uploaded
    /\ Settled(a) => Settled(b)
    /\ a.state = "DISCARDED" => b.state = "DISCARDED" /\ b.cause = a.cause
    /\ (a.cause # "none" => a.state = "DISCARDED") => (b.cause # "none" => b.state = "DISCARDED")
    /\ KindOf[i] = "cash" /\ b.state = "DISCARDED" => a.state = "DISCARDED"

(* Only the route ends in off may be called off.                              *)
CalledOff(i, a, b) == IsRouteEnd(i) /\ b.cause = "calledOff" => a.cause = "calledOff"

Advances(q, r, off) ==
    \A i \in Ids : Progress(i, q[i], r[i]) /\ (i \in off \/ CalledOff(i, q[i], r[i]))

LEMMA AdvancesCompose ==
    ASSUME NEW q, NEW r, NEW s, NEW off, Advances(q, r, off), Advances(r, s, off)
    PROVE  Advances(q, s, off)
<1> SUFFICES ASSUME NEW i \in Ids
             PROVE  Progress(i, q[i], s[i]) /\ (i \in off \/ CalledOff(i, q[i], s[i]))
  BY DEF Advances
<1>1. Progress(i, q[i], r[i]) /\ Progress(i, r[i], s[i])
  BY DEF Advances
<1>2. i \in off \/ CalledOff(i, q[i], s[i])
  BY DEF Advances, CalledOff
<1>3. s[i].serverAck => q[i].serverAck \/ (Present(s[i]) /\ Vouched(i, s[i]))
  BY <1>1 DEF Progress, Vouched
<1>4. QED
  BY <1>1, <1>2, <1>3 DEF Progress

LEMMA AdvancesSelf ==
    ASSUME NEW q, NEW off
    PROVE  Advances(q, q, off)
  BY DEF Advances, Progress, CalledOff

LEMMA AdvancesMore ==
    ASSUME NEW q, NEW r, NEW off, Advances(q, r, {})
    PROVE  Advances(q, r, off)
  BY DEF Advances

(* What may become of one row.                                                *)
LEMMA CountingAdvances ==
    ASSUME NEW i \in Ids, NEW a \in Row, NEW n, NEW yes, NEW own
    PROVE  /\ Progress(i, a, [a EXCEPT !.attempts = n])
           /\ CalledOff(i, a, [a EXCEPT !.attempts = n])
           /\ Progress(i, a, [a EXCEPT !.owed = yes])
           /\ CalledOff(i, a, [a EXCEPT !.owed = yes])
           /\ Progress(i, a, [a EXCEPT !.uploaded = TRUE])
           /\ CalledOff(i, a, [a EXCEPT !.uploaded = TRUE])
<1>1. /\ Progress(i, a, [a EXCEPT !.attempts = n]) /\ CalledOff(i, a, [a EXCEPT !.attempts = n])
  BY DEF Progress, CalledOff, Row
<1>2. /\ Progress(i, a, [a EXCEPT !.owed = yes]) /\ CalledOff(i, a, [a EXCEPT !.owed = yes])
  BY DEF Progress, CalledOff, Row
<1>3. /\ Progress(i, a, [a EXCEPT !.uploaded = TRUE])
      /\ CalledOff(i, a, [a EXCEPT !.uploaded = TRUE])
  BY DEF Progress, CalledOff, Row
<1>4. QED
  BY <1>1, <1>2, <1>3

LEMMA QuarantinedAdvances ==
    ASSUME NEW i \in Ids, NEW a \in Row, Live(a), NEW reason
    PROVE  Progress(i, a, Quarantined(a, reason)) /\ CalledOff(i, a, Quarantined(a, reason))
  BY DEF Progress, CalledOff, Quarantined, Row

LEMMA DiscardedAdvances ==
    ASSUME NEW i \in Ids, NEW a \in Row, Live(a), KindOf[i] # "cash", NEW code
    PROVE  /\ Progress(i, a, Discarded(a, code))
           /\ ~IsRouteEnd(i) \/ code # "calledOff" => CalledOff(i, a, Discarded(a, code))
  BY DEF Progress, CalledOff, Discarded, Row

LEMMA AckedAdvances ==
    ASSUME NEW i \in Ids, NEW a \in Row, Live(a)
    PROVE  Progress(i, a, Acked(a)) /\ CalledOff(i, a, Acked(a))
  BY DEF Progress, CalledOff, Acked, Row

LEMMA VouchedAdvances ==
    ASSUME NEW i \in Ids, NEW a \in Row, Live(a), NEW receipt, Vouched(i, a)
    PROVE  LET b == [Acked(a) EXCEPT !.serverAck = TRUE, !.receipt = receipt]
           IN  Progress(i, a, b) /\ CalledOff(i, a, b)
<1> DEFINE b == [Acked(a) EXCEPT !.serverAck = TRUE, !.receipt = receipt]
<1>1. /\ b.state = "ACKNOWLEDGED" /\ b.cause = "none" /\ b.contract = a.contract
      /\ b.seq = a.seq /\ b.uploaded = a.uploaded
  BY DEF Acked, Row
<1> HIDE DEF b
<1>2. Vouched(i, b)
  BY <1>1 DEF Vouched
<1>3. Progress(i, a, b) /\ CalledOff(i, a, b)
  BY <1>1, <1>2 DEF Progress, CalledOff
<1>4. QED
  BY <1>3 DEF b

LEMMA AdvancesOneRow ==
    ASSUME NEW q, Sound(q), NEW i \in Ids, NEW row, NEW off, Progress(i, q[i], row),
           i \in off \/ CalledOff(i, q[i], row)
    PROVE  Advances(q, [q EXCEPT ![i] = row], off)
<1>1. \A j \in Ids : Progress(j, q[j], q[j]) /\ CalledOff(j, q[j], q[j])
  BY DEF Progress, CalledOff
<1>2. QED
  BY <1>1 DEF Advances, Sound

--------------------------------------------------------------------------------
(* The operators of the queue, one by one.                                    *)

LEMMA LocationIsPlain ==
    ASSUME NEW i \in Ids, IsLocation(i)
    PROVE  KindOf[i] # "cash" /\ ~IsRouteEnd(i) /\ ~IsResult(i) /\ ~IsOrdered(i) /\ ~IsProof(i)
  BY DEF IsLocation, IsRouteEnd, IsResult, IsOrdered, IsProof, OrderedKinds, TerminalStops,
         RouteEnds

LEMMA ProofIsPlain ==
    ASSUME NEW i \in Ids, IsProof(i)
    PROVE  KindOf[i] # "cash" /\ ~IsRouteEnd(i) /\ ~IsResult(i) /\ ~IsOrdered(i)
  BY DEF IsRouteEnd, IsResult, IsOrdered, IsProof, OrderedKinds, TerminalStops, RouteEnds

LEMMA TrimmedAdvances ==
    ASSUME NEW q, Sound(q)
    PROVE  Advances(q, Trimmed(q), {})
<1> SUFFICES ASSUME NEW i \in Ids
             PROVE  Progress(i, q[i], Trimmed(q)[i]) /\ CalledOff(i, q[i], Trimmed(q)[i])
  BY DEF Advances
<1>1. CASE Trimmed(q)[i] = q[i]
  BY <1>1 DEF Progress, CalledOff
<1>2. CASE /\ q[i].state = "PENDING" /\ IsLocation(i)
           /\ Trimmed(q)[i] = Discarded(q[i], "cleanup")
  <2>1. q[i] \in Row /\ Live(q[i]) /\ KindOf[i] # "cash"
    BY <1>2, SoundRow, LocationIsPlain
  <2>2. /\ Progress(i, q[i], Discarded(q[i], "cleanup"))
        /\ CalledOff(i, q[i], Discarded(q[i], "cleanup"))
    BY <2>1, DiscardedAdvances
  <2>3. QED
    BY <1>2, <2>2
<1>3. QED
  BY <1>1, <1>2, TrimmedRow

LEMMA ReferenceProofsAdvances ==
    ASSUME NEW q, Sound(q), NEW e \in Ids, NEW c, NEW owed \in BOOLEAN
    PROVE  Advances(q, ReferenceProofs(q, e, c, owed), {})
<1> SUFFICES ASSUME NEW i \in Ids
             PROVE  LET r == ReferenceProofs(q, e, c, owed)
                    IN  Progress(i, q[i], r[i]) /\ CalledOff(i, q[i], r[i])
  BY DEF Advances
<1>1. \/ ReferenceProofs(q, e, c, owed)[i] = q[i]
      \/ ReferenceProofs(q, e, c, owed)[i] = [q[i] EXCEPT !.owed = owed]
  BY DEF ReferenceProofs
<1>2. q[i] \in Row
  BY SoundRow
<1>3. Progress(i, q[i], [q[i] EXCEPT !.owed = owed]) /\ CalledOff(i, q[i], [q[i] EXCEPT !.owed = owed])
  BY <1>2, CountingAdvances
<1>4. Progress(i, q[i], q[i]) /\ CalledOff(i, q[i], q[i])
  BY DEF Progress, CalledOff
<1>5. QED
  BY <1>1, <1>3, <1>4

LEMMA AcknowledgedAdvances ==
    ASSUME NEW q, Sound(q), NEW i \in Ids, NEW hasReceipt \in BOOLEAN, Vouched(i, q[i])
    PROVE  Advances(q, Acknowledged(q, i, hasReceipt), {})
<1> DEFINE r == ReferenceProofs(q, i, q[i].contract, FALSE)
           row == [Acked(q[i]) EXCEPT !.serverAck = TRUE,
                                      !.receipt = q[i].receipt \/ KindOf[i] = "cash"]
           s == [r EXCEPT ![i] = row]
<1>1. CASE Acknowledged(q, i, hasReceipt) = q
  BY <1>1, AdvancesSelf
<1>2. CASE Live(q[i]) /\ Acknowledged(q, i, hasReceipt) = s
  <2>1. q[i] \in Row
    BY SoundRow
  <2>2. Advances(q, r, {})
    BY ReferenceProofsAdvances
  <2>3. Progress(i, q[i], row) /\ CalledOff(i, q[i], row)
    BY <1>2, <2>1, VouchedAdvances
  <2>4. s[i] = row /\ \A j \in Ids \ {i} : s[j] = r[j]
    BY DEF ReferenceProofs
  <2> HIDE DEF r, row, s
  <2>5. Advances(q, s, {})
    BY <2>2, <2>3, <2>4 DEF Advances
  <2>6. QED
    BY <1>2, <2>5
<1>3. QED
  BY <1>1, <1>2 DEF Acknowledged

LEMMA IsolatedAdvances ==
    ASSUME NEW q, Sound(q), NEW i \in Ids, NEW reason \in Reasons
    PROVE  Advances(q, Isolated(q, i, reason), {})
<1>1. Advances(q, q, {})
  BY AdvancesSelf
<1>2. ASSUME q[i].state = "PENDING"
      PROVE  Advances(q, [q EXCEPT ![i] = Quarantined(q[i], reason)], {})
  BY <1>2, SoundRow, QuarantinedAdvances, AdvancesOneRow
<1>3. QED
  BY <1>1, <1>2 DEF Isolated

LEMMA RetryFailedAdvances ==
    ASSUME NEW q, Sound(q), NEW i \in Ids, NEW transient \in BOOLEAN
    PROVE  Advances(q, RetryFailed(q, i, transient), {})
<1>1. Advances(q, q, {})
  BY AdvancesSelf
<1>2. Advances(q, [q EXCEPT ![i] = [q[i] EXCEPT !.attempts = q[i].attempts + 1]], {})
  BY SoundRow, CountingAdvances, AdvancesOneRow
<1>3. QED
  BY <1>1, <1>2 DEF RetryFailed

LEMMA DroppedAdvances ==
    ASSUME NEW q, Sound(q), NEW i \in Ids, NEW off, KindOf[i] # "cash", i \in off \/ ~IsRouteEnd(i)
    PROVE  Advances(q, Dropped(q, i, "calledOff"), off)
<1>1. Advances(q, q, off)
  BY AdvancesSelf
<1>2. ASSUME Live(q[i])
      PROVE  Advances(q, [q EXCEPT ![i] = Discarded(q[i], "calledOff")], off)
  BY <1>2, SoundRow, DiscardedAdvances, AdvancesOneRow
<1>3. QED
  BY <1>1, <1>2 DEF Dropped

(* The methods that go over all rows change each in one of three ways.        *)
LEMMA AdvancesRowByRow ==
    ASSUME NEW q, Sound(q), NEW r,
           \A i \in Ids :
              \/ r[i] = q[i]
              \/ Live(q[i]) /\ KindOf[i] # "cash" /\ r[i] = Discarded(q[i], "cleanup")
              \/ Live(q[i]) /\ \E reason \in Reasons : r[i] = Quarantined(q[i], reason)
              \/ Live(q[i]) /\ r[i] = Acked(q[i])
    PROVE  Advances(q, r, {})
<1> SUFFICES ASSUME NEW i \in Ids
             PROVE  Progress(i, q[i], r[i]) /\ CalledOff(i, q[i], r[i])
  BY DEF Advances
<1>1. CASE r[i] = q[i]
  BY <1>1 DEF Progress, CalledOff
<1>2. CASE Live(q[i]) /\ KindOf[i] # "cash" /\ r[i] = Discarded(q[i], "cleanup")
  BY <1>2, SoundRow, DiscardedAdvances
<1>3. CASE Live(q[i]) /\ \E reason \in Reasons : r[i] = Quarantined(q[i], reason)
  BY <1>3, SoundRow, QuarantinedAdvances
<1>4. CASE Live(q[i]) /\ r[i] = Acked(q[i])
  BY <1>4, SoundRow, AckedAdvances
<1>5. QED
  BY <1>1, <1>2, <1>3, <1>4

LEMMA QueueMethodsAdvance ==
    ASSUME NEW q, Sound(q)
    PROVE  /\ \A r \in Routes : Advances(q, RouteBlocked(q, r), {})
           /\ \A r \in Routes : Advances(q, RouteCleaned(q, r), {})
           /\ Advances(q, Sealed(q), {})
           /\ Advances(q, Reconciled(q), {})
<1>1. "route" \in Reasons /\ "event" \in Reasons
  BY DEF Reasons
<1>2. ASSUME NEW r \in Routes
      PROVE  Advances(q, RouteBlocked(q, r), {})
  <2>1. ASSUME NEW i \in Ids
        PROVE  \/ RouteBlocked(q, r)[i] = q[i]
               \/ Live(q[i]) /\ IsLocation(i) /\ RouteBlocked(q, r)[i] = Discarded(q[i], "cleanup")
               \/ Live(q[i]) /\ RouteBlocked(q, r)[i] = Quarantined(q[i], "route")
    BY DEF RouteBlocked
  <2>2. QED
    BY <1>1, <2>1, LocationIsPlain, AdvancesRowByRow
<1>3. ASSUME NEW r \in Routes
      PROVE  Advances(q, RouteCleaned(q, r), {})
  <2>1. ASSUME NEW i \in Ids
        PROVE  \/ RouteCleaned(q, r)[i] = q[i]
               \/ /\ Live(q[i]) /\ KindOf[i] # "cash"
                  /\ RouteCleaned(q, r)[i] = Discarded(q[i], "cleanup")
    BY DEF RouteCleaned, TerminalStops
  <2>2. QED
    BY <2>1, AdvancesRowByRow
<1>4. Advances(q, Sealed(q), {})
  <2>1. ASSUME NEW i \in Ids
        PROVE  \/ Sealed(q)[i] = q[i]
               \/ Live(q[i]) /\ IsLocation(i) /\ Sealed(q)[i] = Discarded(q[i], "cleanup")
               \/ Live(q[i]) /\ Sealed(q)[i] = Quarantined(q[i], "event")
    BY DEF Sealed
  <2>2. QED
    BY <1>1, <2>1, LocationIsPlain, AdvancesRowByRow
<1>5. Advances(q, Reconciled(q), {})
  <2>1. ASSUME NEW i \in Ids
        PROVE  Reconciled(q)[i] = q[i] \/ (Live(q[i]) /\ Reconciled(q)[i] = Acked(q[i]))
    BY DEF Reconciled
  <2>2. QED
    BY <2>1, AdvancesRowByRow
<1>6. QED
  BY <1>2, <1>3, <1>4, <1>5

LEMMA MediaRecordedAdvances ==
    ASSUME NEW q, Sound(q), NEW p \in Ids
    PROVE  Advances(q, MediaRecorded(q, p), {})
<1>1. Advances(q, q, {})
  BY AdvancesSelf
<1>2. Advances(q, [q EXCEPT ![p] = [q[p] EXCEPT !.uploaded = TRUE]], {})
  BY SoundRow, CountingAdvances, AdvancesOneRow
<1>3. QED
  BY <1>1, <1>2 DEF MediaRecorded

LEMMA MediaRejectedAdvances ==
    ASSUME NEW q, Sound(q), NEW p \in Ids
    PROVE  Advances(q, MediaRejected(q, p), {})
<1> DEFINE row == [Discarded(q[p], "refused") EXCEPT !.rejected = TRUE]
<1>1. CASE MediaRejected(q, p) = q
  BY <1>1, AdvancesSelf
<1>2. CASE IsProof(p) /\ q[p].state = "PENDING" /\ MediaRejected(q, p) = [q EXCEPT ![p] = row]
  <2>1. q[p] \in Row /\ KindOf[p] # "cash"
    BY <1>2, SoundRow, ProofIsPlain
  <2>2. /\ row.state = "DISCARDED" /\ row.cause = "refused" /\ row.contract = q[p].contract
        /\ row.seq = q[p].seq /\ row.uploaded = q[p].uploaded /\ row.serverAck = q[p].serverAck
    BY <2>1 DEF Discarded, Row
  <2> HIDE DEF row
  <2>3. Progress(p, q[p], row) /\ CalledOff(p, q[p], row)
    BY <1>2, <2>1, <2>2 DEF Progress, CalledOff
  <2>4. Advances(q, [q EXCEPT ![p] = row], {})
    BY <2>3, AdvancesOneRow
  <2>5. QED
    BY <1>2, <2>4
<1>3. MediaRejected(q, p) = IF IsProof(p) /\ q[p].state = "PENDING" /\ ~q[p].uploaded
                           THEN [q EXCEPT ![p] = row] ELSE q
  BY DEF MediaRejected
<1> HIDE DEF row
<1>4. QED
  BY <1>1, <1>2, <1>3

--------------------------------------------------------------------------------
(* What a method leaves: the bound account's rows q become r, with the new    *)
(* rows ins, numbered from n to m - 1.                                        *)

Leaves(q, r, ins, off, n, m) ==
    /\ Sound(r) /\ Numbered(q, r, n, m) /\ Advances(q, r, off)
    /\ \A i \in Ids : ~Present(q[i]) /\ Present(r[i]) => i \in ins

(* A method that inserts nothing.                                             *)
GoesOn(q, r, off) == Keeps(q, r) /\ Advances(q, r, off)

LEMMA GoesOnCompose ==
    ASSUME NEW q, NEW r, NEW s, NEW off, GoesOn(q, r, off), GoesOn(r, s, off)
    PROVE  GoesOn(q, s, off)
  BY KeepsComposes, AdvancesCompose DEF GoesOn

LEMMA GoesOnLeaves ==
    ASSUME NEW q, NEW r, NEW off, GoesOn(q, r, off), NEW ins, NEW n \in Nat
    PROVE  Leaves(q, r, ins, off, n, n)
<1>1. Numbered(q, r, n, n)
  BY KeepsAreNumbered DEF GoesOn
<1>2. QED
  BY <1>1 DEF GoesOn, Leaves, Keeps

LEMMA LeavesGoesOn ==
    ASSUME NEW q, NEW r, NEW s, NEW ins, NEW off, NEW n \in Nat, NEW m \in Nat,
           Leaves(q, r, ins, off, n, m), GoesOn(r, s, off)
    PROVE  Leaves(q, s, ins, off, n, m)
<1>1. Numbered(q, s, n, m)
  BY KeepingStaysNumbered DEF Leaves, GoesOn
<1>2. Advances(q, s, off)
  BY AdvancesCompose DEF Leaves, GoesOn
<1>3. QED
  BY <1>1, <1>2 DEF Leaves, GoesOn, Keeps

LEMMA GoesOnLeavesMore ==
    ASSUME NEW q, NEW r, NEW s, NEW ins, NEW off, NEW n \in Nat, NEW m \in Nat,
           GoesOn(q, r, off), Leaves(r, s, ins, off, n, m)
    PROVE  Leaves(q, s, ins, off, n, m)
<1>1. Numbered(q, s, n, m)
  BY DEF Leaves, GoesOn, Keeps, Numbered
<1>2. Advances(q, s, off)
  BY AdvancesCompose DEF Leaves, GoesOn
<1>3. QED
  BY <1>1, <1>2 DEF Leaves, GoesOn, Keeps

LEMMA RowMethodsGoOn ==
    ASSUME NEW q, Sound(q), NEW i \in Ids
    PROVE  /\ GoesOn(q, q, {})
           /\ Vouched(i, q[i]) => \A ok \in BOOLEAN : GoesOn(q, Acknowledged(q, i, ok), {})
           /\ \A reason \in Reasons : GoesOn(q, Isolated(q, i, reason), {})
           /\ \A transient \in BOOLEAN : GoesOn(q, RetryFailed(q, i, transient), {})
           /\ ~IsRouteEnd(i) /\ KindOf[i] # "cash" => GoesOn(q, Dropped(q, i, "calledOff"), {})
           /\ IsRouteEnd(i) => GoesOn(q, Dropped(q, i, "calledOff"), {i})
           /\ GoesOn(q, MediaRecorded(q, i), {})
           /\ GoesOn(q, MediaRejected(q, i), {})
<1>1. GoesOn(q, q, {})
  BY KeepsSelf, AdvancesSelf DEF GoesOn
<1>2. Vouched(i, q[i]) => \A ok \in BOOLEAN : GoesOn(q, Acknowledged(q, i, ok), {})
  BY AcknowledgedKeeps, AcknowledgedAdvances DEF GoesOn
<1>3. \A reason \in Reasons : GoesOn(q, Isolated(q, i, reason), {})
  BY IsolatedKeeps, IsolatedAdvances DEF GoesOn
<1>4. \A transient \in BOOLEAN : GoesOn(q, RetryFailed(q, i, transient), {})
  BY RetryFailedKeeps, RetryFailedAdvances DEF GoesOn
<1>5. Keeps(q, Dropped(q, i, "calledOff"))
  BY DroppedKeeps DEF Causes
<1>6. ~IsRouteEnd(i) /\ KindOf[i] # "cash" => GoesOn(q, Dropped(q, i, "calledOff"), {})
  BY <1>5, DroppedAdvances DEF GoesOn
<1>7. IsRouteEnd(i) => GoesOn(q, Dropped(q, i, "calledOff"), {i})
  BY <1>5, DroppedAdvances DEF GoesOn, IsRouteEnd, RouteEnds
<1>8. GoesOn(q, MediaRecorded(q, i), {}) /\ GoesOn(q, MediaRejected(q, i), {})
  BY MediaRecordedKeeps, MediaRecordedAdvances, MediaRejectedKeeps, MediaRejectedAdvances
     DEF GoesOn
<1>9. QED
  BY <1>1, <1>2, <1>3, <1>4, <1>6, <1>7, <1>8

LEMMA QueueMethodsGoOn ==
    ASSUME NEW q, Sound(q)
    PROVE  /\ \A r \in Routes : GoesOn(q, RouteBlocked(q, r), {})
           /\ \A r \in Routes : GoesOn(q, RouteCleaned(q, r), {})
           /\ GoesOn(q, Sealed(q), {})
           /\ GoesOn(q, Reconciled(q), {})
  BY QueueMethodsAdvance, RouteBlockedKeeps, RouteCleanedKeeps, SealedKeeps, ReconciledKeeps
     DEF GoesOn

LEMMA TrimmedGoesOn ==
    ASSUME NEW q, Sound(q)
    PROVE  GoesOn(q, Trimmed(q), {})
  BY TrimmedAdvances, TrimmedKeeps DEF GoesOn

(* A row is inserted with no history.                                         *)
LEMMA InsertLeaves ==
    ASSUME NEW q, NEW r, Sound(q), GoesOn(q, r, {}), NEW i \in Ids, q[i].state = "ABSENT",
           NEW c \in AnyContract, NEW n \in Nat
    PROVE  Leaves(q, [r EXCEPT ![i] = NewRow(i, c, n)], {i}, {}, n, n + 1)
<1> DEFINE row == NewRow(i, c, n)
           s == [r EXCEPT ![i] = row]
<1>1. RowIsSound(i, row) /\ row.seq = n
  BY NewRowIsSound
<1>2. row.state = "PENDING" /\ row.cause = "none" /\ row.serverAck = FALSE
  BY DEF NewRow
<1> HIDE DEF row
<1>3. Sound(s) /\ Numbered(q, s, n, n + 1)
  BY <1>1, InsertIsNumbered DEF GoesOn
<1>4. s[i] = row /\ \A j \in Ids \ {i} : s[j] = r[j]
  BY DEF GoesOn, Keeps, Sound
<1>5. Progress(i, q[i], row) /\ CalledOff(i, q[i], row)
  BY <1>2 DEF Progress, CalledOff
<1> HIDE DEF s
<1>6. Advances(q, s, {})
  BY <1>4, <1>5 DEF GoesOn, Advances
<1>7. \A j \in Ids : ~Present(q[j]) /\ Present(s[j]) => j \in {i}
  BY <1>4 DEF GoesOn, Keeps
<1>8. QED
  BY <1>3, <1>6, <1>7 DEF Leaves, s, row

(* enqueueDriverEvent, of an event that is new, or that is queued under the   *)
(* same contract already: a no-op.                                            *)
LEMMA EnqueuedLeaves ==
    ASSUME NEW q, Sound(q), NEW i \in Ids, NEW c \in AnyContract, NEW n \in Nat,
           Present(q[i]) => q[i].contract = c
    PROVE  /\ Leaves(q, Enqueued(q, i, c, TRUE, n), {i}, {}, n, n + Inserts(q, i))
           /\ Present(q[i]) => Enqueued(q, i, c, TRUE, n) = q
           /\ Present(Enqueued(q, i, c, TRUE, n)[i])
<1>1. CASE q[i].state = "ABSENT"
  <2> DEFINE r == ReferenceProofs(q, i, c, TRUE)
             u == [r EXCEPT ![i] = NewRow(i, c, n)]
  <2>1. GoesOn(q, r, {})
    BY ReferenceProofsKeeps, ReferenceProofsAdvances DEF GoesOn
  <2>2. Upserted(q, i, c, TRUE, n) = u /\ Inserts(q, i) = 1
    BY <1>1 DEF Upserted, Inserts
  <2>3. Enqueued(q, i, c, TRUE, n) \in {u, Trimmed(u)} \/ u = q
    BY <2>2 DEF Enqueued
  <2>4. u[i] = NewRow(i, c, n)
    BY DEF ReferenceProofs
  <2>5. Present(u[i]) /\ u # q
    <3>1. NewRow(i, c, n).state = "PENDING"
      BY DEF NewRow
    <3> HIDE DEF u
    <3>2. QED
      BY <1>1, <2>4, <3>1
  <2> HIDE DEF r
  <2>6. Leaves(q, u, {i}, {}, n, n + 1)
    BY <1>1, <2>1, InsertLeaves
  <2> HIDE DEF u
  <2>7. Sound(u) /\ n + 1 \in Nat
    BY <2>6 DEF Leaves
  <2>8. GoesOn(u, Trimmed(u), {})
    BY <2>7, TrimmedGoesOn
  <2>9. Leaves(q, Trimmed(u), {i}, {}, n, n + 1) /\ Present(Trimmed(u)[i])
    BY <2>5, <2>6, <2>7, <2>8, LeavesGoesOn DEF GoesOn, Keeps
  <2>10. QED
    BY <1>1, <2>2, <2>3, <2>5, <2>6, <2>9
<1>2. CASE q[i].state # "ABSENT"
  <2>1. Merged(q[i], i, c, TRUE) = q[i]
    BY <1>2 DEF Merged
  <2>2. Upserted(q, i, c, TRUE, n) = q
    BY <1>2, <2>1 DEF Upserted, Sound
  <2>3. Enqueued(q, i, c, TRUE, n) = q /\ n + Inserts(q, i) = n
    BY <1>2, <2>2 DEF Enqueued, Inserts
  <2>4. GoesOn(q, q, {})
    BY RowMethodsGoOn
  <2>5. Leaves(q, q, {i}, {}, n, n)
    BY <2>4, GoesOnLeaves
  <2>6. QED
    BY <1>2, <2>3, <2>5
<1>3. QED
  BY <1>1, <1>2

LEMMA ProofEnqueuedLeaves ==
    ASSUME NEW q, Sound(q), NEW p \in Ids, NEW n \in Nat, q[p].state = "ABSENT"
    PROVE  Leaves(q, ProofEnqueued(q, p, n), {p}, {}, n, n + 1)
<1> DEFINE u == [q EXCEPT ![p] = NewRow(p, ProofScope[p], n)]
<1>1. ProofScope[p] \in AnyContract /\ GoesOn(q, q, {})
  BY ItemsAssumption, RowMethodsGoOn
<1>2. ProofEnqueued(q, p, n) = Trimmed(u)
  BY DEF ProofEnqueued
<1>3. Leaves(q, u, {p}, {}, n, n + 1)
  BY <1>1, InsertLeaves
<1> HIDE DEF u
<1>4. GoesOn(u, Trimmed(u), {}) /\ n + 1 \in Nat
  BY <1>3, TrimmedGoesOn DEF Leaves
<1>5. QED
  BY <1>2, <1>3, <1>4, LeavesGoesOn

--------------------------------------------------------------------------------
(* A whole step, as far as the rows are concerned.                            *)

Writes(ins, off) ==
    /\ Inv'
    /\ \A o \in Owners, i \in Ids :
          /\ Progress(i, rows[o][i], rows'[o][i])
          /\ i \in off \/ CalledOff(i, rows[o][i], rows'[o][i])
          /\ ~Present(rows[o][i]) /\ Present(rows'[o][i]) =>
                o = owner /\ i \in ins /\ rows'[o][i].seq >= nextSeq

LEMMA BecomeWrites ==
    ASSUME Inv, owner \in Owners, NEW q, NEW k \in Nat, NEW ins, NEW off,
           Leaves(rows[owner], q, ins, off, nextSeq, nextSeq + k), Become(q, k)
    PROVE  Writes(ins, off) /\ rows'[owner] = q /\ \A o \in Owners \ {owner} : rows'[o] = rows[o]
<1>1. rows' = [rows EXCEPT ![owner] = q]
  BY DEF Become
<1>2. rows'[owner] = q /\ \A o \in Owners \ {owner} : rows'[o] = rows[o]
  BY <1>1 DEF Inv
<1>3. Inv'
  BY StepKeepsInvariant DEF Leaves
<1>4. ASSUME NEW o \in Owners, NEW i \in Ids
      PROVE  /\ Progress(i, rows[o][i], rows'[o][i])
             /\ i \in off \/ CalledOff(i, rows[o][i], rows'[o][i])
             /\ ~Present(rows[o][i]) /\ Present(rows'[o][i]) =>
                   o = owner /\ i \in ins /\ rows'[o][i].seq >= nextSeq
  <2>1. CASE o = owner
    <3>1. Progress(i, rows[o][i], q[i]) /\ (i \in off \/ CalledOff(i, rows[o][i], q[i]))
      BY <2>1 DEF Leaves, Advances
    <3>2. ASSUME ~Present(rows[o][i]), Present(q[i])
          PROVE  i \in ins /\ q[i].seq \in nextSeq..((nextSeq + k) - 1)
      BY <2>1, <3>2 DEF Leaves, Numbered
    <3>3. \A n \in nextSeq..((nextSeq + k) - 1) : n >= nextSeq
      BY DEF Inv
    <3>4. QED
      BY <1>2, <2>1, <3>1, <3>2, <3>3
  <2>2. CASE o # owner
    <3>1. rows'[o] = rows[o]
      BY <1>2, <2>2
    <3>2. Progress(i, rows[o][i], rows[o][i]) /\ CalledOff(i, rows[o][i], rows[o][i])
      BY DEF Progress, CalledOff
    <3>3. QED
      BY <3>1, <3>2
  <2>3. QED
    BY <2>1, <2>2
<1>5. QED
  BY <1>2, <1>3, <1>4 DEF Writes

LEMMA GoingOnWrites ==
    ASSUME Inv, owner \in Owners, NEW q, NEW off, GoesOn(rows[owner], q, off),
           rows' = [rows EXCEPT ![owner] = q], UNCHANGED <<owner, nextSeq, writable>>
    PROVE  Writes({}, off) /\ rows'[owner] = q /\ \A o \in Owners \ {owner} : rows'[o] = rows[o]
<1>1. nextSeq \in Nat /\ nextSeq + 0 = nextSeq /\ 0 \in Nat
  BY DEF Inv
<1>2. Become(q, 0)
  BY <1>1 DEF Become
<1>3. Leaves(rows[owner], q, {}, off, nextSeq, nextSeq + 0)
  BY <1>1, GoesOnLeaves
<1>4. QED
  BY <1>1, <1>2, <1>3, BecomeWrites

LEMMA SameRowsWrite ==
    ASSUME Inv, UNCHANGED <<rows, nextSeq>>, owner' \in Owners \cup {NoOwner}, writable' \in BOOLEAN
    PROVE  Writes({}, {})
<1>1. Inv'
  BY DEF Inv, NumbersBelowNext, QueueOrderTotal, Sound
<1>2. \A o \in Owners, i \in Ids :
         Progress(i, rows[o][i], rows'[o][i]) /\ CalledOff(i, rows[o][i], rows'[o][i])
  BY DEF Progress, CalledOff
<1>3. QED
  BY <1>1, <1>2 DEF Writes

(* What a step leaves of the rows: facts the rest of the proof uses.          *)
LEMMA WritesKeeps ==
    ASSUME Inv, NEW ins, NEW off, Writes(ins, off), NEW o \in Owners, NEW i \in Ids,
           Present(rows[o][i])
    PROVE  /\ Present(rows'[o][i])
           /\ rows'[o][i].seq = rows[o][i].seq
           /\ rows'[o][i].contract = rows[o][i].contract
           /\ rows[o][i].uploaded => rows'[o][i].uploaded
           /\ Settled(rows[o][i]) => Settled(rows'[o][i])
  BY DEF Writes, Progress

LEMMA WritesOrder ==
    ASSUME Inv, NEW ins, NEW off, Writes(ins, off), NEW o \in Owners, NEW i \in Ids, NEW j \in Ids,
           Present(rows[o][i]), ~Present(rows[o][j]), Present(rows'[o][j])
    PROVE  rows'[o][i].seq < rows'[o][j].seq
<1>1. rows'[o][j].seq >= nextSeq /\ rows[o][i].seq < nextSeq
  BY DEF Writes, Inv, NumbersBelowNext
<1>2. rows'[o][j].seq \in Nat /\ nextSeq \in Nat /\ rows[o][i].seq \in Nat
  BY DEF Writes, Inv, Row
<1>3. rows'[o][i].seq = rows[o][i].seq
  BY WritesKeeps
<1>4. QED
  BY <1>1, <1>2, <1>3

LEMMA RowTypes ==
    ASSUME Inv, NEW o \in Owners, NEW i \in Ids
    PROVE  /\ rows[o][i] \in Row /\ rows[o][i].seq \in Nat /\ rows[o][i].contract \in AnyContract
           /\ rows[o][i].state \in States
           /\ rows[o] \in [Ids -> Row] /\ Sound(rows[o])
  BY DEF Inv, Row

LEMMA LiveOrSettled ==
    ASSUME Inv, NEW o \in Owners, NEW i \in Ids
    PROVE  Present(rows[o][i]) <=> Live(rows[o][i]) \/ Settled(rows[o][i])
  BY RowTypes DEF States

LEMMA SeqsDiffer ==
    ASSUME Inv, NEW o \in Owners, NEW i \in Ids, NEW j \in Ids, i # j,
           Present(rows[o][i]), Present(rows[o][j])
    PROVE  rows[o][i].seq < rows[o][j].seq \/ rows[o][j].seq < rows[o][i].seq
<1>1. rows[o][i].seq # rows[o][j].seq
  BY DEF Inv, QueueOrderTotal
<1>2. QED
  BY <1>1, RowTypes

--------------------------------------------------------------------------------
(* The parts of the invariant that follow from how the rows advance.          *)

LEMMA AppliedGrows ==
    ASSUME NEW i, applied' = applied \/ (applied \in Seq(Ids) /\ \E j \in Ids : applied' = Append(applied, j)),
           i \in Applied
    PROVE  i \in Applied'
<1>1. CASE applied' = applied
  BY <1>1 DEF Applied
<1>2. CASE applied \in Seq(Ids) /\ \E j \in Ids : applied' = Append(applied, j)
  <2>1. PICK k \in 1..Len(applied) : applied[k] = i
    BY DEF Applied
  <2>2. k \in 1..Len(applied') /\ applied'[k] = i
    BY <1>2, <2>1
  <2>3. QED
    BY <2>2 DEF Applied
<1>3. QED
  BY <1>1, <1>2

LEMMA AcksStayGood ==
    ASSUME Inv, AcksGood, NEW ins, NEW off, Writes(ins, off), Applied \subseteq Applied'
    PROVE  AcksGood'
<1> SUFFICES ASSUME NEW o \in Owners, NEW i \in Ids, rows'[o][i].serverAck
             PROVE  Present(rows'[o][i]) /\ Vouched(i, rows[o][i])'
  BY DEF AcksGood
<1>1. Progress(i, rows[o][i], rows'[o][i])
  BY DEF Writes
<1>2. CASE rows[o][i].serverAck
  <2>1. Present(rows[o][i]) /\ Vouched(i, rows[o][i])
    BY <1>2 DEF AcksGood
  <2>2. Present(rows'[o][i]) /\ (rows[o][i].uploaded => rows'[o][i].uploaded)
    BY <2>1, WritesKeeps
  <2>3. QED
    BY <2>1, <2>2 DEF Vouched
<1>3. CASE Present(rows'[o][i]) /\ Vouched(i, rows'[o][i])
  BY <1>3 DEF Vouched
<1>4. QED
  BY <1>1, <1>2, <1>3 DEF Progress

LEMMA CausesStayGood ==
    ASSUME CausesGood, NEW ins, NEW off, Writes(ins, off)
    PROVE  CausesGood'
  BY DEF CausesGood, Writes, Progress

(* A result is queued only while its route has not ended.                     *)
LEMMA EndsStayLast ==
    ASSUME Inv, EndsAreLast, CausesGood, HistoryGood, NEW ins, NEW off, Writes(ins, off),
           \A i, j \in ins : i = j,
           \A i \in ins : IsResult(i) => ~Ended(RouteOf[i])
    PROVE  EndsAreLast'
<1> SUFFICES ASSUME NEW o \in Owners, NEW e \in Ids, NEW f \in Ids,
                    IsRouteEnd(e), IsResult(f), RouteOf[e] = RouteOf[f],
                    Present(rows'[o][e]), Present(rows'[o][f]),
                    rows'[o][e].seq < rows'[o][f].seq
             PROVE  rows'[o][e].state = "DISCARDED"
  BY DEF EndsAreLast, IsRouteEnd, IsResult
<1>1. Progress(e, rows[o][e], rows'[o][e])
  BY DEF Writes
<1>2. e # f
  BY DEF IsRouteEnd, IsResult, RouteEnds, TerminalStops
<1>3. CASE Present(rows[o][e]) /\ Present(rows[o][f])
  <2>1. rows[o][e].seq < rows[o][f].seq
    BY <1>3, WritesKeeps
  <2>2. rows[o][e].state = "DISCARDED"
    BY <1>3, <2>1 DEF EndsAreLast
  <2>3. QED
    BY <1>1, <2>2 DEF Progress
<1>4. CASE ~Present(rows[o][e]) /\ Present(rows[o][f])
  <2>1. rows'[o][f].seq < rows'[o][e].seq
    BY <1>4, WritesOrder
  <2>2. rows'[o][f].seq \in Nat /\ rows'[o][e].seq \in Nat
    BY DEF Writes, Inv, Row
  <2>3. QED
    BY <2>1, <2>2
<1>5. CASE Present(rows[o][e]) /\ ~Present(rows[o][f])
  <2>1. f \in ins
    BY <1>5 DEF Writes
  <2>2. ~Ended(RouteOf[e])
    BY <2>1
  <2>3. ~IsProof(e) /\ recorder[e] # NoOwner
    BY <1>5 DEF HistoryGood, IsProof, IsRouteEnd, RouteEnds
  <2>4. rows[recorder[e]][e].cause = "calledOff"
    BY <2>2, <2>3 DEF Ended, IsRouteEnd
  <2>5. recorder[e] = o
    BY <1>5, <2>4 DEF HistoryGood
  <2>6. rows[o][e].state = "DISCARDED"
    BY <2>4, <2>5 DEF CausesGood
  <2>7. QED
    BY <1>1, <2>6 DEF Progress
<1>6. CASE ~Present(rows[o][e]) /\ ~Present(rows[o][f])
  BY <1>2, <1>6 DEF Writes
<1>7. QED
  BY <1>3, <1>4, <1>5, <1>6

(* What is recorded stays recorded, under the same account.                   *)
RecordsKeep ==
    /\ recorder' \in [Ids -> Owners \cup {NoOwner}]
    /\ \A i \in Ids : recorder[i] # NoOwner => recorder'[i] = recorder[i]

SentGrows == sent \subseteq sent' /\ sent' \in SUBSET [id : Ids, contract : AnyContract]

LEMMA SentStaysSent ==
    ASSUME SentGrows, NEW i, HasBeenSent(i)
    PROVE  HasBeenSent(i)'
  BY DEF SentGrows, HasBeenSent

LEMMA HistoryStaysGood ==
    ASSUME Inv, HistoryGood, RecordsKeep, SentGrows,
           NEW ins, NEW off, Writes(ins, off),
           \A i \in Ids : HasBeenSent(i)' => HasBeenSent(i) \/ recorder'[i] # NoOwner,
           \A i \in ins : IsProof(i) \/ recorder'[i] # NoOwner,
           \A i \in Ids : recorder[i] = NoOwner /\ recorder'[i] # NoOwner /\ (IsResult(i) \/ IsRouteEnd(i))
                          => Present(rows'[recorder'[i]][i]),
           \A i \in ins : IsResult(i) => recorder'[i] = owner,
           \A i \in ins : IsRouteEnd(i) =>
              \/ recorder'[i] = owner
              \/ HasBeenSent(i) /\ recorder[i] # NoOwner /\ rows[recorder[i]][i].cause # "calledOff",
           \A i \in off, o \in Owners : Present(rows[o][i]) => recorder[i] = o,
           ins \cap off = {}
    PROVE  HistoryGood'
<1>1. \A i \in Ids : HasBeenSent(i)' => recorder'[i] # NoOwner
  <2> SUFFICES ASSUME NEW i \in Ids, HasBeenSent(i)' PROVE recorder'[i] # NoOwner
    OBVIOUS
  <2>1. CASE HasBeenSent(i)
    <3>1. recorder[i] # NoOwner
      BY <2>1 DEF HistoryGood
    <3>2. QED
      BY <3>1 DEF RecordsKeep
  <2>2. QED
    BY <2>1
<1>2. \A o \in Owners, i \in Ids : Present(rows'[o][i]) /\ ~IsProof(i) => recorder'[i] # NoOwner
  <2> SUFFICES ASSUME NEW o \in Owners, NEW i \in Ids, Present(rows'[o][i]), ~IsProof(i)
               PROVE  recorder'[i] # NoOwner
    OBVIOUS
  <2>1. CASE Present(rows[o][i])
    BY <2>1 DEF HistoryGood, RecordsKeep
  <2>2. CASE ~Present(rows[o][i])
    BY <2>2 DEF Writes
  <2>3. QED
    BY <2>1, <2>2
<1>3. \A i \in Ids : (IsResult(i) \/ IsRouteEnd(i)) /\ recorder'[i] # NoOwner
                     => Present(rows'[recorder'[i]][i])
  <2> SUFFICES ASSUME NEW i \in Ids, IsResult(i) \/ IsRouteEnd(i), recorder'[i] # NoOwner
               PROVE  Present(rows'[recorder'[i]][i])
    OBVIOUS
  <2>1. CASE recorder[i] # NoOwner
    <3>1. recorder'[i] = recorder[i] /\ recorder[i] \in Owners /\ Present(rows[recorder[i]][i])
      BY <2>1 DEF HistoryGood, RecordsKeep
    <3>2. QED
      BY <3>1, WritesKeeps
  <2>2. QED
    BY <2>1
<1>4. \A i \in Ids : KindOf[i] = "cash" /\ recorder'[i] # NoOwner
                     => rows'[recorder'[i]][i].state # "DISCARDED"
  <2> SUFFICES ASSUME NEW i \in Ids, KindOf[i] = "cash", recorder'[i] # NoOwner,
                      rows'[recorder'[i]][i].state = "DISCARDED"
               PROVE  FALSE
    OBVIOUS
  <2>1. recorder'[i] \in Owners
    BY DEF RecordsKeep
  <2>2. rows[recorder'[i]][i].state = "DISCARDED"
    BY <2>1 DEF Writes, Progress
  <2>3. recorder[i] # NoOwner
    BY <2>1, <2>2 DEF HistoryGood, IsProof
  <2>4. QED
    BY <2>2, <2>3 DEF HistoryGood, RecordsKeep
<1>5. \A o \in Owners, i \in Ids : IsResult(i) /\ Present(rows'[o][i]) => recorder'[i] = o
  <2> SUFFICES ASSUME NEW o \in Owners, NEW i \in Ids, IsResult(i), Present(rows'[o][i])
               PROVE  recorder'[i] = o
    OBVIOUS
  <2>1. CASE Present(rows[o][i])
    <3>1. recorder[i] = o /\ o # NoOwner
      BY <2>1, OwnersAssumption DEF HistoryGood
    <3>2. QED
      BY <3>1 DEF RecordsKeep
  <2>2. CASE ~Present(rows[o][i])
    BY <2>2 DEF Writes
  <2>3. QED
    BY <2>1, <2>2
<1>6. \A o \in Owners, i \in Ids :
         IsRouteEnd(i) /\ Present(rows'[o][i]) /\ recorder'[i] # o
         => HasBeenSent(i)' /\ rows'[recorder'[i]][i].cause # "calledOff"
  <2> SUFFICES ASSUME NEW o \in Owners, NEW i \in Ids,
                      IsRouteEnd(i), Present(rows'[o][i]), recorder'[i] # o
               PROVE  HasBeenSent(i)' /\ rows'[recorder'[i]][i].cause # "calledOff"
    OBVIOUS
  <2>1. i \notin off /\ HasBeenSent(i) /\ recorder[i] # NoOwner
        /\ rows[recorder[i]][i].cause # "calledOff"
    <3>1. CASE Present(rows[o][i])
      <4>1. ~IsProof(i)
        BY DEF IsRouteEnd, IsProof, RouteEnds
      <4>2. recorder[i] # NoOwner
        BY <3>1, <4>1 DEF HistoryGood
      <4>3. recorder[i] # o
        BY <4>2 DEF RecordsKeep
      <4>4. QED
        BY <3>1, <4>2, <4>3 DEF HistoryGood
    <3>2. CASE ~Present(rows[o][i])
      <4>1. o = owner /\ i \in ins
        BY <3>2 DEF Writes
      <4>2. QED
        BY <4>1
    <3>3. QED
      BY <3>1, <3>2
  <2>2. recorder'[i] = recorder[i] /\ recorder[i] \in Owners
    BY <2>1 DEF RecordsKeep, HistoryGood
  <2>3. CalledOff(i, rows[recorder[i]][i], rows'[recorder[i]][i])
    BY <2>1, <2>2 DEF Writes
  <2>4. QED
    BY <2>1, <2>2, <2>3, SentStaysSent DEF CalledOff
<1>7. QED
  BY <1>1, <1>2, <1>3, <1>4, <1>5, <1>6 DEF HistoryGood, RecordsKeep, SentGrows

LEMMA SentStaysInOrder ==
    ASSUME Inv, SentInOrder, HistoryGood, RecordsKeep, SentGrows,
           NEW ins, NEW off, Writes(ins, off),
           \A y \in Ids : HasBeenSent(y)' /\ ~HasBeenSent(y) /\ (IsResult(y) \/ IsRouteEnd(y)) =>
              \A o \in Owners, x \in Ids :
                 SameRoute(x, y) /\ Owned(o, x) /\ Owned(o, y) /\ rows[o][x].seq < rows[o][y].seq
                 => Settled(rows[o][x]),
           \A y \in ins : (IsResult(y) \/ IsRouteEnd(y)) /\ HasBeenSent(y)' => recorder'[y] # owner
    PROVE  SentInOrder'
<1> SUFFICES ASSUME NEW o \in Owners, NEW x \in Ids, NEW y \in Ids,
                    SameRoute(x, y), Present(rows'[o][x]), recorder'[x] = o,
                    Present(rows'[o][y]), recorder'[y] = o,
                    rows'[o][x].seq < rows'[o][y].seq,
                    IsResult(y) \/ IsRouteEnd(y), HasBeenSent(y)'
             PROVE  Settled(rows'[o][x])
  BY DEF SentInOrder, Owned, HasBeenSent, IsResult, IsRouteEnd, SameRoute
<1>1. Present(rows[o][y])
  BY DEF Writes
<1>2. Present(rows[o][x])
  <2>1. ASSUME ~Present(rows[o][x])
        PROVE  rows'[o][y].seq < rows'[o][x].seq
    BY <1>1, <2>1, WritesOrder
  <2>2. rows'[o][x].seq \in Nat /\ rows'[o][y].seq \in Nat
    BY DEF Writes, Inv, Row
  <2>3. QED
    BY <2>1, <2>2
<1>3. ~IsProof(x) /\ ~IsProof(y)
  BY DEF SameRoute, IsOrdered, IsProof, OrderedKinds, TerminalStops, RouteEnds
<1>4. Owned(o, x) /\ Owned(o, y)
  BY <1>1, <1>2, <1>3 DEF Owned, HistoryGood, RecordsKeep
<1>5. rows[o][x].seq < rows[o][y].seq
  BY <1>1, <1>2, WritesKeeps
<1>6. Settled(rows[o][x])
  <2>1. CASE HasBeenSent(y)
    BY <1>4, <1>5, <2>1 DEF SentInOrder, HasBeenSent, IsResult, IsRouteEnd
  <2>2. CASE ~HasBeenSent(y)
    BY <1>4, <1>5, <2>2
  <2>3. QED
    BY <2>1, <2>2
<1>7. QED
  BY <1>2, <1>6, WritesKeeps

(* Senders that a step leaves alone.                                          *)
LEMMA SenderStaysAtWork ==
    ASSUME Inv, RecordsKeep, SentGrows, NEW ins, NEW off, Writes(ins, off), owner' \in Owners,
           NEW y \in Senders, live[y].phase # "idle", SenderAtWork(live[y]), live'[y] = live[y],
           live[y].phase \in {"saving", "deactivating"} => owner' = owner,
           live[y].item \notin ins, live[y].item \notin off
    PROVE  SenderAtWork(live[y])'
<1> DEFINE s == live[y]
           i == live[y].item
<1>1. /\ i \in Ids /\ s.by \in Owners /\ IsOrdered(i) /\ s.contract \in Contracts
      /\ recorder[i] = s.by
  BY DEF SenderAtWork
<1>2. recorder'[i] = s.by
  BY <1>1, OwnersAssumption DEF RecordsKeep
<1>3. ASSUME NEW o \in Owners, Present(rows'[o][i])
      PROVE  Present(rows[o][i]) /\ rows'[o][i].contract = s.contract
  <2>1. Present(rows[o][i])
    BY <1>1, <1>3 DEF Writes
  <2>2. rows'[o][i].contract = rows[o][i].contract
    BY <1>1, <2>1, WritesKeeps
  <2>3. QED
    BY <2>1, <2>2 DEF SenderAtWork
<1>4. s.phase \in {"saving", "deactivating"} =>
          owner' = s.by /\ \A o \in Owners \ {s.by} : ~Present(rows'[o][i])
  BY <1>3 DEF SenderAtWork
<1>5. s.phase = "post" => HasBeenSent(i)'
  BY SentStaysSent DEF SenderAtWork
<1>6. IsRouteEnd(i) => rows'[s.by][i].cause # "calledOff"
  BY <1>1 DEF SenderAtWork, Writes, CalledOff
<1>7. QED
  BY <1>1, <1>2, <1>3, <1>4, <1>5, <1>6 DEF SenderAtWork

LEMMA SendersStayGood ==
    ASSUME Inv, SendersGood, RecordsKeep, SentGrows, NEW ins, NEW off, Writes(ins, off),
           UNCHANGED live, owner' = owner \/
              (owner' \in Owners /\ \A y \in Senders : live[y].phase \notin {"saving", "deactivating"}),
           \A y \in Senders : live[y].phase # "idle" =>
              live[y].item \notin ins /\ live[y].item \notin off
    PROVE  SendersGood'
<1>1. ASSUME NEW y \in Senders, live[y].phase # "idle"
      PROVE  SenderAtWork(live[y])'
  <2>1. SenderAtWork(live[y]) /\ owner' \in Owners
    BY <1>1 DEF SendersGood, SenderAtWork
  <2>2. live[y].phase \in {"saving", "deactivating"} => owner' = owner
    OBVIOUS
  <2>3. QED
    BY <1>1, <2>1, <2>2, SenderStaysAtWork
<1>2. QED
  BY <1>1 DEF SendersGood

(* Sender x goes on as l; its own item may be inserted or called off.         *)
Turns(x, l, ins, off) ==
    /\ live' = [live EXCEPT ![x] = l]
    /\ l.phase # "idle" => SenderAtWork(live[x])'
    /\ \A y \in Senders : live[y].phase # "idle" /\ y # x =>
          /\ live[y].item \notin ins /\ live[y].item \notin off
          /\ l.phase # "idle" => live[y].item # l.item

LEMMA SenderStepIsGood ==
    ASSUME Inv, SendersGood, RecordsKeep, SentGrows, NEW ins, NEW off, Writes(ins, off),
           UNCHANGED owner, owner \in Owners, NEW x \in Senders, NEW l \in SenderRecord,
           Turns(x, l, ins, off)
    PROVE  SendersGood'
<1>1. live'[x] = l /\ \A y \in Senders \ {x} : live'[y] = live[y]
  BY DEF SendersGood, Turns
<1>2. live' \in [Senders -> SenderRecord]
  BY DEF SendersGood, Turns
<1>3. ASSUME NEW y \in Senders, live'[y].phase # "idle"
      PROVE  SenderAtWork(live[y])'
  <2>1. CASE y = x
    BY <1>1, <1>3, <2>1 DEF Turns
  <2>2. CASE y # x
    <3>1. live'[y] = live[y] /\ live[y].phase # "idle"
      BY <1>1, <1>3, <2>2
    <3>2. SenderAtWork(live[y])
      BY <3>1 DEF SendersGood
    <3>3. live[y].item \notin ins /\ live[y].item \notin off
      BY <2>2, <3>1 DEF Turns
    <3>4. owner' \in Owners
      OBVIOUS
    <3>5. QED
      BY <2>2, <3>1, <3>2, <3>3, <3>4, SenderStaysAtWork
  <2>3. QED
    BY <2>1, <2>2
<1>4. ASSUME NEW y \in Senders, NEW z \in Senders,
             live'[y].phase # "idle", live'[z].phase # "idle", live'[y].item = live'[z].item
      PROVE  y = z
  BY <1>1, <1>4 DEF SendersGood, Turns
<1>5. QED
  BY <1>2, <1>3, <1>4 DEF SendersGood

--------------------------------------------------------------------------------
(* The retry pass while others write.                                         *)

LEMMA PassStaysGood ==
    ASSUME Inv, PassGood(pass, rows, owner), NEW ins, NEW off, Writes(ins, off),
           owner' \in Owners \/ owner' = owner,
           pass.phase \in {"loop", "send", "persist"} => owner' = owner
    PROVE  PassGood(pass, rows', owner')
<1> SUFFICES ASSUME pass.phase # "idle"
             PROVE  PassAtWork(pass, rows'[pass.by], owner')
  BY DEF PassGood
<1> DEFINE q == rows[pass.by]
           r == rows'[pass.by]
<1>1. PassAtWork(pass, q, owner) /\ pass \in PassRecord
  BY DEF PassGood
<1>2. pass.by \in Owners /\ owner' \in Owners /\ pass.item \in Ids
  BY <1>1 DEF PassAtWork
<1>3. \A i \in Remaining(pass) : i \in Ids /\ Present(q[i])
  BY <1>1 DEF PassAtWork, Remaining, PassRecord
<1>4. pass.todo \subseteq Remaining(pass) /\ (pass.phase # "loop" => pass.item \in Remaining(pass))
  BY DEF Remaining
<1>5. ASSUME NEW i \in Remaining(pass)
      PROVE  /\ Present(r[i]) /\ r[i].seq = q[i].seq
             /\ q[i].uploaded => r[i].uploaded
             /\ Settled(q[i]) => Settled(r[i])
  BY <1>2, <1>3, WritesKeeps
<1> HIDE DEF q, r
<1>6. \A i \in Remaining(pass) : RouteOf[i] = pass.route /\ Present(r[i])
  BY <1>1, <1>5 DEF PassAtWork
<1>7. pass.phase # "loop" => \A i \in pass.todo : r[pass.item].seq < r[i].seq
  BY <1>1, <1>4, <1>5 DEF PassAtWork
<1>8. ItemFits(pass, r[pass.item])
  <2>1. CASE pass.phase = "loop"
    BY <2>1 DEF ItemFits
  <2>2. CASE pass.phase # "loop"
    BY <1>1, <1>4, <1>5, <2>2 DEF PassAtWork, ItemFits
  <2>3. QED
    BY <2>1, <2>2
<1>9. \A e, f \in Remaining(pass) : IsRouteEnd(e) /\ IsResult(f) => r[f].seq < r[e].seq
  BY <1>1, <1>5 DEF PassAtWork
<1>10. HeadsFirst(pass, r)
  <2> SUFFICES ASSUME ~Blocked(pass), ~pass.completed,
                      NEW j \in Ids \ Remaining(pass), NEW k \in Remaining(pass),
                      IsOrdered(j), RouteOf[j] = pass.route, Live(r[j])
               PROVE  r[j].seq > r[k].seq
    BY DEF HeadsFirst
  <2>1. CASE Present(q[j])
    <3>1. r[j].seq = q[j].seq /\ ~Settled(q[j])
      BY <1>2, <2>1, WritesKeeps DEF q, r
    <3>2. Live(q[j])
      BY <1>2, <2>1, <3>1, LiveOrSettled DEF q
    <3>3. q[j].seq > q[k].seq
      BY <1>1, <3>2 DEF PassAtWork, HeadsFirst
    <3>4. QED
      BY <1>5, <3>1, <3>3
  <2>2. CASE ~Present(q[j])
    <3>1. r[k].seq < r[j].seq
      BY <1>2, <1>3, <2>2, WritesOrder DEF q, r
    <3>2. \A i \in Ids : r[i].seq \in Nat
      BY <1>2 DEF r, Writes, Inv, Row
    <3>3. k \in Ids /\ j \in Ids
      BY <1>3
    <3>4. QED
      BY <3>1, <3>2, <3>3
  <2>3. QED
    BY <2>1, <2>2
<1>11. pass.phase \in {"loop", "send", "persist"} => owner' = pass.by
  BY <1>1 DEF PassAtWork
<1>12. PassAtWork(pass, r, owner')
  BY <1>1, <1>2, <1>6, <1>7, <1>8, <1>9, <1>10, <1>11 DEF PassAtWork
<1>13. QED
  BY <1>12 DEF r

(* The next state of the pass, over the rows it left.                         *)
LEMMA IdleIsGood ==
    ASSUME NEW R, NEW own
    PROVE  PassGood(IdlePass, R, own)
<1>1. IdlePass \in PassRecord /\ IdlePass.phase = "idle"
  BY DEF IdlePass, PassRecord, Phases, NoStale, AnyContract
<1>2. QED
  BY <1>1 DEF PassGood

(* p2 is p, but for its phase, what it waits for and what it has found out.   *)
SameWork(p, p2) ==
    /\ p2 \in PassRecord
    /\ p2.item = p.item /\ p2.by = p.by /\ p2.todo = p.todo /\ p2.route = p.route
    /\ p2.snap = p.snap
    /\ p.workflowBlocked => p2.workflowBlocked
    /\ p.routeBlocked => p2.routeBlocked

LEMMA NextRowIsGood ==
    ASSUME NEW p, NEW R, NEW own, PassGood(p, R, own), p.phase \notin {"idle", "loop"},
           NEW p2, SameWork(p, p2), p2.phase = "loop", p2.completed = p.completed, own = p.by,
           IsOrdered(p.item) => Blocked(p2) \/ ~Live(R[p.by][p.item])
    PROVE  PassGood(p2, R, own)
<1> DEFINE q == R[p.by]
<1>1. PassAtWork(p, q, own)
  BY DEF PassGood
<1>2. ~p2.completed
  BY <1>1 DEF PassAtWork
<1>3. Remaining(p2) = p.todo /\ Remaining(p) = p.todo \cup {p.item}
  BY DEF Remaining, SameWork
<1> HIDE DEF q
<1>4. HeadsFirst(p2, q)
  <2> SUFFICES ASSUME ~Blocked(p2), NEW j \in Ids \ p.todo, NEW k \in p.todo,
                      IsOrdered(j), RouteOf[j] = p2.route, Live(q[j])
               PROVE  q[j].seq > q[k].seq
    BY <1>3 DEF HeadsFirst
  <2>1. ~Blocked(p) /\ ~p.completed /\ p2.route = p.route
    BY <1>2 DEF Blocked, SameWork
  <2>2. j # p.item
    BY DEF q
  <2>3. QED
    BY <1>1, <1>3, <2>1, <2>2 DEF PassAtWork, HeadsFirst
<1>5. ItemFits(p2, q[p2.item])
  BY DEF ItemFits
<1>6. \A i \in p.todo : p2.snap[i].recon # "none" /\ IsOrdered(i) => p2.workflowBlocked
  BY <1>1, <1>3 DEF PassAtWork, SameWork
<1>7. /\ \A i \in p.todo : RouteOf[i] = p2.route /\ Present(q[i])
      /\ \A e, f \in p.todo : IsRouteEnd(e) /\ IsResult(f) => q[f].seq < q[e].seq
  BY <1>1, <1>3 DEF PassAtWork, SameWork
<1>8. PassAtWork(p2, q, own)
  BY <1>1, <1>2, <1>3, <1>4, <1>5, <1>6, <1>7 DEF PassAtWork, SameWork
<1>9. QED
  BY <1>8 DEF PassGood, SameWork, q

LEMMA SameRowIsGood ==
    ASSUME NEW p, NEW R, NEW own, PassGood(p, R, own), p.phase \notin {"idle", "loop"},
           NEW p2, SameWork(p, p2), p2.phase \notin {"idle", "loop"}, p2.completed = p.completed,
           p2.workflowBlocked = p.workflowBlocked, p2.routeBlocked = p.routeBlocked,
           own = p.by, ItemFits(p2, R[p.by][p.item])
    PROVE  PassGood(p2, R, own)
<1> DEFINE q == R[p.by]
<1>1. PassAtWork(p, q, own)
  BY DEF PassGood
<1>2. Remaining(p2) = Remaining(p)
  BY DEF Remaining, SameWork
<1>3. Blocked(p2) = Blocked(p)
  BY DEF Blocked
<1> HIDE DEF q
<1>4. HeadsFirst(p2, q)
  <2>1. HeadsFirst(p, q)
    BY <1>1 DEF PassAtWork
  <2>2. QED
    BY <1>2, <1>3, <2>1 DEF HeadsFirst, SameWork
<1>5. ~p2.completed
  BY <1>1 DEF PassAtWork
<1>6. \A i \in Remaining(p2) : p2.snap[i].recon # "none" /\ IsOrdered(i) => p2.workflowBlocked
  BY <1>1, <1>2 DEF PassAtWork, SameWork
<1>7. /\ \A i \in Remaining(p2) : RouteOf[i] = p2.route /\ Present(q[i])
      /\ \A e, f \in Remaining(p2) : IsRouteEnd(e) /\ IsResult(f) => q[f].seq < q[e].seq
      /\ \A i \in p2.todo : q[p2.item].seq < q[i].seq
  BY <1>1, <1>2 DEF PassAtWork, SameWork
<1>8. ItemFits(p2, q[p2.item])
  BY DEF q, SameWork
<1>9. PassAtWork(p2, q, own)
  BY <1>1, <1>4, <1>5, <1>6, <1>7, <1>8 DEF PassAtWork, SameWork
<1>10. QED
  BY <1>9 DEF PassGood, SameWork, q

(* A route end is done: nothing of the route that remains is a result.        *)
LEMMA RouteDoneIsGood ==
    ASSUME NEW p, NEW R, NEW own, PassGood(p, R, own), p.phase \notin {"idle", "loop"},
           NEW p2, SameWork(p, p2), p2.phase = "loop", p2.completed = TRUE, own = p.by,
           IsRouteEnd(p.item), R[p.by] \in [Ids -> Row]
    PROVE  PassGood(p2, R, own)
<1> DEFINE q == R[p.by]
<1>1. PassAtWork(p, q, own) /\ p \in PassRecord
  BY DEF PassGood
<1>2. Remaining(p2) = p.todo /\ Remaining(p) = p.todo \cup {p.item} /\ p.todo \subseteq Ids
  BY <1>1 DEF Remaining, SameWork, PassRecord
<1>3. \A i \in Ids : q[i].seq \in Nat
  BY DEF Row
<1> HIDE DEF q
<1>4. ASSUME NEW i \in p.todo, IsResult(i)
      PROVE  FALSE
  <2>1. q[i].seq < q[p.item].seq /\ q[p.item].seq < q[i].seq
    BY <1>1, <1>2, <1>4 DEF PassAtWork
  <2>2. q[i].seq \in Nat /\ q[p.item].seq \in Nat
    BY <1>1, <1>2, <1>3 DEF PassAtWork
  <2>3. QED
    BY <2>1, <2>2
<1>5. HeadsFirst(p2, q)
  BY DEF HeadsFirst
<1>6. ItemFits(p2, q[p2.item])
  BY DEF ItemFits
<1>7. \A i \in p.todo : p2.snap[i].recon # "none" /\ IsOrdered(i) => p2.workflowBlocked
  BY <1>1, <1>2 DEF PassAtWork, SameWork
<1>8. /\ \A i \in p.todo : RouteOf[i] = p2.route /\ Present(q[i])
      /\ \A e, f \in p.todo : IsRouteEnd(e) /\ IsResult(f) => q[f].seq < q[e].seq
  BY <1>1, <1>2 DEF PassAtWork, SameWork
<1>9. PassAtWork(p2, q, own)
  BY <1>1, <1>2, <1>4, <1>5, <1>6, <1>7, <1>8 DEF PassAtWork, SameWork
<1>10. QED
  BY <1>9 DEF PassGood, SameWork, q

(* The pass takes its rows in the order of queueSequence: there is always an  *)
(* earliest one.  By the well-foundedness of strict inclusion, applied to the *)
(* sets of the rows up to a row.                                              *)
LEMMA EarliestExists ==
    ASSUME NEW q, \A i \in Ids : q[i].seq \in Nat, NEW todo, todo \subseteq Ids, todo # {}
    PROVE  \E i \in todo : \A j \in todo : q[i].seq <= q[j].seq
<1> DEFINE Upto(i) == {j \in todo : q[j].seq <= q[i].seq}
           T == {Upto(i) : i \in todo}
           smaller == StrictSubsetOrdering(todo)
<1>1. IsFiniteSet(todo)
  BY ItemsAssumption, FS_Subset
<1>2. IsWellFoundedOn(smaller, SUBSET todo)
  BY <1>1, FS_StrictSubsetOrderingWellFounded, FS_FiniteSubsetsOfFinite
<1>3. T \subseteq SUBSET todo /\ T # {}
  OBVIOUS
<1> HIDE DEF smaller
<1>4. \E A \in T : \A B \in T : ~(<<B, A>> \in smaller)
  <2> HIDE DEF T
  <2>1. QED
    BY <1>2, <1>3, WFMin
<1>5. PICK i \in todo : \A B \in T : ~(<<B, Upto(i)>> \in smaller)
  BY <1>4
<1>6. ASSUME NEW j \in todo
      PROVE  q[i].seq <= q[j].seq
  <2> SUFFICES ASSUME ~(q[i].seq <= q[j].seq) PROVE FALSE
    OBVIOUS
  <2>1. q[j].seq < q[i].seq /\ q[i].seq \in Nat /\ q[j].seq \in Nat
    OBVIOUS
  <2>2. \A k \in todo : q[k].seq \in Nat
    OBVIOUS
  <2>3. Upto(j) \subseteq Upto(i)
    BY <2>1, <2>2
  <2>4. i \in Upto(i) /\ i \notin Upto(j)
    BY <2>1
  <2>5. Upto(j) \in T /\ Upto(j) \subseteq todo /\ Upto(i) \subseteq todo
    OBVIOUS
  <2> HIDE DEF Upto, T
  <2>6. <<Upto(j), Upto(i)>> \in smaller
    BY <2>3, <2>4, <2>5 DEF smaller, StrictSubsetOrdering
  <2>7. QED
    BY <1>5, <2>5, <2>6
<1>7. QED
  BY <1>6

LEMMA TurnIsEarliest ==
    ASSUME Inv, PassGood(pass, rows, owner), pass.phase = "loop", pass.todo # {}
    PROVE  /\ Turn \in pass.todo
           /\ \A i \in pass.todo \ {Turn} : rows[pass.by][Turn].seq < rows[pass.by][i].seq
<1> DEFINE q == rows[pass.by]
<1>1. /\ pass.by \in Owners /\ pass.todo \subseteq Ids
      /\ \A i \in pass.todo : Present(q[i])
  BY DEF PassGood, PassAtWork, PassRecord, Remaining
<1>2. \A i \in Ids : q[i].seq \in Nat
  BY <1>1, RowTypes
<1>3. \E i \in pass.todo : \A j \in pass.todo : q[i].seq <= q[j].seq
  <2> HIDE DEF q
  <2>1. QED
    BY <1>1, <1>2, EarliestExists
<1>4. Turn \in pass.todo /\ \A j \in pass.todo : q[Turn].seq <= q[j].seq
  BY <1>3 DEF Turn
<1>5. ASSUME NEW i \in pass.todo, i # Turn
      PROVE  q[Turn].seq < q[i].seq
  <2>1. q[Turn].seq < q[i].seq \/ q[i].seq < q[Turn].seq
    BY <1>1, <1>4, <1>5, SeqsDiffer
  <2>2. q[Turn].seq \in Nat /\ q[i].seq \in Nat /\ q[Turn].seq <= q[i].seq
    BY <1>1, <1>2, <1>4
  <2>3. QED
    BY <2>1, <2>2
<1>6. QED
  BY <1>4, <1>5

LEMMA PassNextIsGood ==
    ASSUME Inv, PassGood(pass, rows, owner), PassNext
    PROVE  PassGood(pass', rows, owner)
<1> DEFINE q == rows[pass.by]
           p2 == pass'
           t == Turn
<1>1. pass \in PassRecord /\ PassAtWork(pass, q, owner) /\ pass.phase = "loop" /\ pass.todo # {}
  BY DEF PassNext, PassGood
<1>2. t \in pass.todo /\ t \in Ids /\ \A i \in pass.todo \ {t} : q[t].seq < q[i].seq
  BY <1>1, TurnIsEarliest DEF PassRecord
<1> HIDE DEF q, t
<1>3. /\ p2 \in PassRecord /\ p2.todo = pass.todo \ {t} /\ p2.item = t
      /\ p2.phase = IF Skipped(t) THEN "loop" ELSE IF LooksUpFirst(t) THEN "stopReceipt" ELSE "send"
      /\ p2.route = pass.route /\ p2.by = pass.by /\ p2.snap = pass.snap
      /\ p2.workflowBlocked = pass.workflowBlocked /\ p2.routeBlocked = pass.routeBlocked
      /\ p2.completed = pass.completed
  BY <1>1, <1>2 DEF PassNext, PassRecord, Phases, t
<1>4. Remaining(pass) = pass.todo /\ Remaining(p2) \subseteq pass.todo
  BY <1>1, <1>2, <1>3 DEF Remaining
<1>5. ~Skipped(t) => Remaining(p2) = pass.todo
  BY <1>2, <1>3 DEF Remaining
<1>6. ItemFits(p2, q[p2.item])
  BY <1>3 DEF ItemFits, LooksUpFirst
<1>7. HeadsFirst(p2, q)
  <2> SUFFICES ASSUME ~Blocked(p2), ~p2.completed,
                      NEW j \in Ids \ Remaining(p2), NEW k \in Remaining(p2),
                      IsOrdered(j), RouteOf[j] = p2.route, Live(q[j])
               PROVE  q[j].seq > q[k].seq
    BY DEF HeadsFirst
  <2>1. ~Blocked(pass) /\ ~pass.completed
    BY <1>3 DEF Blocked
  <2>2. CASE ~Skipped(t)
    BY <1>1, <1>3, <1>4, <1>5, <2>1, <2>2 DEF PassAtWork, HeadsFirst
  <2>3. CASE Skipped(t) /\ j # t
    <3>1. j \notin Remaining(pass) /\ k \in Remaining(pass)
      BY <1>3, <1>4, <2>3 DEF Remaining
    <3>2. QED
      BY <1>1, <1>3, <2>1, <3>1 DEF PassAtWork, HeadsFirst
  <2>4. CASE Skipped(t) /\ j = t
    <3>1. ~IsLocation(t)
      BY <1>2, <2>4, LocationIsPlain
    <3>2. QED
      BY <2>1, <2>4, <3>1 DEF Skipped, Blocked
  <2>5. QED
    BY <2>2, <2>3, <2>4
<1>8. p2.completed => p2.phase = "loop" /\ \A i \in p2.todo : ~IsResult(i)
  BY <1>1, <1>2, <1>3 DEF PassAtWork, Skipped, IsResult
<1>9. p2.phase # "loop" => \A i \in p2.todo : q[p2.item].seq < q[i].seq
  BY <1>2, <1>3
<1>10. /\ \A i \in Remaining(p2) : RouteOf[i] = p2.route /\ Present(q[i])
       /\ \A i \in Remaining(p2) : p2.snap[i].recon # "none" /\ IsOrdered(i) => p2.workflowBlocked
       /\ \A e, f \in Remaining(p2) : IsRouteEnd(e) /\ IsResult(f) => q[f].seq < q[e].seq
  BY <1>1, <1>3, <1>4 DEF PassAtWork
<1>11. owner = p2.by /\ p2.by \in Owners /\ owner \in Owners /\ p2.item \in Ids
  BY <1>1, <1>2, <1>3 DEF PassAtWork
<1>12. PassAtWork(p2, q, owner)
  BY <1>6, <1>7, <1>8, <1>9, <1>10, <1>11 DEF PassAtWork
<1>13. QED
  BY <1>3, <1>12 DEF PassGood, q

LEMMA PassStartIsGood ==
    ASSUME Inv, EndsAreLast, WorldGood, NEW r \in Routes, NEW allow \in BOOLEAN, PassStart(r, allow)
    PROVE  PassGood(pass', rows, owner)
<1> DEFINE q == rows[owner]
           queued == {i \in Ids : RouteOf[i] = r /\ Live(active[i])}
           refusals == {i \in queued : IsOrdered(i) /\ active[i].recon # "none"}
           todo == {i \in queued : active[i].recon = "none" \/ KindOf[i] = "cash"}
           p2 == pass'
<1>1. owner \in Owners /\ active = q
  BY DEF PassStart, Mutable, Inv, active
<1>2. \A i \in Ids : q[i] \in Row
  BY <1>1, RowTypes
<1>3. /\ p2.phase = "loop" /\ p2.route = r /\ p2.access = session[r] /\ p2.allow = allow
      /\ p2.by = owner /\ p2.aborted = FALSE /\ p2.todo = todo
      /\ p2.snap = [i \in Ids |-> IF i \in todo
                          THEN [recon |-> active[i].recon, contract |-> active[i].contract,
                                spent |-> active[i].attempts >= MaxAttempts]
                          ELSE NoStale[i]]
      /\ p2.item = IdlePass.item /\ p2.resume = "next"
      /\ p2.workflowBlocked = (refusals # {})
      /\ p2.routeBlocked = (\E i \in refusals :
             active[i].recon = "route" /\ ~Replaced(active[i].contract, session[r]))
      /\ p2.completed = FALSE /\ p2.suspended = FALSE
  BY DEF PassStart, IdlePass
<1>4. p2.snap \in [Ids -> [recon : Reasons \cup {"none"}, contract : AnyContract, spent : BOOLEAN]]
  <2> SUFFICES ASSUME NEW i \in Ids
               PROVE  /\ [recon |-> active[i].recon, contract |-> active[i].contract,
                          spent |-> active[i].attempts >= MaxAttempts]
                         \in [recon : Reasons \cup {"none"}, contract : AnyContract, spent : BOOLEAN]
                      /\ NoStale[i] \in [recon : Reasons \cup {"none"}, contract : AnyContract, spent : BOOLEAN]
    BY <1>3
  <2>1. active[i].recon \in Reasons \cup {"none"} /\ active[i].contract \in AnyContract
    BY <1>1, <1>2 DEF Row
  <2>2. QED
    BY <2>1 DEF NoStale, AnyContract
<1>5. todo # {} /\ todo \subseteq Ids
  BY DEF PassStart
<1>6. IdlePass.item \in Ids
  BY <1>5 DEF IdlePass
<1>7. p2 \in PassRecord
  <2> DEFINE wb == refusals # {}
             rb == \E i \in refusals :
                      active[i].recon = "route" /\ ~Replaced(active[i].contract, session[r])
  <2>1. IdlePass \in PassRecord
    BY IdleIsGood DEF PassGood
  <2>2. session[r] \in AnyContract
    BY DEF WorldGood, AnyContract
  <2>3. p2 = [IdlePass EXCEPT
              !.phase = "loop", !.route = r, !.access = session[r], !.allow = allow,
              !.by = owner, !.todo = todo, !.snap = p2.snap,
              !.workflowBlocked = wb, !.routeBlocked = rb]
    BY <1>3 DEF PassStart
  <2>4. wb \in BOOLEAN /\ rb \in BOOLEAN
    OBVIOUS
  <2> DEFINE snap == p2.snap
  <2> HIDE DEF wb, rb, p2, q, todo, refusals, snap
  <2>5. snap \in [Ids -> [recon : Reasons \cup {"none"}, contract : AnyContract, spent : BOOLEAN]]
    BY <1>4 DEF snap
  <2>6. p2 = [IdlePass EXCEPT
              !.phase = "loop", !.route = r, !.access = session[r], !.allow = allow,
              !.by = owner, !.todo = todo, !.snap = snap,
              !.workflowBlocked = wb, !.routeBlocked = rb]
    BY <2>3 DEF snap
  <2>7. p2 = [phase |-> "loop", route |-> r, access |-> session[r], allow |-> allow,
              by |-> owner, aborted |-> FALSE, todo |-> todo, snap |-> snap,
              item |-> IdlePass.item, resume |-> "next", workflowBlocked |-> wb,
              routeBlocked |-> rb, completed |-> FALSE, suspended |-> FALSE]
    BY <2>6 DEF IdlePass
  <2>8. QED
    BY <1>1, <1>5, <2>2, <2>4, <2>5, <2>7 DEF PassRecord, Phases
<1>8. p2.workflowBlocked <=> refusals # {}
  BY <1>3
<1>9. ASSUME NEW i \in Ids, IsOrdered(i), RouteOf[i] = r, Live(q[i]), ~p2.workflowBlocked
      PROVE  i \in todo
  BY <1>1, <1>8, <1>9
<1>10. ASSUME NEW i \in todo
       PROVE  /\ RouteOf[i] = r /\ Present(q[i]) /\ Live(q[i])
              /\ p2.snap[i].recon # "none" /\ IsOrdered(i) => i \in refusals
  BY <1>1, <1>3 DEF todo
<1> HIDE DEF p2, q, todo, refusals
<1>11. Remaining(p2) = todo
  BY <1>3 DEF Remaining
<1>12. HeadsFirst(p2, q)
  BY <1>3, <1>9, <1>11 DEF HeadsFirst, Blocked
<1>13. \A i \in todo : p2.snap[i].recon # "none" /\ IsOrdered(i) => p2.workflowBlocked
  BY <1>8, <1>10
<1>14. ASSUME NEW e \in todo, NEW f \in todo, IsRouteEnd(e), IsResult(f)
       PROVE  q[f].seq < q[e].seq
  <2>1. e # f
    BY <1>14 DEF IsRouteEnd, IsResult, RouteEnds, TerminalStops
  <2>2. Present(q[e]) /\ Present(q[f]) /\ RouteOf[e] = RouteOf[f] /\ q[e].state # "DISCARDED"
    BY <1>10
  <2>3. q[f].seq < q[e].seq \/ q[e].seq < q[f].seq
    BY <1>1, <1>5, <2>1, <2>2, SeqsDiffer DEF q
  <2>4. ~(q[e].seq < q[f].seq)
    BY <1>1, <1>5, <1>14, <2>2 DEF EndsAreLast, q
  <2>5. QED
    BY <2>3, <2>4
<1>15. ItemFits(p2, q[p2.item])
  BY <1>3 DEF ItemFits
<1>16. PassAtWork(p2, q, owner)
  BY <1>1, <1>3, <1>6, <1>10, <1>11, <1>12, <1>13, <1>14, <1>15 DEF PassAtWork
<1>17. QED
  BY <1>3, <1>7, <1>16 DEF PassGood, p2, q

--------------------------------------------------------------------------------
(* The steps of the pass, one by one.                                         *)

(* The rows the pass has done with one row more.                              *)
MovesOn(p, p2) == SameWork(p, p2) /\ p2.phase = "loop" /\ p2.completed = p.completed

LEMMA LoopingMovesOn ==
    ASSUME pass \in PassRecord
    PROVE  /\ MovesOn(pass, Looping)
           /\ \A i : MovesOn(pass, LoopBlocked(i)) /\ (IsOrdered(i) => Blocked(LoopBlocked(i)))
           /\ MovesOn(pass, RouteRefused) /\ Blocked(RouteRefused)
           /\ MovesOn(pass, [Looping EXCEPT !.workflowBlocked = TRUE])
           /\ Blocked([Looping EXCEPT !.workflowBlocked = TRUE])
           /\ MovesOn(pass, [Looping EXCEPT !.routeBlocked = TRUE])
           /\ Blocked([Looping EXCEPT !.routeBlocked = TRUE])
<1>1. Looping \in PassRecord /\ MovesOn(pass, Looping)
  BY DEF MovesOn, SameWork, Looping, PassRecord, Phases
<1>2. /\ MovesOn(pass, [Looping EXCEPT !.workflowBlocked = TRUE])
      /\ Blocked([Looping EXCEPT !.workflowBlocked = TRUE])
  BY DEF MovesOn, SameWork, Looping, PassRecord, Phases, Blocked
<1>3. /\ MovesOn(pass, [Looping EXCEPT !.routeBlocked = TRUE])
      /\ Blocked([Looping EXCEPT !.routeBlocked = TRUE])
  BY DEF MovesOn, SameWork, Looping, PassRecord, Phases, Blocked
<1>4. MovesOn(pass, RouteRefused) /\ Blocked(RouteRefused)
  BY DEF MovesOn, SameWork, RouteRefused, Looping, PassRecord, Phases, Blocked
<1>5. ASSUME NEW i
      PROVE  MovesOn(pass, LoopBlocked(i)) /\ (IsOrdered(i) => Blocked(LoopBlocked(i)))
  <2> DEFINE b == Looping.workflowBlocked \/ IsOrdered(i)
  <2>1. b \in BOOLEAN /\ (pass.workflowBlocked => b) /\ (IsOrdered(i) => b)
    BY DEF Looping, PassRecord
  <2>2. LoopBlocked(i) = [Looping EXCEPT !.workflowBlocked = b]
    BY <1>1 DEF LoopBlocked
  <2> HIDE DEF b
  <2>3. QED
    BY <2>1, <2>2 DEF MovesOn, SameWork, Looping, PassRecord, Phases, Blocked
<1>6. QED
  BY <1>1, <1>2, <1>3, <1>4, <1>5

LEMMA LoopBlockedMovesOn ==
    ASSUME pass \in PassRecord, NEW i, NEW b \in BOOLEAN
    PROVE  LET p == [LoopBlocked(i) EXCEPT !.routeBlocked = @ \/ b]
               s == [LoopBlocked(i) EXCEPT !.suspended = @ \/ b]
           IN  /\ MovesOn(pass, p) /\ (IsOrdered(i) => Blocked(p))
               /\ MovesOn(pass, s) /\ (IsOrdered(i) => Blocked(s))
<1> DEFINE l == LoopBlocked(i)
           p == [l EXCEPT !.routeBlocked = @ \/ b]
           s == [l EXCEPT !.suspended = @ \/ b]
<1>1. MovesOn(pass, l) /\ (IsOrdered(i) => Blocked(l))
  BY LoopingMovesOn
<1> HIDE DEF l
<1>2. l \in PassRecord
  BY <1>1 DEF MovesOn, SameWork
<1>3. MovesOn(pass, p) /\ (IsOrdered(i) => Blocked(p))
  <2> DEFINE rb == l.routeBlocked \/ b
  <2>1. rb \in BOOLEAN /\ (l.routeBlocked => rb)
    BY <1>2 DEF PassRecord
  <2>2. p = [l EXCEPT !.routeBlocked = rb]
    BY <1>2 DEF PassRecord
  <2> HIDE DEF rb, p
  <2>3. QED
    BY <1>1, <1>2, <2>1, <2>2 DEF MovesOn, SameWork, PassRecord, Phases, Blocked
<1>4. MovesOn(pass, s) /\ (IsOrdered(i) => Blocked(s))
  <2> DEFINE su == l.suspended \/ b
  <2>1. su \in BOOLEAN
    BY <1>2 DEF PassRecord
  <2>2. s = [l EXCEPT !.suspended = su]
    BY <1>2 DEF PassRecord
  <2> HIDE DEF su, s
  <2>3. QED
    BY <1>1, <1>2, <2>1, <2>2 DEF MovesOn, SameWork, PassRecord, Phases, Blocked
<1>5. QED
  BY <1>3, <1>4 DEF l

(* p2 waits, or saves, for the row the pass is at.                            *)
StaysAt(p, p2, ph) ==
    /\ SameWork(p, p2) /\ p2.phase = ph /\ p2.completed = p.completed
    /\ p2.workflowBlocked = p.workflowBlocked /\ p2.routeBlocked = p.routeBlocked

LEMMA WaitingStaysAt ==
    ASSUME pass \in PassRecord
    PROVE  /\ \A ph \in Phases : StaysAt(pass, [pass EXCEPT !.phase = ph], ph)
           /\ \A next \in {"next", "posted", "completed", "uploaded"} :
                 StaysAt(pass, Persisting(next), "persist") /\ Persisting(next).resume = next
           /\ SameWork(pass, [Looping EXCEPT !.completed = TRUE])
           /\ [Looping EXCEPT !.completed = TRUE].phase = "loop"
           /\ [Looping EXCEPT !.completed = TRUE].completed = TRUE
<1>1. \A ph \in Phases : StaysAt(pass, [pass EXCEPT !.phase = ph], ph)
  BY DEF StaysAt, SameWork, PassRecord, Phases
<1>2. \A next \in {"next", "posted", "completed", "uploaded"} :
         StaysAt(pass, Persisting(next), "persist") /\ Persisting(next).resume = next
  BY DEF StaysAt, SameWork, PassRecord, Phases, Persisting
<1>3. /\ SameWork(pass, [Looping EXCEPT !.completed = TRUE])
      /\ [Looping EXCEPT !.completed = TRUE].phase = "loop"
      /\ [Looping EXCEPT !.completed = TRUE].completed = TRUE
  BY DEF SameWork, PassRecord, Phases, Looping
<1>4. QED
  BY <1>1, <1>2, <1>3

(* What the rest of the invariant needs to know of a step of the pass.        *)
PassActed ==
    /\ Writes({}, {})
    /\ PassGood(pass', rows', owner)
    /\ UNCHANGED <<owner, nextSeq, writable>>

LEMMA PassIsAtWork ==
    ASSUME RetryInv, pass.phase # "idle"
    PROVE  /\ pass \in PassRecord /\ pass.by \in Owners /\ pass.item \in Ids /\ owner \in Owners
           /\ PassAtWork(pass, rows[pass.by], owner)
           /\ pass.phase \in {"loop", "send", "persist"} => owner = pass.by
           /\ pass.phase # "loop" => Present(rows[pass.by][pass.item])
           /\ rows[pass.by] \in [Ids -> Row] /\ Sound(rows[pass.by])
<1>1. PassAtWork(pass, rows[pass.by], owner) /\ pass \in PassRecord /\ Inv
  BY DEF RetryInv, PassGood
<1>2. pass.by \in Owners /\ pass.item \in Ids /\ owner \in Owners
  BY <1>1 DEF PassAtWork
<1>3. rows[pass.by] \in [Ids -> Row] /\ Sound(rows[pass.by])
  BY <1>1, <1>2 DEF Inv
<1>4. pass.phase # "loop" => pass.item \in Remaining(pass)
  BY DEF Remaining
<1>5. QED
  BY <1>1, <1>2, <1>3, <1>4 DEF PassAtWork

(* The pass, at the bound account, gives it rows that go on from those it had. *)
LEMMA PassWritesWell ==
    ASSUME RetryInv, pass.phase # "idle", owner = pass.by, NEW q, GoesOn(rows[owner], q, {}),
           NEW p, PassWrites(q, p)
    PROVE  /\ Writes({}, {}) /\ rows'[pass.by] = q /\ PassGood(pass, rows', owner)
           /\ \A o \in Owners \ {pass.by} : rows'[o] = rows[o]
           /\ UNCHANGED <<owner, nextSeq, writable>> /\ pass' = p
<1>1. Inv /\ PassGood(pass, rows, owner) /\ owner \in Owners
  BY PassIsAtWork DEF RetryInv
<1>2. rows' = [rows EXCEPT ![owner] = q] /\ UNCHANGED <<owner, nextSeq, writable>> /\ pass' = p
  BY DEF PassWrites
<1>3. Writes({}, {}) /\ rows'[owner] = q /\ \A o \in Owners \ {owner} : rows'[o] = rows[o]
  BY <1>1, <1>2, GoingOnWrites
<1>4. PassGood(pass, rows', owner')
  BY <1>1, <1>2, <1>3, PassStaysGood
<1>5. QED
  BY <1>2, <1>3, <1>4

(* ... and goes on to the next row.                                           *)
LEMMA PassWritesAndMovesOn ==
    ASSUME RetryInv, pass.phase \notin {"idle", "loop"}, owner = pass.by, NEW q,
           GoesOn(rows[owner], q, {}), NEW p, PassWrites(q, p), MovesOn(pass, p),
           IsOrdered(pass.item) => Blocked(p) \/ ~Live(q[pass.item])
    PROVE  PassActed
<1>1. /\ Writes({}, {}) /\ rows'[pass.by] = q /\ PassGood(pass, rows', owner)
      /\ UNCHANGED <<owner, nextSeq, writable>> /\ pass' = p
  BY PassWritesWell
<1>2. PassGood(p, rows', owner)
  BY <1>1, NextRowIsGood DEF MovesOn
<1>3. QED
  BY <1>1, <1>2 DEF PassActed

LEMMA PassWritesAndStays ==
    ASSUME RetryInv, pass.phase \notin {"idle", "loop"}, owner = pass.by, NEW q,
           GoesOn(rows[owner], q, {}), NEW p, PassWrites(q, p), StaysAt(pass, p, "persist"),
           ItemFits(p, q[pass.item])
    PROVE  PassActed
<1>1. /\ Writes({}, {}) /\ rows'[pass.by] = q /\ PassGood(pass, rows', owner)
      /\ UNCHANGED <<owner, nextSeq, writable>> /\ pass' = p
  BY PassWritesWell
<1>2. PassGood(p, rows', owner)
  BY <1>1, SameRowIsGood DEF StaysAt
<1>3. QED
  BY <1>1, <1>2 DEF PassActed

(* A step of the pass that writes nothing.                                    *)
LEMMA PassOnlyMoves ==
    ASSUME RetryInv, UNCHANGED queueVars, PassGood(pass', rows, owner)
    PROVE  PassActed
<1>1. Inv /\ UNCHANGED <<rows, owner, nextSeq, writable>>
  BY DEF RetryInv, queueVars
<1>2. owner' \in Owners \cup {NoOwner} /\ writable' \in BOOLEAN
  BY <1>1 DEF Inv
<1>3. Writes({}, {})
  BY <1>1, <1>2, SameRowsWrite
<1>4. QED
  BY <1>1, <1>3 DEF PassActed

LEMMA PassMovesOn ==
    ASSUME RetryInv, pass.phase \notin {"idle", "loop"}, owner = pass.by, UNCHANGED queueVars,
           MovesOn(pass, pass'),
           IsOrdered(pass.item) => Blocked(pass') \/ ~Live(rows[pass.by][pass.item])
    PROVE  PassActed
<1>1. PassGood(pass, rows, owner)
  BY DEF RetryInv
<1>2. PassGood(pass', rows, owner)
  BY <1>1, NextRowIsGood DEF MovesOn
<1>3. QED
  BY <1>2, PassOnlyMoves

LEMMA PassWaits ==
    ASSUME RetryInv, pass.phase \notin {"idle", "loop"}, owner = pass.by, UNCHANGED queueVars,
           NEW ph \in Phases \ {"idle", "loop"}, StaysAt(pass, pass', ph),
           ItemFits(pass', rows[pass.by][pass.item])
    PROVE  PassActed
<1>1. PassGood(pass, rows, owner)
  BY DEF RetryInv
<1>2. PassGood(pass', rows, owner)
  BY <1>1, SameRowIsGood DEF StaysAt
<1>3. QED
  BY <1>2, PassOnlyMoves

LEMMA PassStopsIsGood ==
    ASSUME RetryInv, UNCHANGED queueVars, pass' = IdlePass
    PROVE  PassActed
  BY IdleIsGood, PassOnlyMoves

(* An acknowledged row is settled.                                            *)
LEMMA AckSettlesTheRow ==
    ASSUME NEW q, q \in [Ids -> Row], NEW i \in Ids, Present(q[i])
    PROVE  Settled(Acknowledged(q, i, TRUE)[i])
<1>1. q[i].state \in States
  BY DEF Row
<1>2. CASE Live(q[i])
  <2> DEFINE s == ReferenceProofs(q, i, q[i].contract, FALSE)
             row == [Acked(q[i]) EXCEPT !.serverAck = TRUE,
                                        !.receipt = q[i].receipt \/ KindOf[i] = "cash"]
  <2>1. Acknowledged(q, i, TRUE) = [s EXCEPT ![i] = row]
    BY <1>2 DEF Acknowledged
  <2>2. row.state = "ACKNOWLEDGED"
    BY DEF Acked, Row
  <2>3. DOMAIN s = Ids
    BY DEF ReferenceProofs
  <2> HIDE DEF s, row
  <2>4. QED
    BY <2>1, <2>2, <2>3 DEF Settled
<1>3. CASE ~Live(q[i])
  BY <1>1, <1>3 DEF Acknowledged, Live, Settled, States, Present
<1>4. QED
  BY <1>2, <1>3

LEMMA OrderedIsNoProof ==
    ASSUME NEW i \in Ids
    PROVE  /\ IsOrdered(i) => ~IsProof(i)
           /\ IsRouteEnd(i) \/ IsResult(i) => IsOrdered(i)
           /\ KindOf[i] = "cash" => IsResult(i)
  BY DEF IsOrdered, IsProof, IsRouteEnd, IsResult, OrderedKinds, RouteEnds, TerminalStops

(* The rows the pass may give the account it works for.                       *)
LEMMA PassMethodsGoOn ==
    ASSUME RetryInv, pass.phase # "idle", owner = pass.by
    PROVE  LET i == pass.item
           IN  /\ GoesOn(active, active, {})
               /\ i \in Applied /\ ~IsProof(i) => GoesOn(active, Acknowledged(active, i, TRUE), {})
               /\ IsProof(i) /\ active[i].uploaded => GoesOn(active, Acknowledged(active, i, FALSE), {})
               /\ \A reason \in Reasons : GoesOn(active, Isolated(active, i, reason), {})
               /\ \A transient \in BOOLEAN : GoesOn(active, RetryFailed(active, i, transient), {})
               /\ \A transient \in BOOLEAN, reason \in Reasons :
                     GoesOn(active, Isolated(RetryFailed(active, i, transient), i, reason), {})
               /\ IsLocation(i) => GoesOn(active, Dropped(active, i, "calledOff"), {})
               /\ IsLocation(i) => \A transient \in BOOLEAN :
                     GoesOn(active, Dropped(RetryFailed(active, i, transient), i, "calledOff"), {})
               /\ GoesOn(active, MediaRecorded(active, i), {})
               /\ GoesOn(active, MediaRejected(active, i), {})
               /\ \A r \in Routes : GoesOn(active, RouteBlocked(active, r), {})
               /\ \A r \in Routes : GoesOn(active, RouteCleaned(active, r), {})
               /\ i \in Applied /\ ~IsProof(i) => \A r \in Routes :
                     GoesOn(active, RouteCleaned(Acknowledged(active, i, TRUE), r), {})
<1> DEFINE i == pass.item
           q == active
<1>1. i \in Ids /\ Sound(q)
  BY PassIsAtWork DEF active
<1>2. IsLocation(i) => KindOf[i] # "cash" /\ ~IsRouteEnd(i)
  BY <1>1, LocationIsPlain
<1>3. /\ i \in Applied /\ ~IsProof(i) => Vouched(i, q[i])
      /\ IsProof(i) /\ q[i].uploaded => Vouched(i, q[i])
  BY DEF Vouched
<1> HIDE DEF i, q
<1>4. /\ GoesOn(q, q, {})
      /\ Vouched(i, q[i]) => \A ok \in BOOLEAN : GoesOn(q, Acknowledged(q, i, ok), {})
      /\ \A reason \in Reasons : GoesOn(q, Isolated(q, i, reason), {})
      /\ \A transient \in BOOLEAN : GoesOn(q, RetryFailed(q, i, transient), {})
      /\ ~IsRouteEnd(i) /\ KindOf[i] # "cash" => GoesOn(q, Dropped(q, i, "calledOff"), {})
      /\ GoesOn(q, MediaRecorded(q, i), {})
      /\ GoesOn(q, MediaRejected(q, i), {})
  BY <1>1, RowMethodsGoOn
<1>5. ASSUME NEW transient \in BOOLEAN
      PROVE  /\ \A reason \in Reasons : GoesOn(q, Isolated(RetryFailed(q, i, transient), i, reason), {})
             /\ IsLocation(i) => GoesOn(q, Dropped(RetryFailed(q, i, transient), i, "calledOff"), {})
  <2> DEFINE t == RetryFailed(q, i, transient)
  <2>1. GoesOn(q, t, {})
    BY <1>4
  <2> HIDE DEF t
  <2>2. Sound(t)
    BY <2>1 DEF GoesOn, Keeps
  <2>3. /\ \A reason \in Reasons : GoesOn(t, Isolated(t, i, reason), {})
        /\ ~IsRouteEnd(i) /\ KindOf[i] # "cash" => GoesOn(t, Dropped(t, i, "calledOff"), {})
    BY <1>1, <2>2, RowMethodsGoOn
  <2>4. \A reason \in Reasons : GoesOn(q, Isolated(t, i, reason), {})
    BY <2>1, <2>3, GoesOnCompose
  <2>5. IsLocation(i) => GoesOn(q, Dropped(t, i, "calledOff"), {})
    BY <1>2, <2>1, <2>3, GoesOnCompose
  <2>6. QED
    BY <2>4, <2>5 DEF t
<1>6. \A r \in Routes : GoesOn(q, RouteBlocked(q, r), {}) /\ GoesOn(q, RouteCleaned(q, r), {})
  BY <1>1, QueueMethodsGoOn
<1>7. ASSUME Vouched(i, q[i]), NEW r \in Routes
      PROVE  GoesOn(q, RouteCleaned(Acknowledged(q, i, TRUE), r), {})
  <2> DEFINE t == Acknowledged(q, i, TRUE)
  <2>1. GoesOn(q, t, {})
    BY <1>4, <1>7
  <2> HIDE DEF t
  <2>2. Sound(t)
    BY <2>1 DEF GoesOn, Keeps
  <2>3. GoesOn(t, RouteCleaned(t, r), {})
    BY <2>2, QueueMethodsGoOn
  <2>4. GoesOn(q, RouteCleaned(t, r), {})
    BY <2>1, <2>3, GoesOnCompose
  <2>5. QED
    BY <2>4 DEF t
<1>8. /\ GoesOn(q, q, {})
      /\ i \in Applied /\ ~IsProof(i) => GoesOn(q, Acknowledged(q, i, TRUE), {})
      /\ IsProof(i) /\ q[i].uploaded => GoesOn(q, Acknowledged(q, i, FALSE), {})
      /\ \A reason \in Reasons : GoesOn(q, Isolated(q, i, reason), {})
      /\ \A transient \in BOOLEAN : GoesOn(q, RetryFailed(q, i, transient), {})
      /\ IsLocation(i) => GoesOn(q, Dropped(q, i, "calledOff"), {})
      /\ GoesOn(q, MediaRecorded(q, i), {})
      /\ GoesOn(q, MediaRejected(q, i), {})
  BY <1>2, <1>3, <1>4
<1>9. /\ \A transient \in BOOLEAN, reason \in Reasons :
            GoesOn(q, Isolated(RetryFailed(q, i, transient), i, reason), {})
      /\ IsLocation(i) => \A transient \in BOOLEAN :
            GoesOn(q, Dropped(RetryFailed(q, i, transient), i, "calledOff"), {})
  BY <1>5
<1>10. i \in Applied /\ ~IsProof(i) => \A r \in Routes :
            GoesOn(q, RouteCleaned(Acknowledged(q, i, TRUE), r), {})
  BY <1>3, <1>7
<1>11. QED
  BY <1>6, <1>8, <1>9, <1>10 DEF i, q

LEMMA StopReceiptArrivesWell ==
    ASSUME RetryInv, StopReceiptArrives
    PROVE  PassActed
<1> DEFINE i == pass.item
<1>1. pass.phase = "stopReceipt" /\ owner = pass.by
  BY DEF StopReceiptArrives, Current
<1>2. /\ pass \in PassRecord /\ i \in Ids /\ rows[pass.by] \in [Ids -> Row]
      /\ Present(rows[pass.by][i]) /\ PassAtWork(pass, rows[pass.by], owner)
  BY <1>1, PassIsAtWork
<1>3. KindOf[i] = "cash" /\ ~IsProof(i)
  BY <1>1, <1>2, OrderedIsNoProof DEF PassAtWork, ItemFits
<1>4. CASE /\ "acknowledge" \in ReceiptSays(i, Contract(i)) /\ Live(active[i])
           /\ PassWrites(Acknowledged(active, i, TRUE), Persisting("next"))
  <2>1. i \in Applied
    BY <1>4 DEF ReceiptSays
  <2>2. GoesOn(rows[owner], Acknowledged(active, i, TRUE), {})
    BY <1>1, <1>3, <2>1, PassMethodsGoOn DEF active
  <2>3. StaysAt(pass, Persisting("next"), "persist") /\ Persisting("next").resume = "next"
    BY <1>2, WaitingStaysAt
  <2>4. Settled(Acknowledged(active, i, TRUE)[i])
    BY <1>1, <1>2, AckSettlesTheRow DEF active
  <2>5. ItemFits(Persisting("next"), Acknowledged(active, i, TRUE)[i])
    BY <2>3, <2>4 DEF ItemFits, StaysAt
  <2>6. QED
    BY <1>1, <1>4, <2>2, <2>3, <2>5, PassWritesAndStays
<1>5. CASE PassWrites(Isolated(active, i, "event"), [Looping EXCEPT !.workflowBlocked = TRUE])
  <2>1. GoesOn(rows[owner], Isolated(active, i, "event"), {})
    BY <1>1, PassMethodsGoOn DEF active, Reasons
  <2>2. /\ MovesOn(pass, [Looping EXCEPT !.workflowBlocked = TRUE])
        /\ Blocked([Looping EXCEPT !.workflowBlocked = TRUE])
    BY <1>2, LoopingMovesOn
  <2>3. QED
    BY <1>1, <1>5, <2>1, <2>2, PassWritesAndMovesOn
<1>6. CASE pass' = [pass EXCEPT !.phase = "send"] /\ UNCHANGED queueVars
  <2>1. StaysAt(pass, pass', "send")
    BY <1>2, <1>6, WaitingStaysAt DEF Phases
  <2>2. ItemFits(pass', rows[pass.by][pass.item])
    BY <2>1 DEF ItemFits, StaysAt
  <2>3. QED
    BY <1>1, <1>6, <2>1, <2>2, PassWaits DEF Phases
<1>7. QED
  BY <1>4, <1>5, <1>6 DEF StopReceiptArrives

(* In phase "send" the pass holds the thread, at the account it works for.    *)
LEMMA PassSending ==
    ASSUME RetryInv, pass.phase = "send"
    PROVE  /\ owner = pass.by /\ pass \in PassRecord /\ pass.item \in Ids
           /\ RouteOf[pass.item] \in Routes
           /\ PassAtWork(pass, rows[pass.by], owner)
           /\ IsOrdered(pass.item) => (Held(pass.item) <=> Blocked(pass))
<1>1. /\ owner = pass.by /\ pass \in PassRecord /\ pass.item \in Ids
      /\ PassAtWork(pass, rows[pass.by], owner)
  BY PassIsAtWork
<1>2. pass.item \in Remaining(pass)
  BY DEF Remaining
<1>3. IsOrdered(pass.item) /\ pass.snap[pass.item].recon # "none" => pass.workflowBlocked
  BY <1>1, <1>2 DEF PassAtWork
<1>4. IsOrdered(pass.item) => (Held(pass.item) <=> Blocked(pass))
  BY <1>1, <1>3, OrderedIsNoProof DEF Held, Blocked
<1>5. RouteOf[pass.item] \in Routes
  BY <1>1, ItemsAssumption
<1>6. QED
  BY <1>1, <1>4, <1>5

LEMMA PassHoldsWell ==
    ASSUME RetryInv, PassHolds
    PROVE  PassActed
<1>1. pass.phase = "send" /\ pass' = Looping /\ UNCHANGED queueVars /\ Held(pass.item)
  BY DEF PassHolds
<1>2. /\ owner = pass.by /\ pass \in PassRecord
      /\ IsOrdered(pass.item) => Blocked(pass)
  BY <1>1, PassSending
<1>3. MovesOn(pass, pass')
  BY <1>1, <1>2, LoopingMovesOn
<1>4. Blocked(pass) => Blocked(pass')
  BY <1>3 DEF MovesOn, SameWork, Blocked
<1>5. QED
  BY <1>1, <1>2, <1>3, <1>4, PassMovesOn

LEMMA PassRetiresWell ==
    ASSUME RetryInv, NEW old \in BOOLEAN, PassRetires(old)
    PROVE  PassActed
<1> DEFINE i == pass.item
           q == IF IsLocation(i) THEN Dropped(active, i, "calledOff") ELSE Isolated(active, i, "event")
<1>1. pass.phase = "send" /\ PassWrites(q, LoopBlocked(i))
  BY DEF PassRetires
<1>2. owner = pass.by /\ pass \in PassRecord
  BY <1>1, PassSending
<1>3. GoesOn(rows[owner], q, {})
  BY <1>1, <1>2, PassMethodsGoOn DEF active, Reasons
<1>4. MovesOn(pass, LoopBlocked(i)) /\ (IsOrdered(i) => Blocked(LoopBlocked(i)))
  BY <1>2, LoopingMovesOn
<1> HIDE DEF q
<1>5. QED
  BY <1>1, <1>2, <1>3, <1>4, PassWritesAndMovesOn

LEMMA PassIsolatesForeignWell ==
    ASSUME RetryInv, PassIsolatesForeign
    PROVE  PassActed
<1> DEFINE i == pass.item
           b == IsOrdered(i) /\ ~Replaced(Contract(i), pass.access)
           p == [LoopBlocked(i) EXCEPT !.routeBlocked = @ \/ b]
<1>1. pass.phase = "send" /\ PassWrites(Isolated(active, i, "route"), p)
  BY DEF PassIsolatesForeign, Sendable
<1>2. owner = pass.by /\ pass \in PassRecord
  BY <1>1, PassSending
<1>3. GoesOn(rows[owner], Isolated(active, i, "route"), {})
  BY <1>1, <1>2, PassMethodsGoOn DEF active, Reasons
<1>4. b \in BOOLEAN
  OBVIOUS
<1> HIDE DEF b
<1>5. MovesOn(pass, p) /\ (IsOrdered(i) => Blocked(p))
  BY <1>2, <1>4, LoopBlockedMovesOn
<1> HIDE DEF p
<1>6. QED
  BY <1>1, <1>2, <1>3, <1>5, PassWritesAndMovesOn

LEMMA PassPostsWell ==
    ASSUME RetryInv, PassPosts
    PROVE  /\ PassActed /\ owner = pass.by /\ ~IsProof(pass.item)
           /\ IsOrdered(pass.item) => ~Blocked(pass)
<1>1. pass' = [pass EXCEPT !.phase = "post"] /\ UNCHANGED queueVars
  BY DEF PassPosts
<1>2. /\ pass.phase \in {"send", "endReceipt"} /\ owner = pass.by
      /\ ~IsProof(pass.item)
      /\ IsOrdered(pass.item) => ~Blocked(pass)
  <2>1. CASE Sendable(pass.item) /\ ~IsProof(pass.item)
    BY <2>1, PassSending DEF Sendable
  <2>2. CASE pass.phase = "endReceipt" /\ Current
    <3>1. PassAtWork(pass, rows[pass.by], owner) /\ pass.item \in Ids
      BY <2>2, PassIsAtWork
    <3>2. IsRouteEnd(pass.item) /\ ~Blocked(pass)
      BY <2>2, <3>1 DEF PassAtWork, ItemFits
    <3>3. QED
      BY <2>2, <3>1, <3>2, OrderedIsNoProof DEF Current
  <2>3. QED
    BY <2>1, <2>2 DEF PassPosts
<1>3. pass \in PassRecord
  BY <1>2, PassIsAtWork
<1>4. StaysAt(pass, pass', "post")
  BY <1>1, <1>3, WaitingStaysAt DEF Phases
<1>5. ItemFits(pass', rows[pass.by][pass.item])
  BY <1>2, <1>4 DEF ItemFits, StaysAt, SameWork
<1>6. PassActed
  BY <1>1, <1>2, <1>4, <1>5, PassWaits DEF Phases
<1>7. QED
  BY <1>2, <1>6

LEMMA PassSendingMovesWell ==
    ASSUME RetryInv, PassAwaitsProofs \/ PassAsksForEndReceipt \/ PassUploads
    PROVE  PassActed
<1>1. pass.phase = "send" /\ ~Held(pass.item) /\ UNCHANGED queueVars
  BY DEF PassAwaitsProofs, PassAsksForEndReceipt, PassUploads, Sendable
<1>2. /\ owner = pass.by /\ pass \in PassRecord /\ pass.item \in Ids
      /\ IsOrdered(pass.item) => ~Blocked(pass)
  BY <1>1, PassSending
<1>3. CASE PassAwaitsProofs
  <2>1. MovesOn(pass, pass') /\ Blocked(pass')
    BY <1>2, <1>3, LoopingMovesOn DEF PassAwaitsProofs
  <2>2. QED
    BY <1>1, <1>2, <2>1, PassMovesOn
<1>4. CASE PassAsksForEndReceipt
  <2>1. StaysAt(pass, pass', "endReceipt")
    BY <1>2, <1>4, WaitingStaysAt DEF PassAsksForEndReceipt, Phases
  <2>2. IsRouteEnd(pass.item) /\ ~Blocked(pass)
    BY <1>2, <1>4, OrderedIsNoProof DEF PassAsksForEndReceipt, IsRouteEnd
  <2>3. ItemFits(pass', rows[pass.by][pass.item])
    BY <2>1, <2>2 DEF ItemFits, StaysAt, SameWork, Blocked
  <2>4. QED
    BY <1>1, <1>2, <2>1, <2>3, PassWaits DEF Phases
<1>5. CASE PassUploads
  <2>1. StaysAt(pass, pass', "upload") /\ IsProof(pass.item)
    BY <1>2, <1>5, WaitingStaysAt DEF PassUploads, Phases
  <2>2. ItemFits(pass', rows[pass.by][pass.item])
    BY <2>1 DEF ItemFits, StaysAt, SameWork
  <2>3. QED
    BY <1>1, <1>2, <2>1, <2>2, PassWaits DEF Phases
<1>6. QED
  BY <1>3, <1>4, <1>5

LEMMA EndReceiptArrivesWell ==
    ASSUME RetryInv, EndReceiptArrives
    PROVE  PassActed
<1> DEFINE i == pass.item
           r == RouteOf[i]
           acked == Acknowledged(active, i, TRUE)
<1>1. pass.phase = "endReceipt" /\ owner = pass.by
  BY DEF EndReceiptArrives, Current
<1>2. /\ pass \in PassRecord /\ i \in Ids /\ r \in Routes /\ rows[pass.by] \in [Ids -> Row]
      /\ Present(rows[pass.by][i]) /\ PassAtWork(pass, rows[pass.by], owner)
  BY <1>1, PassIsAtWork, ItemsAssumption
<1>3. IsRouteEnd(i) /\ ~IsProof(i)
  BY <1>1, <1>2, OrderedIsNoProof DEF PassAtWork, ItemFits
<1>4. CASE "acknowledge" \in ReceiptSays(i, Contract(i))
           /\ PassWrites(RouteCleaned(acked, r), Persisting("completed"))
  <2> DEFINE t == RouteCleaned(acked, r)
  <2>1. i \in Applied
    BY <1>4 DEF ReceiptSays
  <2>2. GoesOn(rows[owner], t, {}) /\ GoesOn(rows[owner], acked, {})
    BY <1>1, <1>2, <1>3, <2>1, PassMethodsGoOn DEF active
  <2>3. StaysAt(pass, Persisting("completed"), "persist") /\ Persisting("completed").resume = "completed"
    BY <1>2, WaitingStaysAt
  <2>4. Settled(acked[i])
    BY <1>1, <1>2, AckSettlesTheRow DEF active
  <2>5. Settled(t[i])
    <3>1. Sound(acked)
      BY <2>2 DEF GoesOn, Keeps
    <3> HIDE DEF acked
    <3>2. GoesOn(acked, t, {})
      BY <1>2, <3>1, QueueMethodsGoOn
    <3>3. Progress(i, acked[i], t[i])
      BY <1>2, <3>2 DEF GoesOn, Advances
    <3>4. QED
      BY <2>4, <3>3 DEF Progress
  <2>6. ItemFits(Persisting("completed"), t[i])
    BY <1>3, <2>3, <2>5 DEF ItemFits, StaysAt, SameWork
  <2> HIDE DEF t
  <2>7. QED
    BY <1>1, <1>4, <2>2, <2>3, <2>6, PassWritesAndStays DEF t
<1>5. CASE PassWrites(RouteBlocked(active, r), [Looping EXCEPT !.routeBlocked = TRUE])
  <2>1. GoesOn(rows[owner], RouteBlocked(active, r), {})
    BY <1>1, <1>2, PassMethodsGoOn DEF active
  <2>2. /\ MovesOn(pass, [Looping EXCEPT !.routeBlocked = TRUE])
        /\ Blocked([Looping EXCEPT !.routeBlocked = TRUE])
    BY <1>2, LoopingMovesOn
  <2>3. QED
    BY <1>1, <1>5, <2>1, <2>2, PassWritesAndMovesOn
<1>6. QED
  BY <1>4, <1>5 DEF EndReceiptArrives

LEMMA PassPostedWell ==
    ASSUME RetryInv, PassPosted
    PROVE  PassActed
<1> DEFINE i == pass.item
<1>1. /\ pass.phase = "post" /\ owner = pass.by /\ i \in Applied
      /\ PassWrites(Acknowledged(active, i, TRUE), Persisting("posted"))
  BY DEF PassPosted, Current
<1>2. /\ pass \in PassRecord /\ i \in Ids /\ rows[pass.by] \in [Ids -> Row]
      /\ Present(rows[pass.by][i]) /\ PassAtWork(pass, rows[pass.by], owner)
  BY <1>1, PassIsAtWork
<1>3. ~IsProof(i)
  BY <1>1, <1>2 DEF PassAtWork, ItemFits
<1>4. GoesOn(rows[owner], Acknowledged(active, i, TRUE), {})
  BY <1>1, <1>3, PassMethodsGoOn DEF active
<1>5. StaysAt(pass, Persisting("posted"), "persist") /\ Persisting("posted").resume = "posted"
  BY <1>2, WaitingStaysAt
<1>6. Settled(Acknowledged(active, i, TRUE)[i])
  BY <1>1, <1>2, AckSettlesTheRow DEF active
<1>7. ItemFits(Persisting("posted"), Acknowledged(active, i, TRUE)[i])
  BY <1>5, <1>6 DEF ItemFits, StaysAt
<1>8. QED
  BY <1>1, <1>4, <1>5, <1>7, PassWritesAndStays

LEMMA PassUploadedWell ==
    ASSUME RetryInv, PassUploaded
    PROVE  PassActed
<1> DEFINE i == pass.item
<1>1. /\ pass.phase = "upload" /\ owner = pass.by
      /\ PassWrites(MediaRecorded(active, i), Persisting("uploaded"))
  BY DEF PassUploaded, Current
<1>2. /\ pass \in PassRecord /\ i \in Ids /\ rows[pass.by] \in [Ids -> Row]
      /\ Present(rows[pass.by][i]) /\ PassAtWork(pass, rows[pass.by], owner)
  BY <1>1, PassIsAtWork
<1>3. IsProof(i) /\ ~IsOrdered(i)
  BY <1>1, <1>2, OrderedIsNoProof DEF PassAtWork, ItemFits
<1>4. GoesOn(rows[owner], MediaRecorded(active, i), {})
  BY <1>1, PassMethodsGoOn DEF active
<1>5. StaysAt(pass, Persisting("uploaded"), "persist") /\ Persisting("uploaded").resume = "uploaded"
  BY <1>2, WaitingStaysAt
<1>6. MediaRecorded(active, i)[i].uploaded = TRUE
  BY <1>1, <1>2, <1>3 DEF MediaRecorded, active, Row, Present
<1>7. ItemFits(Persisting("uploaded"), MediaRecorded(active, i)[i])
  BY <1>3, <1>5, <1>6 DEF ItemFits, StaysAt, SameWork
<1>8. QED
  BY <1>1, <1>4, <1>5, <1>7, PassWritesAndStays

LEMMA PassRefusedWell ==
    ASSUME RetryInv, PassRefused
    PROVE  PassActed
<1> DEFINE i == pass.item
           r == RouteOf[i]
           tried == RetryFailed(active, i, FALSE)
<1>1. pass.phase = "post" /\ owner = pass.by
  BY DEF PassRefused, Current
<1>2. pass \in PassRecord /\ i \in Ids /\ r \in Routes
  BY <1>1, PassIsAtWork, ItemsAssumption
<1>3. /\ \A reason \in Reasons : GoesOn(rows[owner], Isolated(tried, i, reason), {})
      /\ GoesOn(rows[owner], RouteBlocked(active, r), {})
  BY <1>1, <1>2, PassMethodsGoOn DEF active
<1>4. /\ MovesOn(pass, RouteRefused) /\ Blocked(RouteRefused)
      /\ MovesOn(pass, [Looping EXCEPT !.workflowBlocked = TRUE])
      /\ Blocked([Looping EXCEPT !.workflowBlocked = TRUE])
      /\ MovesOn(pass, [Looping EXCEPT !.routeBlocked = TRUE])
      /\ Blocked([Looping EXCEPT !.routeBlocked = TRUE])
  BY <1>2, LoopingMovesOn
<1>5. \/ PassWrites(Isolated(tried, i, "route"), RouteRefused)
      \/ PassWrites(RouteBlocked(active, r), [Looping EXCEPT !.routeBlocked = TRUE])
      \/ PassWrites(Isolated(tried, i, "event"), [Looping EXCEPT !.workflowBlocked = TRUE])
  BY DEF PassRefused
<1> HIDE DEF tried, r
<1>6. CASE PassWrites(Isolated(tried, i, "route"), RouteRefused)
  BY <1>1, <1>3, <1>4, <1>6, PassWritesAndMovesOn DEF Reasons
<1>7. CASE PassWrites(RouteBlocked(active, r), [Looping EXCEPT !.routeBlocked = TRUE])
  BY <1>1, <1>3, <1>4, <1>7, PassWritesAndMovesOn
<1>8. CASE PassWrites(Isolated(tried, i, "event"), [Looping EXCEPT !.workflowBlocked = TRUE])
  BY <1>1, <1>3, <1>4, <1>8, PassWritesAndMovesOn DEF Reasons
<1>9. QED
  BY <1>5, <1>6, <1>7, <1>8

LEMMA ProofRefusedWell ==
    ASSUME RetryInv, ProofRefused
    PROVE  PassActed
<1> DEFINE i == pass.item
           r == RouteOf[i]
           tried == RetryFailed(active, i, FALSE)
<1>1. pass.phase = "upload" /\ owner = pass.by
  BY DEF ProofRefused, Current
<1>2. /\ pass \in PassRecord /\ i \in Ids /\ r \in Routes
      /\ PassAtWork(pass, rows[pass.by], owner)
  BY <1>1, PassIsAtWork, ItemsAssumption
<1>3. ~IsOrdered(i)
  BY <1>1, <1>2, OrderedIsNoProof DEF PassAtWork, ItemFits
<1>4. /\ GoesOn(rows[owner], Isolated(tried, i, "event"), {})
      /\ GoesOn(rows[owner], MediaRejected(active, i), {})
      /\ GoesOn(rows[owner], RouteBlocked(active, r), {})
  BY <1>1, <1>2, PassMethodsGoOn DEF active, Reasons
<1>5. MovesOn(pass, Looping) /\ MovesOn(pass, [Looping EXCEPT !.routeBlocked = TRUE])
  BY <1>2, LoopingMovesOn
<1>6. \/ PassWrites(MediaRejected(active, i), Looping)
      \/ PassWrites(Isolated(tried, i, "event"), Looping)
      \/ PassWrites(RouteBlocked(active, r), [Looping EXCEPT !.routeBlocked = TRUE])
  BY DEF ProofRefused
<1> HIDE DEF tried, r
<1>7. CASE PassWrites(MediaRejected(active, i), Looping)
  BY <1>1, <1>3, <1>4, <1>5, <1>7, PassWritesAndMovesOn
<1>8. CASE PassWrites(Isolated(tried, i, "event"), Looping)
  BY <1>1, <1>3, <1>4, <1>5, <1>8, PassWritesAndMovesOn
<1>9. CASE PassWrites(RouteBlocked(active, r), [Looping EXCEPT !.routeBlocked = TRUE])
  BY <1>1, <1>3, <1>4, <1>5, <1>9, PassWritesAndMovesOn
<1>10. QED
  BY <1>6, <1>7, <1>8, <1>9

LEMMA AttemptFailsWell ==
    ASSUME RetryInv, NEW transient \in BOOLEAN, NEW old \in BOOLEAN, AttemptFails(transient, old)
    PROVE  PassActed
<1> DEFINE i == pass.item
           tried == RetryFailed(active, i, transient)
           b == IsLocation(i) /\ transient
           p == [LoopBlocked(i) EXCEPT !.suspended = @ \/ b]
<1>1. pass.phase \notin {"idle", "loop"} /\ owner = pass.by
  BY DEF AttemptFails, Awaiting, Current
<1>2. pass \in PassRecord
  BY <1>1, PassIsAtWork
<1>3. /\ GoesOn(rows[owner], tried, {})
      /\ IsLocation(i) => GoesOn(rows[owner], Dropped(tried, i, "calledOff"), {})
      /\ GoesOn(rows[owner], Isolated(tried, i, "event"), {})
  BY <1>1, PassMethodsGoOn DEF active, Reasons
<1>4. \/ PassWrites(tried, p)
      \/ IsLocation(i) /\ PassWrites(Dropped(tried, i, "calledOff"), p)
      \/ PassWrites(Isolated(tried, i, "event"), p)
  BY DEF AttemptFails
<1>5. b \in BOOLEAN
  OBVIOUS
<1> HIDE DEF b, tried
<1>6. MovesOn(pass, p) /\ (IsOrdered(i) => Blocked(p))
  BY <1>2, <1>5, LoopBlockedMovesOn
<1> HIDE DEF p
<1>7. CASE PassWrites(tried, p)
  BY <1>1, <1>3, <1>6, <1>7, PassWritesAndMovesOn
<1>8. CASE IsLocation(i) /\ PassWrites(Dropped(tried, i, "calledOff"), p)
  BY <1>1, <1>3, <1>6, <1>8, PassWritesAndMovesOn
<1>9. CASE PassWrites(Isolated(tried, i, "event"), p)
  BY <1>1, <1>3, <1>6, <1>9, PassWritesAndMovesOn
<1>10. QED
  BY <1>4, <1>7, <1>8, <1>9

LEMMA PassResumesWell ==
    ASSUME RetryInv, PassResumes
    PROVE  PassActed
<1> DEFINE i == pass.item
           q == rows[pass.by]
           done == [Looping EXCEPT !.completed = TRUE]
<1>1. pass.phase = "persist"
  BY DEF PassResumes
<1>2. /\ pass \in PassRecord /\ i \in Ids /\ RouteOf[i] \in Routes /\ owner = pass.by
      /\ PassAtWork(pass, q, owner) /\ q \in [Ids -> Row] /\ pass.by \in Owners
  BY <1>1, PassIsAtWork, ItemsAssumption
<1>3. /\ IsOrdered(i) => Settled(q[i])
      /\ pass.resume = "uploaded" => IsProof(i) /\ q[i].uploaded
      /\ pass.resume = "completed" => IsRouteEnd(i)
  BY <1>1, <1>2 DEF PassAtWork, ItemFits
<1>4. PassGood(pass, rows, owner) /\ Inv
  BY DEF RetryInv
<1>5. CASE pass.resume = "posted" /\ KindOf[i] \in RouteEnds
           /\ PassWrites(RouteCleaned(active, RouteOf[i]), done)
  <2>1. GoesOn(rows[owner], RouteCleaned(active, RouteOf[i]), {})
    BY <1>1, <1>2, PassMethodsGoOn DEF active
  <2>2. /\ Writes({}, {}) /\ PassGood(pass, rows', owner)
        /\ UNCHANGED <<owner, nextSeq, writable>> /\ pass' = done
    BY <1>1, <1>2, <1>5, <2>1, PassWritesWell
  <2>3. rows'[pass.by] \in [Ids -> Row]
    BY <1>2, <2>2 DEF Writes, Inv
  <2>4. SameWork(pass, done) /\ done.phase = "loop" /\ done.completed = TRUE
    BY <1>2, WaitingStaysAt
  <2> HIDE DEF done
  <2>5. PassGood(done, rows', owner)
    BY <1>1, <1>2, <1>5, <2>2, <2>3, <2>4, RouteDoneIsGood DEF IsRouteEnd
  <2>6. QED
    BY <2>2, <2>5 DEF PassActed
<1>6. CASE pass.resume = "completed" /\ PassMoves(done)
  <2>1. SameWork(pass, done) /\ done.phase = "loop" /\ done.completed = TRUE
    BY <1>2, WaitingStaysAt
  <2> HIDE DEF done
  <2>2. PassGood(done, rows, owner)
    BY <1>1, <1>2, <1>3, <1>4, <1>6, <2>1, RouteDoneIsGood
  <2>3. QED
    BY <1>6, <2>2, PassOnlyMoves DEF PassMoves
<1>7. CASE pass.resume = "uploaded" /\ PassWrites(Acknowledged(active, i, FALSE), Persisting("next"))
  <2>1. IsProof(i) /\ active[i].uploaded /\ ~IsOrdered(i)
    BY <1>2, <1>3, <1>7, OrderedIsNoProof DEF active
  <2>2. GoesOn(rows[owner], Acknowledged(active, i, FALSE), {})
    BY <1>1, <1>2, <2>1, PassMethodsGoOn DEF active
  <2>3. StaysAt(pass, Persisting("next"), "persist") /\ Persisting("next").resume = "next"
    BY <1>2, WaitingStaysAt
  <2>4. ItemFits(Persisting("next"), Acknowledged(active, i, FALSE)[i])
    BY <2>1, <2>3 DEF ItemFits, StaysAt, SameWork
  <2>5. QED
    BY <1>1, <1>2, <1>7, <2>2, <2>3, <2>4, PassWritesAndStays
<1>8. CASE PassMoves(IdlePass)
  BY <1>8, PassStopsIsGood DEF PassMoves
<1>9. CASE PassMoves(Looping)
  <2>1. MovesOn(pass, pass') /\ UNCHANGED queueVars
    BY <1>2, <1>9, LoopingMovesOn DEF PassMoves
  <2>2. IsOrdered(i) => ~Live(q[i])
    BY <1>3 DEF Settled, Live
  <2>3. QED
    BY <1>1, <1>2, <2>1, <2>2, PassMovesOn
<1>10. QED
  BY <1>5, <1>6, <1>7, <1>8, <1>9 DEF PassResumes

(* Every step of the pass.                                                    *)
LEMMA PassStepActs ==
    ASSUME RetryInv, PassStep
    PROVE  PassActed
<1>1. Inv /\ PassGood(pass, rows, owner)
  BY DEF RetryInv
<1>2. CASE PassNext
  <2>1. PassGood(pass', rows, owner) /\ UNCHANGED queueVars
    BY <1>1, <1>2, PassNextIsGood DEF PassNext
  <2>2. QED
    BY <2>1, PassOnlyMoves
<1>3. CASE PassEnds \/ PassBreaks \/ PassDies
  BY <1>3, PassStopsIsGood DEF PassEnds, PassBreaks, PassDies
<1>4. CASE \E old \in BOOLEAN : PassRetires(old)
  BY <1>4, PassRetiresWell
<1>5. CASE \E transient, old \in BOOLEAN : AttemptFails(transient, old)
  BY <1>5, AttemptFailsWell
<1>6. QED
  BY <1>2, <1>3, <1>4, <1>5, StopReceiptArrivesWell, PassHoldsWell, PassIsolatesForeignWell,
     PassPostsWell, PassSendingMovesWell, EndReceiptArrivesWell, PassPostedWell, PassUploadedWell,
     PassRefusedWell, ProofRefusedWell, PassResumesWell
     DEF PassStep

--------------------------------------------------------------------------------
(* Steps that send nothing and record no workflow event.                      *)

LEMMA QuietStep ==
    ASSUME RetryInv, NEW ins, Writes(ins, {}), UNCHANGED <<live, sent>>, RecordsKeep,
           owner' = owner \/
              (owner' \in Owners /\ \A y \in Senders : live[y].phase \notin {"saving", "deactivating"}),
           \A i, j \in ins : i = j,
           \A i \in ins : i \in Ids /\ ~IsOrdered(i) /\ (IsProof(i) \/ recorder'[i] # NoOwner),
           \A i \in Ids : IsOrdered(i) => recorder'[i] = recorder[i],
           WorldGood', Applied \subseteq Applied'
    PROVE  /\ Inv' /\ SendersGood' /\ HistoryGood' /\ EndsAreLast' /\ CausesGood' /\ AcksGood'
           /\ SentInOrder' /\ CashCollectedOnce'
<1>1. /\ Inv /\ SendersGood /\ HistoryGood /\ EndsAreLast /\ CausesGood /\ AcksGood
      /\ SentInOrder /\ CashCollectedOnce
  BY DEF RetryInv
<1>2. SentGrows /\ \A i : HasBeenSent(i)' <=> HasBeenSent(i)
  BY <1>1 DEF SentGrows, HasBeenSent, HistoryGood
<1>3. \A i \in Ids : IsResult(i) \/ IsRouteEnd(i) \/ KindOf[i] = "cash" => IsOrdered(i)
  BY OrderedIsNoProof
<1>4. \A i \in ins : ~IsResult(i) /\ ~IsRouteEnd(i)
  BY <1>3
<1>5. \A y \in Senders : live[y].phase # "idle" => live[y].item \notin ins
  BY <1>1 DEF SendersGood, SenderAtWork
<1>6. SendersGood'
  BY <1>1, <1>2, <1>5, SendersStayGood
<1>7. HistoryGood'
  <2>1. \A i \in Ids : HasBeenSent(i)' => HasBeenSent(i) \/ recorder'[i] # NoOwner
    BY <1>2
  <2>2. \A i \in ins : IsProof(i) \/ recorder'[i] # NoOwner
    OBVIOUS
  <2>3. \A i \in Ids : recorder[i] = NoOwner /\ recorder'[i] # NoOwner /\ (IsResult(i) \/ IsRouteEnd(i))
                       => Present(rows'[recorder'[i]][i])
    BY <1>3
  <2>4. \A i \in ins : IsResult(i) => recorder'[i] = owner
    BY <1>4
  <2>5. \A i \in ins : IsRouteEnd(i) =>
              \/ recorder'[i] = owner
              \/ HasBeenSent(i) /\ recorder[i] # NoOwner /\ rows[recorder[i]][i].cause # "calledOff"
    BY <1>4
  <2>6. \A i \in {}, o \in Owners : Present(rows[o][i]) => recorder[i] = o
    OBVIOUS
  <2>7. QED
    BY <1>1, <1>2, <2>1, <2>2, <2>3, <2>4, <2>5, <2>6, HistoryStaysGood
<1>8. EndsAreLast'
  BY <1>1, <1>4, EndsStayLast
<1>9. CausesGood' /\ AcksGood'
  BY <1>1, CausesStayGood, AcksStayGood
<1>10. SentInOrder'
  <2>1. \A y \in Ids : HasBeenSent(y)' /\ ~HasBeenSent(y) /\ (IsResult(y) \/ IsRouteEnd(y)) =>
              \A o \in Owners, x \in Ids :
                 SameRoute(x, y) /\ Owned(o, x) /\ Owned(o, y) /\ rows[o][x].seq < rows[o][y].seq
                 => Settled(rows[o][x])
    BY <1>2
  <2>2. \A y \in ins : (IsResult(y) \/ IsRouteEnd(y)) /\ HasBeenSent(y)' => recorder'[y] # owner
    BY <1>4
  <2>3. QED
    BY <1>1, <1>2, <2>1, <2>2, SentStaysInOrder
<1>11. CashCollectedOnce'
  <2> SUFFICES ASSUME NEW i \in Ids, NEW j \in Ids, i # j, KindOf[i] = "cash", KindOf[j] = "cash",
                      StopOf[i] = StopOf[j], recorder'[i] # NoOwner
               PROVE  recorder'[i] # recorder'[j]
    BY DEF CashCollectedOnce
  <2>1. recorder'[i] = recorder[i] /\ recorder'[j] = recorder[j]
    BY <1>3
  <2>2. QED
    BY <1>1, <2>1 DEF CashCollectedOnce
<1>12. Inv'
  BY DEF Writes
<1>13. QED
  BY <1>6, <1>7, <1>8, <1>9, <1>10, <1>11, <1>12

LEMMA RecordsStay ==
    ASSUME HistoryGood, UNCHANGED recorder
    PROVE  RecordsKeep /\ \A i \in Ids : IsOrdered(i) => recorder'[i] = recorder[i]
  BY DEF RecordsKeep, HistoryGood

LEMMA SameWorld ==
    ASSUME WorldGood, UNCHANGED <<account, owner, session, terms, applied>>
    PROVE  WorldGood' /\ Applied \subseteq Applied'
  BY DEF WorldGood, Applied

(* A step of the pass that sends nothing.                                     *)
LEMMA PassStepIsGood ==
    ASSUME RetryInv, PassActed, UNCHANGED <<live, app, world>>
    PROVE  RetryInv'
<1>1. Writes({}, {}) /\ PassGood(pass', rows', owner) /\ owner' = owner
  BY DEF PassActed
<1>2. UNCHANGED <<live, account, session, recorder, sent, applied, terms>>
  BY DEF app, world
<1>3. HistoryGood /\ WorldGood
  BY DEF RetryInv
<1>4. WorldGood' /\ Applied \subseteq Applied'
  BY <1>1, <1>2, <1>3, SameWorld
<1>5. RecordsKeep /\ \A i \in Ids : IsOrdered(i) => recorder'[i] = recorder[i]
  BY <1>2, <1>3, RecordsStay
<1>6. /\ Inv' /\ SendersGood' /\ HistoryGood' /\ EndsAreLast' /\ CausesGood' /\ AcksGood'
      /\ SentInOrder' /\ CashCollectedOnce'
  BY <1>1, <1>2, <1>4, <1>5, QuietStep
<1>7. QED
  BY <1>1, <1>4, <1>6 DEF RetryInv

(* A step beside the pass.                                                    *)
LEMMA StepBesideIsGood ==
    ASSUME RetryInv, NEW ins, Writes(ins, {}), UNCHANGED <<pass, live, sent>>, RecordsKeep,
           owner' = owner \/
              (owner' \in Owners /\ \A y \in Senders : live[y].phase \notin {"saving", "deactivating"}),
           pass.phase \in {"loop", "send", "persist"} => owner' = owner,
           \A i, j \in ins : i = j,
           \A i \in ins : i \in Ids /\ ~IsOrdered(i) /\ (IsProof(i) \/ recorder'[i] # NoOwner),
           \A i \in Ids : IsOrdered(i) => recorder'[i] = recorder[i],
           WorldGood', Applied \subseteq Applied'
    PROVE  RetryInv'
<1>1. Inv /\ PassGood(pass, rows, owner)
  BY DEF RetryInv
<1>2. PassGood(pass, rows', owner')
  BY <1>1, PassStaysGood
<1>3. /\ Inv' /\ SendersGood' /\ HistoryGood' /\ EndsAreLast' /\ CausesGood' /\ AcksGood'
      /\ SentInOrder' /\ CashCollectedOnce'
  BY QuietStep
<1>4. QED
  BY <1>2, <1>3 DEF RetryInv

(* ... that changes no row and knows of the same account.                     *)
LEMMA StepOutsideIsGood ==
    ASSUME RetryInv, UNCHANGED <<rows, owner, nextSeq, pass, live, sent, recorder>>,
           writable' \in BOOLEAN, WorldGood', Applied \subseteq Applied'
    PROVE  RetryInv'
<1>1. Inv /\ HistoryGood
  BY DEF RetryInv
<1>2. owner' \in Owners \cup {NoOwner}
  BY <1>1 DEF Inv
<1>3. Writes({}, {})
  BY <1>1, <1>2, SameRowsWrite
<1>4. RecordsKeep /\ \A i \in Ids : IsOrdered(i) => recorder'[i] = recorder[i]
  BY <1>1, RecordsStay
<1>5. QED
  BY <1>3, <1>4, StepBesideIsGood

(* ... that gives the bound account the rows q.                               *)
LEMMA ElsewhereIsGood ==
    ASSUME RetryInv, NEW q, NEW k \in Nat, NEW ins, Elsewhere(q, k), RecordsKeep,
           Leaves(rows[owner], q, ins, {}, nextSeq, nextSeq + k),
           \A i, j \in ins : i = j,
           \A i \in ins : i \in Ids /\ ~IsOrdered(i) /\ (IsProof(i) \/ recorder'[i] # NoOwner),
           \A i \in Ids : IsOrdered(i) => recorder'[i] = recorder[i]
    PROVE  RetryInv'
<1>1. Inv /\ WorldGood
  BY DEF RetryInv
<1>2. Become(q, k) /\ UNCHANGED <<pass, live, sent, owner, account, session, terms, applied>>
  BY DEF Elsewhere, Become, world
<1>3. owner \in Owners
  BY <1>1 DEF Elsewhere, Mutable, Inv
<1>4. Writes(ins, {})
  BY <1>1, <1>2, <1>3, BecomeWrites
<1>5. WorldGood' /\ Applied \subseteq Applied'
  BY <1>1, <1>2, SameWorld
<1>6. QED
  BY <1>2, <1>4, <1>5, StepBesideIsGood

LEMMA ElsewhereGoesOn ==
    ASSUME RetryInv, NEW q, Elsewhere(q, 0), UNCHANGED recorder,
           GoesOn(rows[owner], q, {})
    PROVE  RetryInv'
<1>1. Inv /\ HistoryGood
  BY DEF RetryInv
<1>2. nextSeq \in Nat /\ nextSeq + 0 = nextSeq
  BY <1>1 DEF Inv
<1>3. Leaves(rows[owner], q, {}, {}, nextSeq, nextSeq + 0)
  BY <1>2, GoesOnLeaves
<1>4. RecordsKeep /\ \A i \in Ids : IsOrdered(i) => recorder'[i] = recorder[i]
  BY <1>1, RecordsStay
<1>5. QED
  BY <1>3, <1>4, ElsewhereIsGood

LEMMA PassStartIsGoodStep ==
    ASSUME RetryInv, NEW r \in Routes, NEW allow \in BOOLEAN, PassStart(r, allow)
    PROVE  RetryInv'
<1>1. Inv /\ EndsAreLast /\ WorldGood
  BY DEF RetryInv
<1>2. PassGood(pass', rows, owner)
  BY <1>1, PassStartIsGood
<1>3. UNCHANGED queueVars /\ UNCHANGED <<live, app, world>>
  BY DEF PassStart
<1>4. QED
  BY <1>2, <1>3, PassOnlyMoves, PassStepIsGood

LEMMA PassStepSendsNothing ==
    ASSUME PassStep, ~PassPosts
    PROVE  UNCHANGED <<live, app, world>>
<1>1. \A q, p : PassWrites(q, p) => UNCHANGED <<live, app, world>>
  BY DEF PassWrites
<1>2. CASE StopReceiptArrives
  BY <1>1, <1>2 DEF StopReceiptArrives
<1>3. CASE PassIsolatesForeign \/ \E old \in BOOLEAN : PassRetires(old)
  BY <1>1, <1>3 DEF PassIsolatesForeign, PassRetires
<1>4. CASE EndReceiptArrives \/ PassPosted \/ PassUploaded
  BY <1>1, <1>4 DEF EndReceiptArrives, PassPosted, PassUploaded
<1>5. CASE PassRefused
  BY <1>1, <1>5 DEF PassRefused
<1>6. CASE ProofRefused
  BY <1>1, <1>6 DEF ProofRefused
<1>7. CASE \E transient, old \in BOOLEAN : AttemptFails(transient, old)
  BY <1>1, <1>7 DEF AttemptFails
<1>8. CASE PassResumes
  BY <1>1, <1>8 DEF PassResumes, PassMoves
<1>9. CASE PassNext \/ PassEnds \/ PassBreaks \/ PassDies
  BY <1>9 DEF PassNext, PassEnds, PassBreaks, PassDies
<1>10. CASE PassHolds \/ PassAwaitsProofs \/ PassAsksForEndReceipt \/ PassUploads
  BY <1>10 DEF PassHolds, PassAwaitsProofs, PassAsksForEndReceipt, PassUploads
<1>11. QED
  BY <1>2, <1>3, <1>4, <1>5, <1>6, <1>7, <1>8, <1>9, <1>10 DEF PassStep

LEMMA ServerStepsAreGood ==
    ASSUME RetryInv,
           \/ \E req \in sent : ServerApplies(req)
           \/ \E r \in Routes : DispatcherClosesRoute(r)
           \/ \E r \in Routes, c \in Contracts : DispatcherReassigns(r, c)
    PROVE  RetryInv'
<1>1. WorldGood /\ HistoryGood /\ writable \in BOOLEAN
  BY DEF RetryInv, Inv
<1>2. CASE \E req \in sent : ServerApplies(req)
  <2>1. PICK req \in sent : ServerApplies(req)
    BY <1>2
  <2>2. req.id \in Ids /\ applied \in Seq(Ids) /\ applied' = Append(applied, req.id)
    BY <1>1, <2>1 DEF HistoryGood, WorldGood, ServerApplies
  <2>3. Applied \subseteq Applied'
    <3>1. \A i : i \in Applied => i \in Applied'
      BY <2>2, AppliedGrows
    <3>2. QED
      BY <3>1
  <2>4. applied' \in Seq(Ids)
    BY <2>2
  <2>5. UNCHANGED <<rows, owner, nextSeq, writable, pass, live, account, session, recorder, sent, terms>>
    BY <2>1 DEF ServerApplies, queueVars, app
  <2>6. WorldGood'
    BY <1>1, <2>4, <2>5 DEF WorldGood
  <2>7. QED
    BY <1>1, <2>3, <2>5, <2>6, StepOutsideIsGood
<1>3. CASE \/ \E r \in Routes : DispatcherClosesRoute(r)
           \/ \E r \in Routes, c \in Contracts : DispatcherReassigns(r, c)
  <2>1. UNCHANGED <<rows, owner, nextSeq, writable, pass, live, account, session, recorder, sent, applied>>
    BY <1>3 DEF DispatcherClosesRoute, DispatcherReassigns, queueVars, app
  <2>2. terms' \in [Routes -> Contracts]
    BY <1>1, <1>3 DEF WorldGood, DispatcherClosesRoute, DispatcherReassigns
  <2>3. WorldGood' /\ Applied \subseteq Applied'
    BY <1>1, <2>1, <2>2 DEF WorldGood, Applied
  <2>4. QED
    BY <1>1, <2>1, <2>3, StepOutsideIsGood
<1>4. QED
  BY <1>2, <1>3

LEMMA LocationStoredIsGood ==
    ASSUME RetryInv, NEW i \in Ids, LocationStored(i)
    PROVE  RetryInv'
<1>1. Inv /\ HistoryGood /\ owner \in Owners
  BY DEF RetryInv, Inv, LocationStored, Elsewhere, Mutable
<1>2. Elsewhere(Queue(i, NoContract), 1) /\ recorder' = [recorder EXCEPT ![i] = owner]
      /\ IsLocation(i) /\ recorder[i] = NoOwner
  BY DEF LocationStored
<1>3. ~IsOrdered(i) /\ ~IsProof(i)
  BY <1>2, LocationIsPlain
<1>4. ~Present(active[i])
  BY <1>1, <1>2, <1>3 DEF HistoryGood, active
<1>5. Sound(active) /\ nextSeq \in Nat /\ NoContract \in AnyContract
  BY <1>1 DEF Inv, active, AnyContract
<1>6. Leaves(active, Queue(i, NoContract), {i}, {}, nextSeq, nextSeq + Inserts(active, i))
  BY <1>4, <1>5, EnqueuedLeaves DEF Queue
<1>7. Inserts(active, i) = 1
  BY <1>4 DEF Inserts, Present
<1>8. /\ RecordsKeep /\ recorder'[i] = owner /\ owner # NoOwner
      /\ \A j \in Ids : IsOrdered(j) => recorder'[j] = recorder[j]
  BY <1>1, <1>2, <1>3, OwnersAssumption DEF RecordsKeep, HistoryGood
<1>9. QED
  BY <1>2, <1>3, <1>6, <1>7, <1>8, ElsewhereIsGood DEF active

LEMMA ProofStoredIsGood ==
    ASSUME RetryInv, NEW p \in Ids, ProofStored(p)
    PROVE  RetryInv'
<1>1. Inv /\ HistoryGood /\ owner \in Owners
  BY DEF RetryInv, Inv, ProofStored, Elsewhere, Mutable
<1>2. Elsewhere(ProofEnqueued(active, p, nextSeq), 1) /\ UNCHANGED recorder
      /\ IsProof(p) /\ active[p].state = "ABSENT"
  BY DEF ProofStored
<1>3. Sound(active) /\ nextSeq \in Nat
  BY <1>1 DEF Inv, active
<1>4. Leaves(active, ProofEnqueued(active, p, nextSeq), {p}, {}, nextSeq, nextSeq + 1)
  BY <1>2, <1>3, ProofEnqueuedLeaves
<1>5. RecordsKeep /\ \A j \in Ids : IsOrdered(j) => recorder'[j] = recorder[j]
  BY <1>1, <1>2, RecordsStay
<1>6. ~IsOrdered(p)
  BY <1>2, OrderedIsNoProof
<1>7. QED
  BY <1>2, <1>4, <1>5, <1>6, ElsewhereIsGood DEF active

(* The rows of the bound account, when it is bound.                           *)
LEMMA BoundRows ==
    ASSUME RetryInv, owner # NoOwner
    PROVE  owner \in Owners /\ Sound(active) /\ active \in [Ids -> Row] /\ active = rows[owner]
  BY DEF RetryInv, Inv, active

LEMMA CaptureUploadEndsIsGood ==
    ASSUME RetryInv, NEW p \in Ids, CaptureUploadEnds(p)
    PROVE  RetryInv'
<1>1. UNCHANGED recorder /\ IsProof(p) /\ active[p].state # "ABSENT" /\ owner # NoOwner
  BY DEF CaptureUploadEnds, Elsewhere, Mutable
<1>2. /\ owner \in Owners /\ Sound(active) /\ active \in [Ids -> Row] /\ active = rows[owner]
      /\ RouteOf[p] \in Routes
  BY <1>1, BoundRows, ItemsAssumption
<1>3. CASE Elsewhere(Acknowledged(MediaRecorded(active, p), p, FALSE), 0)
  <2> DEFINE t == MediaRecorded(active, p)
  <2>1. GoesOn(active, t, {})
    BY <1>2, RowMethodsGoOn
  <2>2. t[p].uploaded = TRUE
    BY <1>1, <1>2 DEF MediaRecorded, Row
  <2> HIDE DEF t
  <2>3. Sound(t) /\ Vouched(p, t[p])
    BY <1>1, <2>1, <2>2 DEF GoesOn, Keeps, Vouched
  <2>4. GoesOn(t, Acknowledged(t, p, FALSE), {})
    BY <2>3, RowMethodsGoOn
  <2>5. GoesOn(active, Acknowledged(t, p, FALSE), {})
    BY <2>1, <2>4, GoesOnCompose
  <2>6. QED
    BY <1>1, <1>2, <1>3, <2>5, ElsewhereGoesOn DEF t
<1>4. CASE Elsewhere(MediaRejected(active, p), 0)
  <2>1. GoesOn(active, MediaRejected(active, p), {})
    BY <1>2, RowMethodsGoOn
  <2>2. QED
    BY <1>1, <1>2, <1>4, <2>1, ElsewhereGoesOn
<1>5. CASE Elsewhere(RouteBlocked(active, RouteOf[p]), 0)
  <2>1. GoesOn(active, RouteBlocked(active, RouteOf[p]), {})
    BY <1>2, QueueMethodsGoOn
  <2>2. QED
    BY <1>1, <1>2, <1>5, <2>1, ElsewhereGoesOn
<1>6. QED
  BY <1>3, <1>4, <1>5 DEF CaptureUploadEnds

LEMMA ReceiptsRecoveredAreGood ==
    ASSUME RetryInv, NEW i \in Ids, StopReceiptRecovered(i) \/ RouteEndReceiptRecovered(i)
    PROVE  RetryInv'
<1>1. UNCHANGED recorder /\ ~IsProof(i) /\ owner # NoOwner
  <2>1. KindOf[i] = "cash" \/ KindOf[i] \in RouteEnds
    BY DEF StopReceiptRecovered, RouteEndReceiptRecovered
  <2>2. ~IsProof(i)
    BY <2>1 DEF IsProof, RouteEnds
  <2>3. UNCHANGED recorder /\ owner # NoOwner
    BY DEF StopReceiptRecovered, RouteEndReceiptRecovered, Elsewhere, Mutable
  <2>4. QED
    BY <2>2, <2>3
<1>2. /\ owner \in Owners /\ Sound(active) /\ active \in [Ids -> Row] /\ active = rows[owner]
      /\ RouteOf[i] \in Routes
  BY <1>1, BoundRows, ItemsAssumption
<1>3. i \in Applied => Vouched(i, active[i])
  BY <1>1 DEF Vouched
<1>4. /\ i \in Applied => GoesOn(active, Acknowledged(active, i, TRUE), {})
      /\ GoesOn(active, Isolated(active, i, "event"), {})
      /\ GoesOn(active, RetryFailed(active, i, TRUE), {})
  BY <1>2, <1>3, RowMethodsGoOn DEF Reasons
<1>5. GoesOn(active, RouteBlocked(active, RouteOf[i]), {})
  BY <1>2, QueueMethodsGoOn
<1>6. ASSUME i \in Applied
      PROVE  GoesOn(active, RouteCleaned(Acknowledged(active, i, TRUE), RouteOf[i]), {})
  <2> DEFINE t == Acknowledged(active, i, TRUE)
  <2>1. GoesOn(active, t, {})
    BY <1>4, <1>6
  <2> HIDE DEF t
  <2>2. Sound(t)
    BY <2>1 DEF GoesOn, Keeps
  <2>3. GoesOn(t, RouteCleaned(t, RouteOf[i]), {})
    BY <1>2, <2>2, QueueMethodsGoOn
  <2>4. GoesOn(active, RouteCleaned(t, RouteOf[i]), {})
    BY <2>1, <2>3, GoesOnCompose
  <2>5. QED
    BY <2>4 DEF t
<1>7. \A c : "acknowledge" \in ReceiptSays(i, c) => i \in Applied
  BY DEF ReceiptSays
<1>8. \E q : Elsewhere(q, 0) /\ GoesOn(active, q, {})
  <2>1. CASE StopReceiptRecovered(i)
    BY <1>4, <1>7, <2>1 DEF StopReceiptRecovered
  <2>2. CASE RouteEndReceiptRecovered(i)
    BY <1>4, <1>5, <1>6, <1>7, <2>2 DEF RouteEndReceiptRecovered
  <2>3. QED
    BY <2>1, <2>2
<1>9. QED
  BY <1>1, <1>2, <1>8, ElsewhereGoesOn

LEMMA BlockingAndReconcilingAreGood ==
    ASSUME RetryInv, OperatorReconciles \/ \E r \in Routes : LocationTaskBlocksRoute(r)
    PROVE  RetryInv'
<1>1. UNCHANGED recorder /\ owner # NoOwner
  BY DEF OperatorReconciles, LocationTaskBlocksRoute, Elsewhere, Mutable
<1>2. owner \in Owners /\ Sound(active) /\ active = rows[owner]
  BY <1>1, BoundRows
<1>3. /\ \A r \in Routes : GoesOn(active, RouteBlocked(active, r), {})
      /\ GoesOn(active, Reconciled(active), {})
  BY <1>2, QueueMethodsGoOn
<1>4. \E q : Elsewhere(q, 0) /\ GoesOn(active, q, {})
  BY <1>3 DEF OperatorReconciles, LocationTaskBlocksRoute
<1>5. QED
  BY <1>1, <1>2, <1>4, ElsewhereGoesOn

(* Sign-out tells the pass to stop: it is the same pass, aborted.             *)
LEMMA AbortedIsGood ==
    ASSUME NEW p, NEW R, NEW own, PassGood(p, R, own)
    PROVE  PassGood([p EXCEPT !.aborted = TRUE], R, own)
<1> DEFINE p2 == [p EXCEPT !.aborted = TRUE]
<1>1. p \in PassRecord
  BY DEF PassGood
<1>2. /\ p2 \in PassRecord /\ p2.phase = p.phase /\ p2.item = p.item /\ p2.by = p.by
      /\ p2.todo = p.todo /\ p2.route = p.route /\ p2.snap = p.snap /\ p2.resume = p.resume
      /\ p2.workflowBlocked = p.workflowBlocked /\ p2.routeBlocked = p.routeBlocked
      /\ p2.completed = p.completed
  BY <1>1 DEF PassRecord
<1> HIDE DEF p2
<1>3. Remaining(p2) = Remaining(p) /\ Blocked(p2) = Blocked(p)
  BY <1>2 DEF Remaining, Blocked
<1>4. \A row : ItemFits(p, row) => ItemFits(p2, row)
  BY <1>2, <1>3 DEF ItemFits
<1>5. \A q : HeadsFirst(p, q) => HeadsFirst(p2, q)
  BY <1>2, <1>3 DEF HeadsFirst
<1>6. \A q : PassAtWork(p, q, own) => PassAtWork(p2, q, own)
  BY <1>2, <1>3, <1>4, <1>5 DEF PassAtWork
<1>7. PassGood(p2, R, own)
  BY <1>2, <1>6 DEF PassGood
<1>8. QED
  BY <1>7 DEF p2

LEMMA LogoutBeginsIsGood ==
    ASSUME RetryInv, LogoutBegins
    PROVE  RetryInv'
<1>1. /\ Inv /\ HistoryGood /\ WorldGood /\ PassGood(pass, rows, owner)
      /\ UNCHANGED <<rows, owner, nextSeq, writable, live, session, recorder, sent, applied, terms>>
      /\ account = "in" /\ account' = "leaving"
  BY DEF RetryInv, LogoutBegins, queueVars, world
<1>2. owner' \in Owners \cup {NoOwner} /\ writable' \in BOOLEAN
  BY <1>1 DEF Inv
<1>3. Writes({}, {})
  BY <1>1, <1>2, SameRowsWrite
<1>4. RecordsKeep /\ \A i \in Ids : IsOrdered(i) => recorder'[i] = recorder[i]
  BY <1>1, RecordsStay
<1>5. WorldGood' /\ Applied \subseteq Applied'
  BY <1>1 DEF WorldGood, Applied
<1>6. /\ Inv' /\ SendersGood' /\ HistoryGood' /\ EndsAreLast' /\ CausesGood' /\ AcksGood'
      /\ SentInOrder' /\ CashCollectedOnce'
  BY <1>1, <1>3, <1>4, <1>5, QuietStep
<1>7. PassGood(pass', rows, owner)
  <2>1. pass' = pass \/ pass' = [pass EXCEPT !.aborted = TRUE]
    BY DEF LogoutBegins
  <2>2. QED
    BY <1>1, <2>1, AbortedIsGood
<1>8. QED
  BY <1>1, <1>5, <1>6, <1>7 DEF RetryInv

LEMMA LogoutSealsIsGood ==
    ASSUME RetryInv, LogoutSeals
    PROVE  RetryInv'
<1>1. /\ Inv /\ HistoryGood /\ WorldGood
      /\ UNCHANGED <<owner, nextSeq, writable, pass, live, session, recorder, sent, applied, terms>>
      /\ account = "leaving" /\ account' = "out"
      /\ rows' = IF writable THEN [rows EXCEPT ![owner] = Sealed(active)] ELSE rows
  BY DEF RetryInv, LogoutSeals, world
<1>2. owner \in Owners /\ owner' \in Owners \cup {NoOwner} /\ writable' \in BOOLEAN
      /\ Sound(active) /\ active = rows[owner]
  BY <1>1 DEF WorldGood, Inv, active
<1>3. GoesOn(active, Sealed(active), {})
  BY <1>2, QueueMethodsGoOn
<1>4. Writes({}, {})
  <2>1. CASE writable
    <3>1. rows' = [rows EXCEPT ![owner] = Sealed(active)]
      BY <1>1, <2>1
    <3>2. QED
      BY <1>1, <1>2, <1>3, <3>1, GoingOnWrites
  <2>2. CASE ~writable
    <3>1. rows' = rows
      BY <1>1, <2>2
    <3>2. QED
      BY <1>1, <1>2, <3>1, SameRowsWrite
  <2>3. QED
    BY <2>1, <2>2
<1>5. RecordsKeep /\ \A i \in Ids : IsOrdered(i) => recorder'[i] = recorder[i]
  BY <1>1, RecordsStay
<1>6. WorldGood' /\ Applied \subseteq Applied'
  BY <1>1 DEF WorldGood, Applied
<1>7. QED
  BY <1>1, <1>4, <1>5, <1>6, StepBesideIsGood

LEMMA SignsInIsGood ==
    ASSUME RetryInv, NEW o \in Owners, SignsIn(o)
    PROVE  RetryInv'
<1>1. /\ Inv /\ HistoryGood /\ WorldGood
      /\ UNCHANGED <<rows, nextSeq, writable, pass, live, session, recorder, sent, applied, terms>>
      /\ account' = "in" /\ owner' = o /\ pass.phase \notin {"loop", "send", "persist"}
      /\ \A x \in Senders : live[x].phase \notin {"saving", "deactivating"}
  BY DEF RetryInv, SignsIn, world
<1>2. owner' \in Owners /\ owner' \in Owners \cup {NoOwner} /\ writable' \in BOOLEAN
  BY <1>1 DEF Inv
<1>3. Writes({}, {})
  BY <1>1, <1>2, SameRowsWrite
<1>4. RecordsKeep /\ \A i \in Ids : IsOrdered(i) => recorder'[i] = recorder[i]
  BY <1>1, RecordsStay
<1>5. WorldGood' /\ Applied \subseteq Applied'
  BY <1>1 DEF WorldGood, Applied
<1>6. QED
  BY <1>1, <1>2, <1>3, <1>4, <1>5, StepBesideIsGood

LEMMA AppStepsAreGood ==
    ASSUME RetryInv,
           \/ \E r \in Routes : SessionRefreshed(r)
           \/ StorageFails \/ StorageRecovers
    PROVE  RetryInv'
<1>1. WorldGood /\ writable \in BOOLEAN
  BY DEF RetryInv, Inv
<1>2. /\ UNCHANGED <<rows, owner, nextSeq, pass, live, account, sent, recorder, applied, terms>>
      /\ writable' \in BOOLEAN
      /\ session' \in [Routes -> Contracts]
  <2>1. CASE \E r \in Routes : SessionRefreshed(r)
    BY <1>1, <2>1 DEF WorldGood, SessionRefreshed, queueVars, world
  <2>2. CASE StorageFails \/ StorageRecovers
    BY <1>1, <2>2 DEF WorldGood, StorageFails, StorageRecovers, app, world
  <2>3. QED
    BY <2>1, <2>2
<1>3. WorldGood' /\ Applied \subseteq Applied'
  BY <1>1, <1>2 DEF WorldGood, Applied
<1>4. QED
  BY <1>2, <1>3, StepOutsideIsGood

--------------------------------------------------------------------------------
(* The pass sends: the event it is at has no live workflow event before it,   *)
(* or it was recorded under another account, and then it was sent already.    *)

LEMMA PostIsInOrder ==
    ASSUME RetryInv, PassPosts, NEW o \in Owners, NEW x \in Ids,
           IsResult(pass.item) \/ IsRouteEnd(pass.item), ~HasBeenSent(pass.item),
           SameRoute(x, pass.item), Owned(o, x), Owned(o, pass.item),
           rows[o][x].seq < rows[o][pass.item].seq
    PROVE  Settled(rows[o][x])
<1> DEFINE y == pass.item
           q == rows[pass.by]
<1>1. IsOrdered(y) => ~Blocked(pass)
  BY PassPostsWell
<1>2. pass.phase \in {"send", "endReceipt"} /\ owner = pass.by
  BY PassPostsWell DEF PassPosts, Sendable
<1>3. /\ y \in Ids /\ pass.by \in Owners /\ PassAtWork(pass, q, owner) /\ Present(q[y])
  BY <1>2, PassIsAtWork
<1>4. IsOrdered(y) /\ ~Blocked(pass)
  BY <1>1, <1>3, OrderedIsNoProof
<1>5. /\ Inv /\ HistoryGood
      /\ recorder[y] = o /\ x # y /\ RouteOf[x] = RouteOf[y] /\ IsOrdered(x)
      /\ Present(rows[o][x]) /\ Present(rows[o][y])
  BY DEF RetryInv, SameRoute, Owned
<1>6. o = pass.by
  BY <1>3, <1>5 DEF HistoryGood
<1>7. y \in Remaining(pass) /\ RouteOf[y] = pass.route
  BY <1>2, <1>3 DEF Remaining, PassAtWork
<1>8. x \notin Remaining(pass)
  <2> SUFFICES ASSUME x \in pass.todo PROVE FALSE
    BY <1>5 DEF Remaining
  <2>1. q[y].seq < q[x].seq
    BY <1>2, <1>3 DEF PassAtWork
  <2>2. q[x].seq < q[y].seq
    BY <1>6
  <2>3. q[x].seq \in Nat /\ q[y].seq \in Nat
    BY <1>3, <1>5, RowTypes
  <2>4. QED
    BY <2>1, <2>2, <2>3
<1>9. ~pass.completed
  BY <1>2, <1>3 DEF PassAtWork
<1>10. Live(q[x]) => q[x].seq > q[y].seq
  BY <1>3, <1>4, <1>5, <1>7, <1>8, <1>9 DEF PassAtWork, HeadsFirst
<1>11. q[x].seq \in Nat /\ q[y].seq \in Nat /\ q[x].seq < q[y].seq
  BY <1>3, <1>5, <1>6, RowTypes
<1>12. ~Live(q[x])
  BY <1>10, <1>11
<1>13. QED
  BY <1>3, <1>5, <1>6, <1>12, LiveOrSettled

LEMMA PassPostsIsGood ==
    ASSUME RetryInv, PassPosts
    PROVE  RetryInv'
<1> DEFINE i == pass.item
<1>1. /\ Inv /\ SendersGood /\ HistoryGood /\ EndsAreLast /\ CausesGood /\ AcksGood
      /\ SentInOrder /\ CashCollectedOnce /\ WorldGood
  BY DEF RetryInv
<1>2. PassActed /\ owner = pass.by /\ ~IsProof(i)
  BY PassPostsWell
<1>3. Writes({}, {}) /\ PassGood(pass', rows', owner) /\ owner' = owner
  BY <1>2 DEF PassActed
<1>4. /\ UNCHANGED <<live, account, session, recorder, applied, terms>>
      /\ sent' = sent \cup {[id |-> i, contract |-> Contract(i)]}
      /\ pass.phase \in {"send", "endReceipt"}
  BY DEF PassPosts, Transmits, app, Sendable
<1>5. i \in Ids /\ pass.by \in Owners /\ Present(rows[pass.by][i]) /\ pass \in PassRecord
  BY <1>4, PassIsAtWork
<1>6. recorder[i] # NoOwner
  BY <1>1, <1>2, <1>5 DEF HistoryGood
<1>7. Contract(i) \in AnyContract
  BY <1>5 DEF Contract, PassRecord
<1>8. SentGrows
  BY <1>1, <1>4, <1>5, <1>7 DEF SentGrows, HistoryGood
<1>9. \A y : HasBeenSent(y)' => HasBeenSent(y) \/ y = i
  BY <1>4 DEF HasBeenSent
<1>10. RecordsKeep
  BY <1>1, <1>4, RecordsStay
<1>11. WorldGood' /\ Applied \subseteq Applied'
  BY <1>1, <1>3, <1>4, SameWorld
<1>12. SendersGood'
  BY <1>1, <1>3, <1>4, <1>8, <1>10, SendersStayGood
<1>13. HistoryGood'
  <2>1. \A j \in Ids : HasBeenSent(j)' => HasBeenSent(j) \/ recorder'[j] # NoOwner
    BY <1>4, <1>6, <1>9
  <2>2. \A j \in Ids : recorder[j] = NoOwner /\ recorder'[j] # NoOwner /\ (IsResult(j) \/ IsRouteEnd(j))
                       => Present(rows'[recorder'[j]][j])
    BY <1>4
  <2>3. QED
    BY <1>1, <1>3, <1>8, <1>10, <2>1, <2>2, HistoryStaysGood
<1>14. EndsAreLast'
  BY <1>1, <1>3, EndsStayLast
<1>15. CausesGood' /\ AcksGood'
  BY <1>1, <1>3, <1>11, CausesStayGood, AcksStayGood
<1>16. SentInOrder'
  <2>1. \A y \in Ids : HasBeenSent(y)' /\ ~HasBeenSent(y) /\ (IsResult(y) \/ IsRouteEnd(y)) =>
              \A o \in Owners, x \in Ids :
                 SameRoute(x, y) /\ Owned(o, x) /\ Owned(o, y) /\ rows[o][x].seq < rows[o][y].seq
                 => Settled(rows[o][x])
    BY <1>9, PostIsInOrder
  <2>2. QED
    BY <1>1, <1>3, <1>8, <1>10, <2>1, SentStaysInOrder
<1>17. CashCollectedOnce'
  BY <1>1, <1>4 DEF CashCollectedOnce
<1>18. Inv'
  BY <1>3 DEF Writes
<1>19. QED
  BY <1>3, <1>11, <1>12, <1>13, <1>14, <1>15, <1>16, <1>17, <1>18 DEF RetryInv

--------------------------------------------------------------------------------
(* The direct senders.                                                        *)

(* The step records, sends, inserts or calls off no other event than i.       *)
Concerns(i, ins, off) ==
    /\ ins \subseteq {i} /\ off \subseteq {i} /\ ins \cap off = {}
    /\ \A j \in Ids : j # i => recorder'[j] = recorder[j]
    /\ \A j \in Ids : HasBeenSent(j)' => HasBeenSent(j) \/ (j = i /\ recorder'[i] # NoOwner)
    /\ i \in ins =>
          /\ recorder'[i] # NoOwner
          /\ IsResult(i) => recorder'[i] = owner /\ ~Ended(RouteOf[i])
          /\ IsRouteEnd(i) =>
                \/ recorder'[i] = owner
                \/ HasBeenSent(i) /\ recorder[i] # NoOwner /\ rows[recorder[i]][i].cause # "calledOff"
          /\ (IsResult(i) \/ IsRouteEnd(i)) /\ HasBeenSent(i)' => recorder'[i] # owner
    /\ recorder[i] = NoOwner /\ recorder'[i] # NoOwner /\ (IsResult(i) \/ IsRouteEnd(i))
       => Present(rows'[recorder'[i]][i])
    /\ i \in off => \A o \in Owners : Present(rows[o][i]) => recorder[i] = o
    /\ HasBeenSent(i)' /\ ~HasBeenSent(i) /\ (IsResult(i) \/ IsRouteEnd(i))
       => recorder'[i] = owner /\ ~EarlierWaits(i) /\ i \notin ins

LEMMA SenderStepKeeps ==
    ASSUME RetryInv, NEW i \in Ids, NEW ins, NEW off, Concerns(i, ins, off), Writes(ins, off),
           UNCHANGED <<owner, pass, account, session, applied, terms>>, owner \in Owners,
           NEW x \in Senders, NEW l \in SenderRecord, Turns(x, l, ins, off),
           RecordsKeep, SentGrows, CashCollectedOnce'
    PROVE  RetryInv'
<1>1. /\ Inv /\ SendersGood /\ HistoryGood /\ EndsAreLast /\ CausesGood /\ AcksGood
      /\ SentInOrder /\ WorldGood /\ PassGood(pass, rows, owner)
  BY DEF RetryInv
<1>2. (\A j \in ins : j = i) /\ (\A j \in off : j = i) /\ ins \cap off = {}
  BY DEF Concerns
<1>4. Inv'
  BY DEF Writes
<1>5. PassGood(pass, rows', owner')
  BY <1>1, PassStaysGood
<1>6. WorldGood' /\ Applied \subseteq Applied'
  BY <1>1, SameWorld
<1>7. SendersGood'
  BY <1>1, SenderStepIsGood
<1>8. HistoryGood'
  <2>1. \A j \in Ids : HasBeenSent(j)' => HasBeenSent(j) \/ recorder'[j] # NoOwner
    BY DEF Concerns
  <2>2. \A j \in ins : IsProof(j) \/ recorder'[j] # NoOwner
    BY <1>2 DEF Concerns
  <2>3. \A j \in Ids : recorder[j] = NoOwner /\ recorder'[j] # NoOwner /\ (IsResult(j) \/ IsRouteEnd(j))
                       => Present(rows'[recorder'[j]][j])
    BY DEF Concerns
  <2>4. \A j \in ins : IsResult(j) => recorder'[j] = owner
    BY <1>2 DEF Concerns
  <2>5. \A j \in ins : IsRouteEnd(j) =>
              \/ recorder'[j] = owner
              \/ HasBeenSent(j) /\ recorder[j] # NoOwner /\ rows[recorder[j]][j].cause # "calledOff"
    BY <1>2 DEF Concerns
  <2>6. \A j \in off, o \in Owners : Present(rows[o][j]) => recorder[j] = o
    BY <1>2 DEF Concerns
  <2>7. QED
    BY <1>1, <1>2, <2>1, <2>2, <2>3, <2>4, <2>5, <2>6, HistoryStaysGood
<1>9. EndsAreLast'
  <2>1. (\A j, k \in ins : j = k) /\ \A j \in ins : IsResult(j) => ~Ended(RouteOf[j])
    BY <1>2 DEF Concerns
  <2>2. QED
    BY <1>1, <2>1, EndsStayLast
<1>10. CausesGood' /\ AcksGood'
  BY <1>1, <1>6, CausesStayGood, AcksStayGood
<1>11. SentInOrder'
  <2>1. ASSUME NEW y \in Ids, HasBeenSent(y)', ~HasBeenSent(y), IsResult(y) \/ IsRouteEnd(y),
               NEW o \in Owners, NEW z \in Ids, SameRoute(z, y), Owned(o, z), Owned(o, y)
        PROVE  Settled(rows[o][z])
    <3>1. y = i /\ recorder'[i] = owner /\ ~EarlierWaits(i)
      BY <2>1 DEF Concerns
    <3>2. recorder[i] = o /\ Present(rows[o][z]) /\ z # i /\ RouteOf[z] = RouteOf[i] /\ IsOrdered(z)
      BY <2>1, <3>1 DEF Owned, SameRoute
    <3>3. o = owner
      BY <3>1, <3>2, OwnersAssumption DEF RecordsKeep
    <3>4. ~Live(rows[o][z])
      BY <3>1, <3>2, <3>3 DEF EarlierWaits, active
    <3>5. QED
      BY <1>1, <3>2, <3>4, LiveOrSettled
  <2>2. \A y \in Ids : HasBeenSent(y)' /\ ~HasBeenSent(y) /\ (IsResult(y) \/ IsRouteEnd(y)) =>
              \A o \in Owners, z \in Ids :
                 SameRoute(z, y) /\ Owned(o, z) /\ Owned(o, y) /\ rows[o][z].seq < rows[o][y].seq
                 => Settled(rows[o][z])
    BY <2>1
  <2>3. \A y \in ins : (IsResult(y) \/ IsRouteEnd(y)) /\ HasBeenSent(y)' => recorder'[y] # owner
    BY <1>2 DEF Concerns
  <2>4. QED
    BY <1>1, <2>2, <2>3, SentStaysInOrder
<1>12. QED
  BY <1>4, <1>5, <1>6, <1>7, <1>8, <1>9, <1>10, <1>11 DEF RetryInv

(* Another step of a submission, or its last one.                             *)
SameSubmission(x, i, ins, off) ==
    /\ i = live[x].item
    /\ ins \subseteq {i} /\ off \subseteq {i} /\ ins \cap off = {}
    /\ \A j \in Ids : HasBeenSent(j)' => HasBeenSent(j) \/ j = i
    /\ i \in ins =>
          /\ ~IsResult(i)
          /\ IsRouteEnd(i) => HasBeenSent(i) /\ live[x].by # owner
    /\ i \in off => live[x].phase = "deactivating"
    /\ HasBeenSent(i)' /\ ~HasBeenSent(i)
       => owner = live[x].by /\ ~EarlierWaits(i) /\ ins = {}

LEMMA SenderIsAtWork ==
    ASSUME RetryInv, NEW x \in Senders, live[x].phase # "idle"
    PROVE  /\ live[x] \in SenderRecord /\ live[x].item \in Ids /\ live[x].by \in Owners
           /\ owner \in Owners /\ recorder[live[x].item] = live[x].by
           /\ IsOrdered(live[x].item) /\ ~IsProof(live[x].item)
           /\ live[x].contract \in AnyContract /\ RouteOf[live[x].item] \in Routes
           /\ SenderAtWork(live[x])
           /\ Sound(active) /\ active \in [Ids -> Row] /\ active = rows[owner] /\ nextSeq \in Nat
<1>1. SenderAtWork(live[x]) /\ live[x] \in SenderRecord /\ Inv
  BY DEF RetryInv, SendersGood
<1>2. /\ live[x].item \in Ids /\ live[x].by \in Owners /\ owner \in Owners
      /\ recorder[live[x].item] = live[x].by /\ IsOrdered(live[x].item)
      /\ live[x].contract \in AnyContract
  BY <1>1 DEF SenderAtWork, AnyContract
<1>3. Sound(active) /\ active \in [Ids -> Row] /\ active = rows[owner] /\ nextSeq \in Nat
  BY <1>1, <1>2 DEF Inv, active
<1>4. ~IsProof(live[x].item) /\ RouteOf[live[x].item] \in Routes
  BY <1>2, OrderedIsNoProof, ItemsAssumption
<1>5. QED
  BY <1>1, <1>2, <1>3, <1>4

LEMMA SameRecordsStep ==
    ASSUME RetryInv, NEW x \in Senders, live[x].phase # "idle",
           NEW i \in Ids, NEW ins, NEW off, SameSubmission(x, i, ins, off), Writes(ins, off),
           UNCHANGED <<owner, pass, account, session, recorder, applied, terms>>,
           NEW l \in SenderRecord, live' = [live EXCEPT ![x] = l], SentGrows,
           l.phase # "idle" => SenderAtWork(live[x])' /\ l.item = live[x].item
    PROVE  RetryInv'
<1>1. /\ HistoryGood /\ SendersGood /\ SenderAtWork(live[x]) /\ CashCollectedOnce
  BY DEF RetryInv, SendersGood
<1>2. /\ i = live[x].item /\ owner \in Owners /\ live[x].by \in Owners /\ recorder[i] = live[x].by
      /\ IsRouteEnd(i) => rows[live[x].by][i].cause # "calledOff"
      /\ live[x].phase = "deactivating" => \A o \in Owners \ {live[x].by} : ~Present(rows[o][i])
  BY <1>1 DEF SenderAtWork, SameSubmission
<1>3. recorder[i] # NoOwner
  BY <1>2, OwnersAssumption
<1>4. \A y \in Senders : live[y].phase # "idle" /\ y # x => live[y].item # i
  BY <1>1, <1>2 DEF SendersGood
<1>5. RecordsKeep
  BY <1>1, RecordsStay
<1>6. CashCollectedOnce'
  BY <1>1 DEF CashCollectedOnce
<1>7. Concerns(i, ins, off)
  BY <1>2, <1>3 DEF Concerns, SameSubmission
<1>8. Turns(x, l, ins, off)
  BY <1>2, <1>4 DEF Turns, SameSubmission
<1>9. QED
  BY <1>2, <1>5, <1>6, <1>7, <1>8, SenderStepKeeps

LEMMA IdleSenderIsPlain ==
    IdleSender \in SenderRecord /\ IdleSender.phase = "idle"
  BY DEF IdleSender, SenderRecord, AnyContract

LEMMA NothingIsSent ==
    ASSUME HistoryGood, UNCHANGED sent
    PROVE  SentGrows /\ \A j : HasBeenSent(j)' => HasBeenSent(j)
  BY DEF HistoryGood, SentGrows, HasBeenSent

(* The submission ends; the bound account's rows go on.                       *)
LEMMA FailsGoingOn ==
    ASSUME RetryInv, NEW x \in Senders, live[x].phase # "idle", NEW q, Fails(x, q, 0),
           NEW off, GoesOn(active, q, off), off \subseteq {live[x].item},
           off # {} => live[x].phase = "deactivating"
    PROVE  RetryInv'
<1> SUFFICES ASSUME NEW i \in Ids, i = live[x].item PROVE RetryInv'
  BY SenderIsAtWork
<1>1. Inv /\ HistoryGood
  BY DEF RetryInv
<1>2. owner \in Owners /\ active = rows[owner] /\ nextSeq \in Nat
  BY SenderIsAtWork
<1>3. /\ rows' = [rows EXCEPT ![owner] = q] /\ nextSeq' = nextSeq + 0
      /\ live' = [live EXCEPT ![x] = IdleSender]
      /\ UNCHANGED <<owner, writable, pass, account, session, recorder, sent, applied, terms>>
  BY DEF Fails, SenderWrites
<1>4. nextSeq' = nextSeq
  BY <1>2, <1>3
<1>5. Writes({}, off)
  BY <1>1, <1>2, <1>3, <1>4, GoingOnWrites
<1>6. SentGrows /\ \A j : HasBeenSent(j)' => HasBeenSent(j)
  BY <1>1, <1>3, NothingIsSent
<1>7. SameSubmission(x, i, {}, off)
  BY <1>6 DEF SameSubmission
<1>8. QED
  BY <1>3, <1>5, <1>6, <1>7, IdleSenderIsPlain, SameRecordsStep

(* ... after its item was queued, under the account bound by now.             *)
LEMMA FailsInserting ==
    ASSUME RetryInv, NEW x \in Senders, live[x].phase = "post", ~Present(active[live[x].item]),
           NEW q, Fails(x, q, 1), Leaves(active, q, {live[x].item}, {}, nextSeq, nextSeq + 1),
           ~IsResult(live[x].item)
    PROVE  RetryInv'
<1> SUFFICES ASSUME NEW i \in Ids, i = live[x].item PROVE RetryInv'
  BY SenderIsAtWork
<1>1. Inv /\ HistoryGood
  BY DEF RetryInv
<1>2. /\ owner \in Owners /\ active = rows[owner] /\ SenderAtWork(live[x])
      /\ i \in Ids /\ recorder[i] = live[x].by /\ live[x].by \in Owners
  BY SenderIsAtWork
<1>3. /\ Become(q, 1) /\ live' = [live EXCEPT ![x] = IdleSender]
      /\ UNCHANGED <<owner, writable, pass, account, session, recorder, sent, applied, terms>>
  BY DEF Fails, SenderWrites, Become
<1>4. Writes({i}, {})
  BY <1>1, <1>2, <1>3, BecomeWrites
<1>5. SentGrows /\ \A j : HasBeenSent(j)' => HasBeenSent(j)
  BY <1>1, <1>3, NothingIsSent
<1>6. IsRouteEnd(i) => HasBeenSent(i) /\ live[x].by # owner
  <2> SUFFICES ASSUME IsRouteEnd(i) PROVE HasBeenSent(i) /\ live[x].by # owner
    OBVIOUS
  <2>1. HasBeenSent(i)
    BY <1>2 DEF SenderAtWork
  <2>2. Present(rows[live[x].by][i])
    BY <1>1, <1>2, OwnersAssumption DEF HistoryGood
  <2>3. QED
    BY <1>2, <2>1, <2>2
<1>7. SameSubmission(x, i, {i}, {})
  BY <1>5, <1>6 DEF SameSubmission
<1>8. QED
  BY <1>3, <1>4, <1>5, <1>7, IdleSenderIsPlain, SameRecordsStep

LEMMA MovesIsGood ==
    ASSUME RetryInv, NEW x \in Senders, live[x].phase # "idle", NEW l \in SenderRecord,
           NEW i \in Ids, i = live[x].item, SenderMoves(x, l), SentGrows,
           l.phase # "idle" => SenderAtWork(live[x])' /\ l.item = i,
           \A j \in Ids : HasBeenSent(j)' => HasBeenSent(j) \/ j = i,
           HasBeenSent(i)' /\ ~HasBeenSent(i) => owner = live[x].by /\ ~EarlierWaits(i)
    PROVE  RetryInv'
<1>1. Inv
  BY DEF RetryInv
<1>2. /\ live' = [live EXCEPT ![x] = l]
      /\ UNCHANGED <<rows, owner, nextSeq, writable, pass, account, session, recorder, applied, terms>>
  BY DEF SenderMoves, queueVars, app
<1>3. owner' \in Owners \cup {NoOwner} /\ writable' \in BOOLEAN
  BY <1>1, <1>2 DEF Inv
<1>4. Writes({}, {})
  BY <1>1, <1>2, <1>3, SameRowsWrite
<1>5. SameSubmission(x, i, {}, {})
  BY DEF SameSubmission
<1>6. QED
  BY <1>2, <1>4, <1>5, SameRecordsStep

LEMMA GivesUpIsGood ==
    ASSUME RetryInv, NEW x \in Senders, live[x].phase # "idle", GivesUp(x)
    PROVE  RetryInv'
<1> SUFFICES ASSUME NEW i \in Ids, i = live[x].item PROVE RetryInv'
  BY SenderIsAtWork
<1>1. HistoryGood
  BY DEF RetryInv
<1>2. SenderMoves(x, IdleSender) /\ UNCHANGED sent
  BY DEF GivesUp
<1>3. SentGrows /\ \A j : HasBeenSent(j)' => HasBeenSent(j)
  BY <1>1, <1>2, NothingIsSent
<1>4. QED
  BY <1>2, <1>3, IdleSenderIsPlain, MovesIsGood

(* The methods a failing submission may call.                                 *)
LEMMA SenderMethodsGoOn ==
    ASSUME RetryInv, NEW x \in Senders, live[x].phase # "idle"
    PROVE  LET i == live[x].item
           IN  /\ GoesOn(active, active, {})
               /\ GoesOn(active, RetryFailed(active, i, TRUE), {})
               /\ \A reason \in Reasons : GoesOn(active, Isolated(active, i, reason), {})
               /\ \A reason \in Reasons :
                     GoesOn(active, Isolated(RetryFailed(active, i, TRUE), i, reason), {})
               /\ \A r \in Routes : GoesOn(active, RouteBlocked(active, r), {})
               /\ \A r \in Routes : GoesOn(active, RouteCleaned(active, r), {})
               /\ \A r \in Routes : GoesOn(active, RouteBlocked(RetryFailed(active, i, TRUE), r), {})
               /\ IsRouteEnd(i) => GoesOn(active, Dropped(active, i, "calledOff"), {i})
               /\ i \in Applied => GoesOn(active, Acknowledged(active, i, TRUE), {})
               /\ i \in Applied => \A r \in Routes :
                     GoesOn(active, RouteCleaned(Acknowledged(active, i, TRUE), r), {})
<1> DEFINE i == live[x].item
           q == active
           t == RetryFailed(q, i, TRUE)
           a == Acknowledged(q, i, TRUE)
<1>1. i \in Ids /\ Sound(q) /\ ~IsProof(i)
  BY SenderIsAtWork
<1>2. i \in Applied => Vouched(i, q[i])
  BY <1>1 DEF Vouched
<1> HIDE DEF i, q
<1>3. /\ GoesOn(q, q, {})
      /\ i \in Applied => GoesOn(q, a, {})
      /\ \A reason \in Reasons : GoesOn(q, Isolated(q, i, reason), {})
      /\ GoesOn(q, t, {})
      /\ IsRouteEnd(i) => GoesOn(q, Dropped(q, i, "calledOff"), {i})
  BY <1>1, <1>2, RowMethodsGoOn
<1>4. \A r \in Routes : GoesOn(q, RouteBlocked(q, r), {}) /\ GoesOn(q, RouteCleaned(q, r), {})
  BY <1>1, QueueMethodsGoOn
<1> HIDE DEF t, a
<1>5. /\ \A reason \in Reasons : GoesOn(q, Isolated(t, i, reason), {})
      /\ \A r \in Routes : GoesOn(q, RouteBlocked(t, r), {})
  <2>1. Sound(t)
    BY <1>3 DEF GoesOn, Keeps
  <2>2. /\ \A reason \in Reasons : GoesOn(t, Isolated(t, i, reason), {})
        /\ \A r \in Routes : GoesOn(t, RouteBlocked(t, r), {})
    BY <1>1, <2>1, RowMethodsGoOn, QueueMethodsGoOn
  <2>3. QED
    BY <1>3, <2>2, GoesOnCompose
<1>6. i \in Applied => \A r \in Routes : GoesOn(q, RouteCleaned(a, r), {})
  <2> SUFFICES ASSUME i \in Applied PROVE \A r \in Routes : GoesOn(q, RouteCleaned(a, r), {})
    OBVIOUS
  <2>1. GoesOn(q, a, {}) /\ Sound(a)
    BY <1>3 DEF GoesOn, Keeps
  <2>2. \A r \in Routes : GoesOn(a, RouteCleaned(a, r), {})
    BY <2>1, QueueMethodsGoOn
  <2>3. QED
    BY <2>1, <2>2, GoesOnCompose
<1>7. QED
  BY <1>3, <1>4, <1>5, <1>6 DEF i, q, t, a

(* A route end is queued again: a no-op while its row is there.               *)
LEMMA QueuedAgain ==
    ASSUME RetryInv, NEW x \in Senders, live[x].phase \in {"deactivating", "post"},
           NEW i \in Ids, i = live[x].item
    PROVE  /\ Present(active[i]) => Inserts(active, i) = 0 /\ Queue(i, live[x].contract) = active
           /\ ~Present(active[i]) =>
                 /\ Inserts(active, i) = 1 /\ live[x].phase = "post"
                 /\ Leaves(active, Queue(i, live[x].contract), {i}, {}, nextSeq, nextSeq + 1)
<1> DEFINE c == live[x].contract
<1>1. /\ SenderAtWork(live[x]) /\ owner \in Owners /\ active = rows[owner] /\ Sound(active)
      /\ nextSeq \in Nat /\ c \in AnyContract /\ recorder[i] = live[x].by /\ live[x].by \in Owners
  BY SenderIsAtWork
<1>2. Present(active[i]) => active[i].contract = c
  BY <1>1 DEF SenderAtWork
<1>3. /\ Leaves(active, Queue(i, c), {i}, {}, nextSeq, nextSeq + Inserts(active, i))
      /\ Present(active[i]) => Queue(i, c) = active
  <2> HIDE DEF c
  <2>1. QED
    BY <1>1, <1>2, EnqueuedLeaves DEF Queue
<1>4. IF Present(active[i]) THEN Inserts(active, i) = 0 ELSE Inserts(active, i) = 1
  BY DEF Inserts, Present
<1>5. live[x].phase = "deactivating" => Present(active[i])
  <2> SUFFICES ASSUME live[x].phase = "deactivating" PROVE Present(active[i])
    OBVIOUS
  <2>1. IsRouteEnd(i) /\ owner = live[x].by
    BY <1>1 DEF SenderAtWork
  <2>2. HistoryGood
    BY DEF RetryInv
  <2>3. QED
    BY <1>1, <2>1, <2>2, OwnersAssumption DEF HistoryGood
<1>6. QED
  BY <1>3, <1>4, <1>5

LEMMA RouteEndQueuedIsGood ==
    ASSUME RetryInv, NEW x \in Senders, live[x].phase \in {"deactivating", "post"},
           NEW i \in Ids, i = live[x].item, IsRouteEnd(i), RouteEndQueued(x, i)
    PROVE  RetryInv'
<1> DEFINE c == live[x].contract
           r == RouteOf[i]
           t == RouteCleaned(active, r)
<1>1. /\ Sound(active) /\ active = rows[owner] /\ nextSeq \in Nat /\ c \in AnyContract
      /\ r \in Routes /\ live[x].phase # "idle" /\ SenderAtWork(live[x]) /\ owner \in Owners
  BY SenderIsAtWork
<1>2. /\ Present(active[i]) => Inserts(active, i) = 0 /\ Queue(i, c) = active
      /\ ~Present(active[i]) =>
            /\ Inserts(active, i) = 1 /\ live[x].phase = "post"
            /\ Leaves(active, Queue(i, c), {i}, {}, nextSeq, nextSeq + 1)
  BY QueuedAgain
<1>3. ~IsResult(i)
  BY DEF IsRouteEnd, IsResult, RouteEnds, TerminalStops
<1>4. CASE Fails(x, Queue(i, c), Inserts(active, i))
  <2>1. CASE Present(active[i])
    <3>1. Fails(x, active, 0)
      BY <1>2, <1>4, <2>1
    <3>2. GoesOn(active, active, {})
      BY <1>1, SenderMethodsGoOn
    <3>3. QED
      BY <1>1, <3>1, <3>2, FailsGoingOn
  <2>2. CASE ~Present(active[i])
    <3>1. Fails(x, Queue(i, c), 1)
      BY <1>2, <1>4, <2>2
    <3>2. QED
      BY <1>2, <1>3, <2>2, <3>1, FailsInserting
  <2>3. QED
    BY <2>1, <2>2
<1>5. CASE Fails(x, Enqueued(t, i, c, TRUE, nextSeq), Inserts(active, i))
  <2>1. GoesOn(active, t, {})
    BY <1>1, SenderMethodsGoOn
  <2>2. Progress(i, active[i], t[i]) /\ (~Present(active[i]) => ~Present(t[i]))
    BY <2>1 DEF GoesOn, Advances, Keeps, RouteCleaned, Present
  <2>3. Present(active[i]) => active[i].contract = c
    BY <1>1 DEF SenderAtWork
  <2> HIDE DEF t, c
  <2>4. Sound(t) /\ (Present(t[i]) => t[i].contract = c)
    BY <2>1, <2>2, <2>3 DEF GoesOn, Keeps, Progress
  <2>5. /\ Leaves(t, Enqueued(t, i, c, TRUE, nextSeq), {i}, {}, nextSeq, nextSeq + Inserts(t, i))
        /\ Present(t[i]) => Enqueued(t, i, c, TRUE, nextSeq) = t
    BY <1>1, <2>4, EnqueuedLeaves
  <2>6. CASE Present(active[i])
    <3>1. Present(t[i])
      BY <2>2, <2>6 DEF Progress
    <3>2. Fails(x, t, 0)
      BY <1>2, <1>5, <2>5, <2>6, <3>1
    <3>3. QED
      BY <1>1, <2>1, <3>2, FailsGoingOn
  <2>7. CASE ~Present(active[i])
    <3>1. Inserts(t, i) = 1 /\ nextSeq + 1 \in Nat
      BY <1>1, <2>2, <2>7 DEF Inserts, Present
    <3>2. Leaves(t, Enqueued(t, i, c, TRUE, nextSeq), {i}, {}, nextSeq, nextSeq + 1)
      BY <2>5, <3>1
    <3>3. Leaves(active, Enqueued(t, i, c, TRUE, nextSeq), {i}, {}, nextSeq, nextSeq + 1)
      BY <1>1, <2>1, <3>1, <3>2, GoesOnLeavesMore
    <3>4. Fails(x, Enqueued(t, i, c, TRUE, nextSeq), 1)
      BY <1>2, <1>5, <2>7
    <3>5. QED
      BY <1>2, <1>3, <2>7, <3>3, <3>4, FailsInserting
  <2>8. QED
    BY <2>6, <2>7
<1>6. QED
  BY <1>4, <1>5 DEF RouteEndQueued

LEMMA PostingIsGood ==
    ASSUME RetryInv, NEW x \in Senders, live[x].phase \in {"saving", "deactivating"},
           NEW i \in Ids, i = live[x].item, ~EarlierWaits(i), Transmits(i, live[x].contract),
           SenderMoves(x, [live[x] EXCEPT !.phase = "post"])
    PROVE  RetryInv'
<1> DEFINE l == [live[x] EXCEPT !.phase = "post"]
<1>1. /\ live[x] \in SenderRecord /\ SenderAtWork(live[x]) /\ owner = live[x].by
      /\ owner \in Owners /\ live[x].contract \in AnyContract /\ live[x].phase # "idle"
  BY SenderIsAtWork DEF SenderAtWork
<1>2. /\ l \in SenderRecord /\ l.phase = "post" /\ l.item = i /\ l.by = live[x].by
      /\ l.contract = live[x].contract
  BY <1>1 DEF SenderRecord
<1>3. HistoryGood /\ SendersGood
  BY DEF RetryInv
<1>4. sent' = sent \cup {[id |-> i, contract |-> live[x].contract]}
  BY DEF Transmits
<1>5. SentGrows
  BY <1>1, <1>3, <1>4 DEF SentGrows, HistoryGood
<1>6. (\A j \in Ids : HasBeenSent(j)' => HasBeenSent(j) \/ j = i) /\ HasBeenSent(i)'
  <2> DEFINE req == [id |-> i, contract |-> live[x].contract]
  <2>1. sent' = sent \cup {req} /\ req.id = i
    BY <1>4
  <2> HIDE DEF req
  <2>2. \A j \in Ids : HasBeenSent(j)' => HasBeenSent(j) \/ j = i
    BY <2>1 DEF HasBeenSent
  <2>3. \E any \in sent' : any.id = i
    BY <2>1
  <2>4. HasBeenSent(i)'
    BY <2>3 DEF HasBeenSent
  <2>5. QED
    BY <2>2, <2>4
<1>7. SenderAtWork(live[x])'
  <2>1. live'[x] = l /\ UNCHANGED <<rows, owner, recorder>>
    BY <1>3 DEF SenderMoves, queueVars, app, SendersGood
  <2> HIDE DEF l
  <2>2. QED
    BY <1>1, <1>2, <1>6, <2>1 DEF SenderAtWork
<1> HIDE DEF l
<1>8. SenderMoves(x, l)
  BY DEF l
<1>9. QED
  BY <1>1, <1>2, <1>5, <1>6, <1>7, <1>8, MovesIsGood

LEMMA SendsIsGood ==
    ASSUME RetryInv, NEW x \in Senders, live[x].phase \in {"saving", "deactivating"}, Sends(x),
           live[x].phase = "saving" => IsResult(live[x].item)
    PROVE  RetryInv'
<1> SUFFICES ASSUME NEW i \in Ids, i = live[x].item PROVE RetryInv'
  BY SenderIsAtWork
<1>1. live[x].phase # "idle" /\ SenderAtWork(live[x])
  BY SenderIsAtWork
<1>2. \/ Fails(x, RetryFailed(active, i, TRUE), 0)
      \/ GivesUp(x)
      \/ RouteEndQueued(x, i) /\ ~IsResult(i)
      \/ /\ ~EarlierWaits(i) /\ Transmits(i, live[x].contract)
         /\ SenderMoves(x, [live[x] EXCEPT !.phase = "post"])
  BY DEF Sends, TerminalStops, IsResult
<1>3. CASE Fails(x, RetryFailed(active, i, TRUE), 0)
  <2>1. GoesOn(active, RetryFailed(active, i, TRUE), {})
    BY <1>1, SenderMethodsGoOn
  <2>2. QED
    BY <1>1, <1>3, <2>1, FailsGoingOn
<1>4. CASE GivesUp(x)
  BY <1>1, <1>4, GivesUpIsGood
<1>5. CASE RouteEndQueued(x, i) /\ ~IsResult(i)
  <2>1. live[x].phase = "deactivating" /\ IsRouteEnd(i)
    BY <1>1, <1>5 DEF SenderAtWork
  <2>2. QED
    BY <1>5, <2>1, RouteEndQueuedIsGood
<1>6. CASE /\ ~EarlierWaits(i) /\ Transmits(i, live[x].contract)
           /\ SenderMoves(x, [live[x] EXCEPT !.phase = "post"])
  BY <1>6, PostingIsGood
<1>7. QED
  BY <1>2, <1>3, <1>4, <1>5, <1>6

LEMMA SenderSavedIsGood ==
    ASSUME RetryInv, NEW x \in Senders, SenderSaved(x)
    PROVE  RetryInv'
<1> DEFINE l == [live[x] EXCEPT !.phase = "deactivating"]
<1>1. live[x].phase = "saving" /\ live[x].phase # "idle"
  BY DEF SenderSaved
<1> SUFFICES ASSUME NEW i \in Ids, i = live[x].item PROVE RetryInv'
  BY <1>1, SenderIsAtWork
<1>2. /\ live[x] \in SenderRecord /\ SenderAtWork(live[x]) /\ (IsResult(i) \/ IsRouteEnd(i))
      /\ HistoryGood /\ SendersGood
  BY <1>1, SenderIsAtWork DEF SenderAtWork, RetryInv
<1>3. \/ GivesUp(x)
      \/ IsResult(i) /\ Sends(x)
      \/ IsRouteEnd(i) /\ SenderMoves(x, l) /\ UNCHANGED sent
  BY <1>2 DEF SenderSaved, IsResult
<1>4. CASE GivesUp(x)
  BY <1>1, <1>4, GivesUpIsGood
<1>5. CASE IsResult(i) /\ Sends(x)
  BY <1>1, <1>5, SendsIsGood
<1>6. CASE IsRouteEnd(i) /\ SenderMoves(x, l) /\ UNCHANGED sent
  <2>1. /\ l \in SenderRecord /\ l.phase = "deactivating" /\ l.item = i /\ l.by = live[x].by
        /\ l.contract = live[x].contract
    BY <1>2 DEF SenderRecord
  <2>2. SentGrows /\ \A j : HasBeenSent(j)' => HasBeenSent(j)
    BY <1>2, <1>6, NothingIsSent
  <2>3. live'[x] = l /\ UNCHANGED <<rows, owner, recorder>>
    BY <1>2, <1>6 DEF SenderMoves, queueVars, app, SendersGood
  <2> HIDE DEF l
  <2>4. SenderAtWork(live[x])'
    BY <1>1, <1>2, <1>6, <2>1, <2>3 DEF SenderAtWork
  <2>5. QED
    BY <1>1, <1>6, <2>1, <2>2, <2>4, MovesIsGood
<1>7. QED
  BY <1>3, <1>4, <1>5, <1>6

LEMMA RouteSessionDeactivatedIsGood ==
    ASSUME RetryInv, NEW x \in Senders, RouteSessionDeactivated(x)
    PROVE  RetryInv'
<1>1. live[x].phase = "deactivating" /\ live[x].phase # "idle"
  BY DEF RouteSessionDeactivated
<1>2. SenderAtWork(live[x]) /\ IsRouteEnd(live[x].item)
  BY <1>1, SenderIsAtWork DEF SenderAtWork
<1>3. CASE Sends(x)
  BY <1>1, <1>3, SendsIsGood
<1>4. CASE Fails(x, Dropped(active, live[x].item, "calledOff"), 0)
  <2>1. GoesOn(active, Dropped(active, live[x].item, "calledOff"), {live[x].item})
    BY <1>1, <1>2, SenderMethodsGoOn
  <2>2. QED
    BY <1>1, <1>4, <2>1, FailsGoingOn
<1>5. QED
  BY <1>3, <1>4 DEF RouteSessionDeactivated

LEMMA SenderSucceedsIsGood ==
    ASSUME RetryInv, NEW x \in Senders, SenderSucceeds(x)
    PROVE  RetryInv'
<1> DEFINE i == live[x].item
           acked == Acknowledged(active, i, TRUE)
<1>1. live[x].phase # "idle" /\ i \in Applied
  BY DEF SenderSucceeds
<1>2. RouteOf[i] \in Routes
  BY <1>1, SenderIsAtWork
<1>3. GoesOn(active, acked, {}) /\ GoesOn(active, RouteCleaned(acked, RouteOf[i]), {})
  BY <1>1, <1>2, SenderMethodsGoOn
<1>4. \/ Fails(x, acked, 0)
      \/ Fails(x, RouteCleaned(acked, RouteOf[i]), 0)
      \/ GivesUp(x)
  BY DEF SenderSucceeds
<1> HIDE DEF acked
<1>5. CASE Fails(x, acked, 0)
  BY <1>1, <1>3, <1>5, FailsGoingOn
<1>6. CASE Fails(x, RouteCleaned(acked, RouteOf[i]), 0)
  BY <1>1, <1>3, <1>6, FailsGoingOn
<1>7. CASE GivesUp(x)
  BY <1>1, <1>7, GivesUpIsGood
<1>8. QED
  BY <1>4, <1>5, <1>6, <1>7

LEMMA ResultFailsIsGood ==
    ASSUME RetryInv, NEW x \in Senders, live[x].phase = "post", ResultFails(x, live[x].item)
    PROVE  RetryInv'
<1> DEFINE i == live[x].item
<1>1. live[x].phase # "idle"
  OBVIOUS
<1>2. RouteOf[i] \in Routes
  BY <1>1, SenderIsAtWork
<1>3. \E q : Fails(x, q, 0) /\ GoesOn(active, q, {})
  BY <1>1, <1>2, SenderMethodsGoOn DEF ResultFails, Reasons
<1>4. QED
  BY <1>1, <1>3, FailsGoingOn

LEMMA RouteEndFailsIsGood ==
    ASSUME RetryInv, NEW x \in Senders, live[x].phase = "post", IsRouteEnd(live[x].item),
           RouteEndFails(x, live[x].item)
    PROVE  RetryInv'
<1> SUFFICES ASSUME NEW i \in Ids, i = live[x].item PROVE RetryInv'
  BY SenderIsAtWork
<1> DEFINE c == live[x].contract
           r == RouteOf[i]
           q == Queue(i, c)
<1>1. /\ live[x].phase # "idle" /\ r \in Routes /\ nextSeq \in Nat /\ Sound(active)
      /\ ~IsResult(i)
  BY SenderIsAtWork DEF IsRouteEnd, IsResult, RouteEnds, TerminalStops
<1>2. /\ Present(active[i]) => Inserts(active, i) = 0 /\ q = active
      /\ ~Present(active[i]) =>
            Inserts(active, i) = 1 /\ Leaves(active, q, {i}, {}, nextSeq, nextSeq + 1)
  BY QueuedAgain
<1>3. CASE RouteEndQueued(x, i)
  BY <1>3, RouteEndQueuedIsGood
<1>4. CASE Fails(x, RouteBlocked(q, r), Inserts(active, i))
  <2> HIDE DEF q
  <2>1. CASE Present(active[i])
    <3>1. Fails(x, RouteBlocked(active, r), 0)
      BY <1>2, <1>4, <2>1
    <3>2. GoesOn(active, RouteBlocked(active, r), {})
      BY <1>1, SenderMethodsGoOn
    <3>3. QED
      BY <1>1, <3>1, <3>2, FailsGoingOn
  <2>2. CASE ~Present(active[i])
    <3>1. Leaves(active, q, {i}, {}, nextSeq, nextSeq + 1) /\ nextSeq + 1 \in Nat
      BY <1>1, <1>2, <2>2
    <3>2. GoesOn(q, RouteBlocked(q, r), {})
      BY <1>1, <3>1, QueueMethodsGoOn DEF Leaves
    <3>3. Leaves(active, RouteBlocked(q, r), {i}, {}, nextSeq, nextSeq + 1)
      BY <1>1, <3>1, <3>2, LeavesGoesOn
    <3>4. Fails(x, RouteBlocked(q, r), 1)
      BY <1>2, <1>4, <2>2
    <3>5. QED
      BY <1>1, <2>2, <3>3, <3>4, FailsInserting
  <2>3. QED
    BY <2>1, <2>2
<1>5. QED
  BY <1>3, <1>4 DEF RouteEndFails

LEMMA SenderFailsIsGood ==
    ASSUME RetryInv, NEW x \in Senders, SenderFails(x)
    PROVE  RetryInv'
<1>1. live[x].phase = "post" /\ live[x].phase # "idle"
  BY DEF SenderFails
<1> SUFFICES ASSUME NEW i \in Ids, i = live[x].item PROVE RetryInv'
  BY <1>1, SenderIsAtWork
<1>2. \/ GivesUp(x)
      \/ ResultFails(x, i)
      \/ IsRouteEnd(i) /\ RouteEndFails(x, i)
      \/ ~IsResult(i) /\ Fails(x, Queue(i, live[x].contract), Inserts(active, i))
  BY DEF SenderFails, IsResult, IsRouteEnd
<1>3. CASE GivesUp(x)
  BY <1>1, <1>3, GivesUpIsGood
<1>4. CASE ResultFails(x, i)
  BY <1>1, <1>4, ResultFailsIsGood
<1>5. CASE IsRouteEnd(i) /\ RouteEndFails(x, i)
  BY <1>1, <1>5, RouteEndFailsIsGood
<1>6. CASE ~IsResult(i) /\ Fails(x, Queue(i, live[x].contract), Inserts(active, i))
  <2> DEFINE q == Queue(i, live[x].contract)
  <2>1. /\ Present(active[i]) => Inserts(active, i) = 0 /\ q = active
        /\ ~Present(active[i]) =>
              Inserts(active, i) = 1 /\ Leaves(active, q, {i}, {}, nextSeq, nextSeq + 1)
    BY <1>1, QueuedAgain
  <2> HIDE DEF q
  <2>2. Fails(x, q, Inserts(active, i))
    BY <1>6 DEF q
  <2>3. CASE Present(active[i])
    <3>1. Fails(x, active, 0)
      BY <2>1, <2>2, <2>3
    <3>2. GoesOn(active, active, {})
      BY <1>1, SenderMethodsGoOn
    <3>3. QED
      BY <1>1, <3>1, <3>2, FailsGoingOn
  <2>4. CASE ~Present(active[i])
    <3>1. Fails(x, q, 1)
      BY <2>1, <2>2, <2>4
    <3>2. QED
      BY <1>1, <1>6, <2>1, <2>4, <3>1, FailsInserting
  <2>5. QED
    BY <2>3, <2>4
<1>7. QED
  BY <1>2, <1>3, <1>4, <1>5, <1>6

--------------------------------------------------------------------------------
(* The driver records an event.                                               *)

(* The row of a workflow event that was not there.                            *)
LEMMA NewRowIsPlain ==
    ASSUME NEW q, q \in [Ids -> Row], NEW i \in Ids, ~Present(q[i]), IsOrdered(i),
           NEW c \in AnyContract, NEW n \in Nat
    PROVE  /\ Enqueued(q, i, c, TRUE, n)[i].contract = c
           /\ Enqueued(q, i, c, TRUE, n)[i].cause = "none"
<1> DEFINE new == NewRow(i, c, n)
           u == [ReferenceProofs(q, i, c, TRUE) EXCEPT ![i] = new]
<1>1. Upserted(q, i, c, TRUE, n) = u
  BY DEF Upserted, Present
<1>2. u[i] = new /\ DOMAIN u = Ids
  BY DEF ReferenceProofs
<1>3. new.state = "PENDING" /\ new.contract = c /\ new.cause = "none"
  BY DEF NewRow
<1>4. ~IsLocation(i)
  BY LocationIsPlain
<1> HIDE DEF u, new
<1>5. u # q
  <2>1. u[i].state = "PENDING" /\ q[i].state = "ABSENT"
    BY <1>2, <1>3 DEF Present
  <2>2. QED
    BY <2>1
<1>6. Trimmed(u)[i] = u[i]
  BY <1>4 DEF Trimmed
<1>7. Enqueued(q, i, c, TRUE, n) = Trimmed(u)
  BY <1>1, <1>5 DEF Enqueued
<1>8. QED
  BY <1>2, <1>3, <1>6, <1>7

LEMMA CashStaysCollectedOnce ==
    ASSUME RetryInv, owner \in Owners, NEW i \in Ids, recorder[i] = NoOwner,
           KindOf[i] = "cash" => ~CashIsCollected(i),
           recorder' = [recorder EXCEPT ![i] = owner]
    PROVE  CashCollectedOnce'
<1>1. HistoryGood /\ CashCollectedOnce /\ Inv
  BY DEF RetryInv
<1>2. recorder'[i] = owner /\ \A j \in Ids : j # i => recorder'[j] = recorder[j]
  BY <1>1 DEF HistoryGood
<1>3. ASSUME NEW j \in Ids, j # i, KindOf[i] = "cash", KindOf[j] = "cash", StopOf[i] = StopOf[j],
             recorder[j] = owner
      PROVE  FALSE
  <2>1. IsResult(j) /\ recorder[j] # NoOwner
    BY <1>3, OwnersAssumption DEF IsResult, TerminalStops
  <2>2. Present(active[j]) /\ active[j].state # "DISCARDED"
    BY <1>1, <1>3, <2>1 DEF HistoryGood, active
  <2>3. active[j] \in Row /\ RowIsSound(j, active[j])
    BY <1>1 DEF Inv, active, Sound
  <2>4. active[j].state \in States
    BY <2>3 DEF Row
  <2>5. Live(active[j]) \/ active[j].state = "ACKNOWLEDGED"
    BY <2>2, <2>4 DEF States, Live, Present
  <2>6. active[j].state = "ACKNOWLEDGED" => active[j].receipt
    BY <1>3, <2>3 DEF RowIsSound
  <2>7. CashIsCollected(i)
    BY <1>3, <2>5, <2>6 DEF CashIsCollected, TerminalStops
  <2>8. QED
    BY <1>3, <2>7
<1>4. ASSUME NEW j \in Ids, NEW k \in Ids, j # k, KindOf[j] = "cash", KindOf[k] = "cash",
             StopOf[j] = StopOf[k], recorder'[j] # NoOwner
      PROVE  recorder'[j] # recorder'[k]
  <2>1. CASE j = i
    BY <1>2, <1>3, <1>4, <2>1
  <2>2. CASE k = i
    BY <1>2, <1>3, <1>4, <2>2
  <2>3. CASE j # i /\ k # i
    BY <1>1, <1>2, <1>4, <2>3 DEF CashCollectedOnce
  <2>4. QED
    BY <2>1, <2>2, <2>3
<1>5. QED
  BY <1>4 DEF CashCollectedOnce

(* Nothing is known of an event that was not recorded.                        *)
LEMMA UnrecordedIsNew ==
    ASSUME RetryInv, NEW i \in Ids, recorder[i] = NoOwner, IsOrdered(i)
    PROVE  /\ ~HasBeenSent(i)
           /\ \A o \in Owners : ~Present(rows[o][i])
           /\ \A y \in Senders : live[y].phase # "idle" => live[y].item # i
<1>1. HistoryGood /\ ~IsProof(i)
  BY OrderedIsNoProof DEF RetryInv
<1>2. ~HasBeenSent(i) /\ \A o \in Owners : ~Present(rows[o][i])
  BY <1>1 DEF HistoryGood
<1>3. ASSUME NEW y \in Senders, live[y].phase # "idle"
      PROVE  live[y].item # i
  BY <1>3, SenderIsAtWork, OwnersAssumption
<1>4. QED
  BY <1>2, <1>3

(* The event is recorded, and perhaps queued or sent: what the three ways of  *)
(* doing so have in common.                                                   *)
LEMMA RecordingIsGood ==
    ASSUME RetryInv, NEW x \in Senders, NEW i \in Ids, DriverRecords(x, i),
           NEW ins, ins \subseteq {i}, Writes(ins, {}), NEW l \in SenderRecord,
           live' = [live EXCEPT ![x] = l],
           UNCHANGED <<owner, pass, account, session, applied, terms>>,
           SentGrows, \A j \in Ids : HasBeenSent(j)' => HasBeenSent(j) \/ j = i,
           IsResult(i) \/ IsRouteEnd(i) => Present(rows'[owner][i]) /\ ~HasBeenSent(i)',
           l.phase # "idle" => l.item = i /\ SenderAtWork(live[x])'
    PROVE  RetryInv'
<1>1. /\ account = "in" /\ IsOrdered(i) /\ recorder[i] = NoOwner /\ ~Ended(RouteOf[i])
      /\ KindOf[i] = "cash" => ~CashIsCollected(i)
      /\ recorder' = [recorder EXCEPT ![i] = owner]
  BY DEF DriverRecords
<1>2. owner \in Owners /\ owner # NoOwner /\ HistoryGood
  BY <1>1, OwnersAssumption DEF RetryInv, WorldGood
<1>3. recorder'[i] = owner /\ \A j \in Ids : j # i => recorder'[j] = recorder[j]
  BY <1>1, <1>2 DEF HistoryGood
<1>4. RecordsKeep
  BY <1>1, <1>2, <1>3 DEF RecordsKeep, HistoryGood
<1>5. CashCollectedOnce'
  BY <1>1, <1>2, CashStaysCollectedOnce
<1>6. /\ ~HasBeenSent(i)
      /\ \A y \in Senders : live[y].phase # "idle" => live[y].item # i
  BY <1>1, UnrecordedIsNew
<1>7. Concerns(i, ins, {})
  BY <1>1, <1>2, <1>3, <1>6 DEF Concerns
<1>8. Turns(x, l, ins, {})
  BY <1>6 DEF Turns
<1>9. QED
  BY <1>2, <1>4, <1>5, <1>7, <1>8, SenderStepKeeps

LEMMA RecordingQueuesIsGood ==
    ASSUME RetryInv, NEW x \in Senders, NEW i \in Ids, DriverRecords(x, i), NEW l \in SenderRecord,
           SenderWrites(x, Queue(i, session[RouteOf[i]]), 1, l), UNCHANGED sent,
           l.phase # "idle" =>
              /\ l = [phase |-> "saving", item |-> i, contract |-> session[RouteOf[i]], by |-> owner]
              /\ IsResult(i) \/ IsRouteEnd(i)
    PROVE  RetryInv'
<1> DEFINE c == session[RouteOf[i]]
           q == Queue(i, c)
<1>1. /\ account = "in" /\ IsOrdered(i) /\ recorder[i] = NoOwner
      /\ recorder' = [recorder EXCEPT ![i] = owner]
  BY DEF DriverRecords
<1>2. /\ owner \in Owners /\ HistoryGood /\ Inv /\ SendersGood /\ RouteOf[i] \in Routes
      /\ session \in [Routes -> Contracts]
  BY <1>1, ItemsAssumption DEF RetryInv, WorldGood
<1>3. /\ c \in Contracts /\ c \in AnyContract /\ nextSeq \in Nat /\ active = rows[owner]
      /\ Sound(active) /\ active \in [Ids -> Row] /\ recorder'[i] = owner
  BY <1>1, <1>2 DEF AnyContract, Inv, active, Sound, HistoryGood
<1>4. ~HasBeenSent(i) /\ \A o \in Owners : ~Present(rows[o][i])
  BY <1>1, UnrecordedIsNew
<1>5. ~Present(active[i]) /\ Inserts(active, i) = 1
  BY <1>2, <1>3, <1>4 DEF Inserts, Present
<1>6. Become(q, 1) /\ live' = [live EXCEPT ![x] = l]
      /\ UNCHANGED <<owner, pass, account, session, applied, terms>>
  BY DEF SenderWrites, Become
<1> HIDE DEF c
<1>7. Leaves(active, q, {i}, {}, nextSeq, nextSeq + 1) /\ Present(q[i])
  BY <1>3, <1>5, EnqueuedLeaves DEF Queue
<1>8. q[i].contract = c /\ q[i].cause = "none"
  <2>1. q = Enqueued(active, i, c, TRUE, nextSeq)
    BY DEF Queue
  <2> HIDE DEF q
  <2>2. active \in [Ids -> Row] /\ i \in Ids /\ ~Present(active[i]) /\ IsOrdered(i)
        /\ c \in AnyContract /\ nextSeq \in Nat
    BY <1>1, <1>3, <1>5
  <2>3. /\ Enqueued(active, i, c, TRUE, nextSeq)[i].contract = c
        /\ Enqueued(active, i, c, TRUE, nextSeq)[i].cause = "none"
    BY ONLY <2>2, NewRowIsPlain
  <2>4. QED
    BY <2>1, <2>3
<1> HIDE DEF q
<1>9. Writes({i}, {}) /\ rows'[owner] = q /\ \A o \in Owners \ {owner} : rows'[o] = rows[o]
  BY <1>2, <1>3, <1>6, <1>7, BecomeWrites
<1>10. SentGrows /\ \A j : HasBeenSent(j)' => HasBeenSent(j)
  BY <1>2, NothingIsSent
<1>11. ASSUME l.phase # "idle"
       PROVE  l.item = i /\ SenderAtWork(live[x])'
  <2>1. /\ l.phase = "saving" /\ l.item = i /\ l.contract = c /\ l.by = owner
        /\ IsResult(i) \/ IsRouteEnd(i)
    BY <1>11 DEF c
  <2>2. live'[x] = l /\ owner' = owner
    BY <1>2, <1>6 DEF SendersGood
  <2>3. \A o \in Owners \ {owner} : ~Present(rows'[o][i])
    BY <1>4, <1>9
  <2>4. rows'[owner][i].contract = c /\ rows'[owner][i].cause = "none"
    BY <1>8, <1>9
  <2>5. \A o \in Owners : Present(rows'[o][i]) => rows'[o][i].contract = c
    BY <2>3, <2>4
  <2>6. QED
    BY <1>1, <1>2, <1>3, <2>1, <2>2, <2>3, <2>4, <2>5 DEF SenderAtWork
<1>12. QED
  BY <1>4, <1>6, <1>7, <1>9, <1>10, <1>11, RecordingIsGood

LEMMA RecordingSendsIsGood ==
    ASSUME RetryInv, NEW x \in Senders, NEW i \in Ids, DriverRecords(x, i),
           ~IsResult(i), ~IsRouteEnd(i), Transmits(i, session[RouteOf[i]]),
           live' = [live EXCEPT ![x] = [phase |-> "post", item |-> i,
                                        contract |-> session[RouteOf[i]], by |-> owner]],
           UNCHANGED <<queueVars, pass, account, session, applied, terms>>
    PROVE  RetryInv'
<1> DEFINE c == session[RouteOf[i]]
           l == [phase |-> "post", item |-> i, contract |-> c, by |-> owner]
           req == [id |-> i, contract |-> c]
<1>1. /\ account = "in" /\ IsOrdered(i) /\ recorder[i] = NoOwner
      /\ recorder' = [recorder EXCEPT ![i] = owner]
  BY DEF DriverRecords
<1>2. /\ owner \in Owners /\ HistoryGood /\ Inv /\ SendersGood /\ RouteOf[i] \in Routes
      /\ session \in [Routes -> Contracts]
  BY <1>1, ItemsAssumption DEF RetryInv, WorldGood
<1>3. c \in Contracts /\ c \in AnyContract /\ recorder'[i] = owner
  BY <1>1, <1>2 DEF AnyContract, HistoryGood
<1>4. \A o \in Owners : ~Present(rows[o][i])
  BY <1>1, UnrecordedIsNew
<1>5. l \in SenderRecord /\ l.phase = "post" /\ l.item = i /\ l.contract = c /\ l.by = owner
  BY <1>2, <1>3 DEF SenderRecord
<1>6. sent' = sent \cup {req} /\ req.id = i /\ req \in [id : Ids, contract : AnyContract]
  BY <1>3 DEF Transmits
<1>7. /\ live' = [live EXCEPT ![x] = l]
      /\ UNCHANGED <<rows, owner, nextSeq, writable, pass, account, session, applied, terms>>
  BY DEF queueVars
<1> HIDE DEF req, l, c
<1>8. SentGrows
  BY <1>2, <1>6 DEF SentGrows, HistoryGood
<1>9. \A j \in Ids : HasBeenSent(j)' => HasBeenSent(j) \/ j = i
  BY <1>6 DEF HasBeenSent
<1>10. HasBeenSent(i)'
  BY <1>6 DEF HasBeenSent
<1>11. Writes({}, {})
  BY <1>2, <1>7, SameRowsWrite DEF Inv
<1>12. SenderAtWork(live[x])'
  <2>1. live'[x] = l
    BY <1>2, <1>7 DEF SendersGood
  <2>2. QED
    BY <1>1, <1>2, <1>3, <1>4, <1>5, <1>7, <1>10, <2>1 DEF SenderAtWork
<1> DEFINE ins == {}
<1>13. /\ ins \subseteq {i} /\ Writes(ins, {}) /\ UNCHANGED <<owner, pass, account, session, applied, terms>>
       /\ IsResult(i) \/ IsRouteEnd(i) => Present(rows'[owner][i]) /\ ~HasBeenSent(i)'
       /\ l.phase # "idle" => l.item = i /\ SenderAtWork(live[x])'
       /\ live' = [live EXCEPT ![x] = l]
  BY <1>5, <1>7, <1>11, <1>12
<1> HIDE DEF ins
<1>14. QED
  BY <1>5, <1>8, <1>9, <1>13, RecordingIsGood

LEMMA DriverRecordsIsGood ==
    ASSUME RetryInv, NEW x \in Senders, NEW i \in Ids, DriverRecords(x, i)
    PROVE  RetryInv'
<1> DEFINE c == session[RouteOf[i]]
           opened == [phase |-> "saving", item |-> i, contract |-> c, by |-> owner]
<1>1. /\ account = "in" /\ RetryInv
  BY DEF DriverRecords
<1>2. owner \in Owners /\ c \in AnyContract
  BY <1>1, ItemsAssumption DEF RetryInv, WorldGood, AnyContract
<1>3. opened \in SenderRecord /\ IdleSender \in SenderRecord /\ IdleSender.phase = "idle"
  BY <1>2, IdleSenderIsPlain DEF SenderRecord
<1>4. \/ (IsResult(i) \/ IsRouteEnd(i)) /\ SenderWrites(x, Queue(i, c), 1, opened) /\ UNCHANGED sent
      \/ SenderWrites(x, Queue(i, c), 1, IdleSender) /\ UNCHANGED sent
      \/ /\ ~IsResult(i) /\ ~IsRouteEnd(i) /\ Transmits(i, c)
         /\ live' = [live EXCEPT ![x] = [opened EXCEPT !.phase = "post"]]
         /\ UNCHANGED <<queueVars, pass, account, session, applied, terms, closed>>
  BY DEF DriverRecords, IsResult, IsRouteEnd
<1>5. CASE (IsResult(i) \/ IsRouteEnd(i)) /\ SenderWrites(x, Queue(i, c), 1, opened) /\ UNCHANGED sent
  BY <1>3, <1>5, RecordingQueuesIsGood
<1>6. CASE SenderWrites(x, Queue(i, c), 1, IdleSender) /\ UNCHANGED sent
  BY <1>3, <1>6, RecordingQueuesIsGood
<1>7. CASE /\ ~IsResult(i) /\ ~IsRouteEnd(i) /\ Transmits(i, c)
           /\ live' = [live EXCEPT ![x] = [opened EXCEPT !.phase = "post"]]
           /\ UNCHANGED <<queueVars, pass, account, session, applied, terms, closed>>
  <2>1. [opened EXCEPT !.phase = "post"] = [phase |-> "post", item |-> i, contract |-> c, by |-> owner]
    OBVIOUS
  <2>2. QED
    BY <1>7, <2>1, RecordingSendsIsGood
<1>8. QED
  BY <1>4, <1>5, <1>6, <1>7

--------------------------------------------------------------------------------
(* The theorems.                                                              *)

LEMMA SenderStepsAreGood ==
    ASSUME RetryInv, NEW x \in Senders, SenderStep(x)
    PROVE  RetryInv'
<1>1. CASE \E i \in Ids : DriverRecords(x, i)
  BY <1>1, DriverRecordsIsGood
<1>2. CASE SenderSaved(x)
  BY <1>2, SenderSavedIsGood
<1>3. CASE RouteSessionDeactivated(x)
  BY <1>3, RouteSessionDeactivatedIsGood
<1>4. CASE SenderSucceeds(x)
  BY <1>4, SenderSucceedsIsGood
<1>5. CASE SenderFails(x)
  BY <1>5, SenderFailsIsGood
<1>6. CASE SenderThrows(x)
  BY <1>6, GivesUpIsGood DEF SenderThrows
<1>7. QED
  BY <1>1, <1>2, <1>3, <1>4, <1>5, <1>6 DEF SenderStep

LEMMA RetryInitGivesInvariant == RetryInit => RetryInv
<1> SUFFICES ASSUME RetryInit PROVE RetryInv
  OBVIOUS
<1>1. Inv
  BY InitGivesInvariant DEF RetryInit
<1>2. \A o \in Owners, i \in Ids :
         /\ rows[o][i].state = "ABSENT" /\ rows[o][i].cause = "none" /\ ~rows[o][i].serverAck
  BY DEF RetryInit, Init, NoRow, NewRow
<1>3. PassGood(pass, rows, owner)
  BY IdleIsGood DEF RetryInit
<1>4. SendersGood
  BY IdleSenderIsPlain DEF RetryInit, SendersGood
<1>5. (\A i : ~HasBeenSent(i)) /\ sent = {} /\ recorder = [i \in Ids |-> NoOwner]
  BY DEF RetryInit, HasBeenSent
<1>6. HistoryGood
  BY <1>2, <1>5 DEF HistoryGood, Present
<1>7. EndsAreLast /\ CausesGood /\ AcksGood
  BY <1>2 DEF EndsAreLast, CausesGood, AcksGood, Present
<1>8. WorldGood
  <2>1. account = "out" /\ applied = <<>> /\ terms \in [Routes -> Contracts] /\ session = terms
    BY DEF RetryInit
  <2>2. <<>> \in Seq(Ids)
    OBVIOUS
  <2>3. QED
    BY <2>1, <2>2 DEF WorldGood
<1>9. SentInOrder /\ CashCollectedOnce
  BY <1>5 DEF SentInOrder, CashCollectedOnce
<1>10. QED
  BY <1>1, <1>3, <1>4, <1>6, <1>7, <1>8, <1>9 DEF RetryInv

LEMMA RetryNextKeepsInvariant == RetryInv /\ [RetryNext]_allVars => RetryInv'
<1> SUFFICES ASSUME RetryInv, [RetryNext]_allVars PROVE RetryInv'
  OBVIOUS
<1>1. CASE \E r \in Routes, allow \in BOOLEAN : PassStart(r, allow)
  BY <1>1, PassStartIsGoodStep
<1>2. CASE PassStep
  <2>1. CASE PassPosts
    BY <2>1, PassPostsIsGood
  <2>2. CASE ~PassPosts
    <3>1. UNCHANGED <<live, app, world>>
      BY <1>2, <2>2, PassStepSendsNothing
    <3>2. PassActed
      BY <1>2, PassStepActs
    <3>3. QED
      BY <3>1, <3>2, PassStepIsGood
  <2>3. QED
    BY <2>1, <2>2
<1>3. CASE \E x \in Senders : SenderStep(x)
  BY <1>3, SenderStepsAreGood
<1>4. CASE \/ \E req \in sent : ServerApplies(req)
           \/ \E r \in Routes : DispatcherClosesRoute(r)
           \/ \E r \in Routes, c \in Contracts : DispatcherReassigns(r, c)
  BY <1>4, ServerStepsAreGood
<1>5. CASE \E i \in Ids : LocationStored(i)
  BY <1>5, LocationStoredIsGood
<1>6. CASE \E p \in Ids : ProofStored(p)
  BY <1>6, ProofStoredIsGood
<1>7. CASE \E p \in Ids : CaptureUploadEnds(p)
  BY <1>7, CaptureUploadEndsIsGood
<1>8. CASE OperatorReconciles \/ \E r \in Routes : LocationTaskBlocksRoute(r)
  BY <1>8, BlockingAndReconcilingAreGood
<1>9. CASE \E i \in Ids : StopReceiptRecovered(i) \/ RouteEndReceiptRecovered(i)
  BY <1>9, ReceiptsRecoveredAreGood
<1>10. CASE (\E r \in Routes : SessionRefreshed(r)) \/ StorageFails \/ StorageRecovers
  BY <1>10, AppStepsAreGood
<1>11. CASE LogoutBegins
  BY <1>11, LogoutBeginsIsGood
<1>12. CASE LogoutSeals
  BY <1>12, LogoutSealsIsGood
<1>13. CASE \E o \in Owners : SignsIn(o)
  BY <1>13, SignsInIsGood
<1>14. CASE UNCHANGED allVars
  <2>1. UNCHANGED <<rows, owner, nextSeq, writable, pass, live, account, session, sent, applied,
                    terms, recorder>>
    BY <1>14 DEF allVars
  <2>2. WorldGood /\ writable \in BOOLEAN
    BY DEF RetryInv, Inv
  <2>3. WorldGood' /\ Applied \subseteq Applied' /\ writable' \in BOOLEAN
    BY <2>1, <2>2, SameWorld
  <2>4. QED
    BY <2>1, <2>3, StepOutsideIsGood
<1>15. QED
  BY <1>1, <1>2, <1>3, <1>4, <1>5, <1>6, <1>7, <1>8, <1>9, <1>10, <1>11, <1>12, <1>13, <1>14
     DEF RetryNext

(* No interleaving of the retry pass, the direct senders, receipt recovery,   *)
(* route closing and reassignment, sign-out and sign-in breaks the invariant. *)
THEOREM RetryInvariantHolds == RetrySpec => []RetryInv
<1>1. RetryInit => RetryInv
  BY RetryInitGivesInvariant
<1>2. RetryInv /\ [RetryNext]_allVars => RetryInv'
  BY RetryNextKeepsInvariant
<1>3. QED
  BY <1>1, <1>2, PTL DEF RetrySpec

(* AckedOnlyIfApplied: the journal never says SERVER_ACK of an event the      *)
(* server has not recorded, or of a file that was not uploaded.               *)
THEOREM AcknowledgedWasReceived == RetrySpec => []AckedOnlyIfApplied
<1>1. RetryInv => AckedOnlyIfApplied
  BY DEF RetryInv, AcksGood, Vouched, AckedOnlyIfApplied
<1>2. QED
  BY <1>1, RetryInvariantHolds, PTL

(* SentInOrder: a result or a route end leaves the phone only when every      *)
(* workflow event its account queued before it for the route is settled.      *)
THEOREM ResultsLeaveInOrder == RetrySpec => []SentInOrder
<1>1. RetryInv => SentInOrder
  BY DEF RetryInv
<1>2. QED
  BY <1>1, RetryInvariantHolds, PTL

(* CashCollectedOnce: an account never records two cash completions of a      *)
(* stop, whatever becomes of the first.                                       *)
THEOREM CashIsNotCollectedAgain == RetrySpec => []CashCollectedOnce
<1>1. RetryInv => CashCollectedOnce
  BY DEF RetryInv
<1>2. QED
  BY <1>1, RetryInvariantHolds, PTL

(* Beside the pass nothing but sign-out and the start of a pass changes it.   *)
LEMMA OthersLeaveThePass ==
    ASSUME [RetryNext]_allVars, ~PassStep
    PROVE  \/ UNCHANGED pass
           \/ pass.phase = "idle" /\ pass'.phase = "loop"
           \/ UNCHANGED rows /\ pass' = [pass EXCEPT !.aborted = TRUE]
<1>1. CASE \E r \in Routes, allow \in BOOLEAN : PassStart(r, allow)
  <2> SUFFICES ASSUME NEW r \in Routes, NEW allow \in BOOLEAN, PassStart(r, allow)
               PROVE  pass.phase = "idle" /\ pass'.phase = "loop"
    BY <1>1
  <2>1. QED
    BY DEF PassStart, IdlePass
<1>2. CASE \E x \in Senders : SenderStep(x)
  <2> SUFFICES ASSUME NEW x \in Senders, SenderStep(x) PROVE UNCHANGED pass
    BY <1>2
  <2>1. \A q, k, l : SenderWrites(x, q, k, l) => UNCHANGED pass
    BY DEF SenderWrites
  <2>2. \A l : SenderMoves(x, l) => UNCHANGED pass
    BY DEF SenderMoves
  <2>3. (\A q, k : Fails(x, q, k) => UNCHANGED pass) /\ (GivesUp(x) => UNCHANGED pass)
    BY <2>1, <2>2 DEF Fails, GivesUp
  <2>4. \A i : RouteEndQueued(x, i) => UNCHANGED pass
    BY <2>3 DEF RouteEndQueued
  <2>5. Sends(x) => UNCHANGED pass
    BY <2>2, <2>3, <2>4 DEF Sends
  <2>6. CASE \E i \in Ids : DriverRecords(x, i)
    BY <2>1, <2>6 DEF DriverRecords
  <2>7. CASE SenderSaved(x)
    BY <2>2, <2>3, <2>5, <2>7 DEF SenderSaved
  <2>8. CASE RouteSessionDeactivated(x)
    BY <2>3, <2>5, <2>8 DEF RouteSessionDeactivated
  <2>9. CASE SenderSucceeds(x)
    BY <2>3, <2>9 DEF SenderSucceeds
  <2>10. CASE SenderFails(x)
    BY <2>3, <2>4, <2>10 DEF SenderFails, ResultFails, RouteEndFails
  <2>11. CASE SenderThrows(x)
    BY <2>3, <2>11 DEF SenderThrows
  <2>12. QED
    BY <2>6, <2>7, <2>8, <2>9, <2>10, <2>11 DEF SenderStep
<1>3. CASE \/ \E req \in sent : ServerApplies(req)
           \/ \E r \in Routes : DispatcherClosesRoute(r)
           \/ \E r \in Routes, c \in Contracts : DispatcherReassigns(r, c)
  BY <1>3 DEF ServerApplies, DispatcherClosesRoute, DispatcherReassigns
<1>4. \A q, k : Elsewhere(q, k) => UNCHANGED pass
  BY DEF Elsewhere
<1>5. CASE \/ \E i \in Ids : LocationStored(i)
           \/ \E p \in Ids : ProofStored(p)
           \/ \E p \in Ids : CaptureUploadEnds(p)
  BY <1>4, <1>5 DEF LocationStored, ProofStored, CaptureUploadEnds
<1>6. CASE \/ OperatorReconciles \/ \E r \in Routes : LocationTaskBlocksRoute(r)
           \/ \E i \in Ids : StopReceiptRecovered(i)
           \/ \E i \in Ids : RouteEndReceiptRecovered(i)
  BY <1>4, <1>6 DEF OperatorReconciles, LocationTaskBlocksRoute, StopReceiptRecovered,
                    RouteEndReceiptRecovered
<1>7. CASE \/ \E r \in Routes : SessionRefreshed(r)
           \/ StorageFails \/ StorageRecovers \/ LogoutSeals
           \/ \E o \in Owners : SignsIn(o)
           \/ UNCHANGED allVars
  BY <1>7 DEF SessionRefreshed, StorageFails, StorageRecovers, LogoutSeals, SignsIn, allVars
<1>8. CASE LogoutBegins
  BY <1>8 DEF LogoutBegins, queueVars
<1>9. QED
  BY <1>1, <1>2, <1>3, <1>5, <1>6, <1>7, <1>8 DEF RetryNext

(* The pass writes to the rows of its own account, and only a request it      *)
(* sends brings it to wait for the server.                                    *)
PassKeepsToItsRows == UNCHANGED rows \/ (owner = pass.by /\ \E q : rows' = [rows EXCEPT ![owner] = q])

LEMMA PassStepKeepsToItsRows ==
    ASSUME RetryInv, PassStep
    PROVE  PassKeepsToItsRows
<1>1. \A q, p : PassWrites(q, p) /\ owner = pass.by => PassKeepsToItsRows
  BY DEF PassWrites, PassKeepsToItsRows
<1>2. \A p : PassMoves(p) => PassKeepsToItsRows
  BY DEF PassMoves, queueVars, PassKeepsToItsRows
<1>3. pass.phase \in {"send", "persist"} => owner = pass.by
  BY PassIsAtWork
<1>4. CASE StopReceiptArrives
  BY <1>1, <1>4 DEF StopReceiptArrives, Current, queueVars, PassKeepsToItsRows
<1>5. CASE PassIsolatesForeign \/ \E old \in BOOLEAN : PassRetires(old)
  BY <1>1, <1>3, <1>5 DEF PassIsolatesForeign, PassRetires, Sendable
<1>6. CASE EndReceiptArrives \/ PassPosted \/ PassUploaded
  BY <1>1, <1>6 DEF EndReceiptArrives, PassPosted, PassUploaded, Current
<1>7. CASE PassRefused
  BY <1>1, <1>7 DEF PassRefused, Current
<1>8. CASE ProofRefused
  BY <1>1, <1>8 DEF ProofRefused, Current
<1>9. CASE \E transient, old \in BOOLEAN : AttemptFails(transient, old)
  BY <1>1, <1>9 DEF AttemptFails, Current
<1>10. CASE PassResumes
  BY <1>1, <1>2, <1>3, <1>10 DEF PassResumes
<1>11. CASE PassNext \/ PassEnds \/ PassBreaks \/ PassDies
  BY <1>11 DEF PassNext, PassEnds, PassBreaks, PassDies, queueVars, PassKeepsToItsRows
<1>12. CASE PassHolds \/ PassAwaitsProofs \/ PassAsksForEndReceipt \/ PassUploads \/ PassPosts
  BY <1>12 DEF PassHolds, PassAwaitsProofs, PassAsksForEndReceipt, PassUploads, PassPosts,
               queueVars, PassKeepsToItsRows
<1>13. QED
  BY <1>4, <1>5, <1>6, <1>7, <1>8, <1>9, <1>10, <1>11, <1>12 DEF PassStep

(* PassTouchesOwnRows: a pass that outlives its account changes no row of the *)
(* next one.                                                                  *)
THEOREM PassStaysInItsAccount == RetrySpec => PassTouchesOwnRows
<1>1. ASSUME RetryInv, [RetryNext]_allVars, pass.phase # "idle", pass' # pass,
             NEW o \in Owners \ {pass.by}
      PROVE  rows'[o] = rows[o]
  <2>1. CASE PassStep
    <3>1. PassKeepsToItsRows
      BY <1>1, <2>1, PassStepKeepsToItsRows
    <3>2. QED
      BY <1>1, <3>1 DEF PassKeepsToItsRows, RetryInv, Inv
  <2>2. CASE ~PassStep
    BY <1>1, <2>2, OthersLeaveThePass
  <2>3. QED
    BY <2>1, <2>2
<1>2. RetryInv /\ [RetryNext]_allVars =>
        [pass.phase # "idle" /\ pass' # pass =>
           \A o \in Owners \ {pass.by} : rows'[o] = rows[o]]_allVars
  BY <1>1
<1>3. QED
  BY <1>2, RetryInvariantHolds, PTL DEF RetrySpec, PassTouchesOwnRows

LEMMA PassStepPosts ==
    ASSUME RetryInv, PassStep, pass.phase # "post", pass'.phase = "post"
    PROVE  PassPosts
<1>1. pass \in PassRecord
  BY DEF RetryInv, PassGood
<1>2. /\ Looping.phase = "loop" /\ RouteRefused.phase = "loop"
      /\ \A i : LoopBlocked(i).phase = "loop"
      /\ \A next : Persisting(next).phase = "persist"
      /\ IdlePass.phase = "idle"
  BY <1>1 DEF Looping, RouteRefused, LoopBlocked, Persisting, IdlePass, PassRecord
<1>3. \A q, p : PassWrites(q, p) => pass' = p
  BY DEF PassWrites
<1>4. \A b, c : [Looping EXCEPT !.workflowBlocked = b].phase = "loop"
                /\ [Looping EXCEPT !.routeBlocked = b].phase = "loop"
                /\ [Looping EXCEPT !.completed = b].phase = "loop"
  BY <1>1 DEF Looping, PassRecord
<1>5. \A i, b : [LoopBlocked(i) EXCEPT !.routeBlocked = b].phase = "loop"
                /\ [LoopBlocked(i) EXCEPT !.suspended = b].phase = "loop"
  BY <1>1 DEF LoopBlocked, Looping, PassRecord
<1>6. ~StopReceiptArrives
  BY <1>1, <1>2, <1>3, <1>4 DEF StopReceiptArrives, PassRecord
<1>7. ~PassIsolatesForeign /\ ~ \E old \in BOOLEAN : PassRetires(old)
  BY <1>2, <1>3, <1>5 DEF PassIsolatesForeign, PassRetires
<1>8. ~EndReceiptArrives /\ ~PassPosted /\ ~PassUploaded
  BY <1>2, <1>3, <1>4 DEF EndReceiptArrives, PassPosted, PassUploaded
<1>9. ~PassRefused /\ ~ProofRefused
  BY <1>2, <1>3, <1>4 DEF PassRefused, ProofRefused
<1>10. ~ \E transient, old \in BOOLEAN : AttemptFails(transient, old)
  BY <1>3, <1>5 DEF AttemptFails
<1>11. ~PassResumes
  BY <1>2, <1>3, <1>4 DEF PassResumes, PassMoves
<1>12. ~PassNext
  BY <1>1 DEF PassNext, PassRecord
<1>13. ~PassEnds /\ ~PassBreaks /\ ~PassDies
  BY <1>2 DEF PassEnds, PassBreaks, PassDies
<1>14. ~PassHolds /\ ~PassAwaitsProofs
  BY <1>2, <1>4 DEF PassHolds, PassAwaitsProofs
<1>15. ~PassAsksForEndReceipt /\ ~PassUploads
  BY <1>1 DEF PassAsksForEndReceipt, PassUploads, PassRecord
<1>16. QED
  BY <1>6, <1>7, <1>8, <1>9, <1>10, <1>11, <1>12, <1>13, <1>14, <1>15 DEF PassStep

LEMMA PassPostsTheHead ==
    ASSUME RetryInv, PassPosts, NEW j \in Ids, SameRoute(j, pass.item), Live(rows[pass.by][j])
    PROVE  rows[pass.by][j].seq > rows[pass.by][pass.item].seq
<1> DEFINE y == pass.item
           q == rows[pass.by]
<1>1. /\ pass.phase \in {"send", "endReceipt"} /\ owner = pass.by
      /\ IsOrdered(y) => ~Blocked(pass)
  BY PassPostsWell DEF PassPosts, Sendable
<1>2. y \in Ids /\ PassAtWork(pass, q, owner) /\ pass.by \in Owners /\ Inv
  BY <1>1, PassIsAtWork DEF RetryInv
<1>3. j # y /\ RouteOf[j] = RouteOf[y] /\ IsOrdered(j) /\ IsOrdered(y)
  BY DEF SameRoute
<1>4. ~pass.completed
  BY <1>1, <1>2 DEF PassAtWork
<1>5. y \in Remaining(pass) /\ RouteOf[y] = pass.route
  BY <1>1, <1>2 DEF Remaining, PassAtWork
<1>6. CASE j \in Remaining(pass)
  <2>1. j \in pass.todo
    BY <1>3, <1>6 DEF Remaining
  <2>2. q[y].seq < q[j].seq
    BY <1>1, <1>2, <2>1 DEF PassAtWork
  <2>3. q[y].seq \in Nat /\ q[j].seq \in Nat
    BY <1>2, RowTypes
  <2>4. QED
    BY <2>2, <2>3
<1>7. CASE j \notin Remaining(pass)
  BY <1>1, <1>2, <1>3, <1>4, <1>5, <1>7 DEF PassAtWork, HeadsFirst
<1>8. QED
  BY <1>6, <1>7

(* HeadOfLine: the retry pass starts a POST of a workflow event only when no  *)
(* earlier one of its route is unsettled, although it decides from a snapshot *)
(* taken before any of its awaits.                                            *)
THEOREM OnlyTheHeadIsPosted == RetrySpec => HeadOfLine
<1>1. ASSUME RetryInv, [RetryNext]_allVars, pass.phase # "post", pass'.phase = "post",
             NEW j \in Ids, SameRoute(j, pass'.item), Live(rows[pass.by][j])
      PROVE  rows[pass.by][j].seq > rows[pass.by][pass'.item].seq
  <2>1. pass \in PassRecord
    BY <1>1 DEF RetryInv, PassGood
  <2>2. PassStep
    <3>1. [pass EXCEPT !.aborted = TRUE].phase = pass.phase
      BY <2>1 DEF PassRecord
    <3>2. QED
      BY <1>1, <3>1, OthersLeaveThePass
  <2>3. PassPosts
    BY <1>1, <2>2, PassStepPosts
  <2>4. pass' = [pass EXCEPT !.phase = "post"]
    BY <2>3 DEF PassPosts
  <2>5. pass'.item = pass.item
    BY <2>1, <2>4 DEF PassRecord
  <2>6. QED
    BY <1>1, <2>3, <2>5, PassPostsTheHead
<1>2. RetryInv /\ [RetryNext]_allVars =>
        [pass.phase # "post" /\ pass'.phase = "post" =>
           \A j \in Ids : SameRoute(j, pass'.item) /\ Live(rows[pass.by][j])
               => rows[pass.by][j].seq > rows[pass.by][pass'.item].seq]_allVars
  BY <1>1
<1>3. QED
  BY <1>2, RetryInvariantHolds, PTL DEF RetrySpec, HeadOfLine

================================================================================
