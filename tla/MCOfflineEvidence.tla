--------------------------- MODULE MCOfflineEvidence ---------------------------
(* An instance of OfflineEvidence: one account, one route, and six rows: two  *)
(* samples and a route end; a cash completion, its file and a new capture of  *)
(* that file.  The two groups share only the capacity and the sequence        *)
(* counter, so Bounds explores what has rows of one of them; the properties   *)
(* are checked one step beyond it.                                            *)
EXTENDS OfflineEvidence, TLC

CONSTANTS a,                     \* an account
          l1, l2, c, p, n, e,    \* samples, cash, its file, a new capture, route end
          route, g1, g2          \* two assignment generations

Kind == [i \in {l1, l2, c, p, n, e} |->
            CASE i \in {l1, l2} -> "location"
              [] i = c -> "cash"
              [] i \in {p, n} -> "proof"
              [] i = e -> "completed"]

MCKindOf == [i \in Ids |-> Kind[i]]
MCRouteOf == [i \in Ids |-> route]
MCProofsOf == [i \in Ids |-> IF i = c THEN {p} ELSE {}]
MCProofScope == [i \in Ids |-> IF i \in {p, n} THEN g1 ELSE NoContract]
MCGeneration == [g \in AnyContract |-> g]

Samples == Permutations({l1, l2})

(* Bounds: rows of one group at a time; no failed attempt (no method reads    *)
(* the count); samples and route end without contract; the store fails only   *)
(* beside the route end, the one row a degraded queue may change.             *)
Evidence == {c, p, n}
Used(group) == \E i \in group : rows[a][i].state # "ABSENT"
Bounds ==
    /\ Used(Evidence) => writable /\ ~Used(Ids \ Evidence)
    /\ \A i \in Ids : rows[a][i].attempts = 0
    /\ \A i \in Ids \ Evidence : rows[a][i].contract = NoContract
================================================================================
