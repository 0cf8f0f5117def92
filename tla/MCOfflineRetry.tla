---------------------------- MODULE MCOfflineRetry ----------------------------
(* Instances of OfflineRetry: one route with two stops; a run picks the events *)
(* the driver records, the accounts, and the publications of the route.       *)
EXTENDS OfflineRetry

CONSTANTS a, b,                   \* accounts
          l, s, v, f,             \* sample, step, arrival, failed stop
          c1, c2, photo,          \* two cash completions of one stop, a file of c1
          e, z,                   \* two route ends
          route, stop1, stop2,
          v1, v2, w,              \* two publications of one assignment, another assignment
          x1, x2                  \* open direct submissions

Kind == [i \in {l, s, v, f, c1, c2, photo, e, z} |->
            CASE i = l -> "location"
              [] i = s -> "step"
              [] i = v -> "arrival"
              [] i = f -> "stop"
              [] i \in {c1, c2} -> "cash"
              [] i = photo -> "proof"
              [] i = e -> "completed"
              [] i = z -> "paused"]

MCKindOf == [i \in Ids |-> Kind[i]]
MCRouteOf == [i \in Ids |-> route]
MCStopOf == [i \in Ids |-> IF i \in {c1, c2, photo} THEN stop1 ELSE stop2]
MCProofsOf == [i \in Ids |-> IF i = c1 /\ photo \in Ids THEN {photo} ELSE {}]
MCProofScope == [i \in Ids |-> IF i = photo THEN v1 ELSE NoContract]
MCGeneration == [g \in AnyContract |-> IF g = v2 THEN v1 ELSE g]

(* Bounds of retry_order: the office reassigns the route once, or the driver  *)
(* signs out and another takes over; what is recorded comes in the            *)
(* combinations below.                                                        *)
Recorded == {i \in Ids : recorder[i] # NoOwner}
Reassigned == terms[route] = w
SignedOut == account = "leaving" \/ (account = "out" /\ owner # NoOwner) \/ owner = b
OneSender == live[x2] = IdleSender

Situations ==
    /\ session[route] = w => Reassigned
    /\ owner = b => account = "in"
    /\ \/ Recorded \subseteq {v, c1} /\ OneSender /\ ~(Reassigned /\ SignedOut)
       \/ Recorded \subseteq {v, c1} /\ ~Reassigned /\ ~SignedOut
       \/ Recorded \subseteq {c1, z} /\ OneSender /\ ~Reassigned /\ ~SignedOut
       \/ Recorded \subseteq {v, z} /\ OneSender /\ ~Reassigned /\ pass = IdlePass
       \/ Recorded \subseteq {z, l} /\ OneSender /\ ~Reassigned

(* View of retry_order: attempts are only ever compared with MaxAttempts, so   *)
(* that states in which a row has had as many or still more are one.          *)
AttemptsThatCount ==
    [o \in DOMAIN rows |-> [i \in Ids |->
        IF rows[o][i].attempts > MaxAttempts THEN [rows[o][i] EXCEPT !.attempts = MaxAttempts]
        ELSE rows[o][i]]]

Distinguished ==
    <<AttemptsThatCount, owner, nextSeq, writable, pass, live, account, session,
      sent, applied, terms, closed, recorder>>
===============================================================================
