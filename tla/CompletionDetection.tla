------------------------- MODULE CompletionDetection -------------------------
(***************************************************************************)
(* Detection of a visit from a stream of GPS samples: the background task  *)
(* hands each batch to the stored state (recordExpoCompletionLocations),   *)
(* the first policy arrives at any time, the driver answers, closes stops  *)
(* by hand, ends the route.  Samples may be late, repeated, invalid or far *)
(* apart.                                                                  *)
(***************************************************************************)
EXTENDS CompletionAssistance

CONSTANTS MaxTime,     \* bound: the time of the last sample
          MaxOdd       \* bound: late, invalid, distant, borderline or batched samples

VARIABLES
  st,      \* the stored state of the account
  now,     \* the time of the newest sample
  policy,  \* the version of the policy the server last gave, 0 before the first
  odd,     \* how many odd samples there were
  log,     \* history: the samples in the order they were handed over
  direct,  \* history: the state had the policy been there from the start
  closed   \* history: the stops the driver closed by hand
vars == <<st, now, policy, odd, log, direct, closed>>

TheRun == 1
Open == [s \in Stops |-> [status |-> "pending", manual |-> NoManual]]
Served(version) == TheRun :> [ended |-> FALSE, policy |-> version, stops |-> Open]
Synced(state, version) ==
  Reconcile([state EXCEPT !.capability = "supported"], Served(version), Served(version))

Zones == {"outside", "ring", "edge", "inside", "unclear"}
Sample(at, zones) == [at |-> at, valid |-> TRUE, zone |-> zones]
Invalid(at) == [at |-> at, valid |-> FALSE, zone |-> [s \in Stops |-> "unclear"]]

Init == /\ st = EmptyState /\ now = 0 /\ policy = 0 /\ odd = 0 /\ log = <<>> /\ closed = {}
        /\ direct = Synced(EmptyState, 1)

Takes(samples, oddness) ==
  /\ odd + oddness <= MaxOdd
  /\ odd' = odd + oddness
  /\ st' = ObserveAssigned(st, TheRun, samples)
  /\ direct' = ObserveAssigned(direct, TheRun, samples)
  /\ log' = log \o samples
  /\ now' = Max({now, Last(samples).at})
  /\ UNCHANGED <<policy, closed>>

\* The ordinary stream is outside or inside of every stop; the rest is odd.
Oddness(zones) == IF \E s \in Stops : zones[s] \in {"ring", "edge", "unclear"} THEN 1 ELSE 0

NextSample == now < MaxTime /\ \E z \in [Stops -> Zones] : Takes(<<Sample(now + 1, z)>>, Oddness(z))
DistantSample == /\ now > 0 /\ now < MaxTime
                 /\ \E gap \in 2..(MaxGap + 1), z \in [Stops -> Zones] : Takes(<<Sample(now + gap, z)>>, 1)
LateSample == now > 0 /\ \E at \in Max({1, now - 1})..now, z \in [Stops -> Zones] :
                            Takes(<<Sample(at, z)>>, 1)
InvalidSample == now > 0 /\ Takes(<<Invalid(now)>>, 1)

\* The system hands over several samples at once: a whole visit of a stop.
BatchedVisit(s) ==
  LET at(k) == Sample(now + k, [t \in Stops |-> IF t = s /\ 1 < k /\ k < MinSamples + 2
                                                THEN "inside" ELSE "outside"])
  IN Takes([k \in 1..(MinSamples + 2) |-> at(k)], 1)

\* A snapshot of the server that still calls every stop pending; it may carry
\* a new version of the policy, once.
ReceivesPolicy(version) ==
  /\ version \in {policy, policy + 1} \ {0}
  /\ version <= 2
  /\ policy' = version
  /\ st' = Synced(st, version)
  /\ direct' = Synced(direct, version)
  /\ UNCHANGED <<now, odd, log, closed>>

Answers(c, response) ==
  /\ c \in DOMAIN st.candidates
  /\ st.candidates[c].response # response
  /\ st' = Respond(st, c, response, now)
  /\ direct' = Respond(direct, c, response, now)
  /\ UNCHANGED <<now, policy, odd, log, closed>>

ClosesByHand(s, response) ==
  /\ s \notin closed
  /\ closed' = closed \union {s}
  /\ st' = RecordManual(st, TheRun, s, response, now)
  /\ direct' = RecordManual(direct, TheRun, s, response, now)
  /\ UNCHANGED <<now, policy, odd, log>>

Next == \/ NextSample \/ DistantSample \/ LateSample \/ InvalidSample
        \/ \E s \in Stops : BatchedVisit(s)
        \/ \E version \in 1..2 : ReceivesPolicy(version)
        \/ \E c \in DOMAIN st.candidates, response \in {"not_completed"} : Answers(c, response)
        \/ \E s \in Stops, response \in {"failed"} : ClosesByHand(s, response)

Spec == Init /\ [][Next]_vars

-----------------------------------------------------------------------------
(* Properties *)

\* The samples of a stretch of the log that came in order.
InOrder(from, to) == {n \in from..to : \A p \in from..(n - 1) : log[p].at < log[n].at}

\* log[i..m] is a visit of stop s: a sample outside, then enough samples inside in
\* a row over the dwell time, then nothing outside or unclear until the exit, with
\* no silence longer than the policy allows.
IsVisit(s, i, m) ==
  LET kept == InOrder(i, m)
      before(n) == Max({p \in kept : p < n})
      inside(j, k) == {n \in kept : j <= n /\ n <= k}
  IN /\ m \in kept
     /\ \A n \in i..m : log[n].valid
     /\ \A n \in kept \ {i} : log[n].at - log[before(n)].at <= MaxGap
     /\ log[i].zone[s] \in {"outside", "ring"}
     /\ log[m].zone[s] = "outside"
     /\ \E j, k \in kept \ {i} :
          /\ before(j) = i
          /\ \A n \in inside(j, k) : log[n].zone[s] = "inside"
          /\ Cardinality(inside(j, k)) >= MinSamples
          /\ log[k].at - log[j].at >= Dwell
          /\ \A n \in kept : k < n /\ n < m => log[n].zone[s] \in {"inside", "edge", "ring"}

\* A candidate stands for a visit the samples show: approach, unbroken certain dwell
\* of the policy's length and number of samples, certain exit (observeStopSample).
CandidateIsAVisit ==
  \A c \in DOMAIN st.candidates : \E i, m \in DOMAIN log : i + 1 < m /\ IsVisit(c.stop, i, m)

FirstPolicy == policy = 0 /\ policy' = 1

\* The samples that nothing has taken from the buffer: no invalid one came after them,
\* they are not too old and not too many came after them.
Kept == {n \in DOMAIN log : /\ \A p \in n..Len(log) : log[p].valid
                            /\ now <= log[n].at + MaxAge
                            /\ Len(log) - n < MaxBuffered}

\* Detection does not depend on when the policy comes: as long as the buffer could
\* hold every sample, replaying it leaves the candidates, the visits in progress and
\* the commands that would be there had the policy been there from the start, unless
\* the driver closed the stop by hand meanwhile (observeAssignedCompletionLocations,
\* reconcileCompletionRuns).
ReplayFindsTheSame ==
  [][(FirstPolicy /\ closed = {} /\ Kept = DOMAIN log) =>
       /\ st'.candidates = direct'.candidates
       /\ st'.visits = direct'.visits
       /\ st'.commands = direct'.commands]_vars

\* When samples were dropped because they were too old, too many or followed by an
\* invalid one, a visit is still found if all of it, from an approach that is certainly
\* outside to the exit, was kept.
RecentVisitIsFound ==
  [][FirstPolicy =>
       \A s \in Stops \ closed :
         (\E i \in Kept \cap InOrder(1, Len(log)), m \in Kept :
             /\ i + 1 < m /\ log[i].zone[s] = "outside" /\ IsVisit(s, i, m))
         => \E c \in DOMAIN st'.candidates : c.stop = s]_vars

\* The driver is asked about a stop once at a time and never about one closed by hand,
\* however late the policy and however stale the snapshot that calls it pending.
AskedOnce ==
  \A s \in Stops :
    LET asked == {c \in DOMAIN st.candidates :
                    c.stop = s /\ st.candidates[c].status \in {"awaiting_response", "held"}}
    IN Cardinality(asked) <= (IF s \in closed THEN 0 ELSE 1)
=============================================================================
