------------------------- MODULE CompletionAssistance -------------------------
(***************************************************************************)
(* The state the app keeps, per account, to find deliveries the driver may *)
(* have made without confirming them, and the pure transitions on it       *)
(* (src/domain/completion/completionAssistance.ts).  CompletionDetection   *)
(* runs them against a stream of GPS samples, CompletionSync against two   *)
(* synchronizers, a driver and a server.                                   *)
(*                                                                         *)
(* One account and one route.  The server mints a run for every identity   *)
(* (assignment generation and route version) of the route, so a run stands *)
(* for its identity and "assignment changed" is "run removed" here.  A     *)
(* sample says for each stop where the position certainly is:              *)
(*   "outside"  beyond the exit radius     "ring"    beyond the entry one  *)
(*   "inside"   within the entry radius    "edge"    neither for certain   *)
(*   "unclear"  too inaccurate, or two stops cannot be told apart          *)
(* (distance and accuracy arithmetic is left out).                         *)
(***************************************************************************)
EXTENDS Naturals, Sequences, FiniteSets, SequencesExt, FiniteSetsExt, Functions

CONSTANTS
  Stops,          \* the stops of the route
  MinSamples,     \* policy: samples a dwell needs
  Dwell,          \* policy: time between the first and the last of them
  MaxGap,         \* policy: the longest silence within a visit
  MaxEvidence,    \* MAX_EVIDENCE_SAMPLES
  MaxBuffered,    \* MAX_BUFFERED_SAMPLES
  MaxAge,         \* MAX_BUFFERED_AGE_MS
  MaxIdentities   \* MAX_BUFFERED_IDENTITIES, MAX_MANUAL_OUTCOME_..., MAX_PENDING_RETURN_...

ASSUME PolicyIsUsable == /\ MinSamples \in Nat \ {0} /\ Dwell \in Nat /\ MaxGap \in Nat \ {0}
                         /\ MaxEvidence >= MinSamples + 2
                         /\ MaxBuffered \in Nat \ {0} /\ MaxAge \in Nat
                         /\ MaxIdentities \in Nat \ {0}

Explicit == {"completed", "failed", "not_completed"}
Terminal == {"delivered", "failed"}
Detectable(status) == status = "pending"

EmptyState == [capability |-> "unknown", runs |-> <<>>, candidates |-> <<>>, commands |-> <<>>,
               visits |-> <<>>, buffered |-> <<>>, outcomes |-> <<>>, returns |-> <<>>]

\* The last n entries, as Array.slice(-n).
LastOf(s, n) == IF Len(s) <= n THEN s ELSE SubSeq(s, Len(s) - n + 1, Len(s))
Put(f, k, v) == [x \in DOMAIN f \union {k} |-> IF x = k THEN v ELSE f[x]]
Queued(st, id) == \E i \in DOMAIN st.commands : st.commands[i].id = id
Enqueue(st, command) ==
  IF Queued(st, command.id) THEN st ELSE [st EXCEPT !.commands = Append(@, command)]
NoManual == [response |-> "none", at |-> 0]   \* no manualResponse
Tracked(st) == {r \in DOMAIN st.runs : ~st.runs[r].ended}

-----------------------------------------------------------------------------
(* Detection: outside -> dwelling -> candidate. *)

NewVisit(at) == [stage |-> "outside", approached |-> FALSE, last |-> at, arrival |-> 0,
                 dwelled |-> 0, count |-> 0, evidence |-> 0, overflow |-> FALSE]
VisitOf(st, run, s) == IF <<run, s>> \in DOMAIN st.visits THEN st.visits[<<run, s>>] ELSE NewVisit(0)
WithVisit(st, run, s, visit) == [st EXCEPT !.visits = Put(@, <<run, s>>, visit)]
WithoutVisits(st, gone) == [st EXCEPT !.visits = RestrictDomain(@, LAMBDA v : v \notin gone)]

\* A stop is closed to detection by a candidate, unless it was invalidated or
\* answered "not completed".
Blocking(st, run, s) ==
  {c \in DOMAIN st.candidates :
     /\ c.run = run /\ c.stop = s
     /\ st.candidates[c].status # "invalidated"
     /\ ~(st.candidates[c].status = "responded" /\ st.candidates[c].response = "not_completed")}

\* The exit of a completed dwell: the visit becomes a candidate and its command.
Candidate(st, run, s, visit, at) ==
  LET c == [run |-> run, stop |-> s, arrival |-> visit.arrival]
      full == visit.overflow \/ visit.evidence >= MaxEvidence
  IN Enqueue([WithoutVisits(st, {<<run, s>>}) EXCEPT
                !.candidates = Put(@, c, [status |-> IF full THEN "held" ELSE "awaiting_response",
                                          revision |-> 0, response |-> "none",
                                          notified |-> FALSE, rejected |-> FALSE])],
             [kind |-> "candidate", id |-> [kind |-> "candidate", of |-> <<c>>, at |-> at],
              cand |-> <<c>>, response |-> "none", expected |-> 0, prev |-> <<>>])

\* A sample outside a visit: an approach arms it, an entry after one begins the dwell.
Approaches(visit, zone, at) ==
  CASE zone \in {"outside", "ring"} -> [visit EXCEPT !.approached = TRUE, !.last = at, !.evidence = 1]
    [] zone = "inside" /\ visit.approached ->
         [visit EXCEPT !.stage = "dwelling", !.arrival = at, !.count = 1, !.last = at,
                       !.evidence = Min({@ + 1, MaxEvidence})]
    [] zone = "inside" /\ ~visit.approached -> [visit EXCEPT !.last = at]
    [] OTHER -> NewVisit(at)

\* mutant: any sample within counts
DwellsUncertain(visit, zone, at) ==
  [visit EXCEPT !.count = @ + 1, !.last = at,
                !.dwelled = IF @ = 0 /\ at - visit.arrival >= Dwell THEN at ELSE @]

\* A sample within one: enough certain samples over the dwell time complete it.
Dwells(visit, zone, at) ==
  LET count == IF zone = "inside" THEN visit.count + 1 ELSE visit.count IN
  [visit EXCEPT !.count = count, !.last = at,
                !.overflow = @ \/ visit.evidence >= MaxEvidence,
                !.evidence = Min({@ + 1, MaxEvidence}),
                !.dwelled = IF @ = 0 /\ zone = "inside" /\ count >= MinSamples
                               /\ at - visit.arrival >= Dwell THEN at ELSE @]

ObserveStop(st, run, s, at, zone) ==
  LET existing == VisitOf(st, run, s)
      gap == existing.last # 0 /\ at - existing.last > MaxGap
      visit == IF gap THEN NewVisit(at) ELSE existing
  IN CASE existing.last # 0 /\ at <= existing.last -> st
       [] OTHER ->
          CASE zone = "unclear" -> WithVisit(st, run, s, NewVisit(at))
            [] zone # "unclear" /\ visit.stage = "outside" ->
                 WithVisit(st, run, s, Approaches(visit, zone, at))
            [] visit.stage = "dwelling" /\ zone = "outside" /\ visit.dwelled # 0 ->
                 Candidate(st, run, s, visit, at)
            [] visit.stage = "dwelling" /\ zone = "outside" /\ visit.dwelled = 0 ->
                 WithVisit(st, run, s, [NewVisit(at) EXCEPT !.approached = TRUE, !.evidence = 1])
            [] visit.stage = "dwelling" /\ zone \in {"ring", "edge"} /\ visit.dwelled = 0 ->
                 WithVisit(st, run, s, NewVisit(at))
            [] OTHER -> WithVisit(st, run, s, Dwells(visit, zone, at))

\* Every open stop of a run takes the sample; an invalid one ends the run's visits.
ObserveSample(st, run, smp) ==
  IF ~smp.valid THEN WithoutVisits(st, {run} \X Stops)
  ELSE LET stops == st.runs[run].stops
           open == {s \in DOMAIN stops : Detectable(stops[s].status) /\ Blocking(st, run, s) = {}}
           after[some \in SUBSET open] ==
             IF some = {} THEN st
             ELSE LET s == CHOOSE t \in some : TRUE
                  IN ObserveStop(after[some \ {s}], run, s, smp.at, smp.zone[s])
       IN after[open]

\* The tracked runs of a route are one at most (OneTracked).
ObserveLocations(st, run, samples) ==
  IF st.capability = "unsupported" THEN st
  ELSE FoldLeft(LAMBDA acc, smp : ObserveSample(acc, run, smp), st, samples)

\* Before the server has given a policy for the assigned run, its samples wait: the
\* latest of those not much older than the newest; an invalid one empties the buffer.
Waiting(old, samples) ==
  FoldLeft(LAMBDA acc, smp : IF smp.valid THEN Append(acc, smp) ELSE <<>>, old, samples)
Young(waiting) ==
  SelectSeq(waiting, LAMBDA smp : \A i \in DOMAIN waiting : waiting[i].at <= smp.at + MaxAge)

\* mutants: the last batch only; the buffer stops when it is full
BufferLatest(old, samples) == LastOf(Young(samples), MaxBuffered)
BufferFirst(old, samples) ==
  LET young == Young(Waiting(old, samples)) IN SubSeq(young, 1, Min({Len(young), MaxBuffered}))
Buffer(old, samples) == LastOf(Young(Waiting(old, samples)), MaxBuffered)

ObserveAssigned(st, run, samples) ==
  IF st.capability = "unsupported" THEN st
  ELSE IF run \in Tracked(st) THEN ObserveLocations(st, run, samples)
  ELSE LET mine == SelectSeq(st.buffered, LAMBDA b : b.run = run)
           others == SelectSeq(st.buffered, LAMBDA b : b.run # run)
           kept == Buffer(IF mine = <<>> THEN <<>> ELSE mine[1].samples, samples)
       IN [st EXCEPT !.buffered = IF kept = <<>> THEN others
                                  ELSE LastOf(Append(others, [run |-> run, samples |-> kept]), MaxIdentities)]

-----------------------------------------------------------------------------
(* The driver's own word: an answer, a manual outcome, a return, the end of a run. *)

LastAnswer(st, c) ==
  LET answers == SelectSeq(st.commands, LAMBDA m : m.kind = "response" /\ m.cand = <<c>>)
  IN IF answers = <<>> THEN <<>> ELSE <<Last(answers).id>>

Respond(st, c, response, at) ==
  LET id == [kind |-> "response", of |-> <<c>>, at |-> at] IN
  IF c \notin DOMAIN st.candidates \/ st.candidates[c].status = "invalidated" \/ Queued(st, id)
  THEN st
  ELSE [st EXCEPT
          !.commands = Append(@, [kind |-> "response", id |-> id, cand |-> <<c>>, response |-> response,
                                  expected |-> st.candidates[c].revision, prev |-> LastAnswer(st, c)]),
          !.candidates[c].status = "responded",
          !.candidates[c].response = response,
          !.candidates[c].revision = @ + 1,
          !.visits = IF response = "not_completed" THEN Put(@, <<c.run, c.stop>>, NewVisit(at)) ELSE @]

\* The outcomes of the latest identities only.
TrimOutcomes(outcomes) ==
  LET runs == {outcomes[i].run : i \in DOMAIN outcomes}
      lastOf(r) == Max({i \in DOMAIN outcomes : outcomes[i].run = r})
      newer(r) == {q \in runs : lastOf(q) > lastOf(r)}
  IN SelectSeq(outcomes, LAMBDA o : Cardinality(newer(o.run)) < MaxIdentities)

Outcome(outcomes, run, s) ==
  LET found == SelectSeq(outcomes, LAMBDA o : o.run = run /\ o.stop = s)
  IN IF found = <<>> THEN NoManual ELSE found[1].manual

Overlaid(stop, manual) ==
  IF manual = NoManual THEN stop
  ELSE [stop EXCEPT !.manual = manual,
                    !.status = IF manual.response = "completed" THEN "delivered" ELSE "failed"]

\* The delivery buttons: the outcome is remembered for the identity, closes the stop
\* at once and answers the stop's candidate, if it has one.
RecordManual(st, run, s, response, at) ==
  LET manual == [response |-> response, at |-> at]
      fresh == Outcome(st.outcomes, run, s) # manual
      outcomes == IF ~fresh THEN st.outcomes
                  ELSE TrimOutcomes(Append(SelectSeq(st.outcomes, LAMBDA o : o.run # run \/ o.stop # s),
                                           [run |-> run, stop |-> s, manual |-> manual]))
      kept == [st EXCEPT !.outcomes = outcomes]
      open == {c \in DOMAIN st.candidates : /\ c.run = run /\ c.stop = s
                                            /\ st.candidates[c].status # "invalidated"}
      latest == CHOOSE c \in open : \A d \in open : d.arrival <= c.arrival
      answered == IF open = {} THEN kept ELSE Respond(kept, latest, response, at)
  IN IF run \notin Tracked(st) \/ s \notin DOMAIN st.runs[run].stops THEN kept
     ELSE IF ~fresh /\ st.runs[run].stops[s].manual = manual THEN st
     ELSE [WithoutVisits(answered, {<<run, s>>}) EXCEPT
             !.runs[run].stops[s] = Overlaid(@, manual)]

\* The way back to the store: a command when the run is known, else kept for it.
RecordReturn(st, run, at) ==
  IF run \notin DOMAIN st.runs
  THEN [st EXCEPT !.returns = LastOf(Append(SelectSeq(@, LAMBDA p : p.run # run),
                                            [run |-> run, at |-> at]), MaxIdentities)]
  ELSE Enqueue(st, [kind |-> "return", id |-> [kind |-> "return", of |-> <<[run |-> run]>>, at |-> at],
                    cand |-> <<>>, response |-> "none", expected |-> 0, prev |-> <<>>])

EndTracking(st) ==
  [st EXCEPT !.runs = [r \in DOMAIN @ |-> [@[r] EXCEPT !.ended = TRUE]],
             !.visits = RestrictDomain(@, LAMBDA v : v[1] \notin DOMAIN st.runs)]

-----------------------------------------------------------------------------
(* Reconciling with the runs the server describes: "served" those detection
   may use, "contexts" all whose candidates may still be answered. *)

ServedAsIs(st, outcomes, run, s, stop) == stop   \* mutant: a stale pending wins
ServedStop(st, outcomes, run, s, stop) ==
  LET known == run \in DOMAIN st.runs /\ s \in DOMAIN st.runs[run].stops
      before == IF known THEN st.runs[run].stops[s].manual ELSE NoManual
      mine == IF ~Detectable(stop.status) THEN NoManual
              ELSE IF before # NoManual THEN before ELSE Outcome(outcomes, run, s)
  IN Overlaid(stop, IF stop.manual # NoManual THEN stop.manual ELSE mine)

\* The driver's word about a stop wins over a server that still calls it pending.
Described(st, outcomes, described) ==
  [r \in DOMAIN described |->
     [described[r] EXCEPT
        !.ended = @ \/ (r \in DOMAIN st.runs /\ st.runs[r].ended),
        !.stops = [s \in DOMAIN @ |-> ServedStop(st, outcomes, r, s, @[s])]]]

\* At most one run per route is tracked: the last the server lists.
OneTracked(served) ==
  LET active == {r \in DOMAIN served : ~served[r].ended}
  IN RestrictDomain(served, LAMBDA r : served[r].ended \/ \A q \in active : q <= r)

Reviewed(candidate, c, contexts) ==
  IF candidate.status = "invalidated" THEN candidate
  ELSE IF c.run \notin DOMAIN contexts \/ c.stop \notin DOMAIN contexts[c.run].stops
  THEN [candidate EXCEPT !.status = "invalidated", !.rejected = FALSE]
  ELSE LET stop == contexts[c.run].stops[c.stop] IN
       CASE candidate.status = "inferred_completed" /\ stop.manual # NoManual ->
              [candidate EXCEPT !.status = "responded", !.response = stop.manual.response]
         [] candidate.status = "inferred_completed" /\ stop.manual = NoManual /\ stop.status = "failed" ->
              [candidate EXCEPT !.status = "invalidated", !.rejected = FALSE]
         [] candidate.status \in {"awaiting_response", "held"} /\ ~Detectable(stop.status) ->
              [candidate EXCEPT !.status = "invalidated", !.rejected = FALSE]
         [] OTHER -> candidate

\* A dwell in progress goes on only in a run and under a policy that did not change.
Continues(st, runs, v) ==
  /\ v[1] \in DOMAIN runs /\ v[1] \in DOMAIN st.runs
  /\ runs[v[1]].policy = st.runs[v[1]].policy
  /\ v[2] \in DOMAIN runs[v[1]].stops /\ v[2] \in DOMAIN st.runs[v[1]].stops
  /\ Detectable(runs[v[1]].stops[v[2]].status)

\* Samples and returns kept for a run are replayed once the run is known, and
\* dropped when another run of the route is the tracked one.
Reconcile(st, served, contexts) ==
  LET outcomes == TrimOutcomes(SelectSeq(st.outcomes, LAMBDA o :
                    ~(/\ o.run \in DOMAIN contexts /\ o.stop \in DOMAIN contexts[o.run].stops
                      /\ ~Detectable(contexts[o.run].stops[o.stop].status))))
      runs == Described(st, outcomes, OneTracked(served))
      all == Described(st, outcomes, contexts)
      active == {r \in DOMAIN runs : ~runs[r].ended}
      merged == [st EXCEPT
                   !.runs = runs, !.outcomes = outcomes,
                   !.candidates = [c \in DOMAIN @ |-> Reviewed(@[c], c, all)],
                   !.visits = RestrictDomain(@, LAMBDA v : Continues(st, runs, v))]
      replayed == FoldLeft(LAMBDA acc, b : IF b.run \in active THEN ObserveLocations(acc, b.run, b.samples) ELSE acc,
                           merged, st.buffered)
      resumed == FoldLeft(LAMBDA acc, p : IF p.run \in DOMAIN runs THEN RecordReturn(acc, p.run, p.at) ELSE acc,
                          replayed, st.returns)
  IN [resumed EXCEPT
        !.buffered = LastOf(IF active = {} THEN st.buffered ELSE <<>>, MaxIdentities),
        !.returns = LastOf(SelectSeq(st.returns, LAMBDA p : p.run \notin DOMAIN runs /\ active = {}),
                           MaxIdentities)]
=============================================================================
