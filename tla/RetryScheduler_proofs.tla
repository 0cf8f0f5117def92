------------------------- MODULE RetryScheduler_proofs -------------------------
(***************************************************************************)
(* For any number of rows and events: a timer of the mounted scheduler is  *)
(* armed only in the foreground, for conditions the rendered app knows to  *)
(* allow a retry, and never beside its own retry.                          *)
(***************************************************************************)
EXTENDS RetryScheduler, TLAPS

SchedulerInv == SchedulerTypeOK /\ ArmedOnlyWhileAllowed

LEMMA DoubledIsBounded ==
    ASSUME NEW n \in 0..MaxDoublings
    PROVE  Doubled(n) \in 0..MaxDoublings
  BY SchedulerAssumption DEF Doubled

(* Arming is what keeps the invariant: the conditions that scheduleNext reads *)
(* are the ones the invariant names.                                          *)
LEMMA ArmsSafely ==
    ASSUME NEW fg, NEW rows, NEW running, Arms(fg, rows, running)
    PROVE  captured.network = "online" /\ ~captured.degraded /\ fg /\ ~running
  BY DEF Arms

LEMMA InitIsSound == SchedulerInit => SchedulerInv
  <1> SUFFICES ASSUME SchedulerInit PROVE SchedulerInv
    OBVIOUS
  <1>1. 0 \in 0..MaxWork /\ 0 \in 0..MaxEvents /\ 0 \in 0..MaxDoublings
    BY SchedulerAssumption
  <1>2. captured \in [network : Networks, degraded : BOOLEAN, count : 0..MaxWork]
    BY <1>1 DEF SchedulerInit, Capture, Networks
  <1>3. SchedulerTypeOK
    BY <1>1, <1>2, Zenon DEF SchedulerInit, SchedulerTypeOK, Networks, Passes
  <1> QED BY <1>3 DEF SchedulerInit, SchedulerInv, ArmedOnlyWhileAllowed

LEMMA EventIsSound ==
    ASSUME SchedulerInv,
           \/ AppStateChanges \/ NetworkChanges \/ StorageStateChanges \/ Enqueue
           \/ SenderSettles \/ AnotherCallerStartsPass
    PROVE  SchedulerInv'
  <1>t. SchedulerTypeOK /\ ArmedOnlyWhileAllowed
    BY DEF SchedulerInv
  <1>e. Happens => events' \in 0..MaxEvents /\ setbacks' \in 0..MaxDoublings
    BY <1>t, SchedulerAssumption DEF Happens, SchedulerTypeOK
  <1>1. CASE AppStateChanges
    <2>1. SchedulerTypeOK'
      BY <1>1, <1>t, <1>e DEF AppStateChanges, SchedulerTypeOK, Arms
    <2>2. ArmedOnlyWhileAllowed'
      BY <1>1, ArmsSafely DEF AppStateChanges, ArmedOnlyWhileAllowed
    <2> QED BY <2>1, <2>2 DEF SchedulerInv
  <1>2. CASE NetworkChanges \/ StorageStateChanges
    <2>1. network' \in Networks /\ degraded' \in BOOLEAN
      BY <1>2, <1>t DEF NetworkChanges, StorageStateChanges, SchedulerTypeOK
    <2>2. UNCHANGED <<foreground, work, count, redrawn, captured, armed, doublings, pass, visited>>
      BY <1>2 DEF NetworkChanges, StorageStateChanges
    <2>3. Happens
      BY <1>2 DEF NetworkChanges, StorageStateChanges
    <2>4. SchedulerTypeOK'
      BY <2>1, <2>2, <2>3, <1>t, <1>e DEF SchedulerTypeOK
    <2>5. ArmedOnlyWhileAllowed'
      BY <2>2, <1>t DEF ArmedOnlyWhileAllowed
    <2> QED BY <2>4, <2>5 DEF SchedulerInv
  <1>3. CASE Enqueue \/ SenderSettles
    <2>1. work' \in 0..MaxWork /\ count' \in 0..MaxWork
      BY <1>3, <1>t, SchedulerAssumption DEF Enqueue, SenderSettles, SchedulerTypeOK
    <2> QED BY <1>3, <2>1, <1>t, <1>e
            DEF Enqueue, SenderSettles, conditions, SchedulerInv, SchedulerTypeOK,
                ArmedOnlyWhileAllowed
  <1>4. CASE AnotherCallerStartsPass
    BY <1>4, <1>t, <1>e
       DEF AnotherCallerStartsPass, conditions, Passes, SchedulerInv, SchedulerTypeOK,
           ArmedOnlyWhileAllowed
  <1> QED BY <1>1, <1>2, <1>3, <1>4

LEMMA SchedulerStepIsSound ==
    ASSUME SchedulerInv, EffectRuns \/ TimerStartsPass \/ TimerIsRefused \/ PassSettlesRow
    PROVE  SchedulerInv'
  <1>t. SchedulerTypeOK /\ ArmedOnlyWhileAllowed
    BY DEF SchedulerInv
  <1>1. CASE EffectRuns
    <2>1. captured' \in [network : Networks, degraded : BOOLEAN, count : 0..MaxWork]
      BY <1>1, <1>t DEF EffectRuns, SchedulerTypeOK, Capture
    <2>2. pass' \in Passes /\ pass' # "mounted" /\ doublings' \in 0..MaxDoublings
      BY <1>1, <1>t, SchedulerAssumption DEF EffectRuns, SchedulerTypeOK, Passes
    <2>3. SchedulerTypeOK'
      BY <1>1, <1>t, <2>1, <2>2 DEF EffectRuns, conditions, SchedulerTypeOK
    <2>4. ArmedOnlyWhileAllowed'
      BY <1>1, <2>2 DEF EffectRuns, conditions, Capture, ArmedOnlyWhileAllowed
    <2> QED BY <2>3, <2>4 DEF SchedulerInv
  <1>2. CASE TimerStartsPass
    BY <1>2, <1>t DEF TimerStartsPass, conditions, Passes, SchedulerInv, SchedulerTypeOK,
                      ArmedOnlyWhileAllowed
  <1>3. CASE TimerIsRefused
    <2>1. 0 \in 0..MaxDoublings /\ armed' \in BOOLEAN
      BY <1>3, SchedulerAssumption DEF TimerIsRefused, Arms
    <2>2. SchedulerTypeOK'
      BY <1>3, <1>t, <2>1 DEF TimerIsRefused, conditions, SchedulerTypeOK
    <2>3. ArmedOnlyWhileAllowed'
      BY <1>3 DEF TimerIsRefused, conditions, Arms, ArmedOnlyWhileAllowed
    <2> QED BY <2>2, <2>3 DEF SchedulerInv
  <1>4. CASE PassSettlesRow
    <2>1. work' \in 0..MaxWork
      BY <1>4, <1>t, SchedulerAssumption DEF PassSettlesRow, SchedulerTypeOK
    <2> QED BY <1>4, <2>1, <1>t DEF PassSettlesRow, conditions, SchedulerInv, SchedulerTypeOK,
                                    ArmedOnlyWhileAllowed
  <1> QED BY <1>1, <1>2, <1>3, <1>4

LEMMA PassEndIsSound ==
    ASSUME SchedulerInv, (\E ok \in BOOLEAN : PassEnds(ok)) \/ PassStopsEarly
    PROVE  SchedulerInv'
  <1>t. SchedulerTypeOK /\ ArmedOnlyWhileAllowed
    BY DEF SchedulerInv
  <1>1. PICK ok \in BOOLEAN : Report(ok)
    BY DEF PassEnds, PassStopsEarly
  <1>b. /\ setbacks \in 0..MaxDoublings /\ doublings \in 0..MaxDoublings /\ 0 \in 0..MaxDoublings
        /\ Doubled(setbacks) \in 0..MaxDoublings /\ Doubled(doublings) \in 0..MaxDoublings
    BY <1>t, DoubledIsBounded, SchedulerAssumption DEF SchedulerTypeOK
  <1>2. setbacks' \in 0..MaxDoublings
    <2>1. CASE ok
      BY <2>1, <1>1, <1>b DEF Report
    <2>2. CASE ~ok /\ pass = "mounted"
      BY <2>2, <1>1, <1>b DEF Report
    <2>3. CASE ~ok /\ pass # "mounted"
      BY <2>3, <1>1, <1>b DEF Report
    <2> QED BY <2>1, <2>2, <2>3
  <1>3. doublings' \in 0..MaxDoublings
    BY <1>1, <1>b DEF Report
  <1>4. pass' = "none" /\ visited' = FALSE /\ armed' \in BOOLEAN
    BY <1>1, <1>t DEF Report, Arms, SchedulerTypeOK
  <1>5. UNCHANGED <<conditions, work, captured, events>>
    BY DEF PassEnds, PassStopsEarly
  <1>6. count' \in 0..MaxWork /\ redrawn' \in BOOLEAN
    BY <1>t DEF PassEnds, PassStopsEarly, SchedulerTypeOK
  <1>7. SchedulerTypeOK'
    BY <1>t, <1>2, <1>3, <1>4, <1>5, <1>6 DEF conditions, Passes, SchedulerTypeOK
  <1>8. ArmedOnlyWhileAllowed'
    <2>1. armed' = armed \/ (armed' => Arms(foreground, work, FALSE))
      BY <1>1 DEF Report
    <2> QED BY <2>1, <1>4, <1>5, <1>t DEF Arms, conditions, ArmedOnlyWhileAllowed
  <1> QED BY <1>7, <1>8 DEF SchedulerInv

LEMMA NextIsSound ==
    ASSUME SchedulerInv, [SchedulerNext]_schedulerVars
    PROVE  SchedulerInv'
  <1>1. CASE UNCHANGED schedulerVars
    BY <1>1 DEF schedulerVars, conditions, SchedulerInv, SchedulerTypeOK, ArmedOnlyWhileAllowed
  <1> QED BY <1>1, EventIsSound, SchedulerStepIsSound, PassEndIsSound DEF SchedulerNext

LEMMA InvariantHolds == SchedulerSpec => []SchedulerInv
  BY InitIsSound, NextIsSound, PTL DEF SchedulerSpec

(* SchedulerTypeOK.                                                           *)
THEOREM SchedulerIsTypeCorrect == SchedulerSpec => []SchedulerTypeOK
<1>1. SchedulerInv => SchedulerTypeOK
  BY DEF SchedulerInv
<1> QED BY <1>1, InvariantHolds, PTL

(* ArmedOnlyWhileAllowed: a timer is armed only in the foreground, for        *)
(* conditions under which the rendered app may retry, and never beside the    *)
(* scheduler's own retry, whatever order events, renders and answers come in. *)
THEOREM TimersAreAllowed == SchedulerSpec => []ArmedOnlyWhileAllowed
<1>1. SchedulerInv => ArmedOnlyWhileAllowed
  BY DEF SchedulerInv
<1> QED BY <1>1, InvariantHolds, PTL
================================================================================
