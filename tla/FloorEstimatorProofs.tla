------------------------ MODULE FloorEstimatorProofs ------------------------
(***************************************************************************)
(* Proofs about FloorEstimator: its types, what a trip's time says about    *)
(* the floors it passed, and that braking is never taken for a departure.   *)
(***************************************************************************)
EXTENDS FloorEstimator, FiniteSetTheorems, TLAPS

LEMMA LongTripIsNat == LongTrip \in Nat
BY FloorsAssumption, ThresholdsAssumption DEF LongTrip

-----------------------------------------------------------------------------
(***************************************************************************)
(* floor_diff_from_elapsed.                                                 *)
(***************************************************************************)
\* Every elapsed time gives a difference of floors the building has.
LEMMA FloorDiffType ==
  ASSUME NEW time
  PROVE  FloorDiff(time) \in Floors
<1> DEFINE reached == {n \in 1..TopFloor : Thresholds[n] <= time}
<1>1. IsFiniteSet(1..TopFloor) /\ Cardinality(1..TopFloor) = TopFloor
  BY FS_Interval, FloorsAssumption
<1>2. reached \in SUBSET (1..TopFloor)
  OBVIOUS
<1>3. IsFiniteSet(reached) /\ Cardinality(reached) <= TopFloor
  BY <1>1, <1>2, FS_Subset
<1>4. Cardinality(reached) \in Nat
  BY <1>3, FS_CardinalityType
<1>5. QED
  BY <1>3, <1>4, FloorsAssumption DEF FloorDiff, Floors

\* A time from the threshold of n floors up to the next threshold means n floors.
LEMMA FloorDiffOfTrip ==
  ASSUME NEW time \in Nat, NEW n \in 1..TopFloor, Thresholds[n] <= time,
         \A m \in Floors : m > n => time < Thresholds[m]
  PROVE  FloorDiff(time) = n
<1>1. \A m \in 1..TopFloor : Thresholds[m] \in Nat
  BY ThresholdsAssumption
<1>2. ASSUME NEW m \in 1..TopFloor
      PROVE  Thresholds[m] <= time <=> m <= n
  <2>1. CASE m < n
    <3>1. Thresholds[m] < Thresholds[n]
      BY <2>1, ThresholdsAssumption
    <3>2. QED
      BY <2>1, <3>1, <1>1
  <2>2. CASE m = n
    BY <2>2
  <2>3. CASE m > n
    <3>1. time < Thresholds[m]
      BY <2>3, FloorsAssumption DEF Floors
    <3>2. QED
      BY <2>3, <3>1, <1>1
  <2>4. QED
    BY <2>1, <2>2, <2>3, FloorsAssumption
<1>3. {m \in 1..TopFloor : Thresholds[m] <= time} = {m \in 1..TopFloor : m <= n}
  BY <1>2
<1>4. {m \in 1..TopFloor : m <= n} = 1..n
  BY FloorsAssumption
<1>5. Cardinality(1..n) = n
  BY FS_Interval, FloorsAssumption
<1>6. QED
  BY <1>3, <1>4, <1>5 DEF FloorDiff

-----------------------------------------------------------------------------
(***************************************************************************)
(* The parts of on_imu on the estimate.                                     *)
(***************************************************************************)
LEMMA MovedType ==
  ASSUME NEW f \in Floors, NEW d, NEW n \in Floors
  PROVE  Moved(f, d, n) \in Floors
BY FloorsAssumption DEF Moved, AtMost, Floors

LEMMA ElapseType ==
  ASSUME NEW e \in Estimates, NEW dt \in Nat
  PROVE  /\ Elapse(e, dt) \in Estimates
         /\ Elapse(e, dt) = [e EXCEPT !.time = Elapse(e, dt).time]
BY LongTripIsNat DEF Elapse, AtMost, Estimates

LEMMA CountWindowType ==
  ASSUME NEW e \in Estimates, NEW v
  PROVE  /\ CountWindow(e, v) \in Estimates
         /\ CountWindow(e, v).running = e.running /\ CountWindow(e, v).mode = e.mode
         /\ CountWindow(e, v).floor = e.floor /\ CountWindow(e, v).arrived = e.arrived
         /\ CountWindow(e, v).time = e.time
<1> DEFINE u == IF v = "up" THEN AtMost(e.up + 1, Confirm) ELSE 0
           d == IF v = "down" THEN AtMost(e.down + 1, Confirm) ELSE 0
<1>1. u \in 0..Confirm /\ d \in 0..Confirm
  BY WindowAssumption DEF AtMost, Estimates
<1>2. CountWindow(e, v) = [e EXCEPT !.up = u, !.down = d]
  BY DEF CountWindow
<1> HIDE DEF u, d
<1>3. QED
  BY <1>1, <1>2 DEF Estimates

LEMMA FinishedType ==
  ASSUME NEW e \in Estimates
  PROVE  /\ Finished(e) \in Estimates
         /\ ~Finished(e).running /\ Finished(e).up = 0 /\ Finished(e).down = 0
         /\ Finished(e).floor = Moved(e.floor, e.mode, FloorDiff(e.time))
         /\ Finished(e).arrived = (e.arrived \/ Finished(e).floor = dest)
<1> DEFINE f == Moved(e.floor, e.mode, FloorDiff(e.time))
<1>1. f \in Floors
  BY FloorDiffType, MovedType DEF Estimates
<1>2. (e.arrived \/ f = dest) \in BOOLEAN
  OBVIOUS
<1>3. Finished(e) = [e EXCEPT !.running = FALSE, !.floor = f, !.up = 0, !.down = 0,
                              !.arrived = e.arrived \/ f = dest]
  BY DEF Finished
<1> HIDE DEF f
<1>4. ~Finished(e).running /\ Finished(e).up = 0 /\ Finished(e).down = 0
      /\ Finished(e).floor = f
  BY <1>3, Zenon DEF Estimates
<1>5. Finished(e).arrived = (e.arrived \/ f = dest)
  BY <1>3, Zenon DEF Estimates
<1>6. 0 \in 0..Confirm
  BY WindowAssumption
<1>7. Finished(e) \in Estimates
  BY <1>1, <1>2, <1>3, <1>6, Zenon DEF Estimates
<1>8. QED
  BY <1>4, <1>5, <1>7 DEF f

LEMMA FinishTimerType ==
  ASSUME NEW e \in Estimates
  PROVE  /\ FinishTimer(e) \in Estimates
         /\ \/ FinishTimer(e) = e
            \/ e.running /\ FinishTimer(e) = Finished(e)
BY FinishedType DEF FinishTimer

LEMMA StartTimerType ==
  ASSUME NEW e \in Estimates, NEW v
  PROVE  /\ StartTimer(e, v) \in Estimates
         /\ StartTimer(e, v).floor = e.floor /\ StartTimer(e, v).arrived = e.arrived
         /\ e.running => StartTimer(e, v) = e
         /\ e.up = 0 /\ e.down = 0 => StartTimer(e, v) = e
<1>1. CASE ~e.running /\ v \in Directions /\ e[v] >= Confirm
  <2>1. StartTimer(e, v) = [e EXCEPT !.running = TRUE, !.mode = v, !.time = 0]
    BY <1>1 DEF StartTimer
  <2>2. 0 \in 0..LongTrip
    BY LongTripIsNat
  <2>3. StartTimer(e, v) \in Estimates
    BY <1>1, <2>1, <2>2 DEF Estimates
  <2>4. ~(e.up = 0 /\ e.down = 0)
    BY <1>1, WindowAssumption DEF Directions
  <2>5. QED
    BY <1>1, <2>1, <2>3, <2>4 DEF Estimates
<1>2. CASE ~(~e.running /\ v \in Directions /\ e[v] >= Confirm)
  BY <1>2 DEF StartTimer
<1>3. QED
  BY <1>1, <1>2

\* A window ends with a trip unchanged, begun or finished, never with one
\* finished and another begun.
LEMMA EstimateType ==
  ASSUME NEW e \in Estimates, NEW v
  PROVE  LET c == CountWindow(e, v)
         IN /\ Estimate(e, v) \in Estimates
            /\ \/ Estimate(e, v) = StartTimer(c, v)
               \/ e.running /\ Estimate(e, v) = Finished(c)
<1> DEFINE c == CountWindow(e, v)
           g == FinishTimer(c)
<1>1. c \in Estimates /\ c.running = e.running
  BY CountWindowType
<1>2. g \in Estimates /\ (g = c \/ (c.running /\ g = Finished(c)))
  BY <1>1, FinishTimerType
<1>3. Estimate(e, v) = StartTimer(g, v)
  BY DEF Estimate
<1> HIDE DEF c, g
<1>4. Estimate(e, v) \in Estimates
  BY <1>2, <1>3, StartTimerType
<1>5. CASE g = c
  BY <1>3, <1>4, <1>5 DEF c
<1>6. CASE c.running /\ g = Finished(c)
  <2>1. g.up = 0 /\ g.down = 0
    BY <1>1, <1>6, FinishedType
  <2>2. StartTimer(g, v) = g
    BY <1>2, <2>1, StartTimerType
  <2>3. QED
    BY <1>1, <1>3, <1>4, <1>6, <2>2 DEF c
<1>7. QED
  BY <1>2, <1>5, <1>6

-----------------------------------------------------------------------------
(***************************************************************************)
(* The types.                                                               *)
(***************************************************************************)
LEMMA CountedType ==
  ASSUME TypeOK, NEW z
  PROVE  Counted(z) \in [up : 0..ThreshCount, down : 0..ThreshCount]
<1>1. \A n \in 0..ThreshCount, k \in {0, 1} : AtMost(n + k, ThreshCount) \in 0..ThreshCount
  BY WindowAssumption DEF AtMost
<1>2. seen.up \in 0..ThreshCount /\ seen.down \in 0..ThreshCount
  BY DEF TypeOK
<1>3. QED
  BY <1>1, <1>2 DEF Counted

LEMMA ResetTypes ==
  /\ Fresh \in Estimates /\ StartFloor \in Floors
  /\ NoSamples \in [up : 0..ThreshCount, down : 0..ThreshCount]
  /\ UseBaseline \in BOOLEAN /\ (~UseBaseline) \in BOOLEAN
<1>1. Fresh \in Estimates
  BY FloorsAssumption, WindowAssumption, LongTripIsNat DEF Fresh, Estimates, Floors, Directions
<1>2. QED
  BY <1>1, FloorsAssumption, WindowAssumption DEF NoSamples, Floors

\* The types are kept by every message, whatever it reads and however long it
\* took to come.
LEMMA OnImuType ==
  ASSUME TypeOK, NEW z, NEW dt \in Nat, OnImu(z, dt)
  PROVE  TypeOK'
<1>1. Age(dt) \in Nat
  BY WindowAssumption DEF Age, TypeOK
<1>2. est \in Estimates
  BY DEF TypeOK
<1>3. CASE BaselineSample(dt)
  <2>1. ready' \in BOOLEAN /\ since' \in Nat /\ seen' = NoSamples
    BY <1>1, <1>3 DEF BaselineSample
  <2>2. UNCHANGED <<active, dest, est, published>>
    BY <1>3 DEF BaselineSample
  <2>3. QED
    BY <2>1, <2>2, ResetTypes DEF TypeOK
<1>4. CASE WindowSample(z, dt)
  <2>1. since' \in Nat /\ seen' = Counted(z) /\ est' \in Estimates
    BY <1>1, <1>2, <1>4, ElapseType DEF WindowSample
  <2>2. UNCHANGED <<active, dest, ready, published>>
    BY <1>4 DEF WindowSample
  <2>3. QED
    BY <2>1, <2>2, CountedType DEF TypeOK
<1>5. CASE CloseWindow(z, dt)
  <2>1. est' \in Estimates
    BY <1>2, <1>5, ElapseType, EstimateType DEF CloseWindow
  <2>2. published' \in Floors
    BY <1>5, <2>1 DEF CloseWindow, Estimates
  <2>3. since' = 0 /\ seen' = NoSamples /\ UNCHANGED <<active, dest, ready>>
    BY <1>5 DEF CloseWindow
  <2>4. QED
    BY <2>1, <2>2, <2>3, ResetTypes DEF TypeOK
<1>6. QED
  BY <1>3, <1>4, <1>5 DEF OnImu

LEMMA OnStartCommandType ==
  ASSUME TypeOK, NEW d, OnStartCommand(d)
  PROVE  TypeOK'
BY ResetTypes DEF OnStartCommand, StartSession, TypeOK

LEMMA PublishType ==
  ASSUME TypeOK, PublishCurrentFloor
  PROVE  TypeOK'
BY DEF PublishCurrentFloor, TypeOK, Estimates

LEMMA InitType == Init => TypeOK
BY ResetTypes DEF Init, TypeOK

\* The types hold for every building, threshold table, window and IMU rate.
THEOREM EstimatorTypeCorrect == Spec => []TypeOK
<1>1. TypeOK /\ [Next]_vars => TypeOK'
  <2> SUFFICES ASSUME TypeOK, [Next]_vars PROVE TypeOK'
    OBVIOUS
  <2>1. CASE \E d \in Commands : OnStartCommand(d)
    BY <2>1, OnStartCommandType
  <2>2. CASE PublishCurrentFloor
    BY <2>2, PublishType
  <2>3. CASE \E z \in Directions \cup {"still"}, dt \in Gaps : OnImu(z, dt)
    BY <2>3, OnImuType, WindowAssumption
  <2>4. CASE UNCHANGED vars
    BY <2>4 DEF vars, TypeOK
  <2>5. QED
    BY <2>1, <2>2, <2>3, <2>4 DEF Next
<1>2. QED
  BY <1>1, InitType, PTL DEF Spec

-----------------------------------------------------------------------------
(***************************************************************************)
(* What a step may not do.                                                  *)
(***************************************************************************)
\* An estimate rests on windows of its own session only, however often and
\* whenever the start command is repeated.
THEOREM SessionsAreSeparate == Spec => []SessionStartsFromRest
<1>1. Init => SessionStartsFromRest
  BY DEF Init, SessionStartsFromRest, Fresh
<1>2. SessionStartsFromRest /\ [Next]_vars => SessionStartsFromRest'
  <2> SUFFICES ASSUME SessionStartsFromRest, [Next]_vars PROVE SessionStartsFromRest'
    OBVIOUS
  <2>1. CASE \E d \in Commands : OnStartCommand(d)
    BY <2>1 DEF OnStartCommand, StartSession, SessionStartsFromRest, Fresh
  <2>2. CASE PublishCurrentFloor
    BY <2>2 DEF PublishCurrentFloor, SessionStartsFromRest
  <2>3. ASSUME NEW z, NEW dt, OnImu(z, dt)
        PROVE  SessionStartsFromRest'
    <3>1. CASE BaselineSample(dt)
      BY <3>1 DEF BaselineSample, SessionStartsFromRest
    <3>2. CASE WindowSample(z, dt)
      BY <3>2 DEF WindowSample, SessionStartsFromRest
    <3>3. CASE CloseWindow(z, dt)
      BY <3>3 DEF CloseWindow, SessionStartsFromRest
    <3>4. QED
      BY <2>3, <3>1, <3>2, <3>3 DEF OnImu
  <2>4. CASE UNCHANGED vars
    BY <2>4 DEF vars, SessionStartsFromRest
  <2>5. QED
    BY <2>1, <2>2, <2>3, <2>4 DEF Next
<1>3. QED
  BY <1>1, <1>2, PTL DEF Spec

\* What the end of a window does to a trip that is being timed.
LEMMA TripAtWindowEnd ==
  ASSUME TypeOK, NEW z, NEW dt \in Nat, CloseWindow(z, dt)
  PROVE  /\ est.running /\ est'.running => est'.mode = est.mode
         /\ ~est.arrived /\ est'.arrived =>
              est.running /\ ~est'.running /\ est'.floor = dest
<1> DEFINE e == Elapse(est, dt)
           v == Verdict(Counted(z))
           c == CountWindow(e, v)
<1>1. e \in Estimates /\ e.running = est.running /\ e.mode = est.mode
      /\ e.arrived = est.arrived
  BY ElapseType DEF TypeOK, Estimates
<1>2. c \in Estimates /\ c.running = est.running /\ c.mode = est.mode
      /\ c.arrived = est.arrived
  BY <1>1, CountWindowType
<1>3. est' = Estimate(e, v)
  BY DEF CloseWindow
<1> HIDE DEF e, v
<1>4. est' = StartTimer(c, v) \/ (e.running /\ est' = Finished(c))
  BY <1>1, <1>3, EstimateType
<1> HIDE DEF c
<1>5. CASE est' = StartTimer(c, v)
  <2>1. est'.arrived = est.arrived
    BY <1>2, <1>5, StartTimerType
  <2>2. est.running => est'.mode = est.mode
    BY <1>2, <1>5, StartTimerType
  <2>3. QED
    BY <2>1, <2>2
<1>6. CASE e.running /\ est' = Finished(c)
  <2>1. ~est'.running /\ est.running
    BY <1>1, <1>2, <1>6, FinishedType
  <2>2. est'.arrived = (est.arrived \/ est'.floor = dest)
    BY <1>2, <1>6, FinishedType, Zenon
  <2>3. QED
    BY <2>1, <2>2
<1>7. QED
  BY <1>4, <1>5, <1>6

LEMMA TripAtStep ==
  ASSUME TypeOK, [Next]_vars
  PROVE  /\ est.running /\ est'.running => est'.mode = est.mode
         /\ ~est.arrived /\ est'.arrived =>
              est.running /\ ~est'.running /\ est'.floor = dest
<1>1. CASE \E d \in Commands : OnStartCommand(d)
  BY <1>1 DEF OnStartCommand, StartSession, Fresh
<1>2. CASE PublishCurrentFloor
  BY <1>2 DEF PublishCurrentFloor
<1>3. ASSUME NEW z, NEW dt \in Nat, OnImu(z, dt)
      PROVE  /\ est.running /\ est'.running => est'.mode = est.mode
             /\ ~est.arrived /\ est'.arrived =>
                  est.running /\ ~est'.running /\ est'.floor = dest
  <2>1. CASE BaselineSample(dt)
    BY <2>1 DEF BaselineSample
  <2>2. CASE WindowSample(z, dt)
    BY <2>2, <1>3, ElapseType DEF WindowSample, TypeOK, Estimates
  <2>3. CASE CloseWindow(z, dt)
    BY <2>3, <1>3, TripAtWindowEnd
  <2>4. QED
    BY <1>3, <2>1, <2>2, <2>3 DEF OnImu
<1>4. CASE UNCHANGED vars
  BY <1>4 DEF vars
<1>5. QED
  BY <1>1, <1>2, <1>3, <1>4, WindowAssumption DEF Next

\* The braking that ends a trip is never taken for a departure in the other
\* direction, for every count of windows that confirms a trip.
THEOREM BrakingNeverDeparts == Spec => BrakingIsNoDeparture
<1>1. TypeOK /\ [Next]_vars => [est.running /\ est'.running => est'.mode = est.mode]_vars
  BY TripAtStep
<1>2. QED
  BY <1>1, EstimatorTypeCorrect, PTL DEF Spec, BrakingIsNoDeparture

\* Arrival is only announced where a timed trip ends at the destination.
THEOREM ArrivalAfterTrip == Spec => ArrivalNeedsATrip
<1>1. TypeOK /\ [Next]_vars =>
        [~est.arrived /\ est'.arrived => est.running /\ ~est'.running /\ est'.floor = dest]_vars
  BY TripAtStep
<1>2. QED
  BY <1>1, EstimatorTypeCorrect, PTL DEF Spec, ArrivalNeedsATrip
=============================================================================
