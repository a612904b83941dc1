--------------------------- MODULE FloorEstimator ---------------------------
(***************************************************************************)
(* elevator_floor_node.py: the floor of the lift, estimated from vertical   *)
(* acceleration.  A window of samples reads "up", "down" or "still"; enough *)
(* windows in a row start the timer of a trip, enough windows of braking    *)
(* stop it, and the time between them tells how many floors were passed.    *)
(*                                                                          *)
(* An IMU message is its reading relative to the baseline and the time      *)
(* since the message before it, in ticks.                                   *)
(***************************************************************************)
EXTENDS Naturals, FiniteSets

CONSTANTS
  TopFloor,          \* VALID_FLOOR_INDEX is 0..TopFloor
  StartFloor,        \* start_floor
  Thresholds,        \* Thresholds[n]: the shortest time a trip of n floors takes
  Confirm,           \* windows in a row that start or finish a timer
  ThreshCount,       \* thresh_count
  Window,            \* window
  Baseline,          \* baseline_duration
  UseBaseline,       \* use_baseline_compensation
  Gaps,              \* the times between two IMU messages
  Commands,          \* the payloads of /elevator/start
  NoTime, NoFloor

VARIABLES
  active,            \* a session has been started
  dest,              \* dest_floor_idx
  est,               \* current_floor_idx, arrival_logged, the consecutive counts, the timer
  ready,             \* baseline_ready
  since,             \* the age of the baseline or of the window, NoTime before it begins
  seen,              \* count_up, count_down
  published          \* the last value on /current_floor

vars == <<active, dest, est, ready, since, seen, published>>

ASSUME FloorsAssumption == TopFloor \in Nat /\ StartFloor \in 0..TopFloor
ASSUME ThresholdsAssumption ==
  /\ Thresholds \in [1..TopFloor -> Nat \ {0}]
  /\ \A i, j \in 1..TopFloor : i < j => Thresholds[i] < Thresholds[j]
ASSUME WindowAssumption ==
  /\ Confirm \in Nat \ {0} /\ ThreshCount \in Nat \ {0}
  /\ Window \in Nat /\ Baseline \in Nat /\ UseBaseline \in BOOLEAN
  /\ Gaps \subseteq Nat /\ Commands \subseteq Nat
  /\ NoTime \notin Nat /\ NoFloor \notin Nat

-----------------------------------------------------------------------------
Floors     == 0..TopFloor
Directions == {"up", "down"}
Opposite   == [up |-> "down", down |-> "up"]
NoSamples  == [up |-> 0, down |-> 0]
\* Every comparison with an elapsed time is one with a threshold.
LongTrip   == IF TopFloor = 0 THEN 0 ELSE Thresholds[TopFloor]

\* Counting up to a bound beyond which every comparison says the same.
AtMost(n, bound) == IF n < bound THEN n ELSE bound

\* Mutant: a trip that takes exactly a threshold counts as the shorter one.
FloorDiffStrict(time) == Cardinality({n \in 1..TopFloor : Thresholds[n] < time})

\* floor_diff_from_elapsed: the thresholds increase, so that as many are reached
\* as floors were passed.
FloorDiff(time) == Cardinality({n \in 1..TopFloor : Thresholds[n] <= time})

\* Mutant: the floor is not clamped to the highest.
MovedUnclamped(f, direction, n) ==
  IF direction = "up" THEN f + n ELSE IF f > n THEN f - n ELSE 0

Moved(f, direction, n) ==
  IF direction = "up" THEN AtMost(f + n, TopFloor) ELSE IF f > n THEN f - n ELSE 0

Estimates ==
  [floor : Floors, arrived : BOOLEAN, up : 0..Confirm, down : 0..Confirm,
   running : BOOLEAN, mode : Directions, time : 0..LongTrip]

Fresh == [floor |-> StartFloor, arrived |-> FALSE, up |-> 0, down |-> 0,
          running |-> FALSE, mode |-> "up", time |-> 0]

Init ==
  /\ active = FALSE /\ dest = NoFloor /\ est = Fresh
  /\ ready = ~UseBaseline /\ since = NoTime /\ seen = NoSamples
  /\ published = NoFloor

-----------------------------------------------------------------------------
(***************************************************************************)
(* Sessions and publications.                                               *)
(***************************************************************************)
\* Mutant: a new session keeps the timer and the counts of the one before.
StartSessionKeepsTimer(d) ==
  /\ active' = TRUE /\ dest' = d
  /\ est' = [est EXCEPT !.floor = StartFloor, !.arrived = FALSE]
  /\ ready' = ~UseBaseline /\ since' = NoTime /\ seen' = NoSamples
  /\ published' = StartFloor

\* Mutant: the floor of the session before is kept.
StartSessionKeepsFloor(d) ==
  /\ active' = TRUE /\ dest' = d /\ est' = [Fresh EXCEPT !.floor = est.floor]
  /\ ready' = ~UseBaseline /\ since' = NoTime /\ seen' = NoSamples
  /\ published' = est.floor

StartSession(d) ==
  /\ active' = TRUE /\ dest' = d /\ est' = Fresh
  /\ ready' = ~UseBaseline /\ since' = NoTime /\ seen' = NoSamples
  /\ published' = StartFloor

\* Every start command restarts the session, one that repeats the last too.
OnStartCommand(d) == d \in Floors /\ StartSession(d)

\* The one-second timer.
PublishCurrentFloor ==
  published' = est.floor /\ UNCHANGED <<active, dest, est, ready, since, seen>>

-----------------------------------------------------------------------------
(***************************************************************************)
(* The estimate at the end of a window.                                     *)
(***************************************************************************)
Verdict(n) ==
  IF n.down >= ThreshCount THEN "down" ELSE IF n.up >= ThreshCount THEN "up" ELSE "still"

Elapse(e, dt) ==
  IF e.running THEN [e EXCEPT !.time = AtMost(@ + dt, LongTrip)] ELSE e

CountWindow(e, v) ==
  [e EXCEPT !.up = IF v = "up" THEN AtMost(@ + 1, Confirm) ELSE 0,
            !.down = IF v = "down" THEN AtMost(@ + 1, Confirm) ELSE 0]

\* finish_timer and check_arrival.
Finished(e) ==
  LET f == Moved(e.floor, e.mode, FloorDiff(e.time))
  IN [e EXCEPT !.running = FALSE, !.floor = f, !.up = 0, !.down = 0,
               !.arrived = @ \/ f = dest]

\* Mutant: the counts that finished a trip are kept.
FinishTimerKeepsCounts(e) ==
  IF e.running /\ e[Opposite[e.mode]] >= Confirm
  THEN [Finished(e) EXCEPT !.up = e.up, !.down = e.down]
  ELSE e

FinishTimer(e) ==
  IF e.running /\ e[Opposite[e.mode]] >= Confirm THEN Finished(e) ELSE e

StartTimer(e, v) ==
  IF ~e.running /\ v \in Directions /\ e[v] >= Confirm
  THEN [e EXCEPT !.running = TRUE, !.mode = v, !.time = 0]
  ELSE e

Estimate(e, v) == StartTimer(FinishTimer(CountWindow(e, v)), v)

-----------------------------------------------------------------------------
(***************************************************************************)
(* on_imu: a sample of the baseline, of a window, or the last of a window.  *)
(***************************************************************************)
Age(dt) == IF since = NoTime THEN 0 ELSE since + dt

BaselineSample(dt) ==
  /\ active /\ ~ready
  /\ ready' = (Age(dt) >= Baseline)
  /\ since' = IF Age(dt) >= Baseline THEN 0 ELSE Age(dt)
  /\ seen' = NoSamples
  /\ UNCHANGED <<active, dest, est, published>>

Counted(z) ==
  [up |-> AtMost(seen.up + (IF z = "up" THEN 1 ELSE 0), ThreshCount),
   down |-> AtMost(seen.down + (IF z = "down" THEN 1 ELSE 0), ThreshCount)]

WindowSample(z, dt) ==
  /\ active /\ ready /\ Age(dt) < Window
  /\ since' = Age(dt) /\ seen' = Counted(z)
  /\ est' = Elapse(est, dt)
  /\ UNCHANGED <<active, dest, ready, published>>

\* Mutant: check_arrival runs at the end of every window.
CloseWindowChecksArrival(z, dt) ==
  /\ active /\ ready /\ Age(dt) >= Window
  /\ LET e == Estimate(Elapse(est, dt), Verdict(Counted(z)))
     IN est' = [e EXCEPT !.arrived = @ \/ e.floor = dest]
  /\ since' = 0 /\ seen' = NoSamples
  /\ published' = est'.floor
  /\ UNCHANGED <<active, dest, ready>>

CloseWindow(z, dt) ==
  /\ active /\ ready /\ Age(dt) >= Window
  /\ est' = Estimate(Elapse(est, dt), Verdict(Counted(z)))
  /\ since' = 0 /\ seen' = NoSamples
  /\ published' = est'.floor
  /\ UNCHANGED <<active, dest, ready>>

OnImu(z, dt) == BaselineSample(dt) \/ WindowSample(z, dt) \/ CloseWindow(z, dt)

Next ==
  \/ \E d \in Commands : OnStartCommand(d)
  \/ PublishCurrentFloor
  \/ \E z \in Directions \cup {"still"}, dt \in Gaps : OnImu(z, dt)

Spec == Init /\ [][Next]_vars

-----------------------------------------------------------------------------
\* Every variable has its type; the floor is a valid floor index.
TypeOK ==
  /\ active \in BOOLEAN /\ dest \in Floors \cup {NoFloor}
  /\ est \in Estimates
  /\ ready \in BOOLEAN /\ since \in Nat \cup {NoTime}
  /\ seen \in [up : 0..ThreshCount, down : 0..ThreshCount]
  /\ published \in Floors \cup {NoFloor}

\* A trip that ends does not begin the next one in the window that ended it:
\* the braking that stops the timer must not be taken for a departure in the
\* other direction (finish_timer, then the start test of the same on_imu).
BrakingIsNoDeparture ==
  [][est.running /\ est'.running => est'.mode = est.mode]_vars

\* Whatever the timing of the repeated start commands, an estimate rests on
\* windows of its own session only: until the session has its own baseline no
\* window is counted and no trip is timed (start_session, on_imu).
SessionStartsFromRest ==
  ~ready => ~est.running /\ est.up = 0 /\ est.down = 0 /\ est.floor = StartFloor

\* Arrival is announced for a floor the timer has reached, never for the floor
\* the session starts on, even when that is the destination (check_arrival).
ArrivalNeedsATrip ==
  [][~est.arrived /\ est'.arrived => est.running /\ ~est'.running /\ est'.floor = dest]_vars
=============================================================================
