------------------------- MODULE ElevatorRideProofs -------------------------
(***************************************************************************)
(* Proofs about ElevatorRide: on a lift that nobody else uses before the    *)
(* robot is ready, the estimate is the lift's floor whenever the lift has   *)
(* come to rest, and the robot leaves at the target floor only.             *)
(*                                                                          *)
(* The inductive invariant says what the estimator must have concluded      *)
(* after w windows of a ride (Tracking), that a ride only begins once the   *)
(* session has begun (Calm), and what /current_floor has still to say to    *)
(* the mission (Heard).                                                     *)
(***************************************************************************)
EXTENDS ElevatorRide, FloorEstimatorProofs

\* A window is closed by every message of a session that has its baseline.
Ticking == active /\ ready => since = 0 /\ seen = NoSamples

\* The rides and the door of the lift.
LiftPath ==
  /\ open => AtRest
  /\ ~AtRest =>
       /\ lift.depart >= Confirm /\ lift.brake \in BrakeWindows
       /\ lift.depart + lift.cruise \in TravelTimes(Distance(lift.at, lift.to))
       /\ lift.w < RideWindows

\* The start commands, and when they are through.
Budget ==
  /\ left + starts <= StartRepeats
  /\ place = "boarded" => left = 0 /\ starts = 0
  /\ place \in {"pressing", "await", "out"} => left = 0
  /\ place \in {"await", "out"} => starts = 0 /\ active /\ ready

Unstarted == left + starts = StartRepeats

\* Until the robot is ready the lift stands, and the estimator with it.
Calm ==
  place \in {"boarded", "starting", "pressing"} =>
    /\ AtRest /\ lift.at = StartFloor
    /\ ~est.running /\ est.up = 0 /\ est.down = 0
    /\ place # "boarded" /\ ~Unstarted => est.floor = StartFloor

\* The windows of a ride after which its timer is finished.
TimedWindows == lift.depart + lift.cruise + Confirm

TrackingAtRest ==
  /\ ~est.running /\ est.floor = lift.at
  /\ est.up < Confirm /\ est.down < Confirm
  /\ lift.rested => est.up = 0 /\ est.down = 0

\* What the estimate e is after w windows of the ride.
TrackingAt(e, w) ==
  /\ e.running <=> w >= Confirm /\ w < TimedWindows
  /\ e.running => e.mode = Direction /\ e.time = AtMost(w - Confirm, LongTrip)
  /\ e.floor = IF w < TimedWindows THEN lift.at ELSE lift.to
  /\ e[Direction] = IF w <= lift.depart THEN AtMost(w, Confirm) ELSE 0
  /\ e[Opposite[Direction]] =
       IF w <= lift.depart + lift.cruise THEN 0
       ELSE IF w < TimedWindows THEN w - (lift.depart + lift.cruise)
       ELSE w - TimedWindows

Tracking ==
  place = "await" => (AtRest => TrackingAtRest) /\ (~AtRest => TrackingAt(est, lift.w))

\* What the mission has heard of the estimate, or is about to hear.
Heard ==
  /\ place # "out" /\ inbox # <<>> => inbox[Len(inbox)] = est.floor
  /\ place \in {"starting", "pressing"} /\ inbox = <<>> => floor = est.floor \/ Unstarted
  /\ place = "await" =>
       /\ \A i \in 1..Len(inbox) : inbox[i] = est.floor
       /\ inbox = <<>> => floor = est.floor
       /\ AtRest /\ (lift.rested \/ open) => floor = est.floor

RideInv ==
  RideTypeOK /\ Ticking /\ LiftPath /\ Budget /\ Calm /\ Tracking

-----------------------------------------------------------------------------
(***************************************************************************)
(* One window, by what it reads.                                            *)
(***************************************************************************)
LEMMA OppositeFacts ==
  ASSUME NEW D \in Directions
  PROVE  /\ Opposite[D] \in Directions /\ Opposite[D] # D /\ D # "still"
         /\ Opposite[D] # "still" /\ Opposite[Opposite[D]] = D
         /\ D = "up" => Opposite[D] = "down"
         /\ D = "down" => Opposite[D] = "up"
BY DEF Directions, Opposite

LEMMA CountOf ==
  ASSUME NEW e \in Estimates, NEW v, NEW D \in Directions
  PROVE  CountWindow(e, v)[D] = IF v = D THEN AtMost(e[D] + 1, Confirm) ELSE 0
<1>1. CASE D = "up"
  BY <1>1 DEF CountWindow, Estimates
<1>2. CASE D = "down"
  BY <1>2 DEF CountWindow, Estimates
<1>3. QED
  BY <1>1, <1>2 DEF Directions

LEMMA CountsAreNat ==
  ASSUME NEW e \in Estimates, NEW D \in Directions
  PROVE  e[D] \in 0..Confirm
BY DEF Estimates, Directions

\* A window in the direction D of the trip, or of the trip to come.
LEMMA WindowAlong ==
  ASSUME NEW e \in Estimates, NEW D \in Directions, e.running => e.mode = D
  PROVE  LET r == Estimate(e, D) IN
         /\ r[D] = AtMost(e[D] + 1, Confirm) /\ r[Opposite[D]] = 0
         /\ r.floor = e.floor
         /\ e.running => r.running /\ r.mode = D /\ r.time = e.time
         /\ ~e.running => (r.running <=> e[D] + 1 >= Confirm)
         /\ ~e.running /\ r.running => r.mode = D /\ r.time = 0
<1> DEFINE c == CountWindow(e, D)
           r == Estimate(e, D)
<1>1. c \in Estimates /\ c.running = e.running /\ c.mode = e.mode
      /\ c.floor = e.floor /\ c.time = e.time
  BY CountWindowType
<1>2. c[D] = AtMost(e[D] + 1, Confirm) /\ c[Opposite[D]] = 0
  BY CountOf, OppositeFacts
<1>3. e[D] \in 0..Confirm /\ (c[D] >= Confirm <=> e[D] + 1 >= Confirm)
  BY <1>2, CountsAreNat, WindowAssumption DEF AtMost
<1> HIDE DEF c
<1>4. FinishTimer(c) = c
  BY <1>1, <1>2, WindowAssumption DEF FinishTimer
<1>5. r = StartTimer(c, D)
  BY <1>4 DEF Estimate, c
<1> HIDE DEF r
<1>6. CASE e.running
  <2>1. r = c
    BY <1>1, <1>5, <1>6, StartTimerType
  <2>2. QED
    BY <2>1, <1>1, <1>2, <1>6 DEF r
<1>7. CASE ~e.running /\ c[D] >= Confirm
  <2>1. r = [c EXCEPT !.running = TRUE, !.mode = D, !.time = 0]
    BY <1>1, <1>5, <1>7 DEF StartTimer
  <2>2. r.running /\ r.mode = D /\ r.time = 0 /\ r.floor = c.floor
        /\ r["up"] = c["up"] /\ r["down"] = c["down"]
    BY <2>1, <1>1 DEF Estimates
  <2>3. r[D] = c[D] /\ r[Opposite[D]] = c[Opposite[D]]
    BY <2>2, OppositeFacts DEF Directions
  <2>4. QED
    BY <2>2, <2>3, <1>1, <1>2, <1>3, <1>7 DEF r
<1>8. CASE ~e.running /\ ~(c[D] >= Confirm)
  <2>1. r = c
    BY <1>5, <1>8 DEF StartTimer
  <2>2. QED
    BY <2>1, <1>1, <1>2, <1>3, <1>8 DEF r
<1>9. QED
  BY <1>6, <1>7, <1>8

\* A still window ends every count and leaves the timer alone.
LEMMA WindowStill ==
  ASSUME NEW e \in Estimates
  PROVE  LET r == Estimate(e, "still") IN
         /\ r.up = 0 /\ r.down = 0 /\ r.floor = e.floor
         /\ r.running = e.running /\ r.mode = e.mode /\ r.time = e.time
<1> DEFINE c == CountWindow(e, "still")
<1>1. c \in Estimates /\ c.running = e.running /\ c.mode = e.mode
      /\ c.floor = e.floor /\ c.time = e.time
  BY CountWindowType
<1>2. c["up"] = 0 /\ c["down"] = 0
  BY CountOf DEF Directions
<1> HIDE DEF c
<1>3. c[Opposite[c.mode]] = 0
  BY <1>1, <1>2, OppositeFacts DEF Estimates, Directions
<1>4. FinishTimer(c) = c
  BY <1>3, WindowAssumption DEF FinishTimer
<1>5. StartTimer(c, "still") = c
  BY <1>1, <1>2, StartTimerType
<1>6. Estimate(e, "still") = c
  BY <1>4, <1>5 DEF Estimate, c
<1>7. QED
  BY <1>1, <1>2, <1>6

\* A window against the direction D of the trip: it is counted, and the last of
\* those it takes finishes the timer.
LEMMA WindowAgainst ==
  ASSUME NEW e \in Estimates, NEW D \in Directions, e.running => e.mode = D,
         ~e.running => e[Opposite[D]] + 1 < Confirm
  PROVE  LET r == Estimate(e, Opposite[D]) IN
         /\ e[Opposite[D]] + 1 < Confirm =>
              /\ r[Opposite[D]] = e[Opposite[D]] + 1 /\ r[D] = 0
              /\ r.floor = e.floor /\ r.running = e.running
              /\ r.mode = e.mode /\ r.time = e.time
         /\ e[Opposite[D]] + 1 >= Confirm =>
              /\ r.up = 0 /\ r.down = 0 /\ ~r.running
              /\ r.floor = Moved(e.floor, D, FloorDiff(e.time))
<1> DEFINE B == Opposite[D]
           c == CountWindow(e, B)
           r == Estimate(e, B)
<1>1. c \in Estimates /\ c.running = e.running /\ c.mode = e.mode
      /\ c.floor = e.floor /\ c.time = e.time
  BY CountWindowType
<1>2. c[B] = AtMost(e[B] + 1, Confirm) /\ c[D] = 0
  BY CountOf, OppositeFacts
<1>3. e[B] \in 0..Confirm /\ B \in Directions
  BY CountsAreNat, OppositeFacts
<1> HIDE DEF c
<1>4. r = StartTimer(FinishTimer(c), B)
  BY DEF Estimate, c
<1> HIDE DEF B, r
<1>5. CASE e[B] + 1 < Confirm
  <2>1. c[B] = e[B] + 1 /\ ~(c[B] >= Confirm)
    BY <1>2, <1>3, <1>5, WindowAssumption DEF AtMost
  <2>2. FinishTimer(c) = c
    BY <1>1, <2>1 DEF FinishTimer, B
  <2>3. r = c
    BY <1>4, <2>1, <2>2 DEF StartTimer
  <2>4. QED
    BY <1>1, <1>2, <1>5, <2>1, <2>3 DEF r, B
<1>6. CASE ~(e[B] + 1 < Confirm)
  <2>1. c[B] >= Confirm /\ e.running /\ e.mode = D
    BY <1>2, <1>3, <1>6, WindowAssumption DEF AtMost, B
  <2>2. FinishTimer(c) = Finished(c)
    BY <1>1, <2>1 DEF FinishTimer, B
  <2>3. Finished(c) \in Estimates /\ ~Finished(c).running
        /\ Finished(c).up = 0 /\ Finished(c).down = 0
        /\ Finished(c).floor = Moved(c.floor, c.mode, FloorDiff(c.time))
    BY <1>1, FinishedType
  <2>4. r = Finished(c)
    BY <1>4, <2>2, <2>3, StartTimerType
  <2>5. QED
    BY <1>1, <1>3, <1>6, <2>1, <2>3, <2>4, WindowAssumption DEF r, B
<1>7. QED
  BY <1>5, <1>6

-----------------------------------------------------------------------------
(***************************************************************************)
(* A ride, window by window.                                                *)
(***************************************************************************)
Rides == [at : Stops, to : Stops, depart : 0..LongestRide, cruise : 0..LongestRide,
          brake : BrakeWindows \cup {0}, w : Nat, rested : BOOLEAN]

LEMMA LiftNumbers ==
  ASSUME lift \in Rides, LiftPath, ~AtRest
  PROVE  /\ lift.at \in 0..TopFloor /\ lift.to \in 0..TopFloor /\ lift.at # lift.to
         /\ lift.depart \in Nat /\ lift.cruise \in Nat /\ lift.w \in Nat
         /\ lift.brake \in Nat /\ lift.brake >= Confirm /\ lift.brake < 2 * Confirm
         /\ lift.depart >= Confirm /\ Confirm \in Nat /\ Confirm > 0
         /\ lift.w < lift.depart + lift.cruise + lift.brake
         /\ Direction \in Directions /\ TimedWindows = lift.depart + lift.cruise + Confirm
<1>1. lift.at \in 0..TopFloor /\ lift.to \in 0..TopFloor
  BY StopsAssumption DEF Rides, Floors
<1>2. lift.brake \in Confirm..(2 * Confirm - 1) /\ lift.depart >= Confirm
      /\ lift.w < lift.depart + lift.cruise + lift.brake
  BY RideAssumption DEF LiftPath, RideWindows
<1>3. lift.depart \in Nat /\ lift.cruise \in Nat /\ lift.w \in Nat
  BY RideAssumption DEF Rides
<1>4. Confirm \in Nat /\ Confirm > 0
  BY WindowAssumption
<1>5. lift.at # lift.to
  BY DEF AtRest
<1>6. QED
  BY <1>1, <1>2, <1>3, <1>4, <1>5 DEF Direction, Directions, TimedWindows

\* The time of a ride gives the floors it passes.
LEMMA TripFloor ==
  ASSUME lift \in Rides, LiftPath, ~AtRest
  PROVE  Moved(lift.at, Direction, FloorDiff(AtMost(lift.depart + lift.cruise, LongTrip)))
           = lift.to
<1> DEFINE t == lift.depart + lift.cruise
           n == Distance(lift.at, lift.to)
<1>1. n \in 1..TopFloor
  BY LiftNumbers, FloorsAssumption DEF Distance
<1>2. t \in Nat /\ Thresholds[n] <= t /\ \A m \in Floors : m > n => t < Thresholds[m]
  BY LiftNumbers DEF LiftPath, TravelTimes
<1>3. /\ Thresholds[n] \in Nat /\ Thresholds[TopFloor] \in Nat
      /\ Thresholds[n] <= Thresholds[TopFloor] /\ LongTrip = Thresholds[TopFloor]
  <2>1. TopFloor \in 1..TopFloor /\ TopFloor # 0
    BY <1>1, FloorsAssumption
  <2>2. \A i \in 1..TopFloor : Thresholds[i] \in Nat
    BY ThresholdsAssumption
  <2>3. n < TopFloor => Thresholds[n] < Thresholds[TopFloor]
    BY <1>1, <2>1, ThresholdsAssumption
  <2> HIDE DEF n
  <2>4. n < TopFloor \/ n = TopFloor
    BY <1>1, <2>1
  <2>5. Thresholds[n] \in Nat /\ Thresholds[TopFloor] \in Nat
    BY <1>1, <2>1, <2>2
  <2>6. QED
    BY <2>1, <2>3, <2>4, <2>5 DEF LongTrip
<1>4. ASSUME NEW m \in Floors, m > n
      PROVE  Thresholds[m] \in Nat
  BY <1>1, <1>4, ThresholdsAssumption, FloorsAssumption DEF Floors
<1> HIDE DEF t, n
<1>5. AtMost(t, LongTrip) \in Nat /\ Thresholds[n] <= AtMost(t, LongTrip)
      /\ AtMost(t, LongTrip) <= t
  BY <1>2, <1>3 DEF AtMost
<1>6. \A m \in Floors : m > n => AtMost(t, LongTrip) < Thresholds[m]
  BY <1>2, <1>4, <1>5
<1>7. FloorDiff(AtMost(t, LongTrip)) = n
  BY <1>1, <1>5, <1>6, FloorDiffOfTrip
<1>8. Moved(lift.at, Direction, n) = lift.to
  <2>1. CASE lift.at < lift.to
    BY <2>1, LiftNumbers, FloorsAssumption DEF n, Distance, Direction, Moved, AtMost
  <2>2. CASE lift.at > lift.to
    BY <2>2, LiftNumbers, FloorsAssumption DEF n, Distance, Direction, Moved, AtMost
  <2>3. QED
    BY <2>1, <2>2, LiftNumbers
<1>9. QED
  BY <1>7, <1>8 DEF t

\* A running timer advances by the window.
LEMMA Elapsed ==
  ASSUME NEW e \in Estimates, NEW t \in Nat, e.running => e.time = AtMost(t, LongTrip)
  PROVE  LET r == Elapse(e, 1) IN
         /\ r \in Estimates /\ r.up = e.up /\ r.down = e.down /\ r.floor = e.floor
         /\ r.running = e.running /\ r.mode = e.mode
         /\ \A D \in Directions : r[D] = e[D]
         /\ e.running => r.time = AtMost(t + 1, LongTrip)
<1>1. CASE e.running
  <2>1. Elapse(e, 1) = [e EXCEPT !.time = AtMost(e.time + 1, LongTrip)]
    BY <1>1 DEF Elapse
  <2>2. AtMost(e.time + 1, LongTrip) = AtMost(t + 1, LongTrip)
    BY <1>1, LongTripIsNat DEF AtMost
  <2>3. Elapse(e, 1) \in Estimates
    BY ElapseType
  <2>4. QED
    BY <1>1, <2>1, <2>2, <2>3 DEF Estimates, Directions
<1>2. CASE ~e.running
  BY <1>2 DEF Elapse
<1>3. QED
  BY <1>1, <1>2

\* Every window of a ride takes the estimate where it should be.
LEMMA RideWindow ==
  ASSUME est \in Estimates, lift \in Rides, LiftPath, ~AtRest, TrackingAt(est, lift.w)
  PROVE  TrackingAt(Estimate(Elapse(est, 1), Felt), lift.w + 1)
<1> DEFINE D == Direction
           B == Opposite[Direction]
           w == lift.w
           a == lift.depart
           k == lift.depart + lift.cruise
           e == Elapse(est, 1)
           r == Estimate(e, Felt)
<1>1. /\ w \in Nat /\ a \in Nat /\ k \in Nat /\ Confirm \in Nat /\ Confirm > 0
      /\ a >= Confirm /\ k >= a /\ w < k + lift.brake
      /\ lift.brake \in Nat /\ lift.brake < 2 * Confirm
      /\ D \in Directions /\ TimedWindows = k + Confirm
  BY LiftNumbers
<1>2. B \in Directions /\ B # D
  BY <1>1, OppositeFacts
<1>3. /\ est.running <=> w >= Confirm /\ w < k + Confirm
      /\ est.running => est.mode = D /\ est.time = AtMost(w - Confirm, LongTrip)
      /\ est.floor = IF w < k + Confirm THEN lift.at ELSE lift.to
      /\ est[D] = IF w <= a THEN AtMost(w, Confirm) ELSE 0
      /\ est[B] = IF w <= k THEN 0 ELSE IF w < k + Confirm THEN w - k ELSE w - (k + Confirm)
  BY <1>1 DEF TrackingAt
<1>4. /\ e \in Estimates /\ e.floor = est.floor /\ e.running = est.running
      /\ e[D] = est[D] /\ e[B] = est[B]
      /\ e.running => e.mode = D /\ e.time = AtMost(w + 1 - Confirm, LongTrip)
  <2>1. CASE est.running
    <3>1. w - Confirm \in Nat /\ est.time = AtMost(w - Confirm, LongTrip)
      BY <1>1, <1>3, <2>1
    <3>2. w + 1 - Confirm = (w - Confirm) + 1
      BY <1>1
    <3>3. e.time = AtMost((w - Confirm) + 1, LongTrip)
      BY <2>1, <3>1, Elapsed
    <3>4. QED
      BY <1>1, <1>2, <1>3, <2>1, <3>1, <3>2, <3>3, Elapsed
  <2>2. CASE ~est.running
    BY <1>1, <1>2, <2>2 DEF Elapse
  <2>3. QED
    BY <2>1, <2>2
<1>5. r \in Estimates
  BY <1>4, EstimateType
<1>6. SUFFICES
        /\ r.running <=> w + 1 >= Confirm /\ w + 1 < k + Confirm
        /\ r.running => r.mode = D /\ r.time = AtMost(w + 1 - Confirm, LongTrip)
        /\ r.floor = IF w + 1 < k + Confirm THEN lift.at ELSE lift.to
        /\ r[D] = IF w + 1 <= a THEN AtMost(w + 1, Confirm) ELSE 0
        /\ r[B] = IF w + 1 <= k THEN 0
                  ELSE IF w + 1 < k + Confirm THEN w + 1 - k ELSE w + 1 - (k + Confirm)
  BY <1>1 DEF TrackingAt
<1>7. Felt = IF w < a THEN D ELSE IF w >= k THEN B ELSE "still"
  BY <1>1 DEF Felt
<1>8. AtMost(k, LongTrip) = AtMost(lift.depart + lift.cruise, LongTrip)
      /\ Moved(lift.at, D, FloorDiff(AtMost(k, LongTrip))) = lift.to
  BY TripFloor
<1> HIDE DEF D, B, w, a, k, e
<1>9. CASE w < a
  <2>1. r = Estimate(e, D)
    BY <1>7, <1>9
  <2> HIDE DEF r
  <2>2. /\ r[D] = AtMost(e[D] + 1, Confirm) /\ r[B] = 0 /\ r.floor = e.floor
        /\ e.running => r.running /\ r.mode = D /\ r.time = e.time
        /\ ~e.running => (r.running <=> e[D] + 1 >= Confirm)
        /\ ~e.running /\ r.running => r.mode = D /\ r.time = 0
    BY <2>1, <1>1, <1>4, WindowAlong DEF B, D
  <2>3. e[D] = AtMost(w, Confirm)
    BY <1>1, <1>3, <1>4, <1>9
  <2>4. r[D] = AtMost(w + 1, Confirm) /\ w + 1 <= a /\ w + 1 <= k
    BY <1>1, <1>9, <2>2, <2>3 DEF AtMost
  <2>5. r.floor = lift.at /\ w + 1 < k + Confirm
    BY <1>1, <1>3, <1>4, <1>9, <2>2
  <2>6. CASE e.running
    BY <1>1, <1>3, <1>4, <2>2, <2>4, <2>5, <2>6
  <2>7. CASE ~e.running
    <3>1. w < Confirm /\ e[D] = w
      BY <1>1, <1>3, <1>4, <1>9, <2>3, <2>7 DEF AtMost
    <3>2. r.running <=> w + 1 >= Confirm
      BY <2>2, <2>7, <3>1
    <3>3. r.running => r.mode = D /\ r.time = 0 /\ w + 1 - Confirm = 0
      BY <1>1, <2>2, <2>7, <3>1, <3>2
    <3>4. AtMost(0, LongTrip) = 0
      BY LongTripIsNat DEF AtMost
    <3>5. QED
      BY <2>2, <2>4, <2>5, <3>2, <3>3, <3>4
  <2>8. QED
    BY <2>6, <2>7
<1>10. CASE w >= a /\ w < k
  <2>1. r = Estimate(e, "still")
    BY <1>1, <1>7, <1>10
  <2> HIDE DEF r
  <2>2. /\ r.up = 0 /\ r.down = 0 /\ r.floor = e.floor
        /\ r.running = e.running /\ r.mode = e.mode /\ r.time = e.time
    BY <2>1, <1>4, WindowStill
  <2>3. r[D] = 0 /\ r[B] = 0
    BY <1>1, <1>2, <2>2 DEF Directions
  <2>4. e.running
    BY <1>1, <1>3, <1>4, <1>10
  <2>5. r.floor = lift.at
    BY <1>1, <1>3, <1>4, <1>10, <2>2
  <2>6. QED
    BY <1>1, <1>4, <1>10, <2>2, <2>3, <2>4, <2>5
<1>11. CASE w >= k
  <2>1. r = Estimate(e, B)
    BY <1>1, <1>7, <1>11
  <2> HIDE DEF r
  <2>2. ~e.running => e[B] + 1 < Confirm
    BY <1>1, <1>3, <1>4, <1>11
  <2>3. /\ e[B] + 1 < Confirm =>
             /\ r[B] = e[B] + 1 /\ r[D] = 0
             /\ r.floor = e.floor /\ r.running = e.running
             /\ r.mode = e.mode /\ r.time = e.time
        /\ e[B] + 1 >= Confirm =>
             /\ r.up = 0 /\ r.down = 0 /\ ~r.running
             /\ r.floor = Moved(e.floor, D, FloorDiff(e.time))
    BY <2>1, <2>2, <1>1, <1>4, WindowAgainst DEF B, D
  <2>4. CASE w + 1 < k + Confirm
    <3>1. e[B] = w - k /\ e.running /\ e[B] + 1 < Confirm
      BY <1>1, <1>3, <1>4, <1>11, <2>4
    <3>2. r.floor = lift.at
      BY <1>1, <1>3, <1>4, <2>3, <2>4, <3>1
    <3>3. r.running /\ r.mode = D /\ r.time = AtMost(w + 1 - Confirm, LongTrip)
      BY <1>4, <2>3, <3>1
    <3>4. r[B] = w + 1 - k /\ r[D] = 0 /\ w + 1 >= Confirm
          /\ ~(w + 1 <= k) /\ ~(w + 1 <= a)
      BY <1>1, <1>11, <2>3, <3>1
    <3>5. QED
      BY <2>4, <3>2, <3>3, <3>4
  <2>5. CASE w + 1 = k + Confirm
    <3>1. e[B] = w - k /\ e.running /\ e[B] + 1 = Confirm
      BY <1>1, <1>3, <1>4, <1>11, <2>5
    <3>2. e.time = AtMost(k, LongTrip) /\ e.floor = lift.at
      <4>1. w + 1 - Confirm = k
        BY <1>1, <2>5
      <4>2. QED
        BY <4>1, <1>1, <1>3, <1>4, <2>5, <3>1
    <3>3. r.floor = lift.to /\ ~r.running /\ r.up = 0 /\ r.down = 0
      BY <1>1, <1>8, <2>3, <3>1, <3>2
    <3>4. r[D] = 0 /\ r[B] = 0
      BY <1>1, <1>2, <3>3 DEF Directions
    <3>5. QED
      BY <1>1, <1>11, <2>5, <3>3, <3>4
  <2>6. CASE w >= k + Confirm
    <3>1. e[B] = w - (k + Confirm) /\ ~e.running /\ e[B] + 1 < Confirm
      BY <1>1, <1>3, <1>4, <1>11, <2>6
    <3>2. r.floor = lift.to
      BY <1>1, <1>3, <1>4, <2>3, <2>6, <3>1
    <3>3. QED
      BY <1>1, <1>11, <2>3, <2>6, <3>1, <3>2
  <2>7. QED
    BY <1>1, <2>4, <2>5, <2>6
<1>12. QED
  BY <1>1, <1>9, <1>10, <1>11

-----------------------------------------------------------------------------
(***************************************************************************)
(* The messages.                                                            *)
(***************************************************************************)
LEMMA QueueKeepsLast ==
  ASSUME NEW q \in Seq(Floors), Len(q) <= QueueDepth, NEW f \in Floors
  PROVE  LET r == KeepLast(Append(q, f)) IN
         /\ r \in Seq(Floors) /\ Len(r) <= QueueDepth /\ r # <<>> /\ r[Len(r)] = f
         /\ (\A i \in 1..Len(q) : q[i] = f) => \A i \in 1..Len(r) : r[i] = f
<1> DEFINE p == Append(q, f)
<1>1. QueueDepth \in Nat /\ QueueDepth > 0
  BY RideAssumption
<1>2. p \in Seq(Floors) /\ Len(p) = Len(q) + 1 /\ p[Len(p)] = f
      /\ \A i \in 1..Len(q) : p[i] = q[i]
  OBVIOUS
<1> HIDE DEF p
<1>3. CASE Len(p) <= QueueDepth
  <2>1. KeepLast(p) = p
    BY <1>1, <1>2, <1>3 DEF KeepLast
  <2>2. p # <<>>
    BY <1>2
  <2>3. QED
    BY <1>2, <1>3, <2>1, <2>2 DEF p
<1>4. CASE Len(p) > QueueDepth
  <2>1. KeepLast(p) = Tail(p)
    BY <1>1, <1>2, <1>4 DEF KeepLast
  <2>2. Len(q) >= 1
    BY <1>1, <1>2, <1>4
  <2>3. Tail(p) \in Seq(Floors) /\ Len(Tail(p)) = Len(q)
        /\ \A i \in 1..Len(q) : Tail(p)[i] = p[i + 1]
    BY <1>2, <2>2
  <2>4. Tail(p) # <<>> /\ Tail(p)[Len(Tail(p))] = f
    BY <1>2, <2>2, <2>3
  <2>5. (\A i \in 1..Len(q) : q[i] = f) => \A i \in 1..Len(q) : Tail(p)[i] = f
    BY <1>2, <2>3
  <2>6. QED
    BY <2>1, <2>3, <2>4, <2>5 DEF p
<1>5. QED
  BY <1>2, <1>3, <1>4, <1>1

LEMMA QueueLosesHead ==
  ASSUME NEW q \in Seq(Floors), q # <<>>
  PROVE  /\ Head(q) \in Floors /\ Tail(q) \in Seq(Floors) /\ Len(Tail(q)) = Len(q) - 1
         /\ Head(q) = q[1]
         /\ Tail(q) # <<>> => Tail(q)[Len(Tail(q))] = q[Len(q)]
         /\ Tail(q) = <<>> => Head(q) = q[Len(q)]
         /\ \A i \in 1..Len(Tail(q)) : Tail(q)[i] = q[i + 1] /\ i + 1 \in 1..Len(q)
<1>1. Len(q) \in Nat /\ Len(q) > 0 /\ Head(q) = q[1] /\ Head(q) \in Floors
  OBVIOUS
<1>2. Tail(q) \in Seq(Floors) /\ Len(Tail(q)) = Len(q) - 1
      /\ \A i \in 1..Len(Tail(q)) : Tail(q)[i] = q[i + 1]
  OBVIOUS
<1>3. Tail(q) # <<>> <=> Len(Tail(q)) > 0
  BY <1>2
<1>4. QED
  BY <1>1, <1>2, <1>3

-----------------------------------------------------------------------------
(***************************************************************************)
(* The estimator in its ticks.                                              *)
(***************************************************************************)
LEMMA FeltType == Felt \in Directions \cup {"still"} /\ (AtRest => Felt = "still")
BY OppositeFacts DEF Felt, Direction, Directions

LEMMA TickOfReady ==
  ASSUME TypeOK, Ticking, active, ready, NEW z \in Directions \cup {"still"}, OnImu(z, 1)
  PROVE  /\ est' = Estimate(Elapse(est, 1), z) /\ published' = est'.floor
         /\ since' = 0 /\ seen' = NoSamples /\ UNCHANGED <<active, dest, ready>>
<1>1. Age(1) = 1 /\ Window = 1
  BY TickAssumption, WindowAssumption DEF Ticking, Age
<1>2. CloseWindow(z, 1)
  <2>1. ~BaselineSample(1)
    BY DEF BaselineSample
  <2>2. ~(Age(1) < Window)
    BY <1>1
  <2>3. QED
    BY <2>1, <2>2, Zenon DEF OnImu, WindowSample
<1>3. Verdict(Counted(z)) = z
  BY TickAssumption DEF Ticking, Verdict, Counted, NoSamples, AtMost, Directions
<1>4. QED
  BY <1>2, <1>3 DEF CloseWindow

LEMMA TickOfBaseline ==
  ASSUME TypeOK, active, ~ready, NEW z, OnImu(z, 1)
  PROVE  /\ UNCHANGED <<active, dest, est, published>>
         /\ ready' => since' = 0 /\ seen' = NoSamples
BY DEF OnImu, BaselineSample, WindowSample, CloseWindow

\* A lift at rest leaves the estimator at rest.
LEMMA StillAtRest ==
  ASSUME est \in Estimates, ~est.running
  PROVE  LET r == Estimate(Elapse(est, 1), "still") IN
         ~r.running /\ r.up = 0 /\ r.down = 0 /\ r.floor = est.floor
<1>1. Elapse(est, 1) = est
  BY DEF Elapse
<1>2. QED
  BY <1>1, WindowStill

-----------------------------------------------------------------------------
(***************************************************************************)
(* The invariant: initially, and for every action.                          *)
(***************************************************************************)
LEMMA RideInvInit == RideInit => RideInv /\ Heard
<1> SUFFICES ASSUME RideInit PROVE RideInv /\ Heard
  OBVIOUS
<1>1. PICK f \in Stops :
        /\ active \in BOOLEAN /\ ready = active /\ since = (IF active THEN 0 ELSE NoTime)
        /\ dest = (IF active THEN TargetFloor ELSE NoFloor)
        /\ est = [Fresh EXCEPT !.floor = f] /\ seen = NoSamples /\ published = f
        /\ inbox = <<f>>
  BY DEF RideInit
<1>2. /\ lift = Resting(StartFloor, FALSE) /\ open = TRUE
      /\ place = "boarded" /\ left = 0 /\ starts = 0 /\ floor = NoFloor
  BY DEF RideInit
<1>3. f \in Floors /\ TargetFloor \in Floors /\ StartFloor \in Stops
  BY StopsAssumption
<1>4. est \in Estimates /\ est.floor = f /\ ~est.running /\ est.up = 0 /\ est.down = 0
  BY <1>1, <1>3, ResetTypes DEF Fresh, Estimates
<1>5. TypeOK
  BY <1>1, <1>3, <1>4, ResetTypes DEF TypeOK
<1>6. lift \in Rides /\ AtRest /\ lift.at = StartFloor /\ ~lift.rested
  BY <1>2, <1>3, RideAssumption DEF Resting, Rides, AtRest
<1>7. inbox \in Seq(Floors) /\ Len(inbox) = 1 /\ inbox[1] = f /\ QueueDepth >= 1
  BY <1>1, <1>3, RideAssumption
<1>8. RideTypeOK
  <2>1. 0 \in 0..StartRepeats
    BY RideAssumption
  <2>2. open \in BOOLEAN /\ left \in 0..StartRepeats /\ starts \in 0..StartRepeats
        /\ floor \in Floors \cup {NoFloor}
        /\ place \in {"boarded", "starting", "pressing", "await", "out"}
    BY <1>2, <2>1
  <2>3. inbox \in Seq(Floors) /\ Len(inbox) <= QueueDepth
    BY <1>7, RideAssumption
  <2>4. QED
    BY <1>5, <1>6, <2>2, <2>3 DEF RideTypeOK, Rides
<1>9. Ticking /\ LiftPath /\ Budget /\ Calm /\ Tracking
  <2>1. Ticking
    BY <1>1 DEF Ticking
  <2>2. LiftPath
    BY <1>6 DEF LiftPath
  <2>3. Budget
    BY <1>2, RideAssumption DEF Budget
  <2>4. Calm
    BY <1>2, <1>4, <1>6 DEF Calm
  <2>5. Tracking
    BY <1>2 DEF Tracking
  <2>6. QED
    BY <2>1, <2>2, <2>3, <2>4, <2>5
<1>10. Heard
  BY <1>2, <1>4, <1>7 DEF Heard
<1>11. QED
  BY <1>8, <1>9, <1>10 DEF RideInv

LEMMA DepartKeeps ==
  ASSUME CalmStart, RideInv, Heard, NEW f \in Stops, Depart(f)
  PROVE  RideInv' /\ Heard'
<1>1. /\ AtRest /\ lift.rested /\ ~open /\ f # lift.at /\ place = "await"
      /\ UNCHANGED <<estimator, open, mission, starts, inbox, floor>>
  BY DEF Depart
<1>2. PICK a \in DepartWindows, b \in BrakeWindows, t \in TravelTimes(Distance(lift.at, f)) :
        /\ t >= a
        /\ lift' = [at |-> lift.at, to |-> f, depart |-> a, cruise |-> t - a, brake |-> b,
                    w |-> 0, rested |-> FALSE]
  BY DEF Depart
<1>3. /\ a \in Nat /\ a >= Confirm /\ b \in Confirm..(2 * Confirm - 1)
      /\ Confirm \in Nat /\ Confirm > 0 /\ LongestRide \in Nat
  BY RideAssumption, WindowAssumption
<1>4. t \in Nat /\ t <= LongestRide
  <2>1. Distance(lift.at, f) \in 1..TopFloor
    <3>1. lift.at \in Floors /\ f \in Floors
      BY StopsAssumption DEF RideInv, RideTypeOK
    <3>2. QED
      BY <1>1, <3>1, FloorsAssumption DEF Distance, Floors
  <2>2. Thresholds[Distance(lift.at, f)] \in Nat
    BY <2>1, ThresholdsAssumption
  <2>3. QED
    BY <1>3, <2>2 DEF TravelTimes
<1>5. /\ lift'.at = lift.at /\ lift'.to = f /\ lift'.depart = a /\ lift'.cruise = t - a
      /\ lift'.brake = b /\ lift'.w = 0 /\ ~lift'.rested /\ ~AtRest'
  BY <1>1, <1>2 DEF AtRest
<1>6. lift.at \in Stops
  BY DEF RideInv, RideTypeOK
<1>7. lift' \in Rides
  BY <1>2, <1>3, <1>4, <1>6 DEF Rides
<1>8. RideTypeOK'
  BY <1>1, <1>7 DEF RideInv, RideTypeOK, TypeOK, Rides, estimator, mission
<1>9. LiftPath'
  <2>1. a + (t - a) = t /\ 0 < a + (t - a) + b
    BY <1>2, <1>3, <1>4
  <2>2. lift'.depart + lift'.cruise \in TravelTimes(Distance(lift'.at, lift'.to))
    BY <1>2, <1>5, <2>1
  <2>3. QED
    BY <1>1, <1>2, <1>3, <1>5, <2>1, <2>2 DEF LiftPath, RideWindows, TravelTimes, Distance
<1>10. Ticking' /\ Budget' /\ Calm'
  BY <1>1 DEF RideInv, Ticking, Budget, Calm, estimator, mission
<1>11. Tracking'
  <2>1. ~est.running /\ est.floor = lift.at /\ est.up = 0 /\ est.down = 0
    BY <1>1 DEF RideInv, Tracking, TrackingAtRest
  <2>2. est' = est /\ Direction' \in Directions /\ Opposite[Direction'] \in Directions
    BY <1>1, OppositeFacts DEF estimator, Direction, Directions
  <2>3. est'[Direction'] = 0 /\ est'[Opposite[Direction']] = 0
    BY <2>1, <2>2 DEF Directions
  <2>4. 0 < TimedWindows' /\ AtMost(0, Confirm) = 0 /\ ~(0 >= Confirm) /\ 0 <= a
        /\ 0 <= lift'.depart + lift'.cruise
    BY <1>2, <1>3, <1>4, <1>5 DEF TimedWindows, AtMost
  <2>5. TrackingAt(est, lift.w)'
    BY <1>5, <2>1, <2>2, <2>3, <2>4 DEF TrackingAt
  <2>6. QED
    BY <1>5, <2>5 DEF Tracking
<1>12. Heard'
  BY <1>1, <1>5 DEF Heard, estimator, mission, Unstarted
<1>13. QED
  BY <1>8, <1>9, <1>10, <1>11, <1>12 DEF RideInv

LEMMA MoveDoorKeeps ==
  ASSUME RideInv, Heard, MoveDoor
  PROVE  RideInv' /\ Heard'
<1>1. AtRest /\ (open \/ lift.rested) /\ open' \in BOOLEAN
      /\ UNCHANGED <<estimator, lift, mission, starts, inbox, floor>>
  BY DEF MoveDoor
<1>2. RideTypeOK' /\ Ticking' /\ Budget'
  BY <1>1 DEF RideInv, RideTypeOK, TypeOK, Ticking, Budget, estimator, mission
<1>3. LiftPath'
  BY <1>1 DEF LiftPath, AtRest
<1>4. Calm'
  BY <1>1 DEF RideInv, Calm, AtRest, Unstarted, estimator, mission
<1>5. Tracking'
  BY <1>1 DEF RideInv, Tracking, TrackingAtRest, AtRest, estimator, mission
<1>6. Heard'
  BY <1>1 DEF Heard, AtRest, Unstarted, estimator, mission
<1>7. QED
  BY <1>2, <1>3, <1>4, <1>5, <1>6 DEF RideInv

LEMMA LiftMoves ==
  ASSUME lift \in Rides, LiftPath, MoveLift
  PROVE  /\ lift' \in Rides
         /\ AtRest => AtRest' /\ lift'.at = lift.at /\ lift'.rested
         /\ ~AtRest /\ lift.w + 1 = RideWindows =>
              AtRest' /\ lift'.at = lift.to /\ ~lift'.rested
         /\ ~AtRest /\ lift.w + 1 # RideWindows =>
              /\ lift'.w = lift.w + 1 /\ lift'.at = lift.at /\ lift'.to = lift.to
              /\ lift'.depart = lift.depart /\ lift'.cruise = lift.cruise
              /\ lift'.brake = lift.brake /\ ~AtRest'
<1>1. 0 \in 0..LongestRide
  BY RideAssumption
<1>2. ASSUME NEW f \in Stops, NEW b \in BOOLEAN, lift' = Resting(f, b)
      PROVE  lift' \in Rides /\ AtRest' /\ lift'.at = f /\ lift'.rested = b
  BY <1>1, <1>2 DEF Resting, Rides, AtRest
<1>3. lift.at \in Stops /\ lift.to \in Stops
  BY DEF Rides
<1>4. CASE AtRest
  <2>1. lift' = Resting(lift.at, TRUE)
    BY <1>4 DEF MoveLift
  <2>2. QED
    BY <1>2, <1>3, <1>4, <2>1
<1>5. CASE ~AtRest /\ lift.w + 1 = RideWindows
  <2>1. lift' = Resting(lift.to, FALSE)
    BY <1>5 DEF MoveLift
  <2>2. QED
    BY <1>2, <1>3, <1>5, <2>1
<1>6. CASE ~AtRest /\ lift.w + 1 # RideWindows
  <2>1. lift' = [lift EXCEPT !.w = lift.w + 1]
    BY <1>6 DEF MoveLift
  <2>2. lift' \in Rides
    BY <2>1 DEF Rides
  <2>3. QED
    BY <1>6, <2>1, <2>2 DEF Rides, AtRest
<1>7. QED
  BY <1>4, <1>5, <1>6

LEMMA TickKeeps ==
  ASSUME MaxLag = 0, RideInv, Heard, Tick
  PROVE  RideInv' /\ Heard'
<1> DEFINE r == Estimate(Elapse(est, 1), Felt)
<1>1. /\ MoveLift /\ UNCHANGED <<open, mission, starts, floor>>
      /\ place = "await" => Len(inbox) <= 0
  BY DEF Tick
<1>2. /\ TypeOK /\ est \in Estimates /\ lift \in Rides /\ inbox \in Seq(Floors)
      /\ Len(inbox) <= QueueDepth
  BY DEF RideInv, RideTypeOK, TypeOK, Rides
<1>3. /\ active => OnImu(Felt, 1)
      /\ active /\ ready => Deliver(published')
      /\ active /\ ~ready => UNCHANGED inbox
      /\ ~active => UNCHANGED estimator /\ UNCHANGED inbox
  BY DEF Tick
<1>4. TypeOK' /\ est' \in Estimates
  <2>1. CASE active
    BY <1>2, <1>3, <2>1, OnImuType DEF TypeOK
  <2>2. CASE ~active
    BY <1>2, <1>3, <2>2 DEF TypeOK, estimator
  <2>3. QED
    BY <2>1, <2>2
<1>5. active /\ ready =>
        /\ est' = r /\ since' = 0 /\ seen' = NoSamples /\ UNCHANGED <<active, ready>>
        /\ inbox' = KeepLast(Append(inbox, est'.floor))
  BY <1>2, <1>3, FeltType, TickOfReady DEF Deliver, RideInv
<1>6. ~(active /\ ready) => UNCHANGED <<est, active, inbox>> /\ Ticking'
  <2>1. CASE active /\ ~ready
    BY <1>2, <1>3, <2>1, TickOfBaseline DEF Ticking
  <2>2. CASE ~active
    BY <1>3, <2>2 DEF Ticking, estimator
  <2>3. QED
    BY <2>1, <2>2
<1>7. Ticking'
  BY <1>5, <1>6 DEF Ticking
<1>8. est'.floor \in Floors
  BY <1>4 DEF Estimates
<1>9. inbox' \in Seq(Floors) /\ Len(inbox') <= QueueDepth
  BY <1>2, <1>5, <1>6, <1>8, QueueKeepsLast
<1>10. lift' \in Rides
  BY <1>1, <1>2, LiftMoves DEF RideInv
<1>11. RideTypeOK'
  BY <1>1, <1>4, <1>9, <1>10 DEF RideInv, RideTypeOK, Rides, mission
<1>12. LiftPath'
  <2>1. CASE AtRest \/ lift.w + 1 = RideWindows
    BY <1>1, <1>2, <2>1, LiftMoves DEF RideInv, LiftPath
  <2>2. CASE ~AtRest /\ lift.w + 1 # RideWindows
    <3>1. /\ lift'.w = lift.w + 1 /\ lift'.at = lift.at /\ lift'.to = lift.to
          /\ lift'.depart = lift.depart /\ lift'.cruise = lift.cruise
          /\ lift'.brake = lift.brake /\ ~AtRest'
      BY <1>1, <1>2, <2>2, LiftMoves DEF RideInv
    <3>2. lift.w < RideWindows /\ lift.w \in Nat /\ RideWindows \in Nat
      <4>1. LiftPath
        BY DEF RideInv
      <4>2. /\ lift.depart \in Nat /\ lift.cruise \in Nat /\ lift.brake \in Nat /\ lift.w \in Nat
            /\ lift.w < lift.depart + lift.cruise + lift.brake
        BY <1>2, <2>2, <4>1, LiftNumbers
      <4>3. QED
        BY <4>2 DEF RideWindows
    <3>3. lift'.w < RideWindows' /\ ~open'
      BY <1>1, <2>2, <3>1, <3>2 DEF RideWindows, RideInv, LiftPath
    <3>4. QED
      BY <2>2, <3>1, <3>3 DEF RideInv, LiftPath, TravelTimes, Distance
  <2>3. QED
    BY <2>1, <2>2
<1>13. Budget'
  BY <1>1, <1>5 DEF RideInv, Budget, mission
<1>14. AtRest /\ ~est.running =>
         /\ ~est'.running /\ est'.floor = est.floor
         /\ active /\ ready => est'.up = 0 /\ est'.down = 0
  BY <1>2, <1>5, <1>6, FeltType, StillAtRest
<1>15. Calm'
  BY <1>1, <1>2, <1>6, <1>14, LiftMoves DEF RideInv, Calm, Unstarted, mission
<1>16. Tracking'
  <2>1. SUFFICES ASSUME place = "await"
                 PROVE  (AtRest' => TrackingAtRest') /\ (~AtRest' => TrackingAt(est, lift.w)')
    BY <1>1 DEF Tracking, mission
  <2>2. active /\ ready /\ est' = r
    BY <1>5, <2>1 DEF RideInv, Budget
  <2>3. CASE AtRest
    <3>1. ~est'.running /\ est'.floor = lift.at /\ est'.up = 0 /\ est'.down = 0
      BY <1>14, <2>1, <2>2, <2>3 DEF RideInv, Tracking, TrackingAtRest
    <3>2. AtRest' /\ lift'.at = lift.at
      BY <1>1, <1>2, <2>3, LiftMoves DEF RideInv
    <3>3. QED
      BY <3>1, <3>2, WindowAssumption DEF TrackingAtRest
  <2>4. CASE ~AtRest
    <3>1. TrackingAt(est', lift.w + 1)
      BY <1>2, <2>1, <2>2, <2>4, RideWindow DEF RideInv, Tracking
    <3>2. CASE lift.w + 1 = RideWindows
      <4>1. /\ TimedWindows = lift.depart + lift.cruise + Confirm
            /\ RideWindows = lift.depart + lift.cruise + lift.brake
            /\ lift.depart \in Nat /\ lift.cruise \in Nat /\ lift.brake \in Nat
            /\ Confirm \in Nat /\ Confirm > 0
            /\ lift.brake >= Confirm /\ lift.brake < 2 * Confirm /\ Direction \in Directions
        BY <1>2, <2>4, LiftNumbers DEF RideInv, RideWindows
      <4>2. /\ ~est'.running /\ est'.floor = lift.to /\ est'[Direction] = 0
            /\ est'[Opposite[Direction]] = lift.brake - Confirm
        BY <3>1, <3>2, <4>1 DEF TrackingAt
      <4>3. est'.up < Confirm /\ est'.down < Confirm
        BY <4>1, <4>2, OppositeFacts DEF Directions
      <4>4. AtRest' /\ lift'.at = lift.to /\ ~lift'.rested
        BY <1>1, <1>2, <2>4, <3>2, LiftMoves DEF RideInv
      <4>5. QED
        BY <4>2, <4>3, <4>4 DEF TrackingAtRest
    <3>3. CASE lift.w + 1 # RideWindows
      <4>1. /\ lift'.w = lift.w + 1 /\ lift'.at = lift.at /\ lift'.to = lift.to
            /\ lift'.depart = lift.depart /\ lift'.cruise = lift.cruise /\ ~AtRest'
        BY <1>1, <1>2, <2>4, <3>3, LiftMoves DEF RideInv
      <4>2. TimedWindows' = TimedWindows /\ Direction' = Direction
        BY <4>1 DEF TimedWindows, Direction
      <4>3. TrackingAt(est, lift.w)'
        BY <3>1, <4>1, <4>2 DEF TrackingAt
      <4>4. QED
        BY <4>1, <4>3
    <3>4. QED
      BY <3>2, <3>3
  <2>5. QED
    BY <2>3, <2>4
<1>17. Heard'
  <2>1. place # "out" /\ inbox' # <<>> => inbox'[Len(inbox')] = est'.floor
    <3>1. CASE active /\ ready
      BY <1>2, <1>5, <1>8, <3>1, QueueKeepsLast
    <3>2. CASE ~(active /\ ready)
      BY <1>6, <3>2 DEF Heard
    <3>3. QED
      BY <3>1, <3>2
  <2>2. place \in {"starting", "pressing"} /\ inbox' = <<>> => floor = est'.floor \/ Unstarted
    <3>1. CASE active /\ ready
      BY <1>2, <1>5, <1>8, <3>1, QueueKeepsLast
    <3>2. CASE ~(active /\ ready)
      BY <1>6, <3>2 DEF Heard
    <3>3. QED
      BY <3>1, <3>2
  <2>3. ASSUME place = "await"
        PROVE  /\ \A i \in 1..Len(inbox') : inbox'[i] = est'.floor
               /\ inbox' # <<>>
               /\ AtRest' /\ (lift'.rested \/ open) => floor = est'.floor
    <3>1. active /\ ready /\ inbox = <<>> /\ floor = est.floor
      BY <1>1, <1>2, <2>3 DEF RideInv, Budget, Heard
    <3>2. (\A i \in 1..Len(inbox') : inbox'[i] = est'.floor) /\ inbox' # <<>>
      <4>1. \A i \in 1..Len(inbox) : inbox[i] = est'.floor
        BY <3>1
      <4>2. inbox' = KeepLast(Append(inbox, est'.floor))
        BY <1>5, <3>1
      <4> DEFINE f == est'.floor
      <4>3. f \in Floors /\ (\A i \in 1..Len(inbox) : inbox[i] = f)
            /\ inbox' = KeepLast(Append(inbox, f))
        BY <4>1, <4>2, <1>8
      <4> HIDE DEF f
      <4>4. (\A i \in 1..Len(inbox') : inbox'[i] = f) /\ inbox' # <<>>
        BY <4>3, <1>2, QueueKeepsLast
      <4>5. QED
        BY <4>4 DEF f
    <3>3. CASE AtRest
      BY <1>14, <2>3, <3>1, <3>2, <3>3 DEF RideInv, Tracking, TrackingAtRest
    <3>4. CASE ~AtRest
      <4>1. ~open /\ (AtRest' => ~lift'.rested)
        BY <1>1, <1>2, <3>4, LiftMoves DEF RideInv, LiftPath
      <4>2. QED
        BY <3>2, <4>1
    <3>5. QED
      BY <3>3, <3>4
  <2>4. QED
    BY <1>1, <2>1, <2>2, <2>3 DEF Heard, Unstarted, mission
<1>18. QED
  BY <1>7, <1>11, <1>12, <1>13, <1>15, <1>16, <1>17 DEF RideInv

LEMMA ReceiveStartKeeps ==
  ASSUME RideInv, Heard, ReceiveStart
  PROVE  RideInv' /\ Heard'
<1>1. /\ starts > 0 /\ starts' = starts - 1 /\ OnStartCommand(TargetFloor)
      /\ inbox' = KeepLast(Append(inbox, published'))
      /\ UNCHANGED <<lift, open, mission, floor>>
  BY DEF ReceiveStart, Deliver
<1>2. /\ est' = Fresh /\ published' = StartFloor /\ ~ready' /\ active'
  BY <1>1, TickAssumption DEF OnStartCommand, StartSession
<1>3. /\ est'.floor = StartFloor /\ ~est'.running /\ est'.up = 0 /\ est'.down = 0
      /\ StartFloor \in Floors
  BY <1>2, FloorsAssumption DEF Fresh, Floors
<1>4. /\ starts \in Nat /\ left \in Nat /\ starts \in 0..StartRepeats /\ StartRepeats \in Nat
      /\ left + starts <= StartRepeats
      /\ place \in {"starting", "pressing"} /\ inbox \in Seq(Floors) /\ Len(inbox) <= QueueDepth
  BY <1>1, RideAssumption DEF RideInv, RideTypeOK, Budget
<1>5. starts' \in 0..StartRepeats /\ left + starts' <= StartRepeats
      /\ left + starts' # StartRepeats
  BY <1>1, <1>4
<1>6. TypeOK'
  BY <1>1, OnStartCommandType DEF RideInv, RideTypeOK
<1>7. /\ inbox' \in Seq(Floors) /\ Len(inbox') <= QueueDepth /\ inbox' # <<>>
      /\ inbox'[Len(inbox')] = StartFloor
  BY <1>1, <1>2, <1>3, <1>4, QueueKeepsLast
<1>8. RideTypeOK'
  BY <1>1, <1>5, <1>6, <1>7 DEF RideInv, RideTypeOK, mission
<1>9. Ticking' /\ LiftPath' /\ Budget'
  BY <1>1, <1>2, <1>4, <1>5
     DEF RideInv, Ticking, LiftPath, Budget, RideWindows, AtRest, mission
<1>10. Calm'
  BY <1>1, <1>3, <1>4 DEF RideInv, Calm, AtRest, mission
<1>11. Tracking'
  BY <1>1, <1>4 DEF Tracking, mission
<1>12. Heard'
  BY <1>1, <1>3, <1>4, <1>7 DEF Heard, mission
<1>13. QED
  BY <1>8, <1>9, <1>10, <1>11, <1>12 DEF RideInv

LEMMA PublishTimerKeeps ==
  ASSUME RideInv, Heard, PublishTimer
  PROVE  RideInv' /\ Heard'
<1>1. /\ PublishCurrentFloor /\ published' = est.floor
      /\ inbox' = KeepLast(Append(inbox, est.floor))
      /\ UNCHANGED <<active, dest, est, ready, since, seen>>
      /\ UNCHANGED <<lift, open, mission, starts, floor>>
  BY DEF PublishTimer, PublishCurrentFloor, Deliver
<1>2. /\ TypeOK /\ inbox \in Seq(Floors) /\ Len(inbox) <= QueueDepth /\ est.floor \in Floors
  BY DEF RideInv, RideTypeOK, TypeOK, Estimates
<1>3. /\ inbox' \in Seq(Floors) /\ Len(inbox') <= QueueDepth /\ inbox' # <<>>
      /\ inbox'[Len(inbox')] = est.floor
  BY <1>1, <1>2, QueueKeepsLast
<1>4. RideTypeOK'
  BY <1>1, <1>2, <1>3, PublishType DEF RideInv, RideTypeOK, mission
<1>5. Ticking' /\ LiftPath' /\ Budget' /\ Calm'
  BY <1>1
     DEF RideInv, Ticking, LiftPath, Budget, Calm, Unstarted, RideWindows, AtRest, mission
<1>6. Tracking'
  BY <1>1 DEF RideInv, Tracking, TrackingAtRest, TrackingAt, TimedWindows, Direction, AtRest,
             mission
<1>7. Heard'
  <2>1. place = "await" => \A i \in 1..Len(inbox') : inbox'[i] = est.floor
    <3>1. ASSUME place = "await"
          PROVE  \A i \in 1..Len(inbox) : inbox[i] = est.floor
      BY <3>1 DEF Heard
    <3>2. QED
      BY <1>1, <1>2, <3>1, QueueKeepsLast
  <2>2. QED
    BY <1>1, <1>3, <2>1 DEF Heard, AtRest, mission
<1>8. QED
  BY <1>4, <1>5, <1>6, <1>7 DEF RideInv

LEMMA StartEstimationKeeps ==
  ASSUME RideInv, Heard, StartEstimation
  PROVE  RideInv' /\ Heard'
<1>1. /\ place = "boarded" /\ place' = "starting" /\ floor' = NoFloor /\ left' = StartRepeats
      /\ UNCHANGED <<estimator, lift, open, starts, inbox>>
  BY DEF StartEstimation
<1>2. starts = 0 /\ StartRepeats \in 0..StartRepeats
  BY <1>1, RideAssumption DEF RideInv, Budget
<1>3. RideTypeOK' /\ Ticking' /\ LiftPath'
  BY <1>1, <1>2 DEF RideInv, RideTypeOK, TypeOK, Ticking, LiftPath, RideWindows, AtRest, estimator
<1>4. Budget' /\ Unstarted'
  BY <1>1, <1>2, RideAssumption DEF Budget, Unstarted
<1>5. Calm' /\ Tracking'
  BY <1>1, <1>4 DEF RideInv, Calm, Tracking, AtRest, estimator
<1>6. Heard'
  BY <1>1, <1>4 DEF Heard, estimator
<1>7. QED
  BY <1>3, <1>4, <1>5, <1>6 DEF RideInv

LEMMA PublishStartKeeps ==
  ASSUME RideInv, Heard, PublishStart
  PROVE  RideInv' /\ Heard'
<1>1. /\ place = "starting" /\ left > 0 /\ left' = left - 1 /\ starts' = starts + 1
      /\ place' = (IF left = 1 THEN "pressing" ELSE "starting")
      /\ UNCHANGED <<estimator, lift, open, inbox, floor>>
  BY DEF PublishStart
<1>2. /\ left \in Nat /\ starts \in Nat /\ StartRepeats \in Nat /\ left + starts <= StartRepeats
      /\ left \in 0..StartRepeats /\ starts \in 0..StartRepeats
  BY RideAssumption DEF RideInv, RideTypeOK, Budget
<1>3. /\ left' \in 0..StartRepeats /\ starts' \in 0..StartRepeats
      /\ left' + starts' = left + starts /\ (left = 1 => left' = 0)
      /\ place' \in {"starting", "pressing"}
  BY <1>1, <1>2
<1>4. RideTypeOK' /\ Ticking' /\ LiftPath'
  BY <1>1, <1>3 DEF RideInv, RideTypeOK, TypeOK, Ticking, LiftPath, RideWindows, AtRest, estimator
<1>5. Budget' /\ (Unstarted' <=> Unstarted)
  BY <1>1, <1>2, <1>3 DEF Budget, Unstarted
<1>6. Calm' /\ Tracking'
  BY <1>1, <1>3, <1>5 DEF RideInv, Calm, Tracking, AtRest, estimator
<1>7. Heard'
  BY <1>1, <1>3, <1>5 DEF Heard, estimator
<1>8. QED
  BY <1>4, <1>5, <1>6, <1>7 DEF RideInv

LEMMA AwaitTargetKeeps ==
  ASSUME RideInv, Heard, AwaitTarget
  PROVE  RideInv' /\ Heard'
<1>1. /\ place = "pressing" /\ place' = "await" /\ starts = 0 /\ inbox = <<>> /\ ready /\ active
      /\ UNCHANGED <<estimator, lift, open, left, starts, inbox, floor>>
  BY DEF AwaitTarget
<1>2. left = 0 /\ ~Unstarted
  BY <1>1, RideAssumption DEF RideInv, Budget, Unstarted
<1>3. RideTypeOK' /\ Ticking' /\ LiftPath' /\ Budget' /\ Calm'
  BY <1>1, <1>2 DEF RideInv, RideTypeOK, TypeOK, Ticking, LiftPath, Budget, Calm, RideWindows,
                   AtRest, estimator
<1>4. Tracking'
  BY <1>1, <1>2, WindowAssumption
     DEF RideInv, Calm, Tracking, TrackingAtRest, AtRest, estimator
<1>5. Heard'
  BY <1>1, <1>2 DEF Heard, AtRest, estimator
<1>6. QED
  BY <1>3, <1>4, <1>5 DEF RideInv

LEMMA FloorCallbackKeeps ==
  ASSUME RideInv, Heard, FloorCallback
  PROVE  RideInv' /\ Heard'
<1>1. /\ inbox # <<>> /\ floor' = Head(inbox) /\ inbox' = Tail(inbox)
      /\ UNCHANGED <<estimator, lift, open, mission, starts>>
  BY DEF FloorCallback
<1>2. inbox \in Seq(Floors) /\ Len(inbox) <= QueueDepth /\ QueueDepth \in Nat
  BY RideAssumption DEF RideInv, RideTypeOK
<1>3. /\ floor' \in Floors /\ inbox' \in Seq(Floors) /\ Len(inbox') <= QueueDepth
      /\ inbox' # <<>> => inbox'[Len(inbox')] = inbox[Len(inbox)]
      /\ inbox' = <<>> => floor' = inbox[Len(inbox)]
      /\ floor' = inbox[1] /\ 1 \in 1..Len(inbox)
      /\ \A i \in 1..Len(inbox') : inbox'[i] = inbox[i + 1] /\ i + 1 \in 1..Len(inbox)
  BY <1>1, <1>2, QueueLosesHead
<1>4. RideTypeOK' /\ Ticking' /\ LiftPath' /\ Budget' /\ Calm'
  BY <1>1, <1>3 DEF RideInv, RideTypeOK, TypeOK, Ticking, LiftPath, Budget, Calm, Unstarted,
                   RideWindows, AtRest, estimator, mission
<1>5. Tracking'
  BY <1>1 DEF RideInv, Tracking, TrackingAtRest, TrackingAt, TimedWindows, Direction, AtRest,
             estimator, mission
<1>6. Heard'
  BY <1>1, <1>3 DEF Heard, Unstarted, AtRest, estimator, mission
<1>7. QED
  BY <1>4, <1>5, <1>6 DEF RideInv

\* The robot leaves where the lift stands at the target floor.
LEMMA LeaveLiftKeeps ==
  ASSUME RideInv, Heard, LeaveLift
  PROVE  RideInv' /\ Heard' /\ AtRest /\ lift.at = TargetFloor
<1>1. /\ place = "await" /\ floor = TargetFloor /\ open /\ place' = "out"
      /\ UNCHANGED <<estimator, lift, open, left, starts, inbox, floor>>
  BY DEF LeaveLift
<1>2. RideTypeOK' /\ Ticking' /\ LiftPath' /\ Budget' /\ Calm'
  BY <1>1 DEF RideInv, RideTypeOK, TypeOK, Ticking, LiftPath, Budget, Calm, RideWindows,
             AtRest, estimator
<1>3. Tracking' /\ Heard'
  BY <1>1 DEF Tracking, Heard
<1>4. AtRest
  BY <1>1 DEF RideInv, LiftPath
<1>5. est.floor = lift.at /\ floor = est.floor
  BY <1>1, <1>4 DEF RideInv, Tracking, TrackingAtRest, Heard
<1>6. QED
  BY <1>1, <1>2, <1>3, <1>4, <1>5 DEF RideInv

LEMMA RideInvStutters ==
  ASSUME RideInv, Heard, UNCHANGED rideVars
  PROVE  RideInv' /\ Heard'
<1>1. /\ UNCHANGED <<active, dest, est, ready, since, seen, published>>
      /\ UNCHANGED <<lift, open, place, left, starts, inbox, floor>>
  BY DEF rideVars, estimator, mission
<1>2. RideTypeOK' /\ Ticking' /\ LiftPath' /\ Budget' /\ Calm'
  BY <1>1 DEF RideInv, RideTypeOK, TypeOK, Ticking, LiftPath, Budget, Calm, Unstarted,
             RideWindows, AtRest
<1>3. Tracking' /\ Heard'
  BY <1>1 DEF RideInv, Tracking, TrackingAtRest, TrackingAt, TimedWindows, Direction, AtRest,
             Heard, Unstarted
<1>4. QED
  BY <1>2, <1>3 DEF RideInv

-----------------------------------------------------------------------------
LEMMA RideStep ==
  ASSUME CalmStart, MaxLag = 0, RideInv, Heard, [RideNext]_rideVars
  PROVE  /\ RideInv' /\ Heard'
         /\ place # "out" /\ place' = "out" => AtRest /\ lift.at = TargetFloor
<1>1. CASE \E f \in Stops : Depart(f)
  <2>1. place' = place
    BY <1>1 DEF Depart, mission
  <2>2. QED
    BY <1>1, <2>1, DepartKeeps
<1>2. CASE MoveDoor
  BY <1>2, MoveDoorKeeps DEF MoveDoor, mission
<1>3. CASE Tick
  BY <1>3, TickKeeps DEF Tick, mission
<1>4. CASE ReceiveStart
  BY <1>4, ReceiveStartKeeps DEF ReceiveStart, mission
<1>5. CASE PublishTimer
  BY <1>5, PublishTimerKeeps DEF PublishTimer, mission
<1>6. CASE StartEstimation
  BY <1>6, StartEstimationKeeps DEF StartEstimation
<1>7. CASE PublishStart
  <2>1. place' # "out"
    BY <1>7 DEF PublishStart
  <2>2. QED
    BY <1>7, <2>1, PublishStartKeeps
<1>8. CASE AwaitTarget
  BY <1>8, AwaitTargetKeeps DEF AwaitTarget
<1>9. CASE FloorCallback
  BY <1>9, FloorCallbackKeeps DEF FloorCallback, mission
<1>10. CASE LeaveLift
  BY <1>10, LeaveLiftKeeps
<1>11. CASE UNCHANGED rideVars
  BY <1>11, RideInvStutters DEF rideVars, mission
<1>12. QED
  BY <1>1, <1>2, <1>3, <1>4, <1>5, <1>6, <1>7, <1>8, <1>9, <1>10, <1>11 DEF RideNext

LEMMA RideInvariant ==
  ASSUME CalmStart, MaxLag = 0
  PROVE  RideSpec => [](RideInv /\ Heard)
<1>1. RideInv /\ Heard /\ [RideNext]_rideVars => (RideInv /\ Heard)'
  BY RideStep
<1>2. QED
  BY <1>1, RideInvInit, PTL DEF RideSpec

\* Types, and the bound of the queue, for every building, table of thresholds,
\* set of stops and timing of the lift.
THEOREM RideTypeCorrect ==
  ASSUME CalmStart, MaxLag = 0
  PROVE  RideSpec => []RideTypeOK
<1>1. RideInv => RideTypeOK
  BY DEF RideInv
<1>2. QED
  BY <1>1, RideInvariant, PTL

\* However many rides the lift makes, up or down, the estimate is its floor
\* whenever it has come to rest.
THEOREM EstimateFollowsLift ==
  ASSUME CalmStart, MaxLag = 0
  PROVE  RideSpec => []EstimateIsLiftFloor
<1>1. RideInv => EstimateIsLiftFloor
  BY DEF RideInv, Tracking, TrackingAtRest, EstimateIsLiftFloor
<1>2. QED
  BY <1>1, RideInvariant, PTL

\* The robot leaves the lift at the target floor only.
THEOREM LeavesOnlyAtTarget ==
  ASSUME CalmStart, MaxLag = 0
  PROVE  RideSpec => LeavesAtTarget
<1>1. RideInv /\ Heard /\ [RideNext]_rideVars =>
        [place # "out" /\ place' = "out" => AtRest /\ lift.at = TargetFloor]_rideVars
  BY RideStep
<1>2. QED
  BY <1>1, RideInvariant, PTL DEF RideSpec, LeavesAtTarget
=============================================================================
