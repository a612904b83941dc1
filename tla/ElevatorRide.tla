---------------------------- MODULE ElevatorRide ----------------------------
(***************************************************************************)
(* The ride: the lift, the estimator that feels it move, and the part of    *)
(* the mission that depends on the estimate (run(), steps 6-1 to 10 of      *)
(* elevator_delivery_final_with_manipulator.py).                            *)
(*                                                                          *)
(* A tick is a window: the constants of FloorEstimator are chosen so that   *)
(* every IMU message closes one, and it reads what the lift was doing.      *)
(***************************************************************************)
EXTENDS FloorEstimator, Sequences

CONSTANTS
  TargetFloor,       \* target_floor_signal
  StartRepeats,      \* how often the start command is published
  QueueDepth,        \* depth of the /current_floor subscription
  Stops,             \* the floors the lift is called to
  DepartWindows,     \* how long the lift accelerates
  BrakeWindows,      \* how long the lift brakes
  MaxLag,            \* /current_floor messages left over when the next window ends
  LongestRide,       \* bound on the time of a ride
  CalmStart          \* nobody else uses the lift before the robot is ready

VARIABLES
  lift,              \* where the lift is, the ride it is on and how far it has got
  open,              \* its door
  place,             \* the mission: the part of run() it is in
  left,              \* start commands the mission has still to publish
  starts,            \* start commands under way
  inbox,             \* /current_floor messages under way
  floor              \* self.current_floor of the mission

estimator == <<active, dest, est, ready, since, seen, published>>
mission   == <<place, left>>
rideVars  == <<estimator, lift, open, mission, starts, inbox, floor>>

ASSUME StopsAssumption ==
  /\ Stops \subseteq Floors /\ StartFloor \in Stops /\ TargetFloor \in Stops
  /\ TargetFloor # StartFloor /\ CalmStart \in BOOLEAN
ASSUME TickAssumption == Window = 1 /\ ThreshCount = 1 /\ UseBaseline
ASSUME RideAssumption ==
  /\ StartRepeats \in Nat \ {0} /\ QueueDepth \in Nat \ {0}
  /\ MaxLag \in Nat /\ LongestRide \in Nat
  /\ DepartWindows \subseteq Nat /\ \A a \in DepartWindows : a >= Confirm
  /\ BrakeWindows \subseteq Confirm..(2 * Confirm - 1)

-----------------------------------------------------------------------------
(***************************************************************************)
(* The lift.  Its ride takes a time that Thresholds classify correctly.     *)
(***************************************************************************)
Resting(f, rested) ==
  [at |-> f, to |-> f, depart |-> 0, cruise |-> 0, brake |-> 0, w |-> 0, rested |-> rested]

Distance(f, g) == IF f < g THEN g - f ELSE f - g
AtRest         == lift.at = lift.to
Direction      == IF lift.at < lift.to THEN "up" ELSE "down"
RideWindows    == lift.depart + lift.cruise + lift.brake

\* What the window reads while the lift does this.
Felt ==
  CASE AtRest -> "still"
    [] ~AtRest /\ lift.w < lift.depart -> Direction
    [] ~AtRest /\ lift.w >= lift.depart + lift.cruise -> Opposite[Direction]
    [] OTHER -> "still"

TravelTimes(n) ==
  {t \in Thresholds[n]..LongestRide : \A m \in Floors : m > n => t < Thresholds[m]}

MoveLift ==
  lift' = IF AtRest THEN Resting(lift.at, TRUE)
          ELSE IF lift.w + 1 = RideWindows THEN Resting(lift.to, FALSE)
          ELSE [lift EXCEPT !.w = @ + 1]

Depart(f) ==
  /\ AtRest /\ lift.rested /\ ~open /\ f # lift.at
  /\ CalmStart => place = "await"
  /\ \E a \in DepartWindows, b \in BrakeWindows, t \in TravelTimes(Distance(lift.at, f)) :
       /\ t >= a
       /\ lift' = [at |-> lift.at, to |-> f, depart |-> a, cruise |-> t - a, brake |-> b,
                   w |-> 0, rested |-> FALSE]
  /\ UNCHANGED <<estimator, open, mission, starts, inbox, floor>>

\* It takes a window at least until the door of a lift that stopped opens.
MoveDoor ==
  /\ AtRest /\ (open \/ lift.rested) /\ open' = ~open
  /\ UNCHANGED <<estimator, lift, mission, starts, inbox, floor>>

-----------------------------------------------------------------------------
(***************************************************************************)
(* The estimator's node.                                                    *)
(***************************************************************************)
\* Mutant: an unbounded queue.
KeepAll(q) == q

KeepLast(q) == IF Len(q) > QueueDepth THEN Tail(q) ELSE q
Deliver(f)  == inbox' = KeepLast(Append(inbox, f))

\* The wait loop iterates several times a window and takes what has arrived.
\* (At the end of a trip it publishes the same floor twice; once is enough here.)
Tick ==
  /\ place = "await" => Len(inbox) <= MaxLag
  /\ MoveLift
  /\ IF active
     THEN /\ OnImu(Felt, 1)
          /\ IF ready THEN Deliver(published') ELSE UNCHANGED inbox
     ELSE UNCHANGED <<estimator, inbox>>
  /\ UNCHANGED <<open, mission, starts, floor>>

ReceiveStart ==
  /\ starts > 0 /\ starts' = starts - 1
  /\ OnStartCommand(TargetFloor)
  /\ Deliver(published')
  /\ UNCHANGED <<lift, open, mission, floor>>

PublishTimer ==
  /\ PublishCurrentFloor /\ Deliver(published')
  /\ UNCHANGED <<lift, open, mission, starts, floor>>

-----------------------------------------------------------------------------
(***************************************************************************)
(* The mission.                                                             *)
(***************************************************************************)
StartEstimation ==
  /\ place = "boarded" /\ place' = "starting"
  /\ floor' = NoFloor /\ left' = StartRepeats
  /\ UNCHANGED <<estimator, lift, open, starts, inbox>>

PublishStart ==
  /\ place = "starting" /\ left > 0
  /\ left' = left - 1 /\ starts' = starts + 1
  /\ place' = IF left = 1 THEN "pressing" ELSE "starting"
  /\ UNCHANGED <<estimator, lift, open, inbox, floor>>

\* The two moves inside and the handshake are over.  They spin often enough for
\* what was under way to be delivered, and last longer than a baseline.
AwaitTarget ==
  /\ place = "pressing" /\ place' = "await"
  /\ starts = 0 /\ inbox = <<>> /\ ready /\ active
  /\ UNCHANGED <<estimator, lift, open, left, starts, inbox, floor>>

FloorCallback ==
  /\ inbox # <<>> /\ floor' = Head(inbox) /\ inbox' = Tail(inbox)
  /\ UNCHANGED <<estimator, lift, open, mission, starts>>

\* wait_until_target_floor_then_door_open has returned True.
LeaveLift ==
  /\ place = "await" /\ floor = TargetFloor /\ open
  /\ place' = "out"
  /\ UNCHANGED <<estimator, lift, open, left, starts, inbox, floor>>

-----------------------------------------------------------------------------
\* The estimator may have been left on any floor by an earlier mission.
RideInit ==
  /\ \E f \in Stops :
       /\ active \in BOOLEAN /\ ready = active /\ since = (IF active THEN 0 ELSE NoTime)
       /\ dest = (IF active THEN TargetFloor ELSE NoFloor)
       /\ est = [Fresh EXCEPT !.floor = f] /\ seen = NoSamples /\ published = f
       /\ inbox = <<f>>
  /\ lift = Resting(StartFloor, FALSE) /\ open = TRUE
  /\ place = "boarded" /\ left = 0 /\ starts = 0 /\ floor = NoFloor

RideNext ==
  \/ \E f \in Stops : Depart(f)
  \/ MoveDoor \/ Tick \/ ReceiveStart \/ PublishTimer
  \/ StartEstimation \/ PublishStart \/ AwaitTarget \/ FloorCallback \/ LeaveLift

RideSpec == RideInit /\ [][RideNext]_rideVars

FairRide ==
  /\ RideSpec /\ WF_rideVars(Tick) /\ WF_rideVars(FloorCallback) /\ WF_rideVars(LeaveLift)

-----------------------------------------------------------------------------
\* Every variable has its type; no queue outgrows its depth.
RideTypeOK ==
  /\ TypeOK
  /\ lift \in [at : Stops, to : Stops, depart : 0..LongestRide, cruise : 0..LongestRide,
               brake : BrakeWindows \cup {0}, w : Nat, rested : BOOLEAN]
  /\ open \in BOOLEAN
  /\ place \in {"boarded", "starting", "pressing", "await", "out"}
  /\ left \in 0..StartRepeats /\ starts \in 0..StartRepeats
  /\ inbox \in Seq(Floors) /\ Len(inbox) <= QueueDepth
  /\ floor \in Floors \cup {NoFloor}

\* The estimate is the lift's floor whenever the lift has come to rest, however
\* many stops it makes on the way, and no trip is being timed then.
EstimateIsLiftFloor ==
  place = "await" /\ AtRest /\ lift.rested => est.floor = lift.at /\ ~est.running

\* The robot leaves the lift only where the lift stands at the target floor.
LeavesAtTarget ==
  [][place # "out" /\ place' = "out" => AtRest /\ lift.at = TargetFloor]_rideVars

\* A lift that stays at the target floor with its door open is left.
OpenTargetDoorIsTaken ==
  ~<>[](place = "await" /\ AtRest /\ lift.at = TargetFloor /\ open)
=============================================================================
