---------------------------- MODULE FirstManager -----------------------------
(***************************************************************************)
(* The delivery of elevator_delivery_manager.py, the first generation: the  *)
(* robot rides without pressing a button, turns towards the door, creeps up *)
(* to it and waits for the floor and for the door one after the other.      *)
(* run() has no finally clause: its return is the stage finally.            *)
(***************************************************************************)
EXTENDS Mission

VARIABLE trip   \* what the order and the parameters ask for

\* The target room is on the start floor; approach_door_after_rotate.
Trips == [sameFloor : BOOLEAN, creep : BOOLEAN]

FirstStages == {"start_pose", "nav_front", "inside_pose", "rotate", "creep", "await_floor",
                "target_pose", "nav_room"}

FirstInit == trip \in Trips

Silent == UNCHANGED <<hands, sound, trip>>
Rest   == UNCHANGED <<caches, waiting, motion>> /\ Silent

FirstValidate == Validate /\ UNCHANGED trip

FirstMapCall == (\E s \in Loads : LoadMapCall(s)) /\ UNCHANGED trip

FirstMapReply ==
  \E s \in Loads, reply \in LoadReplies :
    /\ At(s, "called") /\ Goto(IF s = "map_start" THEN "start_pose" ELSE "target_pose")
    /\ map' = IF reply = "success" THEN MapOf[s] ELSE map
    /\ UNCHANGED believed /\ Rest

\* The waypoint `start' is the room front; an order for the start floor skips
\* the elevator.
StartPose ==
  /\ At("start_pose", "enter") /\ Goto(IF trip.sameFloor THEN "nav_room" ELSE "nav_front")
  /\ PublishInitialPose("room_front") /\ Rest

-----------------------------------------------------------------------------
FirstNavs == {"nav_front", "nav_room"}
Aim == [nav_front |-> "elevator_front", nav_room |-> "destination"]
MotionElse == UNCHANGED <<caches, waiting, cmd>> /\ Silent

FirstNavSend(s) ==
  /\ At(s, "enter") /\ Step("sent")
  /\ nav' = "pending" /\ UNCHANGED location /\ MotionElse

FirstNavAccepted(s) ==
  /\ At(s, "sent") /\ Step("accepted")
  /\ nav' = "active" /\ UNCHANGED location /\ MotionElse

FirstNavSucceeded(s) ==
  /\ At(s, "accepted")
  /\ nav' = "idle" /\ believed' = [at |-> Aim[s], on |-> map] /\ UNCHANGED map
  /\ IF s = "nav_front" THEN Goto("door")
     ELSE stage' = "finally" /\ step' = "enter" /\ outcome' = "complete" /\ UNCHANGED param
  /\ MotionElse

\* On the start floor the result is not looked at: run() returns either way.
FirstNavFailed(s) ==
  /\ stage = s /\ step \in {"sent", "accepted"} /\ Fail
  /\ nav' = "idle" /\ UNCHANGED location /\ MotionElse

-----------------------------------------------------------------------------
FirstBeginWait == (\E s \in Waits : BeginWait(s)) /\ UNCHANGED trip

FirstDoor ==
  /\ \E fresh \in BOOLEAN : DoorAlreadyInside(fresh) \/ DoorWait(fresh)
  /\ UNCHANGED trip

\* Mutant: any scan of the second wait is taken for an open door.
FirstTargetDoorAnyScan ==
  /\ \E fresh \in BOOLEAN : WaitSpin("await", fresh) /\ Count(fresh)
  /\ IF scan' # NoScan THEN Goto("map_target") ELSE UNCHANGED progress
  /\ UNCHANGED <<believed, trip>>

\* The second wait looks at the door only: the floor was waited for before.
FirstTargetDoor ==
  /\ \E fresh \in BOOLEAN : WaitSpin("await", fresh) /\ Count(fresh)
  /\ IF stable' >= StableRequired THEN Goto("map_target") ELSE UNCHANGED progress
  /\ UNCHANGED <<believed, trip>>

FirstBoarding ==
  /\ stage = "board" /\ \/ step = "enter" /\ Step("drive")
                        \/ step = "skip" /\ Goto("inside_pose")
  /\ UNCHANGED location /\ Rest

\* drive_straight_simple on the way in and on the way out.
FirstDrive     == Drive /\ UNCHANGED trip
FirstDriveFail == step = "drive" /\ (DriveBlocked \/ BadSpeed) /\ UNCHANGED trip

\* Mutant: the last twist stays in force.
FirstDriveDoneMoving ==
  /\ step = "drive" /\ SpeedsOk
  /\ Goto(IF stage = "exit" THEN "relocate" ELSE "inside_pose")
  /\ UNCHANGED location /\ Rest

FirstDriveDone ==
  /\ step = "drive" /\ SpeedsOk
  /\ cmd' = "zero"
  /\ Goto(IF stage = "exit" THEN "relocate" ELSE "inside_pose")
  /\ UNCHANGED <<caches, waiting, nav, location>> /\ Silent

InsidePose ==
  /\ At("inside_pose", "enter") /\ Goto("estimate")
  /\ PublishInitialPose("elevator_inside") /\ Rest

\* The floor known so far is kept: only the later generations forget it.
FirstEstimation ==
  /\ At("estimate", "enter") /\ stage' = "rotate" /\ step' = "turn1"
  /\ UNCHANGED <<outcome, param, location>> /\ Rest

\* rotate_180_simple publishes a twist, for a given time.
Rotate ==
  /\ At("rotate", "turn1")
  /\ cmd' = "turn"
  /\ UNCHANGED <<progress, caches, waiting, nav, location>> /\ Silent

RotateDone ==
  /\ At("rotate", "turn1") /\ Goto(IF trip.creep THEN "creep" ELSE "await_floor")
  /\ cmd' = "zero"
  /\ UNCHANGED <<caches, waiting, nav, location>> /\ Silent

\* approach_door_until_wait_distance: too few valid returns do not stop it.
Creep ==
  /\ At("creep", "enter") /\ SpeedsOk
  /\ cmd' = "drive"
  /\ \E fresh \in BOOLEAN : Spin(fresh)
  /\ UNCHANGED <<progress, waiting, nav, location>> /\ Silent

\* The time, the distance or the door ends it, a speed of zero forbids it.
CreepDone ==
  /\ At("creep", "enter")
  /\ \/ SpeedsOk /\ Goto("await_floor") /\ cmd' = "zero"
     \/ ~SpeedsOk /\ Fail /\ UNCHANGED cmd
  /\ UNCHANGED <<caches, waiting, nav, location>> /\ Silent

FirstFloor ==
  /\ At("await_floor", "enter")
  /\ \E fresh \in BOOLEAN : Spin(fresh)
  /\ IF floor' = TargetFloor THEN Goto("await") ELSE UNCHANGED progress
  /\ UNCHANGED <<waiting, motion, location>> /\ Silent

\* A waypoint missing on the target floor raises only here.
TargetPose ==
  /\ At("target_pose", "enter")
  /\ \/ /\ "exit_distance" \in param.valid
        /\ stage' = "exit" /\ step' = "drive" /\ UNCHANGED <<outcome, param>>
        /\ PublishInitialPose("elevator_inside")
     \/ "exit_distance" \notin param.valid /\ Fail /\ UNCHANGED location
  /\ Rest

FirstRelocate ==
  /\ At("relocate", "enter") /\ Goto("nav_room")
  /\ PublishInitialPose("elevator_exit") /\ Rest

FirstReturn ==
  /\ At("finally", "enter")
  /\ stage' = "cleanup" /\ UNCHANGED <<step, outcome, param, location>> /\ Rest

FirstSpin ==
  /\ stage \notin {"creep", "await_floor"}
  /\ SpinOnce /\ UNCHANGED trip

FirstEnd == (Shutdown \/ Interrupt) /\ UNCHANGED trip

-----------------------------------------------------------------------------
\* What waits for the map server and for Nav2, without a timeout.
FirstServices ==
  \/ FirstMapCall \/ FirstMapReply
  \/ \E s \in FirstNavs :
       FirstNavSend(s) \/ FirstNavAccepted(s) \/ FirstNavSucceeded(s) \/ FirstNavFailed(s)

FirstProgress ==
  \/ FirstValidate \/ StartPose
  \/ FirstBeginWait \/ FirstBoarding \/ FirstDriveDone \/ InsidePose \/ FirstEstimation
  \/ FirstDriveFail \/ RotateDone \/ CreepDone \/ TargetPose \/ FirstRelocate \/ FirstReturn
  \/ (Shutdown /\ UNCHANGED trip)

FirstNext ==
  \/ FirstProgress \/ FirstServices \/ FirstDoor \/ FirstTargetDoor \/ FirstFloor
  \/ FirstDrive \/ Rotate \/ Creep \/ FirstSpin \/ FirstEnd

FirstSpec == Init /\ FirstInit /\ [][FirstNext]_<<vars, trip>>
=============================================================================
