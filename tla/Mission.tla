------------------------------ MODULE Mission ------------------------------
(***************************************************************************)
(* The delivery mission of elevator_delivery_final_with_manipulator.py:     *)
(* run(), the helpers it calls and the callbacks their spins execute, with  *)
(* the robot arm, Nav2, the map server and the mixer as environment.        *)
(*                                                                          *)
(* The node is single threaded and executes callbacks only inside its own   *)
(* spins, one callback per rclpy.spin_once.  A loop whose body looks at the *)
(* caches after each spin (the two door waits and the drive loop) is one    *)
(* action per iteration, the spin included.  Everywhere else the callbacks  *)
(* of a spin are the action SpinOnce, interleaved with the helper's steps.  *)
(*                                                                          *)
(* `stage' is the numbered step of run() being executed and `step' the      *)
(* position inside the helper that step calls.                              *)
(***************************************************************************)
EXTENDS Naturals

CONSTANTS
  Floors,          \* the floor indices a /current_floor message may carry
  TargetFloor,     \* target_floor_signal
  NoFloor,         \* current_floor = None
  StableRequired,  \* door_stable_count_required
  MaxScanGap,      \* lidar assumption: wait iterations in a row without a scan
  Fronts,          \* what the front sector of a scan may show
  LoadReplies,     \* result codes of /map_server/load_map, when it answers
  Params           \* the parameter sets the node may be started with

VARIABLES
  stage, step,     \* position in run()
  outcome,         \* how the mission ended
  param,           \* the parameters read in __init__
  scan,            \* self.scan, as get_door_stats and get_front_min_distance see it
  floor,           \* self.current_floor
  inside,          \* is_close_to_pose(elevator_inside) on self.current_pose
  done,            \* manipulator_btn1_done, manipulator_btn2_done
  stable,          \* stable_count of the door wait being executed
  cmd,             \* the last Twist published on cmd_vel
  goal,            \* the last value published on each arm goal topic
  nav,             \* the NavigateToPose goal of this node
  map,             \* the map served by the map server
  believed,        \* where AMCL was last put, and on which map
  sound,           \* the sound the mixer is playing
  arm, answer,     \* the arm's state and its done messages under way
  gap,             \* wait iterations since the last scan arrived
  openSeen         \* a scan received in the counted iterations showed the door open

progress == <<stage, step, outcome, param>>
caches   == <<scan, floor, inside, done, answer>>
waiting  == <<stable, gap, openSeen>>
motion   == <<cmd, nav>>
location == <<map, believed>>
hands    == <<goal, arm>>
vars == <<progress, caches, waiting, motion, location, hands, sound>>

-----------------------------------------------------------------------------
Loads   == {"map_start", "map_target"}
Navs    == {"nav_button", "nav_destination"}
Presses == {"press_out", "press_in"}
Moves   == {"approach", "board", "to_button", "to_exit"}
Waits   == {"door", "await"}
Stages  == Loads \cup Navs \cup Presses \cup Moves \cup Waits \cup
             {"validate", "room_front", "estimate", "exit", "relocate",
              "notify", "announce", "finally", "cleanup", "over"}
Steps   == {"enter", "called", "sent", "accepted", "lowered", "raised", "skip",
            "turn1", "drive", "turn2", "counting", "snack"}

\* The stage run() enters when the helper of a stage has returned True.
After == [map_start |-> "room_front", nav_button |-> "press_out",
          press_out |-> "approach", approach |-> "door", board |-> "estimate",
          to_button |-> "press_in", press_in |-> "to_exit", to_exit |-> "await",
          map_target |-> "exit", nav_destination |-> "notify"]

\* The waypoints of the forced moves and of the Nav2 goals.
From == [approach |-> "elevator_btn_front", board |-> "elevator_front",
         to_button |-> "elevator_inside", to_exit |-> "elevator_btn_inside"]
To   == [approach |-> "elevator_front", board |-> "elevator_inside",
         to_button |-> "elevator_btn_inside", to_exit |-> "elevator_inside_for_exit",
         nav_button |-> "elevator_btn_front", nav_destination |-> "destination"]

Maps      == {"none", "start", "target"}
MapOf     == [map_start |-> "start", map_target |-> "target",
              nav_button |-> "start", nav_destination |-> "target"]
Waypoints == {"unknown", "room_front", "elevator_btn_front", "elevator_front",
              "elevator_inside", "elevator_btn_inside", "elevator_inside_for_exit",
              "elevator_exit", "destination"}
Sounds    == {"starting_bgm", "destination", "give_snack", "exit"} \cup Moves
Files     == {"starting_bgm", "destination", "give_snack", "robot_for_move"}

\* What one scan says: the verdict of get_door_stats and the nearest return of
\* the front sector.  An open verdict needs eight valid returns of a sector
\* inside the front sector, so it never comes with an empty front sector.
Readings == {r \in [open : BOOLEAN, front : Fronts] : r.open => r.front # "none"}
NoScan   == [open |-> FALSE, front |-> "none"]

ParamSpace ==
  [checkObstacle : BOOLEAN,   \* forced_drive_check_obstacle
   doneTimeout   : BOOLEAN,   \* manipulator_done_timeout_sec > 0
   poseBefore    : BOOLEAN,   \* publish_initial_pose_before_forced_move
   poseAfter     : BOOLEAN,   \* publish_initial_pose_after_forced_move
   valid  : SUBSET {"waypoints", "speeds", "exit_distance"},
   files  : SUBSET Files]     \* sounds the mixer can play; {} when disabled

ASSUME ParamsAssumption == Params \subseteq ParamSpace
ASSUME DoorAssumption == StableRequired \in Nat \ {0} /\ MaxScanGap \in Nat
ASSUME FloorAssumption == NoFloor \notin Floors /\ TargetFloor \in Floors
ASSUME FrontAssumption == Fronts \subseteq {"none", "near", "clear"}
ASSUME ReplyAssumption == LoadReplies \subseteq {"error", "success"}

Init ==
  /\ stage = "validate" /\ step = "enter" /\ outcome = "running"
  /\ param \in Params
  /\ scan = NoScan /\ floor = NoFloor /\ inside = FALSE
  /\ done = [h \in Presses |-> FALSE] /\ answer = [h \in Presses |-> FALSE]
  /\ stable = 0 /\ gap = 0 /\ openSeen = FALSE
  /\ cmd = "zero" /\ nav = "idle"
  /\ map \in Maps /\ believed = [at |-> "unknown", on |-> "none"]
  /\ goal = [g \in Presses \cup {"destination"} |-> FALSE]
  /\ arm = [h \in Presses |-> "rest"]
  /\ sound = "none"

-----------------------------------------------------------------------------
(***************************************************************************)
(* Control helpers.                                                         *)
(***************************************************************************)
At(s, p) == stage = s /\ step = p
Goto(s)  == stage' = s /\ step' = "enter" /\ UNCHANGED <<outcome, param>>
Step(p)  == step' = p /\ UNCHANGED <<stage, outcome, param>>
\* A helper returned False or raised: run() leaves through its finally clause.
Fail     == /\ stage' = "finally" /\ step' = "enter" /\ outcome' = "failed"
            /\ UNCHANGED param

-----------------------------------------------------------------------------
(***************************************************************************)
(* Callbacks, and what one rclpy.spin_once may execute.                     *)
(***************************************************************************)
ScanCallback ==
  \E r \in Readings : scan' = r /\ UNCHANGED <<floor, inside, done, answer>>

FloorCallback ==
  \E f \in Floors : floor' = f /\ UNCHANGED <<scan, inside, done, answer>>

AmclCallback ==
  \E b \in BOOLEAN : inside' = b /\ UNCHANGED <<scan, floor, done, answer>>

\* A done message only ever raises the flag; the arm may send it again.
DoneCallback ==
  \E h \in Presses, again \in BOOLEAN :
    /\ answer[h]
    /\ done' = [done EXCEPT ![h] = TRUE]
    /\ answer' = [answer EXCEPT ![h] = again]
    /\ UNCHANGED <<scan, floor, inside>>

OtherCallback == FloorCallback \/ AmclCallback \/ DoneCallback \/ UNCHANGED caches

Spin(fresh) == IF fresh THEN ScanCallback ELSE OtherCallback

\* A spin of a helper that does not look at the caches between two spins.
SpinOnce ==
  /\ stage \notin Waits \cup {"validate", "cleanup", "over"}
  /\ step # "drive"
  /\ \E fresh \in BOOLEAN : Spin(fresh)
  /\ UNCHANGED <<progress, waiting, motion, location, hands, sound>>

-----------------------------------------------------------------------------
(***************************************************************************)
(* LocalMp3Speaker.  Every once_key is used by one call of the mission.     *)
(***************************************************************************)
FileOf(key) == IF key \in Moves \cup {"exit"} THEN "robot_for_move" ELSE key

\* Mutant: the file name takes the place of the once_key.
PlayOnceByFile(key) ==
  sound' = IF FileOf(key) \in param.files THEN FileOf(key) ELSE sound

PlayOnce(key) ==
  sound' = IF FileOf(key) \in param.files THEN key ELSE sound

MusicEnds ==
  /\ sound # "none" /\ sound' = "none"
  /\ UNCHANGED <<progress, caches, waiting, motion, location, hands>>

-----------------------------------------------------------------------------
(***************************************************************************)
(* Waypoint validation, maps and Nav2.  load_map and go_to_pose wait for    *)
(* their server, its reply and its result without a timeout: a server that  *)
(* stays away is an action that is never taken.                             *)
(***************************************************************************)
Validate ==
  /\ At("validate", "enter")
  /\ \/ /\ "waypoints" \in param.valid
        /\ Goto("map_start")
     \/ /\ "waypoints" \notin param.valid
        /\ stage' = "cleanup" /\ outcome' = "failed" /\ UNCHANGED <<step, param>>
  /\ UNCHANGED <<caches, waiting, motion, location, hands, sound>>

LoadMapCall(s) ==
  /\ At(s, "enter") /\ Step("called")
  /\ UNCHANGED <<caches, waiting, motion, location, hands, sound>>

\* Mutant: the mission goes on when the reply is late.
LoadMapNotAwaited(s) ==
  /\ At(s, "called") /\ Goto(After[s])
  /\ map' \in {map, MapOf[s]}
  /\ UNCHANGED <<caches, waiting, motion, believed, hands, sound>>

\* The result code of the reply is only logged.
LoadMapReply(s) ==
  /\ At(s, "called") /\ Goto(After[s])
  /\ \E reply \in LoadReplies : map' = IF reply = "success" THEN MapOf[s] ELSE map
  /\ UNCHANGED <<caches, waiting, motion, believed, hands, sound>>

PublishInitialPose(p) == believed' = [at |-> p, on |-> map] /\ UNCHANGED map

RoomFront ==
  /\ At("room_front", "enter")
  /\ PublishInitialPose("room_front")
  /\ IF sound = "none" THEN PlayOnce("starting_bgm") ELSE UNCHANGED sound
  /\ Goto("nav_button")
  /\ UNCHANGED <<caches, waiting, motion, hands>>

NavSend(s) ==
  /\ At(s, "enter") /\ Step("sent")
  /\ nav' = "pending"
  /\ UNCHANGED <<caches, waiting, cmd, location, hands, sound>>

NavAccepted(s) ==
  /\ At(s, "sent") /\ Step("accepted")
  /\ nav' = "active"
  /\ UNCHANGED <<caches, waiting, cmd, location, hands, sound>>

NavSucceeded(s) ==
  /\ At(s, "accepted") /\ Goto(After[s])
  /\ nav' = "idle"
  /\ believed' = [at |-> To[s], on |-> map]
  /\ UNCHANGED <<caches, waiting, cmd, map, hands, sound>>

\* Mutant: the status of the result is not looked at.
NavStatusIgnored(s) ==
  /\ At(s, "accepted") /\ Goto(After[s])
  /\ nav' = "idle"
  /\ UNCHANGED <<caches, waiting, cmd, location, hands, sound>>

\* Rejected, or ended with any other status than STATUS_SUCCEEDED.
NavFailed(s) ==
  /\ stage = s /\ step \in {"sent", "accepted"} /\ Fail
  /\ nav' = "idle"
  /\ UNCHANGED <<caches, waiting, cmd, location, hands, sound>>

-----------------------------------------------------------------------------
(***************************************************************************)
(* send_manipulator_goal_and_wait and publish_manipulator_goal_only.  A     *)
(* goal topic is latched and republished, so only its last value counts.    *)
(***************************************************************************)
SetGoal(g, v) == goal' = [goal EXCEPT ![g] = v] /\ UNCHANGED arm

LowerGoal(s) ==
  /\ At(s, "enter") /\ Step("lowered")
  /\ done' = [done EXCEPT ![s] = FALSE]
  /\ SetGoal(s, FALSE)
  /\ UNCHANGED <<scan, floor, inside, answer, waiting, motion, location, sound>>

RaiseGoal(s) ==
  /\ At(s, "lowered") /\ Step("raised")
  /\ SetGoal(s, TRUE)
  /\ UNCHANGED <<caches, waiting, motion, location, sound>>

\* Mutant: the goal stays raised once the arm has answered.
PressDoneKeepsGoal(s) ==
  /\ At(s, "raised") /\ done[s] /\ Goto(After[s])
  /\ UNCHANGED <<caches, waiting, motion, location, hands, sound>>

PressDone(s) ==
  /\ At(s, "raised") /\ done[s] /\ Goto(After[s])
  /\ SetGoal(s, FALSE)
  /\ UNCHANGED <<caches, waiting, motion, location, sound>>

\* Mutant: the mission goes on when the arm does not answer in time.
PressTimeoutGoesOn(s) ==
  /\ At(s, "raised") /\ ~done[s] /\ param.doneTimeout /\ Goto(After[s])
  /\ SetGoal(s, FALSE)
  /\ UNCHANGED <<caches, waiting, motion, location, sound>>

\* Mutant: the goal stays raised after a timeout.
PressTimeoutKeepsGoal(s) ==
  /\ At(s, "raised") /\ ~done[s] /\ param.doneTimeout /\ Fail
  /\ UNCHANGED <<caches, waiting, motion, location, hands, sound>>

\* Mutant: every republication restarts the timeout, which never elapses.
PressTimeoutRestarted(s) == FALSE

PressTimeout(s) ==
  /\ At(s, "raised") /\ ~done[s] /\ param.doneTimeout /\ Fail
  /\ SetGoal(s, FALSE)
  /\ UNCHANGED <<caches, waiting, motion, location, sound>>

NotifyArm ==
  /\ At("notify", "enter") /\ Goto("announce")
  /\ SetGoal("destination", TRUE)
  /\ UNCHANGED <<caches, waiting, motion, location, sound>>

-----------------------------------------------------------------------------
(***************************************************************************)
(* force_move_between_waypoints: wait for the mixer, re-localise, turn,     *)
(* drive, turn, re-localise.  Turning and driving are open loop: they last  *)
(* for a computed duration, which may be zero.                              *)
(***************************************************************************)
SpeedsOk == "speeds" \in param.valid

BeginMove(s) ==
  /\ At(s, "enter") /\ sound = "none"
  /\ PlayOnce(s)
  /\ IF param.poseBefore THEN PublishInitialPose(From[s]) ELSE UNCHANGED location
  /\ Step("turn1")
  /\ UNCHANGED <<caches, waiting, motion, hands>>

Turn ==
  /\ step \in {"turn1", "turn2"} /\ SpeedsOk
  /\ cmd' = "turn"
  /\ UNCHANGED <<progress, caches, waiting, nav, location, hands, sound>>

\* The turn is over (or was too small to make): stop_robot.
FirstTurnDone(s) ==
  /\ At(s, "turn1") /\ Step("drive")
  /\ cmd' = "zero"
  /\ UNCHANGED <<caches, waiting, nav, location, hands, sound>>

LastTurnDone(s) ==
  /\ At(s, "turn2") /\ Goto(After[s])
  /\ cmd' = "zero"
  /\ IF param.poseAfter THEN PublishInitialPose(To[s]) ELSE UNCHANGED location
  /\ UNCHANGED <<caches, waiting, nav, hands, sound>>

\* rotate_speed or the drive speed is not usable: nothing has been published.
BadSpeed ==
  /\ step \in {"turn1", "drive", "turn2"} /\ ~SpeedsOk /\ Fail
  /\ UNCHANGED <<caches, waiting, motion, location, hands, sound>>

Blocked == param.checkObstacle /\ scan.front # "clear"

\* Mutant: the front sector is looked at before the first twist only.
DriveCheckedOnce ==
  /\ step = "drive" /\ SpeedsOk /\ (cmd = "drive" \/ ~Blocked)
  /\ cmd' = "drive"
  /\ \E fresh \in BOOLEAN : Spin(fresh)
  /\ UNCHANGED <<progress, waiting, nav, location, hands, sound>>

\* One iteration of the drive loop: look at the cached scan, publish, spin.
Drive ==
  /\ step = "drive" /\ SpeedsOk /\ ~Blocked
  /\ cmd' = "drive"
  /\ \E fresh \in BOOLEAN : Spin(fresh)
  /\ UNCHANGED <<progress, waiting, nav, location, hands, sound>>

DriveBlocked ==
  /\ step = "drive" /\ SpeedsOk /\ Blocked /\ Fail
  /\ cmd' = "zero"
  /\ UNCHANGED <<caches, waiting, nav, location, hands, sound>>

\* The duration has elapsed; a forced move over no distance does not drive.
DriveDone ==
  /\ step = "drive" /\ (SpeedsOk \/ stage # "exit")
  /\ cmd' = "zero"
  /\ IF stage = "exit" THEN Goto("relocate") ELSE Step("turn2")
  /\ UNCHANGED <<caches, waiting, nav, location, hands, sound>>

-----------------------------------------------------------------------------
(***************************************************************************)
(* The door waits.  One action is one iteration: spin_once, then the tests  *)
(* of the loop body on the caches that spin left.                           *)
(***************************************************************************)
BeginWait(s) ==
  /\ At(s, "enter") /\ Step("counting")
  /\ stable' = 0 /\ gap' = 0 /\ openSeen' = FALSE
  /\ UNCHANGED <<caches, motion, location, hands, sound>>

\* The spin of a wait iteration, under the assumption on the lidar.
WaitSpin(s, fresh) ==
  /\ At(s, "counting")
  /\ Spin(fresh)
  /\ gap' = IF fresh THEN 0 ELSE gap + 1
  /\ gap' <= MaxScanGap
  /\ UNCHANGED <<motion, map, hands, sound>>

\* Mutant: an iteration without a new scan restarts the count.
CountFreshOnly(fresh) ==
  IF scan'.open /\ fresh
  THEN stable' = stable + 1 /\ openSeen' = TRUE
  ELSE stable' = 0 /\ openSeen' = FALSE

\* stable_count: it counts iterations that find an open verdict in the cache.
Count(fresh) ==
  IF scan'.open
  THEN stable' = stable + 1 /\ openSeen' = (openSeen \/ fresh)
  ELSE stable' = 0 /\ openSeen' = FALSE

\* wait_until_door_open, and the choice run() makes on its return without
\* another spin: the robot is inside already, or it has to board.
DoorAlreadyInside(fresh) ==
  /\ WaitSpin("door", fresh) /\ inside'
  /\ stage' = "board" /\ step' = "skip"
  /\ UNCHANGED <<outcome, param, stable, openSeen, believed>>

DoorWait(fresh) ==
  /\ WaitSpin("door", fresh) /\ ~inside' /\ Count(fresh)
  /\ IF stable' >= StableRequired THEN Goto("board") ELSE UNCHANGED progress
  /\ UNCHANGED believed

SkipBoarding ==
  /\ At("board", "skip") /\ Goto("estimate")
  /\ PublishInitialPose("elevator_inside")
  /\ UNCHANGED <<caches, waiting, motion, hands, sound>>

\* start_elevator_floor_estimation forgets the floor known so far.
StartEstimation ==
  /\ At("estimate", "enter") /\ Goto("to_button")
  /\ floor' = NoFloor
  /\ UNCHANGED <<scan, inside, done, answer, waiting, motion, location, hands, sound>>

\* Mutant: the count survives the iterations that are not at the target floor.
AwaitFloorKeepsCount(fresh) ==
  /\ WaitSpin("await", fresh) /\ floor' # TargetFloor
  /\ openSeen' = FALSE
  /\ UNCHANGED <<progress, stable, believed>>

\* wait_until_target_floor_then_door_open.
AwaitFloor(fresh) ==
  /\ WaitSpin("await", fresh) /\ floor' # TargetFloor
  /\ stable' = 0 /\ openSeen' = FALSE
  /\ UNCHANGED <<progress, believed>>

AwaitDoor(fresh) ==
  /\ WaitSpin("await", fresh) /\ floor' = TargetFloor /\ Count(fresh)
  /\ IF stable' >= StableRequired THEN Goto("map_target") ELSE UNCHANGED progress
  /\ UNCHANGED believed

-----------------------------------------------------------------------------
(***************************************************************************)
(* Leaving the elevator, the announcements and the end of the process.      *)
(***************************************************************************)
BeginExit ==
  /\ At("exit", "enter")
  /\ \/ /\ "exit_distance" \notin param.valid      \* compute_exit_distance raises
        /\ Fail /\ UNCHANGED sound
     \/ /\ "exit_distance" \in param.valid /\ sound = "none"
        /\ PlayOnce("exit")
        /\ Step("drive")
  /\ UNCHANGED <<caches, waiting, motion, location, hands>>

Relocate ==
  /\ At("relocate", "enter") /\ Goto("nav_destination")
  /\ PublishInitialPose("elevator_exit")
  /\ UNCHANGED <<caches, waiting, motion, hands, sound>>

AnnounceArrival ==
  /\ At("announce", "enter") /\ sound = "none"
  /\ PlayOnce("destination")
  /\ Step("snack")
  /\ UNCHANGED <<caches, waiting, motion, location, hands>>

AnnounceSnack ==
  /\ At("announce", "snack") /\ sound = "none"
  /\ PlayOnce("give_snack")
  /\ stage' = "finally" /\ step' = "enter" /\ outcome' = "complete"
  /\ UNCHANGED <<param, caches, waiting, motion, location, hands>>

\* The finally clause of run(): stop_robot.
StopRobot ==
  /\ At("finally", "enter") /\ stage' = "cleanup" /\ UNCHANGED <<step, outcome, param>>
  /\ cmd' = "zero"
  /\ UNCHANGED <<caches, waiting, nav, location, hands, sound>>

\* The finally clause of main(): speaker.shutdown stops the mixer.
Shutdown ==
  /\ stage = "cleanup" /\ stage' = "over" /\ UNCHANGED <<step, outcome, param>>
  /\ sound' = "none"
  /\ UNCHANGED <<caches, waiting, motion, location, hands>>

\* Ctrl-C shuts the context down: stop_robot may then fail to publish.
Interrupt ==
  /\ stage \notin {"validate", "cleanup", "over"}
  /\ stage' = "over" /\ step' = "enter" /\ outcome' = "interrupted" /\ UNCHANGED param
  /\ cmd' \in {cmd, "zero"} /\ sound' = "none"
  /\ UNCHANGED <<caches, waiting, nav, location, hands>>

-----------------------------------------------------------------------------
(***************************************************************************)
(* The environment: the arm starts on a rising edge of its goal and answers *)
(* when it has finished; a goal left behind by Ctrl-C runs to its end.      *)
(***************************************************************************)
ArmUpdate(h, from, to) == arm[h] = from /\ arm' = [arm EXCEPT ![h] = to]

ArmStarts(h) ==
  /\ goal[h] /\ ArmUpdate(h, "rest", "working")
  /\ UNCHANGED <<progress, caches, waiting, motion, location, goal, sound>>

ArmAnswers(h) ==
  /\ ArmUpdate(h, "working", "pressed")
  /\ answer' = [answer EXCEPT ![h] = TRUE]
  /\ UNCHANGED <<progress, scan, floor, inside, done, waiting, motion, location, goal, sound>>

ArmSeesClear(h) ==
  /\ ~goal[h] /\ ArmUpdate(h, "pressed", "rest")
  /\ UNCHANGED <<progress, caches, waiting, motion, location, goal, sound>>

OrphanGoalEnds ==
  /\ stage = "over" /\ nav # "idle" /\ nav' = "idle"
  /\ UNCHANGED <<progress, caches, waiting, cmd, location, hands, sound>>

Terminated == stage = "over" /\ UNCHANGED vars

-----------------------------------------------------------------------------
\* The steps of the node that do not depend on what the environment does next.
Node ==
  \/ Validate \/ RoomFront \/ NotifyArm
  \/ \E s \in Loads : LoadMapCall(s) \/ LoadMapReply(s)
  \/ \E s \in Navs : NavSend(s) \/ NavAccepted(s) \/ NavSucceeded(s) \/ NavFailed(s)
  \/ \E s \in Presses : LowerGoal(s) \/ RaiseGoal(s) \/ PressDone(s) \/ PressTimeout(s)
  \/ \E s \in Moves : BeginMove(s) \/ FirstTurnDone(s) \/ LastTurnDone(s)
  \/ Turn \/ BadSpeed \/ DriveBlocked \/ DriveDone \/ Drive
  \/ \E s \in Waits : BeginWait(s)
  \/ \E fresh \in BOOLEAN :
       DoorAlreadyInside(fresh) \/ DoorWait(fresh) \/ AwaitFloor(fresh) \/ AwaitDoor(fresh)
  \/ SkipBoarding \/ StartEstimation \/ BeginExit \/ Relocate
  \/ AnnounceArrival \/ AnnounceSnack \/ StopRobot \/ Shutdown

Environment ==
  \/ MusicEnds \/ Interrupt \/ OrphanGoalEnds
  \/ \E h \in Presses : ArmStarts(h) \/ ArmAnswers(h) \/ ArmSeesClear(h)

Next == Node \/ SpinOnce \/ Environment \/ Terminated

Spec == Init /\ [][Next]_vars

\* What the node's own thread gets done eventually: every helper step but the
\* repetitions of a loop.  An elapsed duration ends a turn or a drive, an elapsed
\* timeout a handshake.  Nothing is assumed of the map server, Nav2, the arm, the
\* doors or the floor estimate.
Progress ==
  \/ Validate \/ RoomFront \/ NotifyArm \/ SkipBoarding \/ StartEstimation
  \/ \E s \in Presses : LowerGoal(s) \/ RaiseGoal(s) \/ PressDone(s) \/ PressTimeout(s)
  \/ \E s \in Moves : BeginMove(s) \/ FirstTurnDone(s) \/ LastTurnDone(s)
  \/ \E s \in Waits : BeginWait(s)
  \/ BadSpeed \/ DriveBlocked \/ DriveDone \/ BeginExit \/ Relocate
  \/ AnnounceArrival \/ AnnounceSnack \/ StopRobot \/ Shutdown

WaitIteration ==
  \E fresh \in BOOLEAN :
    DoorAlreadyInside(fresh) \/ DoorWait(fresh) \/ AwaitFloor(fresh) \/ AwaitDoor(fresh)

-----------------------------------------------------------------------------
(***************************************************************************)
(* Properties.                                                              *)
(***************************************************************************)
\* Every variable has its type; every cache holds what its callback may store.
TypeOK ==
  /\ stage \in Stages /\ step \in Steps
  /\ outcome \in {"running", "complete", "failed", "interrupted"}
  /\ param \in Params
  /\ scan \in Readings \cup {NoScan} /\ floor \in Floors \cup {NoFloor}
  /\ inside \in BOOLEAN
  /\ done \in [Presses -> BOOLEAN] /\ answer \in [Presses -> BOOLEAN]
  /\ stable \in Nat /\ gap \in Nat /\ openSeen \in BOOLEAN
  /\ cmd \in {"zero", "turn", "drive"} /\ nav \in {"idle", "pending", "active"}
  /\ map \in Maps /\ believed \in [at : Waypoints, on : Maps]
  /\ goal \in [Presses \cup {"destination"} -> BOOLEAN]
  /\ arm \in [Presses -> {"rest", "working", "pressed"}]
  /\ sound \in Sounds \cup {"none"}

\* The base never moves while the arm works at a button panel: no twist other
\* than zero is in force and no Nav2 goal is open between the arm's start and
\* its answer, whichever way the handshake ends (send_manipulator_goal_and_wait
\* and everything run() does after it).
ArmWorksAtStandstill ==
  \A h \in Presses : arm[h] = "working" => cmd = "zero" /\ nav = "idle"

\* Forced motion and Nav2 never command the base at the same time, and neither
\* does so while a button goal is still raised for the arm.
OneMotionAuthority ==
  /\ cmd # "zero" => nav = "idle"
  /\ cmd # "zero" \/ nav # "idle" => \A h \in Presses : ~goal[h]

\* A door the robot drives through was seen open: the forced boarding and the
\* exit happen only after a scan received during the wait showed the door open in
\* the run of counted iterations; where floor and door are waited for together
\* (wait_until_target_floor_then_door_open) it arrived while the floor was the
\* target.  The stale cache of wait_until_door_open must not be enough, and the
\* choice between boarding and skipping must agree with why the wait ended.
DoorSeenOpen ==
  \/ stage = "board" /\ step # "skip"
  \/ stage \in {"map_target", "exit"}
  => openSeen

\* Nav2 is asked to plan only on the map of the robot's floor, and only after
\* AMCL was re-localised on that very map (load_map, then publish_initial_pose).
NavStartsLocalised ==
  stage \in Navs /\ nav # "idle" =>
    /\ map = MapOf[stage]
    /\ believed = [at |-> IF stage = "nav_button" THEN "room_front" ELSE "elevator_exit",
                   on |-> map]

\* Unless Ctrl-C cuts it short, a mission leaves nothing behind on any of its
\* return paths: no twist, no Nav2 goal, no raised button goal.
EndsAtRest ==
  stage = "over" /\ outcome # "interrupted" =>
    cmd = "zero" /\ nav = "idle" /\ \A h \in Presses : ~goal[h]

\* The destination goal of the arm and the outcome "complete" tell the truth:
\* both buttons were pressed and Nav2 reached the destination.
CompleteMeansDelivered ==
  goal["destination"] \/ outcome = "complete" =>
    /\ \A h \in Presses : done[h] /\ arm[h] # "working"
    /\ believed.at = "destination"

\* With the obstacle check on, no twist follows a scan that shows something too
\* close or nothing at all: the next thing the drive loop does is to stop.
StopsOnObstacle ==
  [][step = "drive" /\ Blocked => cmd' = "zero" \/ UNCHANGED <<cmd, scan, floor>>]_vars

\* The exit starts from evidence gathered at the target floor: an open verdict
\* of a scan that arrived before the floor was reached does not count
\* (wait_until_target_floor_then_door_open announces that it is ignored).
EarlierOpenDoorIgnored == stage = "map_target" => openSeen

\* From the switch of maps on, the map server serves the target floor's map.
TargetMapServed ==
  stage \in {"exit", "relocate", "nav_destination", "notify", "announce"} => map = "target"

\* An announcement, once started, plays to its end in a mission that completes.
AnnouncementsPlayOut ==
  [][sound # "none" /\ sound' # sound => MusicEnds \/ outcome' # "complete"]_vars

\* A door that stays open, at the target floor when leaving, is taken: no
\* pattern of other callbacks between the scans keeps the count from filling.
OpenDoorIsTaken ==
  /\ ~<>[](stage = "door" /\ scan.open)
  /\ ~<>[](stage = "await" /\ scan.open /\ floor = TargetFloor)
=============================================================================
