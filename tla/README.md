# Verification of the elevator delivery robot

This directory models, checks and proves properties of the programs in `src/`: a
mobile robot with an arm that leaves a room, presses the elevator's call button,
rides from the third floor to B1 and delivers a snack; and the other nodes such a robot
runs: the workcell it can serve instead, its navigators, its wheels, its arm, its voice. The modules are translated
from the code, not from its documents.

Commands, inside this directory: `tlc -config MissionSafety.cfg MCMission` checks a
run (the list is in `PROJECT.json`), `tlapm MissionProofs.tla` checks the proofs of a
module.

## 1. Inventory

| Part (under `src/src/`) | State it keeps | Operations | Talks to |
|---|---|---|---|
| **Delivery mission** `amr_navigator/.../elevator_delivery_final_with_manipulator.py` | the position in `run()`, caches of scan, floor and pose, the two done flags, the sounds played | the sixteen numbered steps of `run()`: map switch, initial pose, Nav2 goals, arm handshakes, forced moves, door waits, floor estimation, exit, announcements | map server (service), Nav2 (action), arm (latched Bool topics), floor estimator (topics), lidar, base (`cmd_vel`), mixer |
| **Floor estimator** `ebimu_pkg/.../elevator_floor_node.py` | current and destination floor, window counters, consecutive windows, trip timer, baseline | start command, IMU sample, one-second publication | IMU driver, mission |
| **Workcell** `serial_test/.../serial_comm_fsm_node.py`, `serial_flag_bridge.py`, `amr_navigator/.../x_yaml_waypoint_follower.py` | current waypoint, task list and index, timers; sequence index, set of done names | arrival, serial line, resend, timeout; goal response, result, done | each other over topics and a serial line |
| **Earlier delivery nodes** `elevator_delivery_final.py`, `elevator_delivery_manager2.py`, `elevator_delivery_manager.py` | as the mission; the first also the `yolov8_node` process it starts, the latest detections, a candidate button | as the mission, with button detections, fixed waits, or no button at all in the place of the arm | as the mission, and a child process |
| **Navigator** `amr_navigator/.../navigator_main.py` | goal in progress, goal handle, one pending command | command, goal response, result, readiness timer | Nav2 (action) |
| **Control centre clients** `x_navigator.py`, `x_waypoint_follower_client.py` | goal accepted, destination or start command, last command, goal handle | start, waypoints, kill, goal response, result, cancel answer | control centre (topics), Nav2 (action) |
| **Speaker node** `tts_speaker/.../tts_speaker_node.py` | alarm flag, mixer | four commands, monitor timer | mixer |
| **Marker manager** `manipulator_manager/.../marker_command_manager.py` | last marker, active goal, handle | marker, go/cancel/clear, responses | MoveGroup (action) |
| **Arm serial driver and firmware** `serial_test/.../manipulator_driver.py`, `firmware/` | none besides the line's buffers | move and wait for the acknowledgement, state request | serial line |
| **Base node** `serial_test/.../test_node_main.py`, `motor_driver.py` | target and last read wheel positions, odometry, control mode | twist, joystick, control timer, exchange of a command for a frame | motor controller (serial line) |
| **Perception** `camera_perception_pkg`, IMU driver | images, samples | detection, parsing | topics |

Perception, the IMU driver, older base nodes, one-way serial publishers, launch files,
vendored drivers and filters (`laser_filters`, `sllidar_ros2`, `realsense-ros`,
`ros2_laser_scan_merger`) and the path-planning samples are listed under `components` in
`PROJECT.json` and not modelled (section 5).

What is hard, per part, is listed line by line under `hazards` in `PROJECT.json`. In short:

* *Mission.* One thread that executes callbacks inside its own waits: every loop reads
  caches that any number of callbacks, or none, may have refreshed. Handshakes with an
  arm that answers late, twice or never; services and actions that fail; returns from
  the middle of a motion; Ctrl-C at any point. Correct means: the base stands still
  while the arm works, no door is driven through that was not seen open, Nav2 plans on
  the right map from the right pose, every return leaves robot and arm at rest, a
  delivery is only announced if it took place.
* *Floor estimator.* Fifteen start commands in a row, each restarting the session;
  windows and timers over noisy samples; a timer started by the deceleration of the
  trip it has just measured. Correct means: the floor published is the floor of the lift.
* *Earlier delivery nodes.* A child process that Ctrl-C does not reach; detections that
  age in a cache; no `finally` clause. Correct means, besides the above: no process is
  left behind, no button is taken for pressed on one frame.
* *Workcell.* Requests that are resent, lost and confirmed late, with nothing in a
  confirmation that tells which visit it is for. Correct means: every task of every visit
  is performed once, in order, before the robot leaves.
* *Navigator, control centre clients, marker manager.* Answers and results of goals that
  have been replaced, meeting the state of the goal that replaced them. Correct means: the
  last command wins, one motion at a time, what is reported is so.
* *Arm serial driver, base node.* Answers that are lost, late, or cut, on a line where
  nothing says which command is answered. Correct means: an acknowledgement is the call's
  own; a base that nobody asked to move stands.
* *Speaker node.* A callback that blocks the only executor thread.

## 2. Modules

| Module | Contents |
|---|---|
| `Mission.tla` | the delivery mission and its environment, its properties |
| `MCMission.tla` | the parameter sets of the runs |
| `MissionProofs.tla` | theorems about `Mission` |
| `FloorEstimator.tla` | the floor estimator, sample by sample |
| `FloorEstimatorProofs.tla` | theorems about `FloorEstimator` and its functions |
| `ElevatorRide.tla` | extends `FloorEstimator` by a lift and by the mission from the start of the estimation to the exit |
| `MCElevatorRide.tla` | the code's threshold table in windows |
| `ElevatorRideProofs.tla` | the inductive invariant of the ride and its theorems |
| `ButtonMission.tla`, `TimedMission.tla`, `FirstManager.tla` | the three earlier delivery nodes, each on top of `Mission` |
| `MCVariants.tla` | the four generations of the delivery node in one state space, with the fairness of each |
| `VariantProofs.tla` | theorems about the three earlier nodes |
| `WorkPlan.tla` | what tours and task plans say; when requests that follow each other differ (`Telling`) |
| `Tour.tla` | the promise of the workcell, without a message in it |
| `Workcell.tla` | waypoint follower, serial FSM, bridge, line and station; implements `Tour` |
| `MCWorkcell.tla` | the configurations of its runs |
| `WorkcellProofs.tla` | types, and that a visit is in one hand |
| `WorkcellRefinement.tla` | the protocol between FSM and station, from it that the robot stands while the station works and that `Workcell` implements `Tour` |
| `Navigator.tla`, `CenterClients.tla`, `MarkerManager.tla`, `TtsSpeaker.tla`, `ArmSerial.tla` | one node each, with the server or the line it talks to |
| `MCNodes.tla` | the five of them, `FloorEstimator` with a short threshold table and `BaseNode`, in one state space |
| `PeripheralProofs.tla` | theorems about the five |
| `BaseNode.tla`, `BaseNodeProofs.tla` | the wheel base node with its motor driver, and theorems about it |

Where one state space holds several programs (`MCVariants`, `MCNodes`), a variable chosen initially says which of them a behaviour is about; the
others keep their initial state. They share nothing in the code either.

### Mission

`stage` is the numbered step of `run()` and `step` the position inside the helper that
step calls; the table of the correspondence is `map` in `PROJECT.json`. The variables
`scan`, `floor`, `inside` and `done` are the node's caches (`self.scan`,
`self.current_floor`, `self.current_pose` as `is_close_to_pose` sees it, the two done
flags). `stable` is `stable_count`. `cmd`, `goal`, `nav`, `map`, `believed` and `sound`
are what the node has commanded: the last twist, the last value on each arm goal topic,
its Nav2 goal, the map served, AMCL's last initial pose with the map it was given on,
the sound in the mixer. `arm` and `answer` are the arm and its done messages under way.
`gap` and `openSeen` observe the door waits: the iterations since the last scan, and
whether a scan received in the counted iterations showed the door open.

*Interleaving.* `rclpy.spin_once` executes at most one callback. The two door waits and
the drive loop read the caches after every spin, so one iteration, spin included, is one
action. All other helpers spin without looking; there `SpinOnce` interleaves freely
with the steps of the helper.

*Abstractions.* A scan is the verdict of `get_door_stats` and the nearest return of the
front sector, related as the code relates them (an open verdict needs eight valid
returns in a sector that lies inside the front sector). Distances, angles and durations
do not appear: a turn or a drive may end after any number of iterations, also none (a
turn by almost zero and a move over no distance are skipped by the code). The repeated
publications on a goal topic, which is latched, are one change of its value. The costmap
clearing is best effort and changes nothing the mission reads. `stop_yolov8_node` and
`clear_button_latches` act on state that this `run()` never sets up. Each `once_key` is
used by one call, so the set of played keys decides nothing. The door and front sectors,
the pose radius and the wait times are parameters whose effect is the nondeterminism
above.

*Environment.* The arm starts on a raised goal, answers once it has finished and
may repeat its done message, sees the goal lowered, and starts again only after that.
The map server answers success, an error code, or not at all; Nav2 accepts, rejects,
succeeds, fails, or does not answer, and keeps a goal for a while after Ctrl-C. `load_map` and
`go_to_pose` wait for these answers without a timeout: a missing one is a step that never comes
(`LoadMapReply`, `NavAccepted`, `NavSucceeded` have no fairness), not a failure. The mixer falls idle at
any time.

### FloorEstimator

`active`, `dest`, `ready` and `published` are `self.active`, `dest_floor_idx`,
`baseline_ready` and the last value on `/current_floor`. `est` groups what a window
changes: `current_floor_idx` (`floor`), `arrival_logged` (`arrived`), the counts of
windows in a row (`up`, `down`) and the timer (`running`, `mode`, `time`). `since` is the
age of the baseline or of the window, `seen` the samples counted in the window. A sample
is its side of the two acceleration thresholds and the time since the sample before it;
times are ticks. `BaselineSample`, `WindowSample` and `CloseWindow` are the three
returns of `on_imu`; `OnStartCommand` is every start command, `PublishCurrentFloor` the
one-second timer. `FloorDiff` counts the thresholds reached, which is the code's chain
of comparisons because the thresholds increase. Counts and times stop at the
bound beyond which no comparison changes (`AtMost`).

### ElevatorRide

A tick is a window of half a second: with `Window`, `ThreshCount` and the baseline at one
tick every IMU message closes a window, and it reads what the lift did in it. Six parts
act: the lift (`Depart`, `MoveDoor`), the window (`Tick`, which moves the lift and runs
`on_imu` for what is felt), the estimator's other callbacks (`ReceiveStart`,
`PublishTimer`), the mission's thread (`StartEstimation`, `PublishStart`, `AwaitTarget`,
`LeaveLift`), its callback (`FloorCallback`) and the two topics between the nodes
(`starts`, `inbox`, the latter bounded as the subscription is). `AwaitTarget` stands for
steps 7 to 9 of `run()`, the two moves and the arm handshake; `LeaveLift` for the wait of
step 10, whose counting of scans is in `Mission`. The estimator may be left on any floor
by an earlier mission.

A ride takes `depart` windows of acceleration, `cruise` windows without, and `brake`
windows of deceleration. Assumed of the lift, and named where they are assumed: the time from
departure to braking is one that the threshold table assigns to the floors travelled
(`TravelTimes`); it accelerates for at least the three windows that confirm a trip, and
brakes for three to five (`RideAssumption`). The upper bound is real: after three
braking windows `finish_timer` clears the counts, and three more start a timer in the
other direction on a lift that is about to stand. With a braking of six windows
`EstimateIsLiftFloor` is violated. The door of a lift that stopped opens after a window
at the earliest.

### The earlier delivery nodes

`elevator_delivery_final.py` shares its helpers with the mission above statement for
statement, so `ButtonMission` takes `Mission`'s actions for them and replaces the two arm
handshakes: `yolo` and `held` are the `yolov8_node` process and `self.yolov8_process`,
`seen` the latest frame of each detection topic with its age in ticks, `active` the
candidate of `wait_until_button_active`, `latched` the confirmed panels. `ButtonEnd`
and its neighbours are the `finally` clause. Ctrl-C may fall anywhere: in the body it leads to
that clause (`InterruptBody`), inside the clause it ends `run()` at once (`InterruptFinally`).
Starting the process and holding it are two steps (`StartDetector`, `HoldDetector`), and an
interruption inside `stop_yolov8_node` runs its inner `finally`, which forgets a process that may
not have been told. `missed` is a ghost: an interruption fell where the process runs and nothing
in `run()` will stop it any more. `TimedMission` (`elevator_delivery_manager2.py`) has fixed waits in the
place of the panels and no `finally` clause, `FirstManager`
(`elevator_delivery_manager.py`) its own order of steps, a half turn, a creep to the door,
and an order for the start floor that skips the elevator. It waits for the floor once and
then for any open door (`FirstFloor`, `FirstTargetDoor`): if somebody calls the lift in between,
the robot leaves on another floor. Nothing in the code says otherwise, so no property does; the
later generations wait for both together.

### Workcell and Tour

`param` is the configuration: the YAML tour, the maps and the parameters of both nodes.
`index`, `nav`, `awaiting` and `doneNames` are the follower's sequence index, its Nav2
goal, whether it waits for a done, and its set of done names; `wp`, `tasks`, `task`,
`count`, the two timers and `picked` are the FSM's visit; `arrivals`, `dones`, `tx` and
`rx` the topics, each bounded as its subscription; `open`, `line` and `back` the bridge's port
and the wire; `busy` and `last` the station. The port may fail at a write or at a read,
which loses the line in hand; the wire may lose anything. A station performs a request it
has not just finished and answers the one it has just finished with DONE again.

`Tour` has the visits only. The mapping: `Tour.Arrive` is the follower's `GetResult` with
success, `Miss` its failure, `Perform` is `StationDone`, `Depart` is `DoneCallback`; every
other step, among them every message, is a stutter. `todo` is what of the visit the
station has not finished (`RemainingTodo`), `phase` the follower's state (`TourPhase`),
`picked` whether the first pick is done or confirmed soon (`FirstPickPerformed`). That
the station's last request is the current one tells "performed" only when
consecutive requests differ; the theorem assumes it of the tours and plans (`Telling` in
`WorkPlan`), and an assumption of `MCWorkcell` has TLC evaluate it for every configuration of the runs.

### Navigator, control centre clients, marker manager

Each node's fields are variables of the same name in TLA+ style. An action goal is an
identity with its state at the server; `requests`/`sent` are goals the server has not decided
upon, `responses`/`decided` the decisions whose callback has not run, so that callbacks of
several goals interleave in every order the code's futures allow. Nav2 decides in order, and a
goal it accepts ends the one it executes; MoveIt executes what it accepts. `temper`
(navigator) and `patient` (clients) say how user, centre and server behave, because some
promises hold only then; every behaviour is in the model. `report` keeps what was last told
to the centre together with what was so.

### Speaker, arm, base

`TtsSpeaker`: `speaking` is the callback that waits inside the only thread, during which
neither commands nor the alarm timer run. `ArmSerial`: the lines of both directions with two
ghosts, `of`, the command that a line answers (0 for the boot line that opening the port
causes), and `spent`, one more than the last command whose answer was taken. A write may be
refused with the command sent or not; commands, answers and their halves may be lost. `BaseNode`: one wheel, positions in encoder
counts, a frame in two halves that may be lost, late or split; `Exchange` is the write of a
command with the read that follows, `TimerCallback` its use in every cycle, with the first
cycle's special rule; the joystick's buttons are sets (`Hands`), and a twist or a stick asks
for a step of one count. A speed button in the first joystick message raises an exception
(its earlier state does not exist yet) and ends the process: `JoyDies`.

## 3. Properties and runs

| Run | Result | Question |
|---|---|---|
| `mission_safety` | passes | all safety properties below, 559,751 states |
| `mission_variants` | passes | do the four generations of the delivery node end at rest, leave no process, take an open door, and what can keep them from ending, 340,956 states |
| `mission_stale_scan` | violated | are door-open events before the target floor ignored? |
| `mission_map_error` | violated | is the target map served from step 11 on? |
| `mission_shutdown` | violated | does an announcement play to its end? |
| `detector_interrupt` | violated | does the `finally` clause stop the detector on every interruption? |
| `elevator_ride` | passes | is the estimate the lift's floor, and does the robot leave there, 83,086 states |
| `ride_shared` | violated | does the robot leave at the target floor if others use the lift while it boards? |
| `workcell` | passes | does the workcell implement the tour over a line that loses, and does every visit end, 32,548 states |
| `workcell_hold` | violated | does "max resends per task" count per task? |
| `nodes` | passes | estimator, base node, navigator, control centre clients, marker manager, speaker and arm driver, each alone, 200,772 states |
| `arm_stale_ack` | violated | does the acknowledgement of a move answer that move? |

(Numbers are distinct states.) The violated runs are the `findings` of `PROJECT.json`: each
checks what a comment, a parameter's description or an order the code sets up promises.

* `ArmWorksAtStandstill`, `OneMotionAuthority`: the base and the arm exclude each other,
  and so do forced motion and Nav2.
* `DoorSeenOpen`: boarding and exit rest on a scan of the present wait (in the first
  generation on a door seen open and no more, see section 2).
* `NavStartsLocalised`: map switch, initial pose and goal come in order on both floors.
* `EndsAtRest`, `CompleteMeansDelivered`: what every return path leaves behind, and
  what it may claim.
* `StopsOnObstacle`: what a single step may never do.
* `OnlyWaitsHang`: liveness of the four generations. A mission ends, or stays for ever in a
  call of the map server or of Nav2 that gets no answer, in a wait for a door or a floor, in an
  arm handshake without a done timeout, or in front of a panel that is not seen; nowhere else.
  `OpenDoorIsTaken`: a door that stays open is taken.
* `NoDetectorLeft`, `ConfirmedByTwoFrames`, `SteadyButtonConfirmed` (with `EndsAtRest` and
  `DoorSeenOpen` again): the earlier delivery nodes, their child process and their evidence
  for a pressed button. A return leaves no detector; Ctrl-C leaves one that was not told to stop
  only from the places `missed` marks. `DetectorNeverLeft` (violated) is what the comment of the
  `finally` clause promises.
* `SessionStartsFromRest`, `BrakingIsNoDeparture`, `ArrivalNeedsATrip`: what the
  fifteen restarts, and the callback that ends one trip and may begin another, must not do.
* `EstimateIsLiftFloor`: the estimate against the lift it cannot see, over any number of
  rides up and down.
* `LeavesAtTarget`, `OpenTargetDoorIsTaken`: what the mission makes of it, over floor
  messages that are queued, dropped and stale; safety and liveness.
* `OneHandPerVisit`: an arrival is never dropped by a busy FSM, and no DONE is left over for
  a later visit of the same waypoint.
* `StandsWhileWorking`, `FollowsTheTour`: the workcell's safety and its refinement of `Tour`,
  with `fail_policy` "stop". With "skip_waypoint" the robot may leave a working station.
* `EveryVisitEnds`: liveness, where requests are repeated without limit or a visit is skipped.
* `ResendsPerTask` (violated): `_start_resend_timer` is not called for a task after the
  resends of an earlier one were used up, since the late DONE advances without it.
* `LatestCommandWins`, `OneGoalAtATime`, `PendingIsServed`: the navigator. The first holds for
  a steady server and a patient user or a server that never rejects; a rejection while
  another goal is under way lets an older waiting command start after a newer one.
* `CenterInCommand`: what a patient control centre is told is so, and the goal that a kill
  would reach is the one that drives. An impatient one is told of the wrong place
  (`destination` is overwritten by a second start), or loses sight of a drive (the late answer
  to a cancel resets the node whatever goal it holds by then).
* `OneMotion`: one arm goal at a time, a cancel reaches no other, and the next "go" is possible.
* `AnswersInOrder`: no line answers two calls, none answers after the line of a later
  command, whatever is lost, garbled, cut, refused or late. `AckIsOwn` (violated): the boot line
  of the port just opened acknowledges the first move, and every later move then takes the
  answer of the one before.
* `AlarmObeysLastWord`: if the voice file can be played. Otherwise `test_voice` over an endless
  `test_effect` waits for ever.
* `UnaskedNeverMoves`: a base that nobody has asked to move stands, whatever happens to later
  frames, if the first answer came. If it is lost the node takes the position for 0 and
  drives there.
* `TakesOverInPlace`: the joystick hands over without a jump, if the last read was current.
* `Settles`: the base comes to its target and stays, under any lost frame. Half a frame left in
  the line makes every later frame invalid, and the feedback is then wrong for good.

*Bounds.* Two floors (the target and another) are enough: the code only compares with
the target. The safety run counts three iterations and lets the lidar be silent for two
in a row, so that a count can mix old and new scans; the code's twenty adds only longer
mixtures. All three answers of the front sector occur. Parameter sets: the defaults; a
guarded one (obstacle check, done timeout, some sounds missing); no initial poses around
moves with a malformed inside pose; unusable speeds; incomplete waypoints. Every action
fires.

*Fairness of the missions* (`VariantFairness`). Weak fairness of `Progress` and its counterparts
in the other generations: the node's thread does not stop between two statements, and elapsed
durations end turns, drives and timeouts. Weak fairness of the door waits (`WaitIteration`,
`ButtonDoors`, `TimedDoors` and the three waits of the first generation): a wait loop keeps
iterating. Weak fairness of `WatchIteration(1)`: the loop in front of a panel keeps iterating
and time passes in it. Weak fairness of `MusicEnds`: no file is endless (`play(0)`). Nothing
is assumed of the map server, Nav2, the arm, the doors, the panels or the floor estimate: the
calls of the first two have no timeout (nor has the wait for the services to appear), which is why
`OnlyWaitsHang` names those stages next to the waits.

*Bounds of the estimator runs.* `nodes`: three floors, windows of two ticks,
sample times of zero to two ticks, so that a window, a baseline and a trip may end on a
boundary or beyond it. `elevator_ride`: the six floors and the five thresholds of the code in
half-second windows, rounded up to whole windows (6, 12, 17, 25, 31), all travel times up
to 32 windows, four stops whose distances are one to five floors, two start commands
(the last and one before it; the code's fifteen add more of the latter), a queue of two. `/current_floor`
is heard within the window (`MaxLag` 0: the wait loop takes a message at least every
0.1 s and two nodes publish at most four in half a second).

*Fairness of the ride* (`FairRide`). Weak fairness of the window (IMU samples keep
coming), of the floor callback and of the mission's thread, all unconditional in the code;
nothing is assumed of the lift's calls or its door.

*Bounds of the other runs.* `mission_variants`: two floors, a count of two, one front answer (clear), two detection topics, a frame stale after one
tick, a candidate confirmed after two, so that the frames of the two topics can disagree
and age during a candidate; two or three parameter sets per node. `workcell`: five
configurations (the launch values; a stop without workstation with misses tolerated; a plan of
one task; an unlisted stop with timeout and hold; a single round that skips), queues and
wires of depth two, which lets a message of the last request be followed by one of the
current one in every channel (a third adds nothing new to their order: the run also passes at
depth three, 127,000 states, and the theorems hold for every depth). `nodes`: two
destinations and two goals alive, enough for one to be replaced while its answer or its
result is under way; a speaker queue of three (five in the code); three calls of the arm driver
behind a boot line: one to leave a line, one to take it, one to follow. Base node:
positions -1 to 1, two faulty exchanges (one to lose the answer, one to leave half a frame),
five sets of buttons.

*Fairness of the other runs.* All of it is that a single-threaded executor serves what is
ready, timers fire, and servers answer. Workcell: weak for the FSM's handlers and timers,
strong for what the wire may lose again and again (a message repeated for ever gets through,
the port, retried, is open long enough to be used). Navigator: weak for the callbacks of
each goal and for a server that has gone to come back, strong for the readiness timer (the server
may come and go between two ticks). Speaker: strong for the executor and the monitor timer,
which the blocked callback disables, weak for the end of sounds. Base: weak for the
control timer and the turning motor. Variants: weak for the thread, for the wait
iteration and the end of sounds. The control centre's clients and the marker manager need none.

*The calm start.* `CalmStart` says that the lift does not move before the robot has
pressed the inside button. The code does not check it. Without it (`ride_shared`) the
last start command may arrive while the lift takes a passenger elsewhere: the session
restarts on the start floor, the departure is lost, the braking starts a timer, and the
next ride ends with the estimate on the target floor while the lift is not.

*The lidar assumption.* `MaxScanGap` bounds the wait iterations in a row without a
scan. The code has no such check: it counts iterations, not scans. With the gap below
the count (`mission_safety`, and theorem `DoorEvidence` for all values) the stale cache
is harmless; with a silence as long as the count (`mission_stale_scan`, two iterations
each) it is not. In the code a count of 20 iterations takes between the time of twenty
callbacks of any kind and two seconds.

## 4. Proofs

`MissionProofs.tla` proves, for all values of the constants that satisfy the assumptions
in `Mission`:

| Theorem | Statement |
|---|---|
| `TypeCorrect` | `Spec => []TypeOK` |
| `ArmAtStandstill` | `Spec => []ArmWorksAtStandstill` |
| `MotionExclusive` | `Spec => []OneMotionAuthority` |
| `MissionEndsAtRest` | `Spec => []EndsAtRest` |
| `DoorEvidence` | `MaxScanGap < StableRequired` implies `Spec => []DoorSeenOpen` |
| `NavLocalised` | if the map server never answers with an error code, `Spec => []NavStartsLocalised` |
| `DeliveredWhenComplete` | `Spec => []CompleteMeansDelivered` |
| `ObstacleStops` | `Spec => StopsOnObstacle` |

The safety theorems share one inductive invariant, `SafetyInv`: where the node is in its
program determines which twist, Nav2 goal and raised button goal can be in force, and a
working arm implies a raised goal or a finished mission. `ArmWorksAtStandstill` alone is not inductive:
it says nothing of the steps in which a goal is raised but the arm has not started.
`DoorEvidence` adds that the counted iterations are either more than the gap since the
last scan allows, or include a scan that showed the door open (`CountStep`).
`NavLocalised` adds which map and which initial pose each stage has already set.
`DeliveredWhenComplete` rests on `DeliveryInv`: a done flag is not lowered behind its
stage, the last pose is the destination from the notification on, and no goal is
raised after it.

`VariantProofs.tla` proves the same of the three earlier nodes, each with the specification of
its own node (`ButtonSpec`, `TimedSpec`, `FirstSpec`):

| Theorem | Statement | Invariant |
|---|---|---|
| `GenerationsEndAtRest` | all three `=> []EndsAtRest` | `RestInv`, `FirstRestInv` |
| `GenerationsMoveByOne` | all three `=> []OneMotionAuthority` | the same |
| `GenerationsSeeTheDoor` | `MaxScanGap < StableRequired` implies all three `=> []DoorSeenOpen` | `DoorInv`, `FirstDoorInv` |
| `GenerationsPlanLocalised` | if the map server never answers with an error code, `[]NavStartsLocalised` of two, `[]FirstNavStartsLocalised` of the first | `MapInv`, `FirstMapInv` |
| `GenerationsStopOnObstacle` | all three `=> StopsOnObstacle` | the steps alone |
| `DetectorStopped` | `ButtonSpec => []NoDetectorLeft` | `DetectorInv` |
| `TwoFramesConfirm` | `ButtonSpec => ConfirmedByTwoFrames` | `FrameInv` |
| `ButtonTypeCorrect` | `ButtonSpec => []EyesOK` | `FrameInv` |
| `VariantsAreGenerations` | a behaviour of the model-checked `VariantSpec` is one of one of the four generations | the steps alone |

The stages of the earlier nodes are others, so they need invariants of their own. There is
no `finally` clause in two of them: `RestInv` and `FirstRestInv` say
in which helper a twist or a Nav2 goal can be in force at all, from which it follows that every
return path has left it behind. The first generation changes maps and poses between
its last look at the door and its exit, so `FirstDoorInv` carries what was seen through the stage
`target_pose`. Its order for the start floor takes a shorter way under the same stages;
`FirstMapInv` says that this way never changes maps, and `FirstNavStartsLocalised` is the
localisation property for its stages. `DetectorInv` says where `run()` holds the process it
started, and that a detector which runs without being held, outside the step between `Popen` and
its assignment, was asked to stop or is one that an interruption has missed. `DetectorStopped` is
the strongest the code allows: it names every place where Ctrl-C leaves the detector running.
`FrameInv` is the reason why one frame presses nothing: a candidate not seen a second time is
supported only by frames at least as old as itself, and since a frame goes stale sooner than
a candidate is confirmed (`Stale < Confirm`, an assumption of `ButtonMission` that
the code's times satisfy), it is dropped first. The latched set alone is not inductive:
it says nothing of the ages.

`FloorEstimatorProofs.tla`:

| Theorem | Statement |
|---|---|
| `EstimatorTypeCorrect` | `Spec => []TypeOK` |
| `SessionsAreSeparate` | `Spec => []SessionStartsFromRest` |
| `BrakingNeverDeparts` | `Spec => BrakingIsNoDeparture` |
| `ArrivalAfterTrip` | `Spec => ArrivalNeedsATrip` |

The lemmas under them say what each function of `on_imu` does to an estimate:
`FloorDiffOfTrip` (the time of a trip gives its floors, from the increasing thresholds and
the cardinality of an interval) and `EstimateType` (a window leaves a trip, begins one or
finishes one, and never finishes one and begins another).

`ElevatorRideProofs.tla`, under `CalmStart` and `MaxLag = 0`:

| Theorem | Statement |
|---|---|
| `RideTypeCorrect` | `RideSpec => []RideTypeOK` |
| `EstimateFollowsLift` | `RideSpec => []EstimateIsLiftFloor` |
| `LeavesOnlyAtTarget` | `RideSpec => LeavesAtTarget` |

They hold for every number of floors, threshold table, count of windows, set of stops, start
floor, target, number of start commands and queue depth that the assumptions admit. The
invariant is `RideInv /\ Heard`. `EstimateIsLiftFloor` says nothing of a lift under way, so
`TrackingAt(e, w)` states what the estimator has concluded after `w` windows of a ride (its
two counts, whether the timer runs and since when, the floor), and `RideWindow` proves it
window by window: acceleration, cruise, and braking up to, at and after the window that
finishes the timer. `Calm` and `Budget` say that no session starts during a ride, `Heard`
that the last message under way, or else the mission's `current_floor`, is the estimate, and
that in the target wait no other floor is under way. `OpenTargetDoorIsTaken` (fairness) is
only model-checked.

The workcell, for every set of configurations, tour, plan, queue and wire depth:

| Module | Theorem | Statement |
|---|---|---|
| `WorkcellProofs` | `TypeCorrect` | `Spec => []TypeOK` |
| `WorkcellProofs` | `OneHandCorrect` | `Spec => []OneHandPerVisit` |
| `WorkcellRefinement` | `StandsCorrect` | `Spec => []StandsWhileWorking`, if all configurations are `Telling` |
| `WorkcellRefinement` | `TourImplemented` | `Spec => FollowsTheTour`, if all configurations are `Telling` |

A DONE names workstation and task, not the request, so FSM and station run an alternating-bit
protocol whose bit is the request itself. That needs requests that follow each other to
differ, which is `Telling(p)`: within a visit, and from the last task of a visit to the first
of the next visit served, whatever stops without requests or outside the list lie between, whichever
are missed (where the settings go on after a miss), and through the restart of the
tour. Under the first-pick policy it holds of every tour. Without it a late DONE of the last visit's
request would pass for the answer to the same request of this one, and the node has no way to notice. `Channel` is the protocol: the two
are quiet, the FSM asks and the station has not finished, or the station has finished and
the FSM has not heard; and each queue holds messages of the last request followed by
messages of the current one (`Turns`, and `Pipeline` over two queues in a row). `LastVisit`
connects it with the tour: the last request is the last one at a stop from which the robot has
come to where it is without a visit being served (`EndsVisit`), so the visit that
begins now asks for something else.

`PeripheralProofs.tla`, for `ArmSpec`, `MarkerSpec`, `NavSpec`, `CenterSpec` and `SpeakerSpec` (the
initial states and steps of one node each), any number of goals, places and calls:

| Theorem | Statement | Invariant |
|---|---|---|
| `ArmAnswersInOrder` | `ArmSpec => AnswersInOrder` | `OrderInv`: the lines that parse and then the commands under way stand in the order of their commands, behind the last one taken for an answer |
| `MarkerOneMotion` | `MarkerSpec => []OneMotion` | `_active_goal` stands for the one goal there is |
| `NavigatorOneGoal` | `NavSpec => []OneGoalAtATime` | one goal, and what of it is under way |
| `NavigatorLatestWins` | `NavSpec => []LatestCommandWins` | the newest goal sent, decided or waiting is for `latest` |
| `CenterStaysInCommand` | `CenterSpec => []CenterInCommand` | a patient centre has one goal, whose request or answer is all there is under way, and which the node knows of from its acceptance on |
| `PeripheralsTypeCorrect` | `NodeSpec => []PeripheralTypes` | the types of the five nodes, with the bound of the speaker's queue |

`NodeSpec` is the specification that is model-checked, with one node running and the others at
rest. `NodesByThemselves` proves that a behaviour of it is a behaviour of each node, so the
theorems above hold of it as well.

`BaseNodeProofs.tla`:

| Theorem | Statement |
|---|---|
| `BaseTypeCorrect` | `BaseSpec => []BaseTypeOK` |
| `UnaskedStandsStill` | `BaseSpec => []UnaskedNeverMoves` |
| `HandsOverInPlace` | `BaseSpec => TakesOverInPlace` |

`ExchangeReads` says what an exchange leaves in `pos`: the old position, or one the
wheel has had; `UnaskedInv` that all of these are the start, in the line also;
`FreshInv` that after an exchange that read its own answer `pos` is within a count of the
wheel, and equal to it as long as the wheel may still turn.

Every invariant and every property of steps in a passing run is stated by one of these
theorems. Only model-checked is what holds under fairness, which the prover does not reach, nor the
`ENABLED` in it: `OnlyWaitsHang`, `OpenDoorIsTaken`, `Settles`, `OpenTargetDoorIsTaken`, `EveryVisitEnds`,
`PendingIsServed`, `AlarmObeysLastWord` and `SteadyButtonConfirmed`.

## 5. Not modelled

* Camera perception (`yolov8_node`, `object_distance_node`): a neural network and depth geometry.
  What a mission makes of the detections is in `ButtonMission`.
* The IMU driver: parsing of a serial text stream.
* Older base nodes (`test_node_main_vel.py`, `_acc`, `aruco_test_node_main.py`, `odom_main.py`,
  the backups), the backup of the navigator, and one-way serial publishers (`stm_serial.py`,
  `battery_serial.py`): no entry point, or no protocol state.
* Launch files and configuration, beyond the values named with the constants.
* Vendored drivers and filters, and the path-planning samples under
  `amr/scripts/MotionPlanning`: third-party code. Together with the backups and the second copy of
  `serial_test` under `sllidar_ros2` they are most of the repository's lines, so that the share
  of all lines the map reaches stays small while the nodes of the robot are modelled.

Left out of what is modelled: in the missions, geometry and time, and the contents of
messages; in the ride, IMU samples that are lost, and noise that makes a window read
something else than the lift's motion; in the navigator, a Nav2 that restarts and forgets a goal
(no result ever comes, and the node has no way out); in the clients of the control
centre, the echo of commands and malformed waypoint lists; in the speaker, a missing alarm file
(nothing would sound); in the base node, the second wheel and the dead reckoning, which no
subscription starts.
