---------------------------- MODULE VariantProofs ----------------------------
(***************************************************************************)
(* Proofs about the other three generations of the delivery node: all of   *)
(* them leave the robot at rest and drive through doors they saw open, and *)
(* the one that watches the button panels leaves no detector behind and is *)
(* not deceived by a single frame.                                         *)
(***************************************************************************)
EXTENDS MCVariants, MissionProofs

USE DEF Loads, Navs, Presses, Moves, Waits

buttonVars == <<vars, eyes>>
firstVars  == <<vars, trip>>

-----------------------------------------------------------------------------
(***************************************************************************)
(* What is commanded where.  The forced moves publish twists in their turns *)
(* and their drive only, and zero on every way out of these; a Nav2 goal is *)
(* open only while its helper waits for it.  No goal of the arm is raised.  *)
(***************************************************************************)
RestInv ==
  /\ \A h \in Presses : ~goal[h]
  /\ MotionInv
  /\ OneMotionAuthority

\* The first generation turns and creeps by helpers of its own.
FirstRestInv ==
  /\ \A h \in Presses : ~goal[h]
  /\ step \in {"turn1", "drive"} => stage \in {"rotate", "board", "exit"}
  /\ step # "turn2"
  /\ stage = "rotate" => step = "turn1"
  /\ cmd # "zero" =>
       stage = "rotate" \/ (SpeedsOk /\ (step = "drive" \/ stage = "creep")) \/ Cut
  /\ nav # "idle" => (stage \in FirstNavs /\ step \in {"sent", "accepted"}) \/ Cut
  /\ OneMotionAuthority

\* The exit of the first generation begins with the pose on the target map.
FirstDoorInv == DoorInv /\ (stage = "target_pose" => openSeen)

\* The detector runs only while run() knows of it or is about to, or a Ctrl-C made
\* run() forget it; after that it was asked to stop, or was missed.
DetectorInv ==
  /\ held => /\ stage \notin {"validate", "map_start", "room_front", "nav_button", "cleanup"}
             /\ stage = "over" => Cut
  /\ yolo # "off" => \/ held
                     \/ stage = "press_out" /\ step = "sent"
                     \/ Cut /\ (missed \/ yolo = "asked")
  /\ stage = "over" /\ yolo = "up" => missed

\* Nothing but frames older than the candidate supports a candidate that was
\* not seen again.
FrameInv ==
  /\ EyesOK
  /\ stage \in Presses /\ step = "counting" => active.elapsed < Confirm
  /\ active.on /\ ~active.again =>
       \A t \in Topics : seen[t].shows = "active" => seen[t].age >= active.elapsed

\* Nav2 plans on the map of the robot's floor: an order for the start floor
\* never changes maps.
FirstMapInv ==
  /\ trip.sameFloor =>
       stage \in {"validate", "map_start", "start_pose", "nav_room"} \cup Ending
  /\ stage = "start_pose" => map = "start"
  /\ stage = "nav_front" => map = "start" /\ believed = [at |-> "room_front", on |-> "start"]
  /\ stage \in {"target_pose", "exit", "relocate"} => map = "target"
  /\ stage = "nav_room" =>
       IF trip.sameFloor THEN map = "start" /\ believed = [at |-> "room_front", on |-> "start"]
       ELSE map = "target" /\ believed = [at |-> "elevator_exit", on |-> "target"]

-----------------------------------------------------------------------------
(***************************************************************************)
(* The robot at rest.                                                       *)
(***************************************************************************)
\* The steps of Mission that the second and the last generation share.
Shared ==
  \/ Validate \/ RoomFront \/ Relocate \/ SkipBoarding \/ StartEstimation
  \/ \E s \in Loads : LoadMapCall(s) \/ LoadMapReply(s)
  \/ \E s \in Navs : NavSend(s) \/ NavAccepted(s) \/ NavSucceeded(s) \/ NavFailed(s)
  \/ \E s \in Moves : BeginMove(s) \/ FirstTurnDone(s) \/ LastTurnDone(s)
  \/ BadSpeed \/ DriveBlocked \/ DriveDone \/ BeginExit \/ Turn \/ Drive
  \/ \E s \in Waits : BeginWait(s)
  \/ \E fresh \in BOOLEAN :
       DoorAlreadyInside(fresh) \/ DoorWait(fresh) \/ AwaitFloor(fresh) \/ AwaitDoor(fresh)
  \/ SpinOnce \/ Shutdown \/ Interrupt

LEMMA SharedRest == RestInv /\ Shared => RestInv'
<1> SUFFICES ASSUME RestInv, Shared PROVE RestInv'
  OBVIOUS
<1> USE DEF RestInv, MotionInv, OneMotionAuthority, Cut, SpeedsOk, At, Goto, Step, Fail,
            progress, motion, hands
<1>1. CASE Validate \/ RoomFront \/ Relocate \/ SkipBoarding \/ StartEstimation \/ BeginExit
  BY <1>1 DEF Validate, RoomFront, Relocate, SkipBoarding, StartEstimation, BeginExit
<1>2. ASSUME NEW s \in Loads, LoadMapCall(s) \/ LoadMapReply(s) PROVE RestInv'
  BY <1>2 DEF LoadMapCall, LoadMapReply, After
<1>3. ASSUME NEW s \in Navs,
             NavSend(s) \/ NavAccepted(s) \/ NavSucceeded(s) \/ NavFailed(s)
      PROVE RestInv'
  BY <1>3 DEF NavSend, NavAccepted, NavSucceeded, NavFailed, After
<1>4. ASSUME NEW s \in Moves, BeginMove(s) \/ FirstTurnDone(s) \/ LastTurnDone(s)
      PROVE RestInv'
  BY <1>4 DEF BeginMove, FirstTurnDone, LastTurnDone, After
<1>5. CASE Turn \/ BadSpeed \/ DriveBlocked \/ DriveDone \/ Drive
  BY <1>5 DEF Turn, BadSpeed, DriveBlocked, DriveDone, Drive
<1>6. ASSUME NEW s \in Waits, BeginWait(s) PROVE RestInv'
  BY <1>6 DEF BeginWait
<1>7. ASSUME NEW fresh \in BOOLEAN,
             DoorAlreadyInside(fresh) \/ DoorWait(fresh) \/
               AwaitFloor(fresh) \/ AwaitDoor(fresh)
      PROVE RestInv'
  BY <1>7 DEF DoorAlreadyInside, DoorWait, AwaitFloor, AwaitDoor, WaitSpin
<1>8. CASE SpinOnce \/ Shutdown \/ Interrupt
  BY <1>8 DEF SpinOnce, Shutdown, Interrupt
<1>9. QED
  BY <1>1, <1>2, <1>3, <1>4, <1>5, <1>6, <1>7, <1>8 DEF Shared

LEMMA RestMeans == RestInv => EndsAtRest /\ OneMotionAuthority
BY DEF RestInv, MotionInv, EndsAtRest, Cut

LEMMA TimedRest == TimedSpec => []RestInv
<1>1. Init => RestInv
  BY DEF Init, RestInv, MotionInv, OneMotionAuthority
<1>2. RestInv /\ [TimedNext]_vars => RestInv'
  <2> SUFFICES ASSUME RestInv, [TimedNext]_vars PROVE RestInv'
    OBVIOUS
  <2>1. CASE Shared
    BY <2>1, SharedRest
  <2>2. CASE TimedPanels \/ TimedReturn \/ UNCHANGED vars
    BY <2>2 DEF TimedPanels, TimedReturn, After, RestInv, MotionInv, OneMotionAuthority, Cut,
       SpeedsOk, At, Goto, motion, hands, vars, progress
  <2>3. QED
    BY <2>1, <2>2 DEF TimedNext, TimedProgress, TimedSettings, TimedLoops, TimedDoors, TimedMaps,
       TimedNavs, TimedMoves, TimedBoarding, Shared
<1>3. QED
  BY <1>1, <1>2, PTL DEF TimedSpec

LEMMA ButtonRest == ButtonSpec => []RestInv
<1>1. Init => RestInv
  BY DEF Init, RestInv, MotionInv, OneMotionAuthority
<1>2. RestInv /\ [ButtonNext]_buttonVars => RestInv'
  <2> SUFFICES ASSUME RestInv, [ButtonNext]_buttonVars PROVE RestInv'
    OBVIOUS
  <2>1. CASE Shared
    BY <2>1, SharedRest
  <2> USE DEF RestInv, MotionInv, OneMotionAuthority, Cut, SpeedsOk, At, Goto, Step, Fail,
              progress, motion, hands, AllElse
  <2>2. CASE StartDetector \/ HoldDetector \/ DetectorStarted \/ DetectorGone \/ WatchInside
             \/ AskDetector \/ ForgetDetector \/ DetectorExits
    BY <2>2 DEF StartDetector, HoldDetector, DetectorStarted, DetectorGone, WatchInside, BeginWatch,
       AskDetector, ForgetDetector, DetectorExits
  <2>3. ASSUME NEW tick \in {0, 1}, WatchIteration(tick) PROVE RestInv'
    BY <2>3 DEF WatchIteration, WatchDetection, WatchOther, Watch, After
  <2>4. CASE ButtonArrival \/ ButtonEnd
    BY <2>4 DEF ButtonArrival, AnnounceArrival, AnnounceSnack, ButtonEnd, StopRobot,
       StopUnheard, Shutdown
  <2>5. CASE ButtonInterrupt \/ ButtonMusic
    BY <2>5 DEF ButtonInterrupt, InterruptBody, InterruptFinally, Interrupt, ButtonMusic,
       MusicEnds
  <2>6. CASE UNCHANGED buttonVars
    BY <2>6 DEF buttonVars, vars
  <2>7. QED
    BY <2>1, <2>2, <2>3, <2>4, <2>5, <2>6 DEF ButtonNext, ButtonProgress, ButtonLoops,
       ButtonDoors, ButtonSettings, ButtonMaps, ButtonNavs, ButtonMoves, ButtonBoarding, ButtonSpin, Shared
<1>3. QED
  BY <1>1, <1>2, PTL DEF ButtonSpec, buttonVars

LEMMA FirstRest == FirstSpec => []FirstRestInv
<1>1. Init => FirstRestInv
  BY DEF Init, FirstRestInv, OneMotionAuthority
<1>2. FirstRestInv /\ [FirstNext]_firstVars => FirstRestInv'
  <2> SUFFICES ASSUME FirstRestInv, [FirstNext]_firstVars PROVE FirstRestInv'
    OBVIOUS
  <2> USE DEF FirstRestInv, OneMotionAuthority, FirstNavs, Cut, SpeedsOk, At, Goto, Step,
              Fail, progress, motion, hands, Silent, Rest, MotionElse
  <2>1. CASE FirstValidate \/ FirstMapCall \/ FirstMapReply \/ StartPose \/ InsidePose
             \/ TargetPose \/ FirstRelocate
    BY <2>1 DEF FirstValidate, Validate, FirstMapCall, LoadMapCall, FirstMapReply, StartPose,
       InsidePose, TargetPose, FirstRelocate
  <2>2. ASSUME NEW s \in FirstNavs,
               FirstNavSend(s) \/ FirstNavAccepted(s) \/ FirstNavSucceeded(s) \/ FirstNavFailed(s)
        PROVE FirstRestInv'
    BY <2>2 DEF FirstNavSend, FirstNavAccepted, FirstNavSucceeded, FirstNavFailed
  <2>3. CASE FirstBeginWait \/ FirstBoarding \/ FirstEstimation
    BY <2>3 DEF FirstBeginWait, BeginWait, FirstBoarding, FirstEstimation
  <2>4. CASE FirstDrive \/ FirstDriveFail \/ FirstDriveDone
    BY <2>4 DEF FirstDrive, Drive, FirstDriveFail, DriveBlocked, BadSpeed, FirstDriveDone
  <2>5. CASE Rotate \/ RotateDone \/ Creep \/ CreepDone
    BY <2>5 DEF Rotate, RotateDone, Creep, CreepDone
  <2>6. CASE FirstDoor \/ FirstTargetDoor \/ FirstFloor
    BY <2>6 DEF FirstDoor, DoorAlreadyInside, DoorWait, FirstTargetDoor, WaitSpin, FirstFloor
  <2>7. CASE FirstReturn \/ FirstSpin \/ FirstEnd \/ Shutdown
    BY <2>7 DEF FirstReturn, FirstSpin, SpinOnce, FirstEnd, Shutdown, Interrupt
  <2>8. CASE UNCHANGED firstVars
    BY <2>8 DEF firstVars, vars
  <2>9. QED
    BY <2>1, <2>2, <2>3, <2>4, <2>5, <2>6, <2>7, <2>8 DEF FirstNext, FirstProgress, FirstServices
<1>3. QED
  BY <1>1, <1>2, PTL DEF FirstSpec, firstVars

\* Unless Ctrl-C cuts it short, no generation leaves a twist or a Nav2 goal
\* behind on any of its return paths, although two of them have no finally
\* clause that would stop the robot.
THEOREM GenerationsEndAtRest ==
  /\ ButtonSpec => []EndsAtRest
  /\ TimedSpec  => []EndsAtRest
  /\ FirstSpec  => []EndsAtRest
<1>1. FirstRestInv => EndsAtRest
  BY DEF FirstRestInv, EndsAtRest, Cut, FirstNavs
<1>2. QED
  BY <1>1, RestMeans, ButtonRest, TimedRest, FirstRest, PTL

\* Forced motion and Nav2 exclude each other in every generation.
THEOREM GenerationsMoveByOne ==
  /\ ButtonSpec => []OneMotionAuthority
  /\ TimedSpec  => []OneMotionAuthority
  /\ FirstSpec  => []OneMotionAuthority
<1>1. FirstRestInv => OneMotionAuthority
  BY DEF FirstRestInv
<1>2. QED
  BY <1>1, RestMeans, ButtonRest, TimedRest, FirstRest, PTL

-----------------------------------------------------------------------------
(***************************************************************************)
(* The evidence behind the doors.                                           *)
(***************************************************************************)
LEMMA InitDoor == Init => WaitingOK /\ FirstDoorInv
<1> SUFFICES ASSUME Init PROVE WaitingOK /\ FirstDoorInv
  OBVIOUS
<1>1. stage = "validate" /\ stable = 0 /\ gap = 0 /\ openSeen = FALSE
  BY DEF Init
<1>2. WaitingOK
  BY <1>1 DEF WaitingOK
<1>3. FirstDoorInv
  BY <1>1 DEF FirstDoorInv, DoorInv, Counting, DoorSeenOpen
<1>4. QED
  BY <1>2, <1>3

\* An iteration of a door wait that ends with enough of them has seen the door.
LEMMA CountedDoor ==
  ASSUME MaxScanGap < StableRequired, WaitingOK, DoorInv, NEW s \in Waits,
         NEW fresh \in BOOLEAN, WaitSpin(s, fresh), Count(fresh)
  PROVE  /\ WaitingOK' /\ gap' <= MaxScanGap /\ (openSeen' \/ stable' <= gap')
         /\ stable' >= StableRequired => openSeen'
<1>1. gap' \in Nat
  BY DEF WaitSpin, WaitingOK
<1>2. WaitingOK'
  BY <1>1, CountTypes DEF WaitingOK
<1>3. gap' <= MaxScanGap /\ (openSeen' \/ stable' <= gap')
  BY CountStep
<1>4. QED
  BY <1>2, <1>3, DoorAssumption DEF WaitingOK

\* A step outside the waits keeps what they counted.
LEMMA OutsideWaits ==
  ASSUME WaitingOK, DoorInv, UNCHANGED waiting,
         ~Counting' \/ UNCHANGED <<stage, step>>, DoorSeenOpen'
  PROVE  WaitingOK' /\ DoorInv'
BY DEF WaitingOK, DoorInv, Counting, waiting

LEMMA SharedDoor ==
  ASSUME MaxScanGap < StableRequired, WaitingOK, DoorInv, Shared
  PROVE  WaitingOK' /\ DoorInv'
<1> USE DEF At, Goto, Step, Fail, progress, Counting
<1>1. CASE Validate \/ RoomFront \/ Relocate \/ SkipBoarding \/ StartEstimation \/ BeginExit
  BY <1>1, OutsideWaits DEF Validate, RoomFront, Relocate, SkipBoarding, StartEstimation,
     BeginExit, DoorInv, DoorSeenOpen, waiting
<1>2. ASSUME NEW s \in Loads, LoadMapCall(s) \/ LoadMapReply(s)
      PROVE  WaitingOK' /\ DoorInv'
  BY <1>2, OutsideWaits DEF LoadMapCall, LoadMapReply, After, DoorInv, DoorSeenOpen, waiting
<1>3. ASSUME NEW s \in Navs,
             NavSend(s) \/ NavAccepted(s) \/ NavSucceeded(s) \/ NavFailed(s)
      PROVE  WaitingOK' /\ DoorInv'
  BY <1>3, OutsideWaits DEF NavSend, NavAccepted, NavSucceeded, NavFailed, After, DoorInv,
     DoorSeenOpen, waiting
<1>4. ASSUME NEW s \in Moves, BeginMove(s) \/ FirstTurnDone(s) \/ LastTurnDone(s)
      PROVE  WaitingOK' /\ DoorInv'
  BY <1>4, OutsideWaits DEF BeginMove, FirstTurnDone, LastTurnDone, After, DoorInv,
     DoorSeenOpen, waiting
<1>5. CASE Turn \/ BadSpeed \/ DriveBlocked \/ DriveDone \/ Drive
  BY <1>5, OutsideWaits DEF Turn, BadSpeed, DriveBlocked, DriveDone, Drive, DoorInv,
     DoorSeenOpen, waiting
<1>6. ASSUME NEW s \in Waits, BeginWait(s) PROVE WaitingOK' /\ DoorInv'
  <2>1. stable' = 0 /\ gap' = 0 /\ openSeen' = FALSE /\ stage' = s
    BY <1>6 DEF BeginWait
  <2>2. WaitingOK'
    BY <2>1 DEF WaitingOK
  <2>3. DoorInv'
    BY <2>1, DoorAssumption DEF DoorInv, DoorSeenOpen
  <2>4. QED
    BY <2>2, <2>3
<1>7. ASSUME NEW fresh \in BOOLEAN, DoorAlreadyInside(fresh)
      PROVE  WaitingOK' /\ DoorInv'
  BY <1>7 DEF DoorAlreadyInside, WaitSpin, WaitingOK, DoorInv, DoorSeenOpen
<1>8. ASSUME NEW fresh \in BOOLEAN, DoorWait(fresh) \/ AwaitDoor(fresh)
      PROVE  WaitingOK' /\ DoorInv'
  <2>1. /\ WaitingOK' /\ gap' <= MaxScanGap /\ (openSeen' \/ stable' <= gap')
        /\ stable' >= StableRequired => openSeen'
    BY <1>8, CountedDoor DEF DoorWait, AwaitDoor
  <2>2. QED
    BY <1>8, <2>1 DEF DoorWait, AwaitDoor, WaitSpin, DoorInv, DoorSeenOpen
<1>9. ASSUME NEW fresh \in BOOLEAN, AwaitFloor(fresh) PROVE WaitingOK' /\ DoorInv'
  <2>1. /\ stable' = 0 /\ openSeen' = FALSE /\ stage' = "await"
        /\ gap' <= MaxScanGap /\ gap' \in Nat
    BY <1>9 DEF AwaitFloor, WaitSpin, WaitingOK
  <2>2. WaitingOK'
    BY <2>1 DEF WaitingOK
  <2>3. DoorInv'
    BY <2>1 DEF DoorInv, DoorSeenOpen
  <2>4. QED
    BY <2>2, <2>3
<1>10. CASE SpinOnce \/ Shutdown \/ Interrupt
  BY <1>10, OutsideWaits DEF SpinOnce, Shutdown, Interrupt, DoorInv, DoorSeenOpen, waiting
<1>11. QED
  BY <1>1, <1>2, <1>3, <1>4, <1>5, <1>6, <1>7, <1>8, <1>9, <1>10 DEF Shared

LEMMA TimedDoor == ASSUME MaxScanGap < StableRequired PROVE TimedSpec => []DoorSeenOpen
<1>1. Init => WaitingOK /\ DoorInv
  BY InitDoor DEF FirstDoorInv
<1>2. WaitingOK /\ DoorInv /\ [TimedNext]_vars => WaitingOK' /\ DoorInv'
  <2> SUFFICES ASSUME WaitingOK, DoorInv, [TimedNext]_vars PROVE WaitingOK' /\ DoorInv'
    OBVIOUS
  <2>1. CASE Shared
    BY <2>1, SharedDoor
  <2>2. CASE TimedPanels \/ TimedReturn \/ UNCHANGED vars
    BY <2>2, OutsideWaits DEF TimedPanels, TimedReturn, After, DoorInv, DoorSeenOpen, Counting,
       waiting, At, Goto, vars, progress
  <2>3. QED
    BY <2>1, <2>2 DEF TimedNext, TimedProgress, TimedSettings, TimedLoops, TimedDoors, TimedMaps,
       TimedNavs, TimedMoves, TimedBoarding, Shared
<1>3. DoorInv => DoorSeenOpen
  BY DEF DoorInv
<1>4. QED
  BY <1>1, <1>2, <1>3, PTL DEF TimedSpec

LEMMA ButtonDoor == ASSUME MaxScanGap < StableRequired PROVE ButtonSpec => []DoorSeenOpen
<1>1. Init => WaitingOK /\ DoorInv
  BY InitDoor DEF FirstDoorInv
<1>2. WaitingOK /\ DoorInv /\ [ButtonNext]_buttonVars => WaitingOK' /\ DoorInv'
  <2> SUFFICES ASSUME WaitingOK, DoorInv, [ButtonNext]_buttonVars PROVE WaitingOK' /\ DoorInv'
    OBVIOUS
  <2>1. CASE Shared
    BY <2>1, SharedDoor
  <2> USE OutsideWaits DEF DoorInv, DoorSeenOpen, Counting, waiting, At, Goto, Step, Fail,
          progress, AllElse
  <2>2. CASE StartDetector \/ HoldDetector \/ DetectorStarted \/ DetectorGone \/ WatchInside
             \/ AskDetector \/ ForgetDetector \/ DetectorExits
    BY <2>2 DEF StartDetector, HoldDetector, DetectorStarted, DetectorGone, WatchInside, BeginWatch,
       AskDetector, ForgetDetector, DetectorExits
  <2>3. ASSUME NEW tick \in {0, 1}, WatchIteration(tick) PROVE WaitingOK' /\ DoorInv'
    <3>1. PICK s \in Presses :
            /\ UNCHANGED waiting /\ stage = s /\ step = "counting"
            /\ UNCHANGED progress \/ Goto(After[s])
      BY <2>3, Zenon DEF WatchIteration, WatchDetection, WatchOther, Watch
    <3>2. After[s] \in {"approach", "to_exit"}
      BY DEF After
    <3>3. QED
      BY <3>1, <3>2
  <2>4. CASE ButtonArrival \/ ButtonEnd
    BY <2>4 DEF ButtonArrival, AnnounceArrival, AnnounceSnack, ButtonEnd, StopRobot,
       StopUnheard, Shutdown
  <2>5. CASE ButtonInterrupt \/ ButtonMusic
    BY <2>5 DEF ButtonInterrupt, InterruptBody, InterruptFinally, Interrupt, ButtonMusic,
       MusicEnds
  <2>6. CASE UNCHANGED buttonVars
    BY <2>6 DEF buttonVars, vars
  <2>7. QED
    BY <2>1, <2>2, <2>3, <2>4, <2>5, <2>6 DEF ButtonNext, ButtonProgress, ButtonLoops,
       ButtonDoors, ButtonSettings, ButtonMaps, ButtonNavs, ButtonMoves, ButtonBoarding, ButtonSpin, Shared
<1>3. DoorInv => DoorSeenOpen
  BY DEF DoorInv
<1>4. QED
  BY <1>1, <1>2, <1>3, PTL DEF ButtonSpec, buttonVars

LEMMA FirstDoorStep ==
  ASSUME MaxScanGap < StableRequired, WaitingOK, FirstDoorInv, [FirstNext]_firstVars
  PROVE  WaitingOK' /\ FirstDoorInv'
<1>1. ASSUME WaitingOK' /\ DoorInv', stage' = "target_pose" => openSeen'
      PROVE  WaitingOK' /\ FirstDoorInv'
  BY <1>1 DEF FirstDoorInv
<1>2. WaitingOK /\ DoorInv /\ (stage = "target_pose" => openSeen)
  BY DEF FirstDoorInv
<1>3. ASSUME UNCHANGED waiting, ~Counting' \/ UNCHANGED <<stage, step>>, DoorSeenOpen',
             stage' = "target_pose" => openSeen
      PROVE  WaitingOK' /\ FirstDoorInv'
  BY <1>1, <1>2, <1>3, OutsideWaits DEF waiting
<1> USE <1>2, <1>3 DEF DoorInv, DoorSeenOpen, Counting, waiting, FirstNavs, At, Goto, Step,
        Fail, progress, Silent, Rest, MotionElse
<1>4. CASE FirstValidate \/ FirstMapCall \/ FirstMapReply \/ StartPose \/ InsidePose
           \/ TargetPose \/ FirstRelocate
  BY <1>4 DEF FirstValidate, Validate, FirstMapCall, LoadMapCall, FirstMapReply, StartPose,
     InsidePose, TargetPose, FirstRelocate
<1>5. ASSUME NEW s \in FirstNavs,
             FirstNavSend(s) \/ FirstNavAccepted(s) \/ FirstNavSucceeded(s) \/ FirstNavFailed(s)
      PROVE  WaitingOK' /\ FirstDoorInv'
  BY <1>5 DEF FirstNavSend, FirstNavAccepted, FirstNavSucceeded, FirstNavFailed
<1>6. CASE FirstBoarding \/ FirstEstimation
  BY <1>6 DEF FirstBoarding, FirstEstimation
<1>7. CASE FirstBeginWait
  <2>1. /\ stable' = 0 /\ gap' = 0 /\ openSeen' = FALSE
        /\ stage' \in Waits
    BY <1>7 DEF FirstBeginWait, BeginWait
  <2>2. WaitingOK'
    BY <2>1 DEF WaitingOK
  <2>3. FirstDoorInv'
    BY <2>1, DoorAssumption DEF FirstDoorInv
  <2>4. QED
    BY <2>2, <2>3
<1>8. CASE FirstDrive \/ FirstDriveFail \/ FirstDriveDone
  BY <1>8 DEF FirstDrive, Drive, FirstDriveFail, DriveBlocked, BadSpeed, FirstDriveDone
<1>9. CASE Rotate \/ RotateDone \/ Creep \/ CreepDone
  BY <1>9 DEF Rotate, RotateDone, Creep, CreepDone
<1>10. ASSUME NEW fresh \in BOOLEAN, DoorAlreadyInside(fresh)
       PROVE  WaitingOK' /\ FirstDoorInv'
  BY <1>10 DEF DoorAlreadyInside, WaitSpin, WaitingOK, FirstDoorInv
<1>11. ASSUME NEW fresh \in BOOLEAN, DoorWait(fresh) PROVE WaitingOK' /\ FirstDoorInv'
  <2>1. /\ WaitingOK' /\ gap' <= MaxScanGap /\ (openSeen' \/ stable' <= gap')
        /\ stable' >= StableRequired => openSeen'
    BY <1>11, CountedDoor DEF DoorWait
  <2>2. QED
    BY <1>11, <2>1 DEF DoorWait, WaitSpin, FirstDoorInv
<1>12. CASE FirstTargetDoor
  <2>1. PICK fresh \in BOOLEAN : WaitSpin("await", fresh) /\ Count(fresh)
    BY <1>12 DEF FirstTargetDoor
  <2>2. /\ WaitingOK' /\ gap' <= MaxScanGap /\ (openSeen' \/ stable' <= gap')
        /\ stable' >= StableRequired => openSeen'
    BY <2>1, CountedDoor
  <2>3. QED
    BY <1>12, <2>1, <2>2 DEF FirstTargetDoor, WaitSpin, FirstDoorInv
<1>13. CASE FirstFloor
  BY <1>13 DEF FirstFloor
<1>14. CASE FirstReturn \/ FirstSpin \/ FirstEnd \/ Shutdown
  BY <1>14 DEF FirstReturn, FirstSpin, SpinOnce, FirstEnd, Shutdown, Interrupt
<1>15. CASE UNCHANGED firstVars
  BY <1>15 DEF firstVars, vars
<1>16. QED
  BY <1>4, <1>5, <1>6, <1>7, <1>8, <1>9, <1>10, <1>11, <1>12, <1>13, <1>14, <1>15
  DEF FirstNext, FirstProgress, FirstServices, FirstDoor

LEMMA FirstDoorKept == ASSUME MaxScanGap < StableRequired PROVE FirstSpec => []DoorSeenOpen
<1>1. Init => WaitingOK /\ FirstDoorInv
  BY InitDoor
<1>2. WaitingOK /\ FirstDoorInv /\ [FirstNext]_firstVars => WaitingOK' /\ FirstDoorInv'
  BY FirstDoorStep
<1>3. FirstDoorInv => DoorSeenOpen
  BY DEF FirstDoorInv, DoorInv
<1>4. QED
  BY <1>1, <1>2, <1>3, PTL DEF FirstSpec, firstVars

\* In every generation, a door the robot drives through was seen open during the
\* wait for it, for every count that exceeds the silence of the lidar.  The first
\* generation changes maps and poses between its last look and its exit; it waits
\* for the floor once and then for any open door, so of its exit this says that a
\* door was open, not that the lift still was at the target floor.
THEOREM GenerationsSeeTheDoor ==
  ASSUME MaxScanGap < StableRequired
  PROVE  /\ ButtonSpec => []DoorSeenOpen
         /\ TimedSpec  => []DoorSeenOpen
         /\ FirstSpec  => []DoorSeenOpen
BY ButtonDoor, TimedDoor, FirstDoorKept

-----------------------------------------------------------------------------
(***************************************************************************)
(* The detector process and its frames.                                     *)
(***************************************************************************)
LEMMA DetectorStep ==
  EyesOK /\ RestInv /\ DetectorInv /\ [ButtonNext]_buttonVars => DetectorInv'
<1> SUFFICES ASSUME EyesOK, RestInv, DetectorInv, [ButtonNext]_buttonVars PROVE DetectorInv'
  OBVIOUS
<1> USE DEF DetectorInv, Cut, Stopping, At, Goto, Step, Fail, progress, process, eyes, AllElse
<1>1. CASE StartDetector \/ HoldDetector \/ DetectorStarted \/ DetectorGone \/ WatchInside
  BY <1>1 DEF StartDetector, HoldDetector, DetectorStarted, DetectorGone, WatchInside, BeginWatch
<1>2. CASE AskDetector \/ ForgetDetector \/ DetectorExits
  BY <1>2 DEF AskDetector, ForgetDetector, DetectorExits
<1>3. CASE ButtonSettings \/ ButtonMaps
  <2>1. CASE ButtonSettings
    BY <2>1 DEF ButtonSettings, Validate, RoomFront, Relocate
  <2>2. CASE ButtonMaps
    BY <2>2 DEF ButtonMaps, LoadMapCall, LoadMapReply, After
  <2>3. QED
    BY <1>3, <2>1, <2>2
<1>4. CASE ButtonNavs
  BY <1>4 DEF ButtonNavs, NavSend, NavAccepted, NavSucceeded, NavFailed, After
<1>5. CASE ButtonMoves
  <2>1. UNCHANGED process
    BY <1>5 DEF ButtonMoves
  <2>2. ASSUME NEW s \in Moves, BeginMove(s) \/ FirstTurnDone(s) \/ LastTurnDone(s)
        PROVE DetectorInv'
    BY <2>1, <2>2 DEF BeginMove, FirstTurnDone, LastTurnDone, After
  <2>3. CASE BadSpeed \/ DriveBlocked \/ DriveDone \/ BeginExit
    BY <2>1, <2>3 DEF BadSpeed, DriveBlocked, DriveDone, BeginExit, RestInv, MotionInv
  <2>4. QED
    BY <1>5, <2>2, <2>3 DEF ButtonMoves
<1>6. CASE ButtonLoops
  BY <1>6 DEF ButtonLoops, Turn, Drive
<1>7. CASE ButtonDoors
  BY <1>7 DEF ButtonDoors, DoorAlreadyInside, DoorWait, AwaitFloor, AwaitDoor, WaitSpin
<1>8. CASE ButtonBoarding
  BY <1>8 DEF ButtonBoarding, SkipBoarding, StartEstimation, BeginWait
<1>9. CASE ButtonArrival \/ ButtonEnd
  BY <1>9 DEF ButtonArrival, AnnounceArrival, AnnounceSnack, ButtonEnd, StopRobot,
       StopUnheard, Shutdown
<1>10. ASSUME NEW tick \in {0, 1}, WatchIteration(tick) PROVE DetectorInv'
  <2>1. /\ UNCHANGED process
        /\ UNCHANGED progress \/ stage' \in {After[s] : s \in Presses}
        /\ stage \in Presses /\ step = "counting"
    BY <1>10, Zenon DEF WatchIteration, WatchDetection, WatchOther, Watch
  <2>2. {After[s] : s \in Presses} \subseteq {"approach", "to_exit"}
    BY DEF After
  <2>3. QED
    BY <2>1, <2>2
<1>11. CASE ButtonSpin \/ ButtonMusic
  BY <1>11 DEF ButtonSpin, SpinOnce, ButtonMusic, MusicEnds
<1>12. CASE ButtonInterrupt
  <2>0. yolo # "off" => yolo = "up" \/ yolo = "asked"
    BY DEF EyesOK
  <2>1. CASE InterruptBody
    <3>1. stage' = "finally" /\ outcome' = "interrupted" /\ ~Cut /\ yolo' = yolo
      BY <2>1 DEF InterruptBody
    <3>2. missed' = (missed \/ (yolo = "up" /\ ~held')) /\ (held' = held \/ held' = FALSE)
      BY <2>1 DEF InterruptBody
    <3> QED  BY <2>0, <3>1, <3>2
  <2>2. CASE InterruptFinally
    <3>1. stage' = "over" /\ outcome' = "interrupted" /\ yolo' = yolo
      BY <2>2 DEF InterruptFinally, Interrupt
    <3>2. missed' = (missed \/ yolo = "up")
      BY <2>2 DEF InterruptFinally
    <3> QED  BY <2>0, <3>1, <3>2
  <2> QED  BY <1>12, <2>1, <2>2 DEF ButtonInterrupt
<1>13. CASE UNCHANGED buttonVars
  BY <1>13 DEF buttonVars, vars
<1>14. QED
  BY <1>1, <1>2, <1>3, <1>4, <1>5, <1>6, <1>7, <1>8, <1>9, <1>10, <1>11, <1>12, <1>13
  DEF ButtonNext, ButtonProgress

-----------------------------------------------------------------------------
\* Time makes what a topic showed older, until it shows nothing.
LEMMA AgedFrames ==
  ASSUME seen \in [Topics -> Detections], NEW tick \in {0, 1}
  PROVE  /\ Aged(tick) \in [Topics -> Detections]
         /\ \A t \in Topics : Aged(tick)[t].shows = "active" =>
              seen[t].shows = "active" /\ Aged(tick)[t].age = seen[t].age + tick
<1> SUFFICES ASSUME NEW t \in Topics
             PROVE  /\ Aged(tick)[t] \in Detections
                    /\ Aged(tick)[t].shows = "active" =>
                         seen[t].shows = "active" /\ Aged(tick)[t].age = seen[t].age + tick
  BY DEF Aged
<1>1. seen[t] \in Detections /\ Unseen \in Detections /\ Unseen.shows = "nothing"
  BY DEF Detections, Unseen
<1>2. CASE seen[t] # Unseen /\ seen[t].age + tick <= Stale
  <2>1. Aged(tick)[t] = [seen[t] EXCEPT !.age = @ + tick]
    BY <1>2 DEF Aged
  <2>2. seen[t] \in [shows : Views \ {"nothing"}, age : 0 .. Stale]
    BY <1>1, <1>2 DEF Detections
  <2>3. seen[t].age + tick \in 0 .. Stale
    BY <1>2, <2>2, TimeAssumption
  <2>4. QED
    BY <2>1, <2>2, <2>3 DEF Detections
<1>3. CASE ~(seen[t] # Unseen /\ seen[t].age + tick <= Stale)
  <2>1. Aged(tick)[t] = Unseen
    BY <1>3, Zenon DEF Aged
  <2>2. QED
    BY <1>1, <2>1
<1>4. QED
  BY <1>2, <1>3

\* Watching: an iteration is being executed.
AtPanel == stage \in Presses /\ step = "counting"

\* One iteration, whatever it finds: a candidate that was not seen again is no
\* older than any frame that supports it, so it goes stale before it is confirmed.
LEMMA WatchFrames ==
  ASSUME FrameInv, NEW s \in Presses, NEW tick \in {0, 1}, NEW fresh \in BOOLEAN,
         NEW d \in [Topics -> Detections], Watch(s, tick, d, fresh), UNCHANGED process,
         ~fresh => \A t \in Topics : d[t].shows = "active" =>
                      seen[t].shows = "active" /\ d[t].age = seen[t].age + tick
  PROVE  FrameInv' /\ (latched' \subseteq latched \/ active'.again)
<1>1. /\ active' = Candidate(tick, d, fresh) /\ stage = s /\ step = "counting"
      /\ Confirmed => stage' = After[s] /\ seen' = Blind /\ latched' = latched \cup {s}
      /\ ~Confirmed => seen' = d /\ UNCHANGED <<stage, step, latched>>
  BY DEF Watch, At, Goto, progress
<1>2. /\ active \in [on : BOOLEAN, elapsed : 0 .. Confirm, again : BOOLEAN]
      /\ active.elapsed < Confirm /\ active.elapsed \in Nat /\ Confirm \in Nat
      /\ seen \in [Topics -> Detections] /\ latched \subseteq Presses
      /\ yolo \in {"off", "up", "asked"} /\ held \in BOOLEAN /\ missed \in BOOLEAN
  BY <1>1, TimeAssumption DEF FrameInv, EyesOK
<1>3. \A t \in Topics : d[t].age \in Nat /\ (d[t].shows = "active" => d[t].age <= Stale)
  BY TimeAssumption DEF Detections, Unseen
<1>4. After[s] \notin Presses /\ Blind \in [Topics -> Detections]
      /\ \A t \in Topics : Blind[t].shows # "active"
  BY DEF After, Blind, Detections, Unseen
<1>5. /\ active' \in [on : BOOLEAN, elapsed : 0 .. Confirm, again : BOOLEAN]
      /\ active'.on /\ ~active'.again =>
           /\ \A t \in Topics : d[t].shows = "active" => d[t].age >= active'.elapsed
           /\ active'.elapsed < Confirm
      /\ ~active'.on => active'.elapsed = 0
  <2>1. CASE ~Recent(d, "active")
    <3>1. active' = [on |-> FALSE, elapsed |-> 0, again |-> FALSE]
      BY <1>1, <2>1 DEF Candidate, NoCandidate
    <3>2. QED
      BY <3>1, <1>2
  <2>2. CASE Recent(d, "active") /\ ~active.on
    <3>1. active' = [on |-> TRUE, elapsed |-> 0, again |-> FALSE]
      BY <1>1, <2>2 DEF Candidate, NoCandidate
    <3>2. 0 < Confirm
      BY <1>2
    <3>3. QED
      BY <3>1, <3>2, <1>2, <1>3
  <2>3. CASE Recent(d, "active") /\ active.on
    <3>1. active' = [on |-> TRUE, elapsed |-> active.elapsed + tick,
                     again |-> active.again \/ fresh]
      BY <1>1, <2>3 DEF Candidate
    <3>2. active.elapsed + tick \in 0 .. Confirm
      BY <1>2
    <3>3. (active.again \/ fresh) \in BOOLEAN
      OBVIOUS
    <3>4. /\ active'.on = TRUE /\ active'.elapsed = active.elapsed + tick
          /\ active'.again = (active.again \/ fresh)
          /\ active' \in [on : BOOLEAN, elapsed : 0 .. Confirm, again : BOOLEAN]
      BY <3>1, <3>2, <3>3
    <3>5. ASSUME ~active'.again
          PROVE  /\ \A t \in Topics : d[t].shows = "active" => d[t].age >= active'.elapsed
                 /\ active'.elapsed < Confirm
      <4>1. ~active.again /\ ~fresh
        BY <3>4, <3>5
      <4>2. ASSUME NEW t \in Topics, d[t].shows = "active" PROVE d[t].age >= active'.elapsed
        <5>1. seen[t].shows = "active" /\ d[t].age = seen[t].age + tick
          BY <4>1, <4>2
        <5>2. seen[t].age >= active.elapsed /\ seen[t].age \in Nat
          BY <2>3, <4>1, <5>1, <1>2, TimeAssumption DEF FrameInv, Detections, Unseen
        <5>3. QED
          BY <5>1, <5>2, <3>4, <1>2
      <4>3. PICK t \in Topics : d[t].shows = "active"
        BY <2>3 DEF Recent
      <4>4. active'.elapsed < Confirm
        BY <4>2, <4>3, <1>2, <1>3, <3>4, <3>2, TimeAssumption
      <4>5. QED
        BY <4>2, <4>4
    <3>6. QED
      BY <3>4, <3>5
  <2>4. QED
    BY <2>1, <2>2, <2>3
<1>6. CASE Confirmed
  <2>1. active'.again
    BY <1>2, <1>5, <1>6 DEF Confirmed
  <2>2. QED
    BY <1>1, <1>2, <1>4, <1>5, <1>6, <2>1 DEF FrameInv, EyesOK, process
<1>7. CASE ~Confirmed
  <2>1. active'.elapsed < Confirm
    BY <1>2, <1>5, <1>7 DEF Confirmed
  <2>2. QED
    BY <1>1, <1>2, <1>5, <1>7, <2>1 DEF FrameInv, EyesOK, process
<1>8. QED
  BY <1>6, <1>7

LEMMA FrameStep ==
  ASSUME FrameInv, [ButtonNext]_buttonVars
  PROVE  FrameInv' /\ (latched' \subseteq latched \/ active'.again)
<1>1. ASSUME EyesOK', UNCHANGED <<seen, active>>, latched' \subseteq latched, AtPanel' => AtPanel
      PROVE  FrameInv' /\ (latched' \subseteq latched \/ active'.again)
  BY <1>1 DEF FrameInv, AtPanel
<1>2. ASSUME UNCHANGED eyes, AtPanel' => AtPanel
      PROVE  FrameInv' /\ (latched' \subseteq latched \/ active'.again)
  BY <1>1, <1>2 DEF FrameInv, EyesOK, eyes, process
<1> USE DEF AtPanel, At, Goto, Step, Fail, progress
<1>3. CASE StartDetector \/ HoldDetector \/ AskDetector \/ ForgetDetector \/ DetectorExits
  <2>1. UNCHANGED <<seen, active, latched>> /\ (AtPanel' => AtPanel)
    BY <1>3 DEF StartDetector, HoldDetector, AskDetector, ForgetDetector, DetectorExits, Watching
  <2>2. yolo' \in {"off", "up", "asked"} /\ held' \in BOOLEAN /\ missed' = missed
    BY <1>3 DEF StartDetector, HoldDetector, AskDetector, ForgetDetector, DetectorExits, FrameInv,
       EyesOK
  <2>3. QED
    BY <1>1, <2>1, <2>2 DEF FrameInv, EyesOK
<1>4. CASE DetectorStarted \/ WatchInside
  <2>1. /\ seen' \in [Topics -> Detections] /\ active' = NoCandidate
        /\ UNCHANGED <<yolo, held, missed, latched>>
    BY <1>4 DEF DetectorStarted, WatchInside, BeginWatch, process
  <2>2. active' = [on |-> FALSE, elapsed |-> 0, again |-> FALSE] /\ 0 < Confirm
    BY <2>1, TimeAssumption DEF NoCandidate
  <2>3. active' \in [on : BOOLEAN, elapsed : 0 .. Confirm, again : BOOLEAN]
    BY <2>2, TimeAssumption
  <2>4. QED
    BY <2>1, <2>2, <2>3 DEF FrameInv, EyesOK
<1>5. CASE DetectorGone \/ ButtonArrival \/ ButtonEnd
  BY <1>2, <1>5 DEF DetectorGone, ButtonArrival, AnnounceArrival, AnnounceSnack, ButtonEnd,
     StopRobot, StopUnheard, Shutdown
<1>6. CASE ButtonSettings \/ ButtonMaps
  <2>1. CASE ButtonSettings
    BY <1>2, <2>1 DEF ButtonSettings, Validate, RoomFront, Relocate
  <2>2. ASSUME NEW s \in Loads, LoadMapCall(s) \/ LoadMapReply(s) PROVE AtPanel' => AtPanel
    BY <2>2 DEF LoadMapCall, LoadMapReply, After
  <2>3. QED
    BY <1>2, <1>6, <2>1, <2>2 DEF ButtonMaps
<1>7. CASE ButtonNavs
  <2>1. ASSUME NEW s \in Navs, NavSend(s) \/ NavAccepted(s) \/ NavSucceeded(s) \/ NavFailed(s)
        PROVE AtPanel' => AtPanel
    BY <2>1 DEF NavSend, NavAccepted, NavSucceeded, NavFailed, After
  <2>2. QED
    BY <1>2, <1>7, <2>1 DEF ButtonNavs
<1>8. CASE ButtonMoves
  <2>1. ASSUME NEW s \in Moves, BeginMove(s) \/ FirstTurnDone(s) \/ LastTurnDone(s)
        PROVE AtPanel' => AtPanel
    BY <2>1 DEF BeginMove, FirstTurnDone, LastTurnDone, After
  <2>2. ASSUME BadSpeed \/ DriveBlocked \/ DriveDone \/ BeginExit PROVE AtPanel' => AtPanel
    BY <2>2 DEF BadSpeed, DriveBlocked, DriveDone, BeginExit
  <2>3. QED
    BY <1>2, <1>8, <2>1, <2>2 DEF ButtonMoves
<1>9. CASE ButtonLoops
  BY <1>2, <1>9 DEF ButtonLoops, Turn, Drive
<1>10. CASE ButtonDoors
  <2>1. /\ UNCHANGED <<yolo, held, missed, seen, active>> /\ (latched' = latched \/ latched' = {})
        /\ ~AtPanel'
    BY <1>10 DEF ButtonDoors, eyes, process, DoorAlreadyInside, DoorWait, AwaitFloor, AwaitDoor,
       WaitSpin
  <2>2. EyesOK' /\ latched' \subseteq latched
    BY <2>1 DEF FrameInv, EyesOK
  <2>3. QED
    BY <1>1, <2>1, <2>2
<1>11. CASE ButtonBoarding
  BY <1>2, <1>11 DEF ButtonBoarding, SkipBoarding, StartEstimation, BeginWait
<1>12. ASSUME NEW tick \in {0, 1}, WatchIteration(tick)
       PROVE  FrameInv' /\ (latched' \subseteq latched \/ active'.again)
  <2>1. seen \in [Topics -> Detections]
    BY DEF FrameInv, EyesOK
  <2>2. PICK s \in Presses : WatchDetection(s, tick) \/ WatchOther(s, tick)
    BY <1>12, Zenon DEF WatchIteration
  <2>3. CASE WatchDetection(s, tick)
    <3>1. PICK t \in Topics, v \in Views :
            Watch(s, tick, [Aged(tick) EXCEPT ![t] = Frame(v)], v = "active")
      BY <2>3, Zenon DEF WatchDetection
    <3> DEFINE d == [Aged(tick) EXCEPT ![t] = Frame(v)]
    <3>2. Frame(v) \in Detections /\ Frame(v).shows = v
      BY TimeAssumption DEF Frame, Detections, Unseen, Views
    <3>3. d \in [Topics -> Detections]
      BY <2>1, <3>2, AgedFrames
    <3>4. ~(v = "active") => \A u \in Topics : d[u].shows = "active" =>
            seen[u].shows = "active" /\ d[u].age = seen[u].age + tick
      BY <2>1, <3>2, AgedFrames
    <3>5. (v = "active") \in BOOLEAN /\ UNCHANGED process
      BY <3>1 DEF Watch
    <3> HIDE DEF d
    <3>6. Watch(s, tick, d, v = "active")
      BY <3>1 DEF d
    <3>7. QED
      BY <3>3, <3>4, <3>5, <3>6, WatchFrames
  <2>4. CASE WatchOther(s, tick)
    <3>1. Watch(s, tick, Aged(tick), FALSE)
      BY <2>4, Zenon DEF WatchOther
    <3>2. UNCHANGED process
      BY <3>1 DEF Watch
    <3>3. QED
      BY <2>1, <3>1, <3>2, AgedFrames, WatchFrames
  <2>5. QED
    BY <2>2, <2>3, <2>4
<1>13. CASE ButtonSpin \/ ButtonMusic
  BY <1>2, <1>13 DEF ButtonSpin, SpinOnce, ButtonMusic, MusicEnds
<1>14. CASE ButtonInterrupt
  <2>1. UNCHANGED <<seen, active, latched>> /\ ~AtPanel'
    BY <1>14 DEF ButtonInterrupt, InterruptBody, InterruptFinally, Interrupt, Watching
  <2>2. yolo' = yolo /\ held' \in BOOLEAN /\ missed' \in BOOLEAN
    <3>1. held \in BOOLEAN /\ missed \in BOOLEAN
      BY DEF FrameInv, EyesOK
    <3>2. /\ yolo' = yolo /\ (held' = held \/ held' = FALSE)
          /\ \/ missed' = (missed \/ (yolo = "up" /\ ~held'))
             \/ missed' = (missed \/ yolo = "up")
      BY <1>14 DEF ButtonInterrupt, InterruptBody, InterruptFinally
    <3> QED  BY <3>1, <3>2
  <2>3. QED
    BY <1>1, <2>1, <2>2 DEF FrameInv, EyesOK
<1>15. CASE UNCHANGED buttonVars
  BY <1>2, <1>15 DEF buttonVars, vars
<1>16. QED
  BY <1>3, <1>4, <1>5, <1>6, <1>7, <1>8, <1>9, <1>10, <1>11, <1>12, <1>13, <1>14, <1>15
  DEF ButtonNext, ButtonProgress

LEMMA FrameInvariance == ButtonSpec => []FrameInv
<1>1. Init /\ ButtonInit => FrameInv
  <2> SUFFICES ASSUME Init, ButtonInit PROVE FrameInv
    OBVIOUS
  <2>1. active = [on |-> FALSE, elapsed |-> 0, again |-> FALSE] /\ 0 \in 0 .. Confirm
    BY TimeAssumption DEF ButtonInit, NoCandidate
  <2>2. seen \in [Topics -> Detections]
    BY DEF ButtonInit, Blind, Detections
  <2>3. EyesOK
    <3>1. active \in [on : BOOLEAN, elapsed : 0 .. Confirm, again : BOOLEAN]
      BY <2>1
    <3>2. yolo = "off" /\ held = FALSE /\ missed = FALSE /\ latched = {}
      BY DEF ButtonInit
    <3>3. QED
      BY <2>2, <3>1, <3>2 DEF EyesOK
  <2>4. stage = "validate"
    BY DEF Init
  <2>5. QED
    BY <2>1, <2>3, <2>4 DEF FrameInv
<1>2. FrameInv /\ [ButtonNext]_buttonVars => FrameInv'
  BY FrameStep
<1>3. QED
  BY <1>1, <1>2, PTL DEF ButtonSpec, buttonVars

\* Every variable of the detection keeps its type, for any number of topics and
\* any times; the time of a candidate does not run past its confirmation.
THEOREM ButtonTypeCorrect == ButtonSpec => []EyesOK
<1>1. FrameInv => EyesOK
  BY DEF FrameInv
<1>2. QED
  BY <1>1, FrameInvariance, PTL

\* When run() returns by itself no yolov8_node is left, failures of the detector
\* included.  A yolov8_node that was not told to stop is left only by a Ctrl-C that
\* fell before its process was held, before it was told, or into the finally clause
\* while it ran: for every topic, time and order of the callbacks.
THEOREM DetectorStopped == ButtonSpec => []NoDetectorLeft
<1>1. Init /\ ButtonInit => DetectorInv
  BY DEF Init, ButtonInit, DetectorInv
<1>2. DetectorInv => NoDetectorLeft
  BY DEF DetectorInv, NoDetectorLeft, Cut
<1>3. QED
  BY <1>1, <1>2, DetectorStep, ButtonTypeCorrect, ButtonRest, PTL DEF ButtonSpec, buttonVars

\* A single frame never presses a button, for any number of topics and any times
\* in which a frame goes stale before a candidate is confirmed.
THEOREM TwoFramesConfirm == ButtonSpec => ConfirmedByTwoFrames
<1>1. FrameInv /\ [ButtonNext]_buttonVars => latched' \subseteq latched \/ active'.again
  BY FrameStep
<1>2. QED
  BY <1>1, FrameInvariance, PTL DEF ButtonSpec, buttonVars, ConfirmedByTwoFrames

-----------------------------------------------------------------------------
(***************************************************************************)
(* Maps, and obstacles.                                                     *)
(***************************************************************************)
LEMMA SharedMap == ASSUME "error" \notin LoadReplies, MapInv, Shared PROVE MapInv'
<1> USE DEF MapInv, At, Goto, Step, Fail, progress, location
<1>1. CASE Validate \/ RoomFront \/ Relocate \/ SkipBoarding \/ StartEstimation \/ BeginExit
  BY <1>1 DEF Validate, RoomFront, Relocate, SkipBoarding, StartEstimation, BeginExit,
     PublishInitialPose
<1>2. ASSUME NEW s \in Loads, LoadMapCall(s) \/ LoadMapReply(s) PROVE MapInv'
  <2>1. CASE LoadMapCall(s)
    BY <2>1 DEF LoadMapCall
  <2>2. CASE LoadMapReply(s)
    BY <2>2, ReplyAssumption DEF LoadMapReply, After, MapOf
  <2>3. QED
    BY <1>2, <2>1, <2>2
<1>3. ASSUME NEW s \in Navs,
             NavSend(s) \/ NavAccepted(s) \/ NavSucceeded(s) \/ NavFailed(s)
      PROVE MapInv'
  BY <1>3 DEF NavSend, NavAccepted, NavSucceeded, NavFailed, After
<1>4. ASSUME NEW s \in Moves, BeginMove(s) \/ FirstTurnDone(s) \/ LastTurnDone(s)
      PROVE MapInv'
  BY <1>4 DEF BeginMove, FirstTurnDone, LastTurnDone, After
<1>5. CASE Turn \/ BadSpeed \/ DriveBlocked \/ DriveDone \/ Drive
  BY <1>5 DEF Turn, BadSpeed, DriveBlocked, DriveDone, Drive
<1>6. ASSUME NEW s \in Waits, BeginWait(s) PROVE MapInv'
  BY <1>6 DEF BeginWait
<1>7. ASSUME NEW fresh \in BOOLEAN,
             DoorAlreadyInside(fresh) \/ DoorWait(fresh) \/
               AwaitFloor(fresh) \/ AwaitDoor(fresh)
      PROVE MapInv'
  BY <1>7 DEF DoorAlreadyInside, DoorWait, AwaitFloor, AwaitDoor, WaitSpin
<1>8. CASE SpinOnce \/ Shutdown \/ Interrupt
  BY <1>8 DEF SpinOnce, Shutdown, Interrupt
<1>9. QED
  BY <1>1, <1>2, <1>3, <1>4, <1>5, <1>6, <1>7, <1>8 DEF Shared

LEMMA TimedMap ==
  ASSUME "error" \notin LoadReplies PROVE TimedSpec => []NavStartsLocalised
<1>1. Init => MapInv
  BY DEF Init, MapInv
<1>2. MapInv /\ [TimedNext]_vars => MapInv'
  <2> SUFFICES ASSUME MapInv, [TimedNext]_vars PROVE MapInv'
    OBVIOUS
  <2>1. CASE Shared
    BY <2>1, SharedMap
  <2>2. CASE TimedPanels \/ TimedReturn \/ UNCHANGED vars
    BY <2>2 DEF TimedPanels, TimedReturn, After, MapInv, At, Goto, vars, progress, location
  <2>3. QED
    BY <2>1, <2>2 DEF TimedNext, TimedProgress, TimedSettings, TimedLoops, TimedDoors, TimedMaps,
       TimedNavs, TimedMoves, TimedBoarding, Shared
<1>3. MapInv => NavStartsLocalised
  BY DEF MapInv, NavStartsLocalised, MapOf
<1>4. QED
  BY <1>1, <1>2, <1>3, PTL DEF TimedSpec

LEMMA ButtonMap ==
  ASSUME "error" \notin LoadReplies PROVE ButtonSpec => []NavStartsLocalised
<1>1. Init => MapInv
  BY DEF Init, MapInv
<1>2. MapInv /\ [ButtonNext]_buttonVars => MapInv'
  <2> SUFFICES ASSUME MapInv, [ButtonNext]_buttonVars PROVE MapInv'
    OBVIOUS
  <2>1. CASE Shared
    BY <2>1, SharedMap
  <2> USE DEF MapInv, At, Goto, Step, Fail, progress, location, AllElse
  <2>2. CASE StartDetector \/ HoldDetector \/ DetectorStarted \/ DetectorGone \/ WatchInside
             \/ AskDetector \/ ForgetDetector \/ DetectorExits
    BY <2>2 DEF StartDetector, HoldDetector, DetectorStarted, DetectorGone, WatchInside, BeginWatch,
       AskDetector, ForgetDetector, DetectorExits
  <2>3. ASSUME NEW tick \in {0, 1}, WatchIteration(tick) PROVE MapInv'
    <3>1. PICK s \in Presses :
            UNCHANGED location /\ (UNCHANGED progress \/ Goto(After[s]))
      BY <2>3, Zenon DEF WatchIteration, WatchDetection, WatchOther, Watch
    <3>2. After[s] \in {"approach", "to_exit"}
      BY DEF After
    <3>3. QED
      BY <3>1, <3>2
  <2>4. CASE ButtonArrival \/ ButtonEnd
    BY <2>4 DEF ButtonArrival, AnnounceArrival, AnnounceSnack, ButtonEnd, StopRobot,
       StopUnheard, Shutdown
  <2>5. CASE ButtonInterrupt \/ ButtonMusic
    BY <2>5 DEF ButtonInterrupt, InterruptBody, InterruptFinally, Interrupt, ButtonMusic,
       MusicEnds
  <2>6. CASE UNCHANGED buttonVars
    BY <2>6 DEF buttonVars, vars
  <2>7. QED
    BY <2>1, <2>2, <2>3, <2>4, <2>5, <2>6 DEF ButtonNext, ButtonProgress, ButtonLoops,
       ButtonDoors, ButtonSettings, ButtonMaps, ButtonNavs, ButtonMoves, ButtonBoarding, ButtonSpin, Shared
<1>3. MapInv => NavStartsLocalised
  BY DEF MapInv, NavStartsLocalised, MapOf
<1>4. QED
  BY <1>1, <1>2, <1>3, PTL DEF ButtonSpec, buttonVars

\* The first generation asks Nav2 to plan under stages of its own; an order for
\* the start floor never leaves the start map.
FirstNavStartsLocalised ==
  stage \in FirstNavs /\ nav # "idle" =>
    IF stage = "nav_front" \/ trip.sameFloor
    THEN map = "start"  /\ believed = [at |-> "room_front", on |-> map]
    ELSE map = "target" /\ believed = [at |-> "elevator_exit", on |-> map]

LEMMA FirstMap ==
  ASSUME "error" \notin LoadReplies PROVE FirstSpec => []FirstNavStartsLocalised
<1>1. Init => FirstMapInv
  BY DEF Init, FirstMapInv, Ending
<1>2. FirstRestInv /\ FirstMapInv /\ [FirstNext]_firstVars => FirstMapInv'
  <2> SUFFICES ASSUME FirstRestInv, FirstMapInv, [FirstNext]_firstVars PROVE FirstMapInv'
    OBVIOUS
  <2> USE DEF FirstMapInv, Ending, FirstNavs, Cut, At, Goto, Step, Fail, progress, location, Silent,
              Rest, MotionElse, PublishInitialPose
  <2>1. CASE FirstValidate \/ FirstMapCall \/ StartPose \/ InsidePose \/ TargetPose
             \/ FirstRelocate
    BY <2>1 DEF FirstValidate, Validate, FirstMapCall, LoadMapCall, StartPose, InsidePose,
       TargetPose, FirstRelocate
  <2>2. CASE FirstMapReply
    BY <2>2, ReplyAssumption DEF FirstMapReply, MapOf
  <2>3. ASSUME NEW s \in FirstNavs,
               FirstNavSend(s) \/ FirstNavAccepted(s) \/ FirstNavSucceeded(s) \/ FirstNavFailed(s)
        PROVE FirstMapInv'
    BY <2>3 DEF FirstNavSend, FirstNavAccepted, FirstNavSucceeded, FirstNavFailed
  <2>4. CASE FirstBeginWait \/ FirstBoarding \/ FirstEstimation
    BY <2>4 DEF FirstBeginWait, BeginWait, FirstBoarding, FirstEstimation
  <2>5. CASE FirstDrive \/ FirstDriveFail \/ FirstDriveDone
    BY <2>5 DEF FirstDrive, Drive, FirstDriveFail, DriveBlocked, BadSpeed, FirstDriveDone,
       FirstRestInv
  <2>6. CASE Rotate \/ RotateDone \/ Creep \/ CreepDone
    BY <2>6 DEF Rotate, RotateDone, Creep, CreepDone
  <2>7. CASE FirstDoor \/ FirstTargetDoor \/ FirstFloor
    BY <2>7 DEF FirstDoor, DoorAlreadyInside, DoorWait, FirstTargetDoor, WaitSpin, FirstFloor
  <2>8. CASE FirstReturn \/ FirstSpin \/ FirstEnd \/ (Shutdown /\ UNCHANGED trip)
    BY <2>8 DEF FirstReturn, FirstSpin, SpinOnce, FirstEnd, Shutdown, Interrupt
  <2>9. CASE UNCHANGED firstVars
    BY <2>9 DEF firstVars, vars
  <2>10. QED
    BY <2>1, <2>2, <2>3, <2>4, <2>5, <2>6, <2>7, <2>8, <2>9 DEF FirstNext, FirstProgress, FirstServices
<1>3. FirstMapInv => FirstNavStartsLocalised
  BY DEF FirstMapInv, FirstNavStartsLocalised, FirstNavs
<1>4. QED
  BY <1>1, <1>2, <1>3, FirstRest, PTL DEF FirstSpec, firstVars

\* Every generation has Nav2 plan on the map of the robot's floor, re-localised on
\* that map, provided the map server never answers with an error code.
THEOREM GenerationsPlanLocalised ==
  ASSUME "error" \notin LoadReplies
  PROVE  /\ ButtonSpec => []NavStartsLocalised
         /\ TimedSpec  => []NavStartsLocalised
         /\ FirstSpec  => []FirstNavStartsLocalised
BY ButtonMap, TimedMap, FirstMap

-----------------------------------------------------------------------------
Obeyed == cmd' = "zero" \/ UNCHANGED <<cmd, scan, floor>>

LEMMA SharedObeys == ASSUME step = "drive", Blocked, Shared PROVE Obeyed
<1> USE DEF Obeyed, At, caches, motion
<1>1. CASE Validate \/ RoomFront \/ Relocate \/ SkipBoarding \/ StartEstimation \/ BeginExit
           \/ Turn \/ BadSpeed \/ DriveBlocked \/ DriveDone \/ Drive
  BY <1>1 DEF Validate, RoomFront, Relocate, SkipBoarding, StartEstimation, BeginExit, Turn,
     BadSpeed, DriveBlocked, DriveDone, Drive
<1>2. CASE SpinOnce \/ Shutdown \/ Interrupt
  BY <1>2 DEF SpinOnce, Shutdown, Interrupt
<1>3. \A s \in Loads : ~LoadMapCall(s) /\ ~LoadMapReply(s)
  BY DEF LoadMapCall, LoadMapReply
<1>4. \A s \in Navs : ~NavSend(s) /\ ~NavAccepted(s) /\ ~NavSucceeded(s) /\ ~NavFailed(s)
  BY DEF NavSend, NavAccepted, NavSucceeded, NavFailed
<1>5. \A s \in Moves : ~BeginMove(s) /\ ~FirstTurnDone(s) /\ ~LastTurnDone(s)
  BY DEF BeginMove, FirstTurnDone, LastTurnDone
<1>6. \A s \in Waits : ~BeginWait(s)
  BY DEF BeginWait
<1>7. \A fresh \in BOOLEAN :
        ~DoorAlreadyInside(fresh) /\ ~DoorWait(fresh) /\ ~AwaitFloor(fresh) /\ ~AwaitDoor(fresh)
  BY DEF DoorAlreadyInside, DoorWait, AwaitFloor, AwaitDoor, WaitSpin
<1>8. QED
  BY <1>1, <1>2, <1>3, <1>4, <1>5, <1>6, <1>7 DEF Shared

LEMMA TimedObeys == ASSUME step = "drive", Blocked, [TimedNext]_vars PROVE Obeyed
<1>1. CASE Shared
  BY <1>1, SharedObeys
<1>2. CASE TimedPanels \/ TimedReturn \/ UNCHANGED vars
  BY <1>2 DEF Obeyed, TimedPanels, TimedReturn, At, caches, motion, vars
<1>3. QED
  BY <1>1, <1>2 DEF TimedNext, TimedProgress, TimedSettings, TimedLoops, TimedDoors, TimedMaps,
     TimedNavs, TimedMoves, TimedBoarding, Shared

LEMMA ButtonObeys == ASSUME step = "drive", Blocked, [ButtonNext]_buttonVars PROVE Obeyed
<1>1. CASE Shared
  BY <1>1, SharedObeys
<1> USE DEF Obeyed, At, caches, motion, AllElse
<1>2. CASE StartDetector \/ HoldDetector \/ DetectorStarted \/ DetectorGone \/ WatchInside
           \/ AskDetector \/ ForgetDetector \/ DetectorExits
  BY <1>2 DEF StartDetector, HoldDetector, DetectorStarted, DetectorGone, WatchInside, BeginWatch, AskDetector,
     ForgetDetector, DetectorExits
<1>3. \A tick \in {0, 1} : ~WatchIteration(tick)
  BY DEF WatchIteration, WatchDetection, WatchOther, Watch
<1>4. CASE ButtonArrival \/ ButtonEnd
  BY <1>4 DEF ButtonArrival, AnnounceArrival, AnnounceSnack, ButtonEnd, StopRobot,
       StopUnheard, Shutdown
<1>5. CASE ButtonInterrupt \/ ButtonMusic
  BY <1>5 DEF ButtonInterrupt, InterruptBody, InterruptFinally, Interrupt, ButtonMusic,
       MusicEnds
<1>6. CASE UNCHANGED buttonVars
  BY <1>6 DEF buttonVars, vars
<1>7. QED
  BY <1>1, <1>2, <1>3, <1>4, <1>5, <1>6 DEF ButtonNext, ButtonProgress, ButtonLoops,
     ButtonDoors, ButtonSettings, ButtonMaps, ButtonNavs, ButtonMoves, ButtonBoarding, ButtonSpin, Shared

LEMMA FirstObeys ==
  ASSUME FirstRestInv, step = "drive", Blocked, [FirstNext]_firstVars PROVE Obeyed
<1> USE DEF Obeyed, At, caches, motion, FirstNavs, Silent, Rest, MotionElse
<1>1. CASE FirstValidate \/ FirstMapCall \/ FirstMapReply \/ StartPose \/ InsidePose
           \/ TargetPose \/ FirstRelocate \/ FirstBoarding \/ FirstEstimation
  BY <1>1 DEF FirstValidate, Validate, FirstMapCall, LoadMapCall, FirstMapReply, StartPose,
     InsidePose, TargetPose, FirstRelocate, FirstBoarding, FirstEstimation
<1>2. \A s \in FirstNavs :
        ~FirstNavSend(s) /\ ~FirstNavAccepted(s) /\ ~FirstNavSucceeded(s) /\ ~FirstNavFailed(s)
  BY DEF FirstNavSend, FirstNavAccepted, FirstNavSucceeded, FirstNavFailed
<1>3. ~FirstDrive /\ ~FirstBeginWait /\ ~FirstDoor /\ ~FirstTargetDoor /\ ~FirstFloor
  BY DEF FirstDrive, Drive, FirstBeginWait, BeginWait, FirstDoor, DoorAlreadyInside, DoorWait,
     FirstTargetDoor, WaitSpin, FirstFloor
<1>4. CASE FirstDriveFail \/ FirstDriveDone \/ Rotate \/ RotateDone \/ Creep \/ CreepDone
  BY <1>4 DEF FirstDriveFail, DriveBlocked, BadSpeed, FirstDriveDone, Rotate, RotateDone, Creep,
     CreepDone
<1>5. CASE FirstReturn \/ FirstSpin \/ FirstEnd \/ Shutdown
  BY <1>5 DEF FirstReturn, FirstSpin, SpinOnce, FirstEnd, Shutdown, Interrupt
<1>6. CASE UNCHANGED firstVars
  BY <1>6 DEF firstVars, vars
<1>7. QED
  BY <1>1, <1>2, <1>3, <1>4, <1>5, <1>6 DEF FirstNext, FirstProgress, FirstServices

\* In every generation the zero twist follows at once on a scan that shows something
\* too close, or nothing, in the drives that check for obstacles.
THEOREM GenerationsStopOnObstacle ==
  /\ ButtonSpec => StopsOnObstacle
  /\ TimedSpec  => StopsOnObstacle
  /\ FirstSpec  => StopsOnObstacle
<1>1. [TimedNext]_vars => (step = "drive" /\ Blocked => Obeyed)
  BY TimedObeys
<1>2. [ButtonNext]_buttonVars => (step = "drive" /\ Blocked => Obeyed)
  BY ButtonObeys
<1>3. FirstRestInv /\ [FirstNext]_firstVars => (step = "drive" /\ Blocked => Obeyed)
  BY FirstObeys
<1>4. QED
  BY <1>1, <1>2, <1>3, FirstRest, PTL
  DEF TimedSpec, ButtonSpec, buttonVars, FirstSpec, firstVars, StopsOnObstacle, Obeyed

-----------------------------------------------------------------------------
\* A behaviour of the specification that is model-checked is a behaviour of one
\* generation, so what is proved of the four holds of it.
THEOREM VariantsAreGenerations ==
  VariantSpec => \/ Spec       /\ [](variant = "manipulator")
                 \/ ButtonSpec /\ [](variant = "buttons")
                 \/ TimedSpec  /\ [](variant = "timed")
                 \/ FirstSpec  /\ [](variant = "first")
<1> DEFINE Is(v) == variant = v
<1>1. VariantInit => /\ Is("manipulator") \/ Is("buttons") \/ Is("timed") \/ Is("first")
                     /\ Init /\ ButtonInit /\ FirstInit
  BY DEF VariantInit, ParamsOf
<1> USE DEF VariantNext, Elsewhere, variantVars
<1>2. Is("manipulator") /\ [VariantNext]_variantVars => Is("manipulator")' /\ [Next]_vars
  OBVIOUS
<1>3. Is("buttons") /\ [VariantNext]_variantVars => Is("buttons")' /\ [ButtonNext]_buttonVars
  BY DEF buttonVars
<1>4. Is("timed") /\ [VariantNext]_variantVars => Is("timed")' /\ [TimedNext]_vars
  OBVIOUS
<1>5. Is("first") /\ [VariantNext]_variantVars => Is("first")' /\ [FirstNext]_firstVars
  BY DEF firstVars
<1>6. VariantSpec => VariantInit /\ [][VariantNext]_variantVars
  BY PTL DEF VariantSpec
<1>7. VariantSpec => \/ Spec       /\ []Is("manipulator")
                     \/ ButtonSpec /\ []Is("buttons")
                     \/ TimedSpec  /\ []Is("timed")
                     \/ FirstSpec  /\ []Is("first")
  <2> HIDE DEF Is, VariantNext, Elsewhere, variantVars
  <2>1. QED
    BY <1>1, <1>2, <1>3, <1>4, <1>5, <1>6, PTL
    DEF Spec, ButtonSpec, TimedSpec, FirstSpec, buttonVars, firstVars
<1>8. QED
  BY <1>7
=============================================================================
