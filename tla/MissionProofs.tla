--------------------------- MODULE MissionProofs ---------------------------
(***************************************************************************)
(* Proofs about Mission: its types, the evidence behind every door the      *)
(* robot drives through, and the exclusion of the arm and the base.         *)
(***************************************************************************)
EXTENDS Mission, TLAPS

USE DEF Loads, Navs, Presses, Moves, Waits

\* Every variable keeps its type, whatever the parameters, the lidar, the arm
\* and the services do.
LEMMA SpinTypes ==
  ASSUME TypeOK, NEW fresh \in BOOLEAN, Spin(fresh)
  PROVE  /\ scan' \in Readings \cup {NoScan} /\ floor' \in Floors \cup {NoFloor}
         /\ inside' \in BOOLEAN
         /\ done' \in [Presses -> BOOLEAN] /\ answer' \in [Presses -> BOOLEAN]
<1> USE DEF TypeOK
<1>1. CASE ScanCallback
  BY <1>1 DEF ScanCallback
<1>2. CASE FloorCallback
  BY <1>2 DEF FloorCallback
<1>3. CASE AmclCallback
  BY <1>3 DEF AmclCallback
<1>4. CASE DoneCallback
  BY <1>4 DEF DoneCallback
<1>5. CASE UNCHANGED caches
  BY <1>5 DEF caches
<1>6. QED
  BY <1>1, <1>2, <1>3, <1>4, <1>5 DEF Spin, OtherCallback

\* The types of what a door wait keeps.
WaitingOK == stable \in Nat /\ gap \in Nat /\ openSeen \in BOOLEAN

LEMMA CountTypes ==
  ASSUME WaitingOK, NEW fresh \in BOOLEAN, Count(fresh)
  PROVE  stable' \in Nat /\ openSeen' \in BOOLEAN
<1>1. CASE scan'.open
  <2>1. stable' = stable + 1 /\ openSeen' = (openSeen \/ fresh)
    BY <1>1 DEF Count
  <2>2. stable' \in Nat
    BY <2>1 DEF WaitingOK
  <2>3. (openSeen \/ fresh) \in BOOLEAN
    OBVIOUS
  <2>4. QED
    BY <2>1, <2>2, <2>3
<1>2. CASE ~scan'.open
  <2>1. stable' = 0 /\ openSeen' = FALSE
    BY <1>2, Zenon DEF Count
  <2>2. 0 \in Nat /\ FALSE \in BOOLEAN
    OBVIOUS
  <2>3. QED
    BY <2>1, <2>2, Zenon
<1>3. QED
  BY <1>1, <1>2

THEOREM TypeCorrect == Spec => []TypeOK
<1>1. Init => TypeOK
  <2> SUFFICES ASSUME Init PROVE TypeOK
    OBVIOUS
  <2>1. /\ done \in [Presses -> BOOLEAN] /\ answer \in [Presses -> BOOLEAN]
        /\ goal \in [Presses \cup {"destination"} -> BOOLEAN]
        /\ arm \in [Presses -> {"rest", "working", "pressed"}]
    BY DEF Init
  <2>2. believed \in [at : Waypoints, on : Maps] /\ map \in Maps
    BY DEF Init, Waypoints, Maps
  <2>3. /\ stage \in Stages /\ step \in Steps /\ stable \in Nat /\ gap \in Nat
        /\ outcome \in {"running", "complete", "failed", "interrupted"}
    BY DEF Init, Stages, Steps
  <2>4. QED
    BY <2>1, <2>2, <2>3 DEF Init, TypeOK
<1>2. TypeOK /\ [Next]_vars => TypeOK'
  <2> SUFFICES ASSUME TypeOK, [Next]_vars PROVE TypeOK'
    OBVIOUS
  <2> USE DEF TypeOK, At, Goto, Step, Fail, progress, caches, waiting, motion,
              location, hands, Stages, Steps
  <2>1. CASE Validate
    BY <2>1 DEF Validate
  <2>2. CASE RoomFront
    BY <2>2 DEF RoomFront, PlayOnce, PublishInitialPose, Waypoints, Sounds
  <2>3. CASE NotifyArm
    BY <2>3 DEF NotifyArm, SetGoal
  <2>4. ASSUME NEW s \in Loads, LoadMapCall(s) \/ LoadMapReply(s) PROVE TypeOK'
    BY <2>4, ReplyAssumption DEF LoadMapCall, LoadMapReply, MapOf, After, Maps
  <2>5. ASSUME NEW s \in Navs,
               NavSend(s) \/ NavAccepted(s) \/ NavSucceeded(s) \/ NavFailed(s)
        PROVE TypeOK'
    BY <2>5 DEF NavSend, NavAccepted, NavSucceeded, NavFailed, After, To, Waypoints, Maps
  <2>6. ASSUME NEW s \in Presses,
               LowerGoal(s) \/ RaiseGoal(s) \/ PressDone(s) \/ PressTimeout(s)
        PROVE TypeOK'
    <3>1. CASE LowerGoal(s)
      BY <3>1 DEF LowerGoal, SetGoal
    <3>2. CASE RaiseGoal(s)
      BY <3>2 DEF RaiseGoal, SetGoal
    <3>3. CASE PressDone(s)
      <4>1. After[s] \in Stages
        BY DEF After
      <4>2. QED
        BY <3>3, <4>1 DEF PressDone, SetGoal
    <3>4. CASE PressTimeout(s)
      BY <3>4 DEF PressTimeout, SetGoal
    <3>5. QED
      BY <2>6, <3>1, <3>2, <3>3, <3>4
  <2>7. ASSUME NEW s \in Moves, BeginMove(s) \/ FirstTurnDone(s) \/ LastTurnDone(s)
        PROVE TypeOK'
    BY <2>7 DEF BeginMove, FirstTurnDone, LastTurnDone, PublishInitialPose, PlayOnce,
                From, To, After, Waypoints, Maps, Sounds
  <2>8. CASE Turn \/ BadSpeed \/ DriveBlocked \/ DriveDone
    BY <2>8 DEF Turn, BadSpeed, DriveBlocked, DriveDone
  <2>9. CASE Drive
    BY <2>9, SpinTypes DEF Drive
  <2>10. ASSUME NEW s \in Waits, BeginWait(s) PROVE TypeOK'
    BY <2>10 DEF BeginWait
  <2>11. ASSUME NEW fresh \in BOOLEAN,
                DoorAlreadyInside(fresh) \/ DoorWait(fresh) \/
                  AwaitFloor(fresh) \/ AwaitDoor(fresh)
         PROVE TypeOK'
    <3>1. Spin(fresh) /\ gap' \in Nat
      BY <2>11 DEF DoorAlreadyInside, DoorWait, AwaitFloor, AwaitDoor, WaitSpin
    <3>2. CASE DoorAlreadyInside(fresh)
      BY <3>1, <3>2, SpinTypes DEF DoorAlreadyInside, WaitSpin
    <3>3. CASE DoorWait(fresh)
      BY <3>1, <3>3, SpinTypes, CountTypes DEF DoorWait, WaitSpin, WaitingOK
    <3>4. CASE AwaitFloor(fresh)
      BY <3>1, <3>4, SpinTypes DEF AwaitFloor, WaitSpin
    <3>5. CASE AwaitDoor(fresh)
      BY <3>1, <3>5, SpinTypes, CountTypes DEF AwaitDoor, WaitSpin, WaitingOK
    <3>6. QED
      BY <2>11, <3>2, <3>3, <3>4, <3>5
  <2>12. CASE SkipBoarding \/ StartEstimation \/ BeginExit \/ Relocate
    BY <2>12 DEF SkipBoarding, StartEstimation, BeginExit, Relocate,
                 PublishInitialPose, PlayOnce, Waypoints, Maps, Sounds
  <2>13. CASE AnnounceArrival \/ AnnounceSnack \/ StopRobot \/ Shutdown
    BY <2>13 DEF AnnounceArrival, AnnounceSnack, StopRobot, Shutdown, PlayOnce, Sounds
  <2>14. CASE SpinOnce
    BY <2>14, SpinTypes DEF SpinOnce
  <2>15. CASE MusicEnds \/ Interrupt \/ OrphanGoalEnds
    BY <2>15 DEF MusicEnds, Interrupt, OrphanGoalEnds
  <2>16. ASSUME NEW h \in Presses, ArmStarts(h) \/ ArmAnswers(h) \/ ArmSeesClear(h)
         PROVE TypeOK'
    <3>1. CASE ArmStarts(h)
      BY <3>1 DEF ArmStarts, ArmUpdate
    <3>2. CASE ArmAnswers(h)
      BY <3>2 DEF ArmAnswers, ArmUpdate
    <3>3. CASE ArmSeesClear(h)
      BY <3>3 DEF ArmSeesClear, ArmUpdate
    <3>4. QED
      BY <2>16, <3>1, <3>2, <3>3
  <2>17. CASE UNCHANGED vars
    BY <2>17 DEF vars
  <2>18. QED
    BY <2>1, <2>2, <2>3, <2>4, <2>5, <2>6, <2>7, <2>8, <2>9, <2>10, <2>11, <2>12,
       <2>13, <2>14, <2>15, <2>16, <2>17 DEF Next, Node, Environment, Terminated
<1>3. QED
  BY <1>1, <1>2, PTL DEF Spec

-----------------------------------------------------------------------------
\* While a wait counts, a count without a new open scan is a count of
\* iterations without any scan.  A count longer than the lidar can be silent
\* has therefore seen an open scan, which is what DoorSeenOpen remembers.
Counting == stage \in Waits /\ step = "counting"

DoorInv ==
  /\ Counting => gap <= MaxScanGap /\ (openSeen \/ stable <= gap)
  /\ DoorSeenOpen

LEMMA CountStep ==
  ASSUME WaitingOK, DoorInv, NEW s \in Waits, NEW fresh \in BOOLEAN,
         WaitSpin(s, fresh), Count(fresh)
  PROVE  gap' <= MaxScanGap /\ (openSeen' \/ stable' <= gap')
<1>1. gap' <= MaxScanGap /\ gap' \in Nat
  BY DEF WaitSpin, WaitingOK
<1>2. openSeen \/ stable <= gap
  BY DEF WaitSpin, At, DoorInv, Counting
<1>3. CASE ~scan'.open
  <2>1. stable' = 0
    BY <1>3, Zenon DEF Count
  <2>2. QED
    BY <1>1, <2>1
<1>4. CASE scan'.open
  <2>1. stable' = stable + 1 /\ openSeen' = (openSeen \/ fresh)
    BY <1>4, Zenon DEF Count
  <2>2. CASE openSeen \/ fresh
    BY <1>1, <2>1, <2>2, Zenon
  <2>3. CASE ~openSeen /\ ~fresh
    <3>1. gap' = gap + 1
      BY <2>3 DEF WaitSpin
    <3>2. stable' <= gap'
      BY <1>2, <2>1, <2>3, <3>1 DEF WaitingOK
    <3>3. QED
      BY <1>1, <3>2
  <2>4. QED
    BY <2>2, <2>3, Zenon
<1>5. QED
  BY <1>3, <1>4

\* Every door the robot drives through was seen open during the wait for it,
\* for every count the door must be stable for that exceeds the number of wait
\* iterations the lidar may stay silent.
THEOREM DoorEvidence ==
  ASSUME MaxScanGap < StableRequired
  PROVE  Spec => []DoorSeenOpen
<1>1. Init => DoorInv
  BY DEF Init, DoorInv, Counting, DoorSeenOpen
<1>2. TypeOK /\ DoorInv /\ [Next]_vars => DoorInv'
  <2> SUFFICES ASSUME TypeOK, DoorInv, [Next]_vars PROVE DoorInv'
    OBVIOUS
  <2>1. ASSUME UNCHANGED waiting, ~Counting' \/ UNCHANGED <<stage, step>>,
               DoorSeenOpen' PROVE DoorInv'
    BY <2>1 DEF DoorInv, Counting, waiting
  <2> USE DEF At, Goto, Step, Fail, progress, Counting
  <2>2. CASE Validate \/ RoomFront \/ NotifyArm \/ SkipBoarding \/ StartEstimation
             \/ BeginExit \/ Relocate
    BY <2>2, <2>1 DEF Validate, RoomFront, NotifyArm, SkipBoarding, StartEstimation,
       BeginExit, Relocate, DoorInv, DoorSeenOpen, waiting
  <2>3. ASSUME NEW s \in Loads, LoadMapCall(s) \/ LoadMapReply(s) PROVE DoorInv'
    BY <2>3, <2>1 DEF LoadMapCall, LoadMapReply, After, DoorInv, DoorSeenOpen, waiting
  <2>4. ASSUME NEW s \in Navs,
               NavSend(s) \/ NavAccepted(s) \/ NavSucceeded(s) \/ NavFailed(s)
        PROVE DoorInv'
    BY <2>4, <2>1 DEF NavSend, NavAccepted, NavSucceeded, NavFailed, After, DoorInv,
       DoorSeenOpen, waiting
  <2>5. ASSUME NEW s \in Presses,
               LowerGoal(s) \/ RaiseGoal(s) \/ PressDone(s) \/ PressTimeout(s)
        PROVE DoorInv'
    <3>1. /\ UNCHANGED waiting
          /\ stage' = s \/ stage' = After[s] \/ stage' = "finally"
      BY <2>5, Zenon DEF LowerGoal, RaiseGoal, PressDone, PressTimeout
    <3>2. stage' \in {"press_out", "press_in", "approach", "to_exit", "finally"}
      BY <3>1 DEF After
    <3>3. QED
      BY <3>1, <3>2, <2>1 DEF DoorSeenOpen
  <2>6. ASSUME NEW s \in Moves, BeginMove(s) \/ FirstTurnDone(s) \/ LastTurnDone(s)
        PROVE DoorInv'
    BY <2>6, <2>1 DEF BeginMove, FirstTurnDone, LastTurnDone, After, DoorInv,
       DoorSeenOpen, waiting
  <2>7. CASE Turn \/ BadSpeed \/ DriveBlocked \/ DriveDone \/ Drive
    BY <2>7, <2>1 DEF Turn, BadSpeed, DriveBlocked, DriveDone, Drive, DoorInv,
       DoorSeenOpen, waiting
  <2>8. ASSUME NEW s \in Waits, BeginWait(s) PROVE DoorInv'
    BY <2>8, DoorAssumption DEF BeginWait, DoorInv, DoorSeenOpen
  <2>9. ASSUME NEW fresh \in BOOLEAN, DoorAlreadyInside(fresh) PROVE DoorInv'
    BY <2>9 DEF DoorAlreadyInside, WaitSpin, DoorInv, DoorSeenOpen
  <2>10. ASSUME NEW fresh \in BOOLEAN, DoorWait(fresh) \/ AwaitDoor(fresh)
         PROVE DoorInv'
    <3>1. /\ gap' <= MaxScanGap /\ gap' \in Nat /\ stable' \in Nat
          /\ openSeen' \/ stable' <= gap'
      BY <2>10, CountStep, CountTypes DEF DoorWait, AwaitDoor, WaitSpin, TypeOK, WaitingOK
    <3>2. stable' >= StableRequired => openSeen'
      BY <3>1, DoorAssumption
    <3>3. DoorSeenOpen'
      BY <2>10, <3>2 DEF DoorWait, AwaitDoor, WaitSpin, DoorInv, DoorSeenOpen
    <3>4. QED
      BY <3>1, <3>3 DEF DoorInv
  <2>11. ASSUME NEW fresh \in BOOLEAN, AwaitFloor(fresh) PROVE DoorInv'
    BY <2>11 DEF AwaitFloor, WaitSpin, DoorInv, DoorSeenOpen, TypeOK
  <2>12. CASE AnnounceArrival \/ AnnounceSnack \/ StopRobot \/ Shutdown \/ SpinOnce
    BY <2>12, <2>1 DEF AnnounceArrival, AnnounceSnack, StopRobot, Shutdown, SpinOnce,
       DoorInv, DoorSeenOpen, waiting
  <2>13. CASE MusicEnds \/ Interrupt \/ OrphanGoalEnds
    BY <2>13, <2>1 DEF MusicEnds, Interrupt, OrphanGoalEnds, DoorInv, DoorSeenOpen, waiting
  <2>14. ASSUME NEW h \in Presses, ArmStarts(h) \/ ArmAnswers(h) \/ ArmSeesClear(h)
         PROVE DoorInv'
    BY <2>14, <2>1 DEF ArmStarts, ArmAnswers, ArmSeesClear, DoorInv, DoorSeenOpen, waiting
  <2>15. CASE UNCHANGED vars
    BY <2>15, <2>1 DEF vars, DoorInv, DoorSeenOpen, waiting
  <2>16. QED
    BY <2>2, <2>3, <2>4, <2>5, <2>6, <2>7, <2>8, <2>9, <2>10, <2>11, <2>12, <2>13,
       <2>14, <2>15 DEF Next, Node, Environment, Terminated
<1>3. DoorInv => DoorSeenOpen
  BY DEF DoorInv
<1>4. QED
  BY <1>1, <1>2, <1>3, TypeCorrect, PTL DEF Spec

-----------------------------------------------------------------------------
(***************************************************************************)
(* The arm and the base.  The invariant follows one handshake through the   *)
(* mission: nothing has happened before its stage is reached, the arm works *)
(* only while its goal is raised, and behind the stage the goal is down and *)
(* the arm has finished.  A mission that failed or was interrupted at the   *)
(* button may leave the arm working: then nothing moves any more.           *)
(***************************************************************************)
Ending == {"finally", "cleanup", "over"}
Cut    == stage \in {"finally", "cleanup", "over"} /\ outcome = "interrupted"

Ahead == [press_out |-> {"validate", "map_start", "room_front", "nav_button"},
          press_in  |-> {"validate", "map_start", "room_front", "nav_button", "press_out",
                         "approach", "door", "board", "estimate", "to_button"}]

HandInv(h) ==
  /\ stage \in Ahead[h] \/ (stage = h /\ step \in {"enter", "lowered"}) =>
       ~goal[h] /\ arm[h] = "rest" /\ ~answer[h] /\ ~done[h]
  /\ stage = h => step \in {"enter", "lowered", "raised"}
  /\ stage = h /\ (done[h] \/ answer[h]) => arm[h] = "pressed"
  /\ stage = h /\ step = "raised" => goal[h]
  /\ goal[h] => (stage = h /\ step = "raised") \/ Cut
  /\ stage \notin Ahead[h] \cup Ending \cup {h} => arm[h] # "working"

MotionInv ==
  /\ step \in {"turn1", "drive", "turn2"} => stage \in Moves \cup {"exit"}
  /\ cmd # "zero" => SpeedsOk /\ (step \in {"turn1", "drive", "turn2"} \/ Cut)
  /\ nav # "idle" => (stage \in Navs /\ step \in {"sent", "accepted"}) \/ Cut

SafetyInv ==
  /\ MotionInv /\ ArmWorksAtStandstill /\ OneMotionAuthority
  /\ \A h \in Presses : HandInv(h)

\* What the three parts of the invariant say of the exclusion properties.
LEMMA SafetyInvEndsAtRest == SafetyInv => EndsAtRest
BY DEF SafetyInv, MotionInv, HandInv, EndsAtRest, Cut, Stages, Ahead

\* A callback delivers an answer that was under way and makes none up.
LEMMA SpinAnswers ==
  ASSUME TypeOK, NEW fresh \in BOOLEAN, Spin(fresh), NEW h \in Presses,
         done'[h] \/ answer'[h]
  PROVE  done[h] \/ answer[h]
<1>1. CASE DoneCallback
  BY <1>1 DEF DoneCallback, TypeOK
<1>2. CASE UNCHANGED <<done, answer>>
  BY <1>2
<1>3. QED
  BY <1>1, <1>2 DEF Spin, ScanCallback, OtherCallback, FloorCallback, AmclCallback, caches

LEMMA SafetyStep == TypeOK /\ SafetyInv /\ [Next]_vars => SafetyInv'
<1> SUFFICES ASSUME TypeOK, SafetyInv, [Next]_vars PROVE SafetyInv'
  OBVIOUS
<1> USE DEF SafetyInv, MotionInv, ArmWorksAtStandstill, OneMotionAuthority, HandInv,
            Ending, Cut, Ahead, SpeedsOk, TypeOK,
            At, Goto, Step, Fail, progress, caches, motion, hands
<1>1. CASE Validate \/ RoomFront \/ SkipBoarding \/ StartEstimation \/ BeginExit \/ Relocate
  BY <1>1 DEF Validate, RoomFront, SkipBoarding, StartEstimation, BeginExit, Relocate
<1>2. CASE NotifyArm
  BY <1>2 DEF NotifyArm, SetGoal
<1>3. ASSUME NEW s \in Loads, LoadMapCall(s) \/ LoadMapReply(s) PROVE SafetyInv'
  BY <1>3 DEF LoadMapCall, LoadMapReply, After
<1>4. ASSUME NEW s \in Navs,
             NavSend(s) \/ NavAccepted(s) \/ NavSucceeded(s) \/ NavFailed(s)
      PROVE SafetyInv'
  BY <1>4 DEF NavSend, NavAccepted, NavSucceeded, NavFailed, After
<1>5. ASSUME NEW s \in Presses, LowerGoal(s) PROVE SafetyInv'
  BY <1>5 DEF LowerGoal, SetGoal
<1>6. ASSUME NEW s \in Presses, RaiseGoal(s) PROVE SafetyInv'
  BY <1>6 DEF RaiseGoal, SetGoal
<1>7. ASSUME NEW s \in Presses, PressDone(s) PROVE SafetyInv'
  BY <1>7 DEF PressDone, SetGoal, After
<1>8. ASSUME NEW s \in Presses, PressTimeout(s) PROVE SafetyInv'
  BY <1>8 DEF PressTimeout, SetGoal
<1>9. ASSUME NEW s \in Moves, BeginMove(s) \/ FirstTurnDone(s) \/ LastTurnDone(s)
      PROVE SafetyInv'
  BY <1>9 DEF BeginMove, FirstTurnDone, LastTurnDone, After
<1>10. CASE Turn \/ BadSpeed \/ DriveBlocked \/ DriveDone
  BY <1>10 DEF Turn, BadSpeed, DriveBlocked, DriveDone
<1>11. CASE Drive
  <2>1. PICK fresh \in BOOLEAN : Spin(fresh)
    BY <1>11 DEF Drive
  <2>2. QED
    BY <1>11, <2>1, SpinAnswers DEF Drive
<1>12. ASSUME NEW s \in Waits, BeginWait(s) PROVE SafetyInv'
  BY <1>12 DEF BeginWait
<1>13. ASSUME NEW fresh \in BOOLEAN,
              DoorAlreadyInside(fresh) \/ DoorWait(fresh) \/
                AwaitFloor(fresh) \/ AwaitDoor(fresh)
       PROVE SafetyInv'
  <2>1. /\ Spin(fresh) /\ UNCHANGED <<motion, hands>>
        /\ stage \in Waits /\ step = "counting"
    BY <1>13 DEF DoorAlreadyInside, DoorWait, AwaitFloor, AwaitDoor, WaitSpin
  <2>2. \/ UNCHANGED <<stage, step>>
        \/ stage = "door" /\ stage' = "board" /\ step' \in {"enter", "skip"}
        \/ stage = "await" /\ stage' = "map_target" /\ step' = "enter"
    BY <1>13 DEF DoorAlreadyInside, DoorWait, AwaitFloor, AwaitDoor, WaitSpin
  <2>3. UNCHANGED <<outcome, param>>
    BY <1>13 DEF DoorAlreadyInside, DoorWait, AwaitFloor, AwaitDoor
  <2>4. QED
    BY <2>1, <2>2, <2>3, SpinAnswers
<1>14. CASE AnnounceArrival \/ AnnounceSnack \/ StopRobot \/ Shutdown
  BY <1>14 DEF AnnounceArrival, AnnounceSnack, StopRobot, Shutdown
<1>15. CASE SpinOnce
  <2>1. PICK fresh \in BOOLEAN : Spin(fresh)
    BY <1>15 DEF SpinOnce
  <2>2. QED
    BY <1>15, <2>1, SpinAnswers DEF SpinOnce
<1>16. CASE MusicEnds \/ Interrupt \/ OrphanGoalEnds
  BY <1>16 DEF MusicEnds, Interrupt, OrphanGoalEnds
<1>17. ASSUME NEW h \in Presses, ArmStarts(h) PROVE SafetyInv'
  BY <1>17 DEF ArmStarts, ArmUpdate
<1>18. ASSUME NEW h \in Presses, ArmAnswers(h) PROVE SafetyInv'
  BY <1>18 DEF ArmAnswers, ArmUpdate
<1>19. ASSUME NEW h \in Presses, ArmSeesClear(h) PROVE SafetyInv'
  BY <1>19 DEF ArmSeesClear, ArmUpdate
<1>20. CASE UNCHANGED vars
  BY <1>20 DEF vars
<1>21. QED
  BY <1>1, <1>2, <1>3, <1>4, <1>5, <1>6, <1>7, <1>8, <1>9, <1>10, <1>11, <1>12, <1>13,
     <1>14, <1>15, <1>16, <1>17, <1>18, <1>19, <1>20 DEF Next, Node, Environment, Terminated

LEMMA SafetyInvariance == Spec => []SafetyInv
<1>1. Init => SafetyInv
  BY DEF Init, SafetyInv, MotionInv, ArmWorksAtStandstill, OneMotionAuthority, HandInv,
         Ahead, Cut, Ending
<1>2. QED
  BY <1>1, SafetyStep, TypeCorrect, PTL DEF Spec

\* The base stands still while the arm works, for every behaviour of the arm
\* that starts on a raised goal, whatever Nav2, the doors and the timeout do.
THEOREM ArmAtStandstill == Spec => []ArmWorksAtStandstill
<1>1. SafetyInv => ArmWorksAtStandstill
  BY DEF SafetyInv
<1>2. QED
  BY <1>1, SafetyInvariance, PTL

\* Forced motion, Nav2 and a raised button goal exclude each other.
THEOREM MotionExclusive == Spec => []OneMotionAuthority
<1>1. SafetyInv => OneMotionAuthority
  BY DEF SafetyInv
<1>2. QED
  BY <1>1, SafetyInvariance, PTL

\* A mission that ends by itself leaves the robot at rest and no goal raised.
THEOREM MissionEndsAtRest == Spec => []EndsAtRest
BY SafetyInvEndsAtRest, SafetyInvariance, PTL

-----------------------------------------------------------------------------
\* Which map is served, and where AMCL was put on it, at the stages between a
\* load_map call that succeeded and the end of the Nav2 goal planned on it.
MapInv ==
  /\ stage = "room_front" => map = "start"
  /\ stage = "nav_button" => map = "start" /\ believed = [at |-> "room_front", on |-> "start"]
  /\ stage \in {"exit", "relocate"} => map = "target"
  /\ stage = "nav_destination" =>
       map = "target" /\ believed = [at |-> "elevator_exit", on |-> "target"]

\* Nav2 plans on the map of the robot's floor, re-localised on that map,
\* provided the map server never answers a load request with an error code:
\* the node does not look at the code.
THEOREM NavLocalised ==
  ASSUME "error" \notin LoadReplies
  PROVE  Spec => []NavStartsLocalised
<1>1. Init => MapInv
  BY DEF Init, MapInv
<1>2. MapInv /\ [Next]_vars => MapInv'
  <2> SUFFICES ASSUME MapInv, [Next]_vars PROVE MapInv'
    OBVIOUS
  <2> USE DEF MapInv, At, Goto, Step, Fail, progress, location
  <2>1. CASE RoomFront \/ Relocate
    BY <2>1 DEF RoomFront, Relocate, PublishInitialPose
  <2>2. ASSUME NEW s \in Loads, LoadMapCall(s) \/ LoadMapReply(s) PROVE MapInv'
    <3>1. CASE LoadMapCall(s)
      BY <3>1 DEF LoadMapCall
    <3>2. CASE LoadMapReply(s)
      BY <3>2, ReplyAssumption DEF LoadMapReply, After, MapOf
    <3>3. QED
      BY <2>2, <3>1, <3>2
  <2>3. ASSUME NEW s \in Navs,
               NavSend(s) \/ NavAccepted(s) \/ NavSucceeded(s) \/ NavFailed(s)
        PROVE MapInv'
    BY <2>3 DEF NavSend, NavAccepted, NavSucceeded, NavFailed, After
  <2>4. ASSUME NEW s \in Presses,
               LowerGoal(s) \/ RaiseGoal(s) \/ PressDone(s) \/ PressTimeout(s)
        PROVE MapInv'
    <3>1. /\ UNCHANGED location
          /\ stage' = s \/ stage' = After[s] \/ stage' = "finally"
      BY <2>4, Zenon DEF LowerGoal, RaiseGoal, PressDone, PressTimeout
    <3>2. QED
      BY <3>1 DEF After
  <2>5. ASSUME NEW s \in Moves, BeginMove(s) \/ FirstTurnDone(s) \/ LastTurnDone(s)
        PROVE MapInv'
    BY <2>5 DEF BeginMove, FirstTurnDone, LastTurnDone, After
  <2>6. CASE Validate \/ SkipBoarding \/ StartEstimation \/ BeginExit \/ NotifyArm
    BY <2>6 DEF Validate, SkipBoarding, StartEstimation, BeginExit, NotifyArm
  <2>7. CASE Turn \/ BadSpeed \/ DriveBlocked \/ DriveDone \/ Drive
    BY <2>7 DEF Turn, BadSpeed, DriveBlocked, DriveDone, Drive
  <2>8. ASSUME NEW s \in Waits, BeginWait(s) PROVE MapInv'
    BY <2>8 DEF BeginWait
  <2>9. ASSUME NEW fresh \in BOOLEAN,
               DoorAlreadyInside(fresh) \/ DoorWait(fresh) \/
                 AwaitFloor(fresh) \/ AwaitDoor(fresh)
        PROVE MapInv'
    BY <2>9 DEF DoorAlreadyInside, DoorWait, AwaitFloor, AwaitDoor, WaitSpin
  <2>10. CASE AnnounceArrival \/ AnnounceSnack \/ StopRobot \/ Shutdown \/ SpinOnce
    BY <2>10 DEF AnnounceArrival, AnnounceSnack, StopRobot, Shutdown, SpinOnce
  <2>11. CASE MusicEnds \/ Interrupt \/ OrphanGoalEnds
    BY <2>11 DEF MusicEnds, Interrupt, OrphanGoalEnds
  <2>12. ASSUME NEW h \in Presses, ArmStarts(h) \/ ArmAnswers(h) \/ ArmSeesClear(h)
         PROVE MapInv'
    BY <2>12 DEF ArmStarts, ArmAnswers, ArmSeesClear
  <2>13. CASE UNCHANGED vars
    BY <2>13 DEF vars
  <2>14. QED
    BY <2>1, <2>2, <2>3, <2>4, <2>5, <2>6, <2>7, <2>8, <2>9, <2>10, <2>11, <2>12, <2>13
    DEF Next, Node, Environment, Terminated
<1>3. MapInv => NavStartsLocalised
  BY DEF MapInv, NavStartsLocalised, MapOf
<1>4. QED
  BY <1>1, <1>2, <1>3, PTL DEF Spec
-----------------------------------------------------------------------------
\* What a delivery rests on: a done flag, once its button is behind the robot,
\* is not lowered again; AMCL was last put at the destination when the arm is
\* told of it; from then on no goal is raised that could start the arm again.
Delivered ==
  /\ \A h \in Presses : done[h] /\ ~goal[h] /\ arm[h] # "working"
  /\ believed.at = "destination"

DeliveryInv ==
  /\ \A h \in Presses : stage \notin Ahead[h] \cup Ending \cup {h} => done[h]
  /\ stage \in {"notify", "announce"} => believed.at = "destination"
  /\ outcome # "running" => stage \in Ending
  /\ goal["destination"] \/ outcome = "complete" =>
       stage \in Ending \cup {"announce"} /\ Delivered

\* A callback lowers no done flag.
LEMMA SpinKeepsDone ==
  ASSUME TypeOK, NEW fresh \in BOOLEAN, Spin(fresh), NEW h \in Presses, done[h]
  PROVE  done'[h]
<1>1. CASE DoneCallback
  BY <1>1 DEF DoneCallback, TypeOK
<1>2. CASE UNCHANGED done
  BY <1>2
<1>3. QED
  BY <1>1, <1>2 DEF Spin, ScanCallback, OtherCallback, FloorCallback, AmclCallback, caches

LEMMA DeliveryStep == TypeOK /\ SafetyInv /\ DeliveryInv /\ [Next]_vars => DeliveryInv'
<1> SUFFICES ASSUME TypeOK, SafetyInv, DeliveryInv, [Next]_vars PROVE DeliveryInv'
  OBVIOUS
<1> USE DEF SafetyInv, MotionInv, HandInv, DeliveryInv, Delivered, Ending, Cut, Ahead,
            TypeOK, At, Goto, Step, Fail, progress, caches, location, hands
<1>1. CASE Validate \/ RoomFront \/ SkipBoarding \/ StartEstimation \/ BeginExit \/ Relocate
  BY <1>1 DEF Validate, RoomFront, SkipBoarding, StartEstimation, BeginExit, Relocate
<1>2. CASE NotifyArm
  BY <1>2 DEF NotifyArm, SetGoal
<1>3. ASSUME NEW s \in Loads, LoadMapCall(s) \/ LoadMapReply(s) PROVE DeliveryInv'
  BY <1>3 DEF LoadMapCall, LoadMapReply, After
<1>4. ASSUME NEW s \in Navs,
             NavSend(s) \/ NavAccepted(s) \/ NavSucceeded(s) \/ NavFailed(s)
      PROVE DeliveryInv'
  BY <1>4 DEF NavSend, NavAccepted, NavSucceeded, NavFailed, After, To
<1>5. ASSUME NEW s \in Presses, LowerGoal(s) PROVE DeliveryInv'
  BY <1>5 DEF LowerGoal, SetGoal
<1>6. ASSUME NEW s \in Presses, RaiseGoal(s) PROVE DeliveryInv'
  BY <1>6 DEF RaiseGoal, SetGoal
<1>7. ASSUME NEW s \in Presses, PressDone(s) PROVE DeliveryInv'
  BY <1>7 DEF PressDone, SetGoal, After
<1>8. ASSUME NEW s \in Presses, PressTimeout(s) PROVE DeliveryInv'
  BY <1>8 DEF PressTimeout, SetGoal
<1>9. ASSUME NEW s \in Moves, BeginMove(s) \/ FirstTurnDone(s) \/ LastTurnDone(s)
      PROVE DeliveryInv'
  BY <1>9 DEF BeginMove, FirstTurnDone, LastTurnDone, After
<1>10. CASE Turn \/ BadSpeed \/ DriveBlocked \/ DriveDone
  BY <1>10 DEF Turn, BadSpeed, DriveBlocked, DriveDone
<1>11. CASE Drive
  <2>1. PICK fresh \in BOOLEAN : Spin(fresh)
    BY <1>11 DEF Drive
  <2>2. QED
    BY <1>11, <2>1, SpinKeepsDone DEF Drive
<1>12. ASSUME NEW s \in Waits, BeginWait(s) PROVE DeliveryInv'
  BY <1>12 DEF BeginWait
<1>13. ASSUME NEW fresh \in BOOLEAN,
              DoorAlreadyInside(fresh) \/ DoorWait(fresh) \/
                AwaitFloor(fresh) \/ AwaitDoor(fresh)
       PROVE DeliveryInv'
  <2>1. /\ Spin(fresh) /\ UNCHANGED hands
        /\ stage \in Waits /\ step = "counting" /\ UNCHANGED <<outcome, believed>>
    BY <1>13 DEF DoorAlreadyInside, DoorWait, AwaitFloor, AwaitDoor, WaitSpin
  <2>2. \/ UNCHANGED <<stage, step>>
        \/ stage = "door" /\ stage' = "board" /\ step' \in {"enter", "skip"}
        \/ stage = "await" /\ stage' = "map_target" /\ step' = "enter"
    BY <1>13 DEF DoorAlreadyInside, DoorWait, AwaitFloor, AwaitDoor, WaitSpin
  <2>3. QED
    BY <2>1, <2>2, SpinKeepsDone
<1>14. CASE AnnounceArrival \/ AnnounceSnack \/ StopRobot \/ Shutdown
  BY <1>14 DEF AnnounceArrival, AnnounceSnack, StopRobot, Shutdown
<1>15. CASE SpinOnce
  <2>1. PICK fresh \in BOOLEAN : Spin(fresh)
    BY <1>15 DEF SpinOnce
  <2>2. QED
    BY <1>15, <2>1, SpinKeepsDone DEF SpinOnce
<1>16. CASE MusicEnds \/ Interrupt \/ OrphanGoalEnds
  BY <1>16 DEF MusicEnds, Interrupt, OrphanGoalEnds
<1>17. ASSUME NEW h \in Presses, ArmStarts(h) PROVE DeliveryInv'
  BY <1>17 DEF ArmStarts, ArmUpdate
<1>18. ASSUME NEW h \in Presses, ArmAnswers(h) PROVE DeliveryInv'
  BY <1>18 DEF ArmAnswers, ArmUpdate
<1>19. ASSUME NEW h \in Presses, ArmSeesClear(h) PROVE DeliveryInv'
  BY <1>19 DEF ArmSeesClear, ArmUpdate
<1>20. CASE UNCHANGED vars
  BY <1>20 DEF vars
<1>21. QED
  BY <1>1, <1>2, <1>3, <1>4, <1>5, <1>6, <1>7, <1>8, <1>9, <1>10, <1>11, <1>12, <1>13,
     <1>14, <1>15, <1>16, <1>17, <1>18, <1>19, <1>20 DEF Next, Node, Environment, Terminated

\* The destination goal of the arm and the outcome "complete" tell the truth,
\* for every behaviour of the arm, Nav2 and Ctrl-C.
THEOREM DeliveredWhenComplete == Spec => []CompleteMeansDelivered
<1>1. Init => DeliveryInv
  BY DEF Init, DeliveryInv, Ahead, Ending
<1>2. DeliveryInv => CompleteMeansDelivered
  BY DEF DeliveryInv, Delivered, CompleteMeansDelivered
<1>3. QED
  BY <1>1, <1>2, DeliveryStep, TypeCorrect, SafetyInvariance, PTL DEF Spec
-----------------------------------------------------------------------------
\* With the obstacle check on, nothing happens between a scan that shows something
\* too close and the zero twist: no other callback, no other twist.
THEOREM ObstacleStops == Spec => StopsOnObstacle
<1>1. [Next]_vars => (step = "drive" /\ Blocked => cmd' = "zero" \/ UNCHANGED <<cmd, scan, floor>>)
  <2> SUFFICES ASSUME [Next]_vars, step = "drive", Blocked
               PROVE  cmd' = "zero" \/ UNCHANGED <<cmd, scan, floor>>
    OBVIOUS
  <2> USE DEF At, caches, motion
  <2>1. CASE Validate \/ RoomFront \/ NotifyArm \/ SkipBoarding \/ StartEstimation
             \/ BeginExit \/ Relocate \/ Turn \/ BadSpeed \/ DriveBlocked \/ DriveDone
    BY <2>1 DEF Validate, RoomFront, NotifyArm, SkipBoarding, StartEstimation, BeginExit,
       Relocate, Turn, BadSpeed, DriveBlocked, DriveDone
  <2>2. ~Drive /\ ~SpinOnce
    BY DEF Drive, SpinOnce
  <2>3. \A s \in Loads : ~LoadMapCall(s) /\ ~LoadMapReply(s)
    BY DEF LoadMapCall, LoadMapReply
  <2>4. \A s \in Navs : ~NavSend(s) /\ ~NavAccepted(s) /\ ~NavSucceeded(s) /\ ~NavFailed(s)
    BY DEF NavSend, NavAccepted, NavSucceeded, NavFailed
  <2>5. \A s \in Presses : ~LowerGoal(s) /\ ~RaiseGoal(s) /\ ~PressDone(s) /\ ~PressTimeout(s)
    BY DEF LowerGoal, RaiseGoal, PressDone, PressTimeout
  <2>6. \A s \in Moves : ~BeginMove(s) /\ ~FirstTurnDone(s) /\ ~LastTurnDone(s)
    BY DEF BeginMove, FirstTurnDone, LastTurnDone
  <2>7. \A s \in Waits : ~BeginWait(s)
    BY DEF BeginWait
  <2>8. \A fresh \in BOOLEAN :
          ~DoorAlreadyInside(fresh) /\ ~DoorWait(fresh) /\ ~AwaitFloor(fresh) /\ ~AwaitDoor(fresh)
    BY DEF DoorAlreadyInside, DoorWait, AwaitFloor, AwaitDoor, WaitSpin
  <2>9. CASE AnnounceArrival \/ AnnounceSnack \/ StopRobot \/ Shutdown
    BY <2>9 DEF AnnounceArrival, AnnounceSnack, StopRobot, Shutdown
  <2>10. CASE MusicEnds \/ Interrupt \/ OrphanGoalEnds
    BY <2>10 DEF MusicEnds, Interrupt, OrphanGoalEnds
  <2>11. ASSUME NEW h \in Presses, ArmStarts(h) \/ ArmAnswers(h) \/ ArmSeesClear(h)
         PROVE  UNCHANGED <<cmd, scan, floor>>
    BY <2>11 DEF ArmStarts, ArmAnswers, ArmSeesClear
  <2>12. CASE UNCHANGED vars
    BY <2>12 DEF vars
  <2>13. QED
    BY <2>1, <2>2, <2>3, <2>4, <2>5, <2>6, <2>7, <2>8, <2>9, <2>10, <2>11, <2>12
    DEF Next, Node, Environment, Terminated
<1>2. QED
  BY <1>1, PTL DEF Spec, StopsOnObstacle
=============================================================================
