---------------------------- MODULE TimedMission -----------------------------
(***************************************************************************)
(* The delivery of elevator_delivery_manager2.py.  Its helpers are those of *)
(* the final missions without the sounds (param.files is empty here); run() *)
(* waits a fixed time in front of each panel, has no finally clause, and    *)
(* ends with the second Nav2 goal.  The stages press_out and press_in are   *)
(* the two fixed waits, finally is the return of run().                     *)
(***************************************************************************)
EXTENDS Mission

TimedSettings == Validate \/ RoomFront \/ Relocate

TimedMaps == \E s \in Loads : LoadMapCall(s) \/ LoadMapReply(s)

TimedNavs ==
  \E s \in Navs : NavSend(s) \/ NavAccepted(s) \/ NavSucceeded(s) \/ NavFailed(s)

\* spin_sleep(front_button_wait_sec) and spin_sleep(inside_button_wait_sec).
TimedPanels ==
  /\ \E s \in Presses : At(s, "enter") /\ Goto(After[s])
  /\ UNCHANGED <<caches, waiting, motion, location, hands, sound>>

TimedMoves ==
  \/ \E s \in Moves : BeginMove(s) \/ FirstTurnDone(s) \/ LastTurnDone(s)
  \/ BadSpeed \/ DriveBlocked \/ DriveDone \/ BeginExit

TimedLoops == Turn \/ Drive

TimedDoors ==
  \E fresh \in BOOLEAN :
    DoorAlreadyInside(fresh) \/ DoorWait(fresh) \/ AwaitFloor(fresh) \/ AwaitDoor(fresh)

TimedBoarding == SkipBoarding \/ StartEstimation \/ \E s \in Waits : BeginWait(s)

\* run() returns: there is no announcement and nothing is stopped here, so
\* every helper has to leave the robot at rest by itself.
TimedReturn ==
  /\ \/ At("notify", "enter") /\ outcome' = "complete"
     \/ At("finally", "enter") /\ UNCHANGED outcome
  /\ stage' = "cleanup" /\ UNCHANGED <<step, param>>
  /\ UNCHANGED <<caches, waiting, motion, location, hands, sound>>

TimedProgress ==
  TimedSettings \/ TimedPanels \/ TimedMoves \/ TimedBoarding \/ TimedReturn \/ Shutdown

TimedNext ==
  \/ TimedProgress \/ TimedMaps \/ TimedNavs \/ TimedLoops \/ TimedDoors
  \/ SpinOnce \/ Interrupt

TimedSpec == Init /\ [][TimedNext]_vars
=============================================================================
