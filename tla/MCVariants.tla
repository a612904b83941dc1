----------------------------- MODULE MCVariants ------------------------------
(***************************************************************************)
(* The four generations of the delivery node, for TLC: "variant" says which *)
(* of them the behaviour is about.  They share the variables of Mission;    *)
(* those only one of them has stay at rest in the others.                   *)
(***************************************************************************)
EXTENDS MCMission, ButtonMission, TimedMission, FirstManager

VARIABLE variant

variantVars == <<vars, eyes, trip, variant>>

Plain == [checkObstacle |-> TRUE, doneTimeout |-> FALSE, poseBefore |-> TRUE,
          poseAfter |-> FALSE, valid |-> AllValid, files |-> {}]

\* With sounds and without, and two broken configurations.
Sounding    == [Plain EXCEPT !.checkObstacle = FALSE, !.files = {"give_snack"}]
NoExit      == [Plain EXCEPT !.valid = AllValid \ {"exit_distance"}]
NoSpeeds    == [Plain EXCEPT !.valid = AllValid \ {"speeds"}]

\* The final mission: its defaults, and both guards.
Guarded     == [Default EXCEPT !.doneTimeout = TRUE, !.checkObstacle = TRUE, !.files = {}]

VariantParams == {Plain, Sounding, NoExit, NoSpeeds, Default, Guarded}

ParamsOf == [manipulator |-> {Default, Guarded}, buttons |-> {Sounding, NoSpeeds},
             timed |-> {Plain, NoSpeeds}, first |-> {Plain, NoExit, NoSpeeds}]

VariantInit ==
  /\ Init /\ map = "none"
  /\ ButtonInit /\ FirstInit
  /\ variant \in DOMAIN ParamsOf
  /\ param \in ParamsOf[variant]
  /\ variant # "first" => ~trip.sameFloor /\ ~trip.creep

\* The variables the generation v does not have stay as they are.
Elsewhere(v) ==
  /\ variant = v /\ UNCHANGED variant
  /\ v # "buttons" => UNCHANGED eyes
  /\ v # "first" => UNCHANGED trip

VariantNext ==
  \/ Elsewhere("manipulator") /\ Next
  \/ Elsewhere("buttons") /\ ButtonNext
  \/ Elsewhere("timed") /\ TimedNext
  \/ Elsewhere("first") /\ FirstNext
  \/ stage = "over" /\ UNCHANGED variantVars

\* The node's own thread makes progress, the loops of the waits turn and time
\* passes in them, and a sound ends.  The servers, the arm, the doors and the
\* floor estimate are under no fairness.
VariantFairness ==
  /\ WF_variantVars(Elsewhere("manipulator") /\ Progress)
  /\ WF_variantVars(Elsewhere("manipulator") /\ WaitIteration)
  /\ WF_variantVars(Elsewhere("manipulator") /\ MusicEnds)
  /\ WF_variantVars(Elsewhere("buttons") /\ ButtonProgress)
  /\ WF_variantVars(Elsewhere("buttons") /\ ButtonDoors)
  /\ WF_variantVars(Elsewhere("buttons") /\ WatchIteration(1))
  /\ WF_variantVars(Elsewhere("buttons") /\ ButtonMusic)
  /\ WF_variantVars(Elsewhere("timed") /\ TimedProgress)
  /\ WF_variantVars(Elsewhere("timed") /\ TimedDoors)
  /\ WF_variantVars(Elsewhere("first") /\ FirstProgress)
  /\ WF_variantVars(Elsewhere("first") /\ (FirstDoor \/ FirstTargetDoor \/ FirstFloor))

VariantSpec == VariantInit /\ [][VariantNext]_variantVars /\ VariantFairness

-----------------------------------------------------------------------------
\* The places a generation may stay in for ever: a call of the map server or of
\* Nav2 that is not answered (load_map and go_to_pose have no timeout), a door or
\* the target floor, an arm that was asked to press a button when no done timeout
\* is configured, a button panel that is not seen.  Everywhere else run() goes on
\* to its end, whatever fails on the way.
OnlyWaitsHang ==
  \/ <>(stage = "over")
  \/ <>[](stage \in Loads \cup Navs \cup FirstNavs)
  \/ <>[](stage \in Waits \cup {"await_floor"})
  \/ <>[](~param.doneTimeout /\ stage \in Presses /\ goal[stage])
  \/ <>[](stage \in Presses /\ step = "counting")
=============================================================================
