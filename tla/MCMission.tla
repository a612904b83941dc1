----------------------------- MODULE MCMission -----------------------------
(***************************************************************************)
(* Instances of Mission for TLC: the parameter sets a run starts with.      *)
(***************************************************************************)
EXTENDS Mission

AllValid == {"waypoints", "speeds", "exit_distance"}

\* The defaults of the node.
Default == [checkObstacle |-> FALSE, doneTimeout |-> FALSE, poseBefore |-> TRUE,
            poseAfter |-> TRUE, valid |-> AllValid, files |-> Files]

\* The defaults, the guarded variant, and one broken configuration each.
SafetyParams ==
  {Default,
   [Default EXCEPT !.checkObstacle = TRUE, !.doneTimeout = TRUE, !.files = {"give_snack"}],
   [Default EXCEPT !.poseBefore = FALSE, !.poseAfter = FALSE,
                   !.valid = AllValid \ {"exit_distance"}, !.files = {}],
   [Default EXCEPT !.valid = AllValid \ {"speeds"}, !.files = {}],
   [Default EXCEPT !.valid = {}]}

DefaultParams == {Default}
=============================================================================
