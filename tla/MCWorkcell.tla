----------------------------- MODULE MCWorkcell -----------------------------
(* Workcell for TLC: two stops with a workstation and one without, the two *)
(* task policies, and each way the settings end a visit.                   *)
EXTENDS Workcell

CONSTANTS W1, W2, Hall, S1, S2

Launch == [tour |-> <<W1, W2>>, listed |-> {W1, W2, Hall}, repeat |-> "at once",
           continueOnMiss |-> FALSE,
           wsOf |-> [n \in {W1, W2, Hall} |->
                      IF n = W1 THEN S1 ELSE IF n = W2 THEN S2 ELSE None],
           policy |-> "first_pick_then_place_pick",
           plan |-> [s \in {S1, S2} |-> <<Place, Pick>>],
           resend |-> TRUE, maxResends |-> 0, timeout |-> FALSE, fail |-> "stop"]

MCConfigs ==
    { Launch,
      [Launch EXCEPT !.tour = <<Hall, W1>>, !.continueOnMiss = TRUE, !.repeat = "delayed"],
      [Launch EXCEPT !.policy = "ws_plan", !.plan[S1] = <<Pick>>],
      [Launch EXCEPT !.listed = {W1, Hall}, !.maxResends = 1, !.timeout = TRUE],
      [Launch EXCEPT !.repeat = "no", !.maxResends = 1, !.timeout = TRUE,
                     !.fail = "skip_waypoint"] }

\* The launch defaults with one resend instead of five and without the timeout.
HoldingConfigs == {[Launch EXCEPT !.maxResends = 1]}

\* What the proofs ask of a configuration holds of these.
ASSUME MCTelling == \A p \in MCConfigs \cup HoldingConfigs : Telling(p)
=============================================================================
