-------------------------------- MODULE Tour --------------------------------
(***************************************************************************)
(* What the waypoint follower, the serial FSM and the serial line promise  *)
(* together, without a message in it: the robot visits the stops in order, *)
(* at each stop the station performs every task of the visit exactly once  *)
(* and in order while the robot stands there, and only then it drives on.  *)
(* Workcell implements this specification.                                 *)
(***************************************************************************)
EXTENDS WorkPlan

VARIABLES param,  \* the configuration, a record of WorkPlan
          at,     \* position in the tour the robot drives to or stands at
          phase,  \* "driving", "standing", "stranded" or "over"
          todo,   \* the requests of this visit that are not performed yet
          picked  \* the first pick of the first_pick policy is done

vars == <<param, at, phase, todo, picked>>

Goto(i) ==
    /\ at' = NextStop(param, i)
    /\ phase' = IF at' > Len(param.tour) THEN "over" ELSE "driving"

Init ==
    /\ param \in Configurations
    /\ at = NextStop(param, 1)
    /\ phase = "driving"
    /\ todo = <<>>
    /\ picked = FALSE

Arrive ==
    /\ phase = "driving"
    /\ phase' = "standing"
    /\ todo' = Requests(param, param.tour[at], picked)
    /\ UNCHANGED <<param, at, picked>>

\* A rejected goal or a missed waypoint: on to the next stop, or no further.
Miss ==
    /\ phase = "driving"
    /\ IF param.continueOnMiss
       THEN Goto(at + 1)
       ELSE phase' = "stranded" /\ UNCHANGED at
    /\ UNCHANGED <<param, todo, picked>>

Perform ==
    /\ phase = "standing"
    /\ todo # <<>>
    /\ todo' = Tail(todo)
    /\ picked' = (picked \/ (FirstPick(param) /\ Head(todo)[2] = Pick))
    /\ UNCHANGED <<param, at, phase>>

Depart ==
    /\ phase = "standing"
    /\ todo = <<>>
    /\ Goto(at + 1)
    /\ UNCHANGED <<param, todo, picked>>

Restart ==
    /\ phase = "over"
    /\ param.repeat = "delayed"
    /\ Goto(1)
    /\ UNCHANGED <<param, todo, picked>>

Next == Arrive \/ Miss \/ Perform \/ Depart \/ Restart

Spec == Init /\ [][Next]_vars
=============================================================================
