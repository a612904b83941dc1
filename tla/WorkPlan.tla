------------------------------ MODULE WorkPlan ------------------------------
(***************************************************************************)
(* What the two configurations of the workcell say: the tour of the        *)
(* waypoint follower (x_yaml_waypoint_follower.py, its YAML file and the   *)
(* launch arguments) and the task plan of the serial FSM                   *)
(* (serial_comm_fsm_node.py).  Nothing here changes state.                 *)
(*                                                                         *)
(* A configuration is a record:                                            *)
(*   tour            the sequence of waypoint names to visit               *)
(*   listed          the names the YAML file has a valid pose for          *)
(*   repeat          "no", "at once" (delay 0) or "delayed"                *)
(*   continueOnMiss  go on when a waypoint is rejected or missed           *)
(*   wsOf            ws_map_yaml: waypoint -> workstation, None: not there *)
(*   policy          "ws_plan" or "first_pick_then_place_pick"             *)
(*   plan            task_plan_yaml: workstation -> sequence of tasks      *)
(*   resend, maxResends, timeout, fail: the reliability settings           *)
(***************************************************************************)
EXTENDS Naturals, Sequences, FiniteSets

CONSTANTS Waypoints, Stations, None, Pick, Place

Tasks == {Pick, Place}

\* What is asked of a station and confirmed by it: <<workstation, task>>.
Request == Stations \X Tasks

ASSUME WorkPlanAssumption ==
    /\ None \notin Waypoints \cup Stations
    /\ None \notin Request
    /\ Pick # Place

\* The configurations the two nodes can be started with.  With repeat "at once"
\* and no listed waypoint the follower would call itself without end.
Configurations ==
    {p \in [tour: Seq(Waypoints), listed: SUBSET Waypoints,
            repeat: {"no", "at once", "delayed"}, continueOnMiss: BOOLEAN,
            wsOf: [Waypoints -> Stations \cup {None}],
            policy: {"ws_plan", "first_pick_then_place_pick"},
            plan: [Stations -> Seq(Tasks)],
            resend: BOOLEAN, maxResends: Nat, timeout: BOOLEAN,
            fail: {"stop", "skip_waypoint"}] :
        \E i \in 1..Len(p.tour) : p.tour[i] \in p.listed}

-----------------------------------------------------------------------------
(* The tasks of a visit *)

\* The workstation of a waypoint, None when the map has no entry for it.
WsOf(p, name) == p.wsOf[name]

\* The tasks planned for a workstation; a missing or empty entry is <<>>.
PlanOf(p, ws) == p.plan[ws]

FirstPick(p) == p.policy = "first_pick_then_place_pick"

TasksForWs(p, ws, picked) ==
    IF FirstPick(p)
    THEN IF picked THEN <<Place, Pick>> ELSE <<Pick>>
    ELSE PlanOf(p, ws)

\* The requests a visit to a waypoint consists of; none when it has no workstation.
Requests(p, name, picked) ==
    LET ws    == WsOf(p, name)
        tasks == TasksForWs(p, ws, picked)
    IN  IF ws = None THEN <<>> ELSE [i \in 1..Len(tasks) |-> <<ws, tasks[i]>>]

-----------------------------------------------------------------------------
(* The order of the visits *)

\* The YAML file has an entry for the name, and it converts to a pose.
Visitable(p, name) == name \in p.listed

\* The stops from position i on: a name that is not visitable is skipped.
StopsFrom(p, i) == {j \in i..Len(p.tour) : Visitable(p, p.tour[j])}

Earliest(S) == CHOOSE j \in S : \A k \in S : j <= k

\* The tour starts again within the call that finds its end.
Wraps(p, i) == StopsFrom(p, i) = {} /\ p.repeat = "at once"

\* The next position to drive to; Len(p.tour) + 1 when the tour is over.
NextStop(p, i) ==
    IF StopsFrom(p, i) # {} THEN Earliest(StopsFrom(p, i))
    ELSE IF Wraps(p, i) THEN Earliest(StopsFrom(p, 1))
    ELSE Len(p.tour) + 1

-----------------------------------------------------------------------------
(* Requests that follow each other: what a confirmation is told apart by *)

\* The positions of the tour the follower drives to and that have requests.
Served(p) == {j \in 1..Len(p.tour) : Visitable(p, p.tour[j]) /\ Requests(p, p.tour[j], TRUE) # <<>>}

\* The requests at a position; the policy ws_plan asks for the same on each visit.
AskedAt(p, j) == Requests(p, p.tour[j], TRUE)
LastAskedAt(p, j) == AskedAt(p, j)[Len(AskedAt(p, j))]

\* The positions between two, through the end of the tour where it starts again.
Between(p, j, i) == IF j < i THEN (j + 1)..(i - 1) ELSE (j + 1)..Len(p.tour) \cup 1..(i - 1)

\* The robot comes from j to i with no visit served on its way: none is planned
\* there, or all are missed.
Onward(p, j, i) ==
    /\ j < i \/ p.repeat # "no"
    /\ p.continueOnMiss \/ Between(p, j, i) \cap Served(p) = {}

\* A confirmation tells which request it confirms: requests that follow each
\* other, within a visit and from a visit to the next, are never the same.
Telling(p) ==
    \/ FirstPick(p)
    \/ \A j \in Served(p) :
          /\ \A i \in 1..(Len(AskedAt(p, j)) - 1) : AskedAt(p, j)[i + 1] # AskedAt(p, j)[i]
          /\ \A k \in Served(p) : Onward(p, j, k) => AskedAt(p, k)[1] # LastAskedAt(p, j)
=============================================================================
