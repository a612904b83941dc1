---------------------------- MODULE MarkerManager ----------------------------
(***************************************************************************)
(* The marker command manager (marker_command_manager.py): keeps the last  *)
(* object marker, and on "go" sends the arm there with one MoveGroup goal; *)
(* "cancel" reaches a goal only once its acceptance is in.                 *)
(*                                                                         *)
(* External: TF, and the MoveIt action server, which executes what it      *)
(* accepts.                                                                *)
(***************************************************************************)
EXTENDS Naturals, FiniteSets

CONSTANT Moves  \* identities of MoveGroup goals; bounds those that exist at a time

VARIABLES
    marker,        \* the cached marker: "none", "fresh" or "old" (marker_timeout_sec)
    activeGoal,    \* _active_goal
    handle,        \* the accepted goals _goal_handle may refer to, at most one
    move,          \* per goal: "free", "asked", "refused", "moving" or "done"
    stopping       \* goals a cancel is under way for

markerVars == <<marker, activeGoal, handle, move, stopping>>

-----------------------------------------------------------------------------
\* An ADD marker; other marker actions are ignored.
MarkerCb ==
    /\ marker' = "fresh"
    /\ UNCHANGED <<activeGoal, handle, move, stopping>>

MarkerAges ==
    /\ marker = "fresh"
    /\ marker' = "old"
    /\ UNCHANGED <<activeGoal, handle, move, stopping>>

Clear ==
    /\ marker' = "none"
    /\ UNCHANGED <<activeGoal, handle, move, stopping>>

\* cancel_goal_async: nothing to cancel before the acceptance is in.
CancelActiveGoal ==
    /\ stopping' = stopping \cup handle
    /\ UNCHANGED <<marker, activeGoal, handle, move>>

\* Mutant: the goal counts as active only when its acceptance is in.
ExecuteUnmarked(reachable) ==
    /\ ~activeGoal /\ marker = "fresh" /\ reachable
    /\ \E m \in Moves : move[m] = "free" /\ move' = [move EXCEPT ![m] = "asked"]
    /\ UNCHANGED <<marker, activeGoal, handle, stopping>>

\* _execute_last_marker: reachable when the transform and the server are there.
ExecuteLastMarker(reachable) ==
    /\ IF activeGoal \/ marker # "fresh" \/ ~reachable
       THEN UNCHANGED <<activeGoal, move>>
       ELSE /\ activeGoal' = TRUE
            /\ \E m \in Moves : move[m] = "free" /\ move' = [move EXCEPT ![m] = "asked"]
    /\ UNCHANGED <<marker, handle, stopping>>

\* _goal_response_cb: the response is a rejection or an error, or an acceptance.
GoalResponseCb(m) ==
    \/ /\ move[m] = "refused"
       /\ activeGoal' = FALSE
       /\ move' = [move EXCEPT ![m] = "free"]
       /\ UNCHANGED <<marker, handle, stopping>>
    \/ /\ move[m] \in {"moving", "done"} /\ m \notin handle
       /\ handle' = {m}
       /\ UNCHANGED <<marker, activeGoal, move, stopping>>

\* _result_cb, for a result or an error; asked for by _goal_response_cb.
ResultCb(m) ==
    /\ move[m] = "done" /\ m \in handle
    /\ activeGoal' = FALSE
    /\ handle' = {}
    /\ move' = [move EXCEPT ![m] = "free"]
    /\ stopping' = stopping \ {m}
    /\ UNCHANGED marker

-----------------------------------------------------------------------------
(* The MoveIt action server (external) *)

Answer(m) ==
    /\ move[m] = "asked"
    /\ \E answer \in {"refused", "moving"} : move' = [move EXCEPT ![m] = answer]
    /\ UNCHANGED <<marker, activeGoal, handle, stopping>>

\* Reached, failed, or cancelled.
EndMove(m) ==
    /\ move[m] = "moving"
    /\ move' = [move EXCEPT ![m] = "done"]
    /\ UNCHANGED <<marker, activeGoal, handle, stopping>>

-----------------------------------------------------------------------------
MarkerInit ==
    /\ marker = "none" /\ activeGoal = FALSE /\ handle = {}
    /\ move = [m \in Moves |-> "free"] /\ stopping = {}

MarkerNext ==
    \/ MarkerCb \/ MarkerAges \/ Clear \/ CancelActiveGoal
    \/ \E reachable \in BOOLEAN : ExecuteLastMarker(reachable)
    \/ \E m \in Moves : GoalResponseCb(m) \/ ResultCb(m) \/ Answer(m) \/ EndMove(m)

-----------------------------------------------------------------------------
(* Properties *)

MarkerTypeOK ==
    /\ marker \in {"none", "fresh", "old"}
    /\ activeGoal \in BOOLEAN
    /\ handle \subseteq Moves
    /\ move \in [Moves -> {"free", "asked", "refused", "moving", "done"}]
    /\ stopping \subseteq Moves

\* However often "go" is given between sending a goal, its acceptance and its
\* result, there is one goal at a time, and a cancel that finds a handle is for the
\* motion of that goal and no other (marker_command_manager.py:170); whatever becomes
\* of a goal - refused, failed, cancelled, reached - the next "go" is possible again.
OneMotion ==
    LET alive == {m \in Moves : move[m] # "free"}
    IN  /\ Cardinality(alive) <= 1
        /\ handle \cup stopping \subseteq alive
        /\ activeGoal <=> alive # {}
=============================================================================
