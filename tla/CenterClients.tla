---------------------------- MODULE CenterClients ----------------------------
(***************************************************************************)
(* The two nodes that drive for the control centre, one at a time: the     *)
(* navigator of three known places (x_navigator.py) and the client of      *)
(* FollowWaypoints (x_waypoint_follower_client.py), which is told to start *)
(* first and where to afterwards.  Both report the end of a drive.         *)
(*                                                                         *)
(* External: Nav2, which decides upon the goals in the order they were     *)
(* sent, and ends the one it was executing when it accepts another.        *)
(***************************************************************************)
EXTENDS Naturals, Sequences, FiniteSets

CONSTANTS Places,   \* d1, d2 and d3
          Nowhere,  \* None
          Drives    \* identities of goals; bounds those alive at the same time

ASSUME CenterAssumption ==
    /\ Nowhere \notin Places \cup Drives
    /\ Places \cap {"none", "driving_done"} = {}   \* what else a report may tell

VARIABLES
    served,       \* the node that runs: "navigator" or "follower"
    patient,      \* how the centre behaves, see Hears
    accept,       \* goal_accept
    destination,  \* destination of the navigator; of the follower msg_center, by its place
    oldCommand,   \* cmd_old, by its place
    held,         \* goal_handle
    drives,       \* per goal: its place and its state at Nav2
    sent,         \* goals sent and not yet decided upon
    decided,      \* goals decided upon, the answer not yet handled
    killing,      \* goals a cancel request is under way for
    killed,       \* goals whose cancel is answered, the answer not yet handled
    report        \* the end of a drive reported since the last goal was sent, and what was so

centerVars == <<served, patient, accept, destination, oldCommand, held, drives, sent,
                decided, killing, killed, report>>
order      == <<destination, oldCommand>>
lines      == <<sent, decided, killing, killed>>

States      == {"free", "asked", "refused", "running", "stopping", "reached", "failed"}
DriveRecord == [state : States, to : Places \cup {Nowhere}]
Idle        == [state |-> "free", to |-> Nowhere]
InState(S)  == {d \in Drives : drives[d].state \in S}

NoReport    == [told |-> "none", of |-> Nowhere, moving |-> FALSE]

\* What is reported, of a goal that has ended, while others may be under way.
Reported(told, d) ==
    report' = [told |-> told, of |-> drives[d].to, moving |-> InState({"running", "stopping"}) # {}]

\* A patient centre gives an order only when the node has heard everything there
\* is to hear of the orders before, except the end of a drive under way; and it
\* is the only one to order.
Hears ==
    /\ InState(States) = InState({"free", "running"})
    /\ decided = <<>> /\ killing = {} /\ killed = {}

-----------------------------------------------------------------------------
(* Both nodes *)

\* send_goal, for the goal identity the action client hands out.
SendGoal(place) ==
    \E d \in InState({"free"}) :
        /\ drives' = [drives EXCEPT ![d] = [state |-> "asked", to |-> place]]
        /\ sent' = Append(sent, d)
        /\ report' = NoReport

\* goal_response_callback; the navigator does not keep the handle.
GoalResponse ==
    /\ decided # <<>>
    /\ LET d == Head(decided)
       IN  /\ accept' = (drives[d].state # "refused")
           /\ held' = IF served = "follower" THEN d ELSE held
           /\ drives' = IF accept' THEN drives ELSE [drives EXCEPT ![d] = Idle]
    /\ decided' = Tail(decided)
    /\ UNCHANGED <<served, patient, order, sent, killing, killed, report>>

\* The result of a goal is asked for when its acceptance is handled.
Ended(d, S) ==
    /\ d \in InState(S)
    /\ \A i \in 1..Len(decided) : decided[i] # d
    /\ drives' = [drives EXCEPT ![d] = Idle]

-----------------------------------------------------------------------------
(* The navigator *)

\* control_from_center_callback for dX_start; 'stop' changes nothing.
StartDrive(place) ==
    /\ served = "navigator"
    /\ patient => Hears
    /\ ~accept
    /\ destination' = place
    /\ SendGoal(place)
    /\ UNCHANGED <<served, patient, accept, oldCommand, held, decided, killing, killed>>

\* destination_callback: another goal, whatever is under way.
DriveTo(place) ==
    /\ served = "navigator"
    /\ ~patient
    /\ SendGoal(place)
    /\ UNCHANGED <<served, patient, accept, order, held, decided, killing, killed>>

\* get_result_callback; a goal that fails leaves everything as it is.
NavigatorResult(d) ==
    /\ served = "navigator"
    /\ \/ /\ Ended(d, {"reached"})
          /\ accept' = FALSE
          /\ destination' = Nowhere
          /\ IF destination # Nowhere THEN Reported(destination, d) ELSE UNCHANGED report
       \/ /\ Ended(d, {"failed"})
          /\ UNCHANGED <<accept, destination, report>>
    /\ UNCHANGED <<served, patient, oldCommand, held, lines>>

-----------------------------------------------------------------------------
(* The follower *)

\* control_from_center_callback for dX_start: a command repeated is none.
PrepareStart(place) ==
    /\ served = "follower"
    /\ oldCommand # place
    /\ destination' = place
    /\ oldCommand' = place
    /\ UNCHANGED <<served, patient, accept, held, drives, lines, report>>

\* Mutant: waypoints are taken while a goal is under way.
FollowAnyway ==
    /\ served = "follower"
    /\ patient => Hears
    /\ destination # Nowhere
    /\ SendGoal(destination)
    /\ UNCHANGED <<served, patient, accept, order, held, decided, killing, killed>>

\* destination_callback with waypoints; without a start command it only warns.
FollowWaypoints ==
    /\ served = "follower"
    /\ patient => Hears
    /\ ~accept
    /\ destination # Nowhere
    /\ SendGoal(destination)
    /\ UNCHANGED <<served, patient, accept, order, held, decided, killing, killed>>

\* control_from_center_callback for 'kill', with cancel_goal.
Kill ==
    /\ served = "follower"
    /\ held # Nowhere /\ accept
    /\ killing' = killing \cup {held}
    /\ UNCHANGED <<served, patient, accept, order, held, drives, sent, decided, killed, report>>

\* cancel_done_callback with reset_state, whatever the answer says.
CancelDone(d) ==
    /\ d \in killed
    /\ killed' = killed \ {d}
    /\ accept' = FALSE /\ held' = Nowhere
    /\ destination' = Nowhere /\ oldCommand' = Nowhere
    /\ UNCHANGED <<served, patient, drives, sent, decided, killing, report>>

\* get_result_callback: missed waypoints, failure and cancellation are "done" too.
FollowerResult(d) ==
    /\ served = "follower"
    /\ Ended(d, {"reached", "failed"})
    /\ Reported("driving_done", d)
    /\ accept' = FALSE /\ held' = Nowhere
    /\ destination' = Nowhere
    /\ UNCHANGED <<served, patient, oldCommand, lines>>

-----------------------------------------------------------------------------
(* Nav2 (external) *)

\* A goal that is accepted ends the one under way.
DecideDrive ==
    /\ sent # <<>>
    /\ sent' = Tail(sent)
    /\ decided' = Append(decided, Head(sent))
    /\ \/ drives' = [drives EXCEPT ![Head(sent)].state = "refused"]
       \/ drives' = [d \in Drives |->
                       [drives[d] EXCEPT !.state =
                           IF d = Head(sent) THEN "running"
                           ELSE IF drives[d].state \in {"running", "stopping"} THEN "failed" ELSE @]]
    /\ UNCHANGED <<served, patient, accept, order, held, killing, killed, report>>

EndDrive(d) ==
    /\ \/ d \in InState({"running"}) /\ drives' = [drives EXCEPT ![d].state = "reached"]
       \/ d \in InState({"running", "stopping"}) /\ drives' = [drives EXCEPT ![d].state = "failed"]
    /\ UNCHANGED <<served, patient, accept, order, held, lines, report>>

\* A cancel is answered at once; the goal comes to its end later.
TakeKill(d) ==
    /\ d \in killing
    /\ killing' = killing \ {d}
    /\ killed' = killed \cup {d}
    /\ drives' = IF d \in InState({"running"}) THEN [drives EXCEPT ![d].state = "stopping"] ELSE drives
    /\ UNCHANGED <<served, patient, accept, order, held, sent, decided, report>>

-----------------------------------------------------------------------------
CenterInit ==
    /\ served \in {"navigator", "follower"} /\ patient \in BOOLEAN
    /\ accept = FALSE /\ destination = Nowhere /\ oldCommand = Nowhere /\ held = Nowhere
    /\ drives = [d \in Drives |-> Idle]
    /\ sent = <<>> /\ decided = <<>> /\ killing = {} /\ killed = {}
    /\ report = NoReport

CenterNext ==
    \/ GoalResponse \/ FollowWaypoints \/ Kill \/ DecideDrive
    \/ \E place \in Places : StartDrive(place) \/ DriveTo(place) \/ PrepareStart(place)
    \/ \E d \in Drives : \/ NavigatorResult(d) \/ FollowerResult(d) \/ CancelDone(d)
                         \/ EndDrive(d) \/ TakeKill(d)

-----------------------------------------------------------------------------
(* Properties *)

CenterTypeOK ==
    /\ served \in {"navigator", "follower"} /\ patient \in BOOLEAN /\ accept \in BOOLEAN
    /\ destination \in Places \cup {Nowhere} /\ oldCommand \in Places \cup {Nowhere}
    /\ held \in Drives \cup {Nowhere}
    /\ drives \in [Drives -> DriveRecord]
    /\ sent \in Seq(Drives) /\ decided \in Seq(Drives)
    /\ killing \subseteq Drives /\ killed \subseteq Drives
    /\ report \in [told : Places \cup {"none", "driving_done"}, of : Places \cup {Nowhere},
                   moving : BOOLEAN]

\* The end of a drive is reported when the robot stands, and the navigator names the
\* place the drive was to.
ReportIsSo ==
    /\ ~report.moving
    /\ report.told \in Places => report.told = report.of

\* A drive that goes on is known to be under way, and for the follower it is the
\* one a kill would reach.
DriveIsKnown ==
    \A d \in InState({"running"}) :
        (\A i \in 1..Len(decided) : decided[i] # d)
            => accept /\ (served = "follower" => held = d)

\* A patient centre is told the truth and stays in command: neither a refusal nor
\* the late result of a killed goal is taken for the goal that replaced it
\* (x_navigator.py:78, x_waypoint_follower_client.py:99, :138).  An impatient one
\* is told of the wrong place, or loses sight of a drive.
CenterInCommand == patient => ReportIsSo /\ DriveIsKnown
=============================================================================
