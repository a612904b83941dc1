------------------------------ MODULE Workcell ------------------------------
(***************************************************************************)
(* The workcell: the waypoint follower (x_yaml_waypoint_follower.py)       *)
(* drives from stop to stop and waits at each for the serial FSM           *)
(* (serial_comm_fsm_node.py), which asks the workstation for its tasks     *)
(* over the serial line (serial_flag_bridge.py), again and again until it  *)
(* confirms them.                                                          *)
(*                                                                         *)
(*   follower --arrivals--> FSM --tx--> bridge --line--> station           *)
(*   follower <---dones---- FSM <--rx-- bridge <--back-- station           *)
(*                                                                         *)
(* External, modelled from the way the code uses them: Nav2, the wire and  *)
(* the workstation, which performs a request it has not just finished, and *)
(* answers the one it has just finished with DONE again.                   *)
(***************************************************************************)
EXTENDS WorkPlan

CONSTANTS Configs,     \* the configurations to start from
          QueueDepth,  \* depth of a topic's queue, 10 in the code
          LineDepth    \* what the wire buffers in each direction

ASSUME WorkcellAssumption ==
    /\ Configs \subseteq Configurations
    /\ QueueDepth \in Nat \ {0}
    /\ LineDepth \in Nat \ {0}

VARIABLES
    param,                             \* the configuration
    index, nav, awaiting, doneNames,   \* follower
    wp, tasks, task, count,            \* FSM: the visit it serves
    resendTimer, timeoutTimer, picked, \* FSM: timers, _did_first_pick
    arrivals, dones, tx, rx,           \* topics
    open, line, back,                  \* serial port and wire
    busy, last                         \* station: the request it works on, the one it finished last

follower == <<index, nav, awaiting, doneNames>>
visit    == <<wp, tasks, task, count, resendTimer, timeoutTimer, picked>>
wire     == <<open, line, back>>
station  == <<busy, last>>
vars     == <<param, follower, visit, arrivals, dones, tx, rx, wire, station>>

\* FAIL is what the station may say instead; the FSM ignores it.
Reply == [type: {"DONE", "FAIL"}, request: Request]

\* Mutant: a publisher that keeps every message.
PublishKeepAll(queue, m) == Append(queue, m)

\* Publishing to a KEEP_LAST topic: a full queue loses its oldest message.
Publish(queue, m) ==
    IF Len(queue) < QueueDepth THEN Append(queue, m) ELSE Append(Tail(queue), m)

\* What the wire has no room for is lost.
Transmit(bytes, m) == IF Len(bytes) < LineDepth THEN Append(bytes, m) ELSE bytes

-----------------------------------------------------------------------------
(* Waypoint follower *)

\* _current_name while a goal is under way or a DONE awaited.
Name == param.tour[index]

\* _start_sequence and _send_current_goal, from position i.
SendCurrentGoal(i) ==
    /\ index' = NextStop(param, i)
    /\ nav' = IF index' > Len(param.tour) THEN "idle" ELSE "requested"

\* _advance_to_next; starting over forgets the DONEs that were noted.
AdvanceToNext(names) ==
    /\ SendCurrentGoal(index + 1)
    /\ awaiting' = FALSE
    /\ doneNames' = IF Wraps(param, index + 1) THEN {} ELSE names

\* Nav2 rejects the goal, or misses the waypoint.
NotReached ==
    IF param.continueOnMiss
    THEN AdvanceToNext(doneNames)
    ELSE nav' = "idle" /\ UNCHANGED <<index, awaiting, doneNames>>

GoalResponse ==
    /\ nav = "requested"
    /\ \/ nav' = "driving" /\ UNCHANGED <<index, awaiting, doneNames>>
       \/ NotReached
    /\ UNCHANGED <<param, visit, arrivals, dones, tx, rx, wire, station>>

HandleWaypointArrived ==
    /\ arrivals' = Publish(arrivals, Name)
    /\ IF Name \in doneNames
       THEN AdvanceToNext(doneNames \ {Name})
       ELSE /\ awaiting' = TRUE
            /\ nav' = "idle"
            /\ UNCHANGED <<index, doneNames>>

GetResult ==
    /\ nav = "driving"
    /\ \/ HandleWaypointArrived
       \/ NotReached /\ UNCHANGED arrivals
    /\ UNCHANGED <<param, visit, dones, tx, rx, wire, station>>

DoneCallback ==
    /\ dones # <<>>
    /\ dones' = Tail(dones)
    /\ LET names == doneNames \cup {Head(dones)}
       IN  IF awaiting /\ Name \in names
           THEN AdvanceToNext(names \ {Name})
           ELSE doneNames' = names /\ UNCHANGED <<index, nav, awaiting>>
    /\ UNCHANGED <<param, visit, arrivals, tx, rx, wire, station>>

\* The one-shot timer of _schedule_repeat.
Restart ==
    /\ param.repeat = "delayed"
    /\ index > Len(param.tour)
    /\ SendCurrentGoal(1)
    /\ awaiting' = FALSE
    /\ doneNames' = {}
    /\ UNCHANGED <<param, visit, arrivals, dones, tx, rx, wire, station>>

-----------------------------------------------------------------------------
(* Serial FSM *)

Current == tasks[task]

\* Mutant: _finish_waypoint without _reset_state.
FinishWithoutReset ==
    /\ dones' = Publish(dones, wp)
    /\ picked' = (picked \/ FirstPick(param))
    /\ UNCHANGED <<wp, tasks, task, count, resendTimer, timeoutTimer>>

\* _finish_waypoint with _reset_state.
FinishWaypoint ==
    /\ dones' = Publish(dones, wp)
    /\ picked' = (picked \/ FirstPick(param))
    /\ wp' = None
    /\ tasks' = <<>>
    /\ task' = 1
    /\ count' = 0
    /\ resendTimer' = FALSE
    /\ timeoutTimer' = FALSE

StartWaypoint(name) ==
    LET requests == Requests(param, name, picked)
    IN  IF requests = <<>>
        THEN dones' = Publish(dones, name) /\ UNCHANGED <<visit, tx>>
        ELSE /\ wp' = name
             /\ tasks' = requests
             /\ task' = 1
             /\ count' = 0
             /\ tx' = Publish(tx, requests[1])
             /\ resendTimer' = param.resend
             /\ timeoutTimer' = param.timeout
             /\ UNCHANGED <<picked, dones>>

OnWpArrive ==
    /\ arrivals # <<>>
    /\ arrivals' = Tail(arrivals)
    /\ IF wp = None
       THEN StartWaypoint(Head(arrivals))
       ELSE UNCHANGED <<visit, dones, tx>>
    /\ UNCHANGED <<param, follower, rx, wire, station>>

\* The resend timer is not started again, only the timeout.
AdvanceTask ==
    IF task = Len(tasks)
    THEN FinishWaypoint /\ UNCHANGED tx
    ELSE /\ picked' = (picked \/ (FirstPick(param) /\ Current[2] = Pick))
         /\ task' = task + 1
         /\ count' = 0
         /\ tx' = Publish(tx, tasks[task + 1])
         /\ timeoutTimer' = param.timeout
         /\ UNCHANGED <<wp, tasks, resendTimer, dones>>

\* Mutants: _on_serial_rx without the comparison of workstation and task, or
\* taking the station's FAIL for its DONE.
ConfirmsAnyDone(m) == wp # None /\ m.type = "DONE"
ConfirmsAnyReply(m) == wp # None /\ m.request = Current

Confirms(m) == wp # None /\ m.type = "DONE" /\ m.request = Current

OnSerialRx ==
    /\ rx # <<>>
    /\ rx' = Tail(rx)
    /\ IF Confirms(Head(rx)) THEN AdvanceTask ELSE UNCHANGED <<visit, dones, tx>>
    /\ UNCHANGED <<param, follower, arrivals, wire, station>>

\* What max_resends or the timeout leads to: skip the waypoint, or hold.
GiveUp ==
    IF param.fail = "skip_waypoint"
    THEN FinishWaypoint
    ELSE /\ resendTimer' = FALSE
         /\ UNCHANGED <<wp, tasks, task, count, picked, dones>>

\* Mutant: _last_arrived_msg is kept from the first request of the visit.
ResendFirst ==
    /\ resendTimer
    /\ tx' = Publish(tx, tasks[1])
    /\ UNCHANGED <<param, follower, visit, arrivals, dones, rx, wire, station>>

\* Without a limit the count is only logged and is left at zero here.
ResendCb ==
    /\ resendTimer
    /\ wp # None
    /\ IF param.maxResends > 0 /\ count >= param.maxResends
       THEN GiveUp /\ UNCHANGED tx /\ (param.fail = "stop" => UNCHANGED timeoutTimer)
       ELSE /\ tx' = Publish(tx, Current)
            /\ count' = IF param.maxResends > 0 THEN count + 1 ELSE count
            /\ UNCHANGED <<wp, tasks, task, resendTimer, timeoutTimer, picked, dones>>
    /\ UNCHANGED <<param, follower, arrivals, rx, wire, station>>

TimeoutCb ==
    /\ timeoutTimer
    /\ timeoutTimer' = FALSE
    /\ wp # None
    /\ GiveUp
    /\ UNCHANGED <<param, follower, arrivals, tx, rx, wire, station>>

-----------------------------------------------------------------------------
(* Serial bridge *)

\* _ensure_serial: a closed port may open again, at most once per reconnect_sec.
EnsuredPort == IF open THEN {TRUE} ELSE BOOLEAN

\* _tx_callback: written, lost because the port is closed, or lost in a failing
\* write that closes it.
TxCallback ==
    /\ tx # <<>>
    /\ tx' = Tail(tx)
    /\ \E up \in EnsuredPort, written \in BOOLEAN :
        /\ open' = (up /\ written)
        /\ line' = IF open' THEN Transmit(line, Head(tx)) ELSE line
    /\ UNCHANGED <<param, follower, visit, arrivals, dones, rx, back, station>>

\* _read_serial, every 20 ms: publishes a line; a failing read closes the port.
ReadSerial ==
    /\ \E up \in EnsuredPort, readable \in BOOLEAN :
        /\ open' = (up /\ readable)
        /\ IF open' /\ back # <<>>
           THEN rx' = Publish(rx, Head(back)) /\ back' = Tail(back)
           ELSE UNCHANGED <<rx, back>>
    /\ UNCHANGED <<param, follower, visit, arrivals, dones, tx, line, station>>

-----------------------------------------------------------------------------
(* The wire and the workstation (external) *)

\* A line is lost, cut in two by the read timeout, or garbled beyond parsing.
LoseLine ==
    /\ \/ line # <<>> /\ line' = Tail(line) /\ UNCHANGED back
       \/ back # <<>> /\ back' = Tail(back) /\ UNCHANGED line
    /\ UNCHANGED <<param, follower, visit, arrivals, dones, tx, rx, open, station>>

Replied(type, request) == [type |-> type, request |-> request]

StationRead ==
    /\ line # <<>>
    /\ line' = Tail(line)
    /\ IF busy # None THEN UNCHANGED <<busy, back>>
       ELSE IF Head(line) = last
            THEN back' = Transmit(back, Replied("DONE", last)) /\ UNCHANGED busy
            ELSE busy' = Head(line) /\ UNCHANGED back
    /\ UNCHANGED <<param, follower, visit, arrivals, dones, tx, rx, open, last>>

StationDone ==
    /\ busy # None
    /\ busy' = None
    /\ last' = busy
    /\ back' = Transmit(back, Replied("DONE", busy))
    /\ UNCHANGED <<param, follower, visit, arrivals, dones, tx, rx, open, line>>

StationFail ==
    /\ busy # None
    /\ busy' = None
    /\ back' = Transmit(back, Replied("FAIL", busy))
    /\ UNCHANGED <<param, follower, visit, arrivals, dones, tx, rx, open, line, last>>

-----------------------------------------------------------------------------
Init ==
    /\ param \in Configs
    /\ index = NextStop(param, 1) /\ nav = "requested"
    /\ awaiting = FALSE /\ doneNames = {}
    /\ wp = None /\ tasks = <<>> /\ task = 1 /\ count = 0
    /\ resendTimer = FALSE /\ timeoutTimer = FALSE /\ picked = FALSE
    /\ arrivals = <<>> /\ dones = <<>> /\ tx = <<>> /\ rx = <<>>
    /\ open \in BOOLEAN /\ line = <<>> /\ back = <<>>
    /\ busy = None /\ last = None

Next ==
    \/ GoalResponse \/ GetResult \/ DoneCallback \/ Restart
    \/ OnWpArrive \/ OnSerialRx \/ ResendCb \/ TimeoutCb
    \/ TxCallback \/ ReadSerial
    \/ LoseLine \/ StationRead \/ StationDone \/ StationFail

Spec == Init /\ [][Next]_vars

-----------------------------------------------------------------------------
(* Fairness: the executors run every handler and timer; a line that is     *)
(* written, read or worked on again and again gets through some time.      *)

Fairness ==
    /\ WF_vars(OnWpArrive) /\ WF_vars(OnSerialRx)
    /\ WF_vars(ResendCb) /\ WF_vars(TimeoutCb)
    /\ SF_vars(TxCallback /\ open')
    /\ SF_vars(ReadSerial /\ back' # back)
    /\ SF_vars(StationRead) /\ SF_vars(StationDone)

FairSpec == Spec /\ Fairness

-----------------------------------------------------------------------------
(* Properties *)

TypeOK ==
    /\ param \in Configs
    /\ index \in 1..(Len(param.tour) + 1)
    /\ nav \in {"idle", "requested", "driving"}
    /\ awaiting \in BOOLEAN
    /\ doneNames \subseteq Waypoints
    /\ wp \in Waypoints \cup {None}
    /\ tasks \in Seq(Request) /\ task \in 1..(Len(tasks) + 1) /\ count \in Nat
    /\ {resendTimer, timeoutTimer, picked, open} \subseteq BOOLEAN
    /\ {arrivals, dones} \subseteq Seq(Waypoints)
    /\ {tx, line} \subseteq Seq(Request)
    /\ {rx, back} \subseteq Seq(Reply)
    /\ {busy, last} \subseteq Request \cup {None}
    /\ Len(arrivals) <= QueueDepth /\ Len(dones) <= QueueDepth
    /\ Len(tx) <= QueueDepth /\ Len(rx) <= QueueDepth
    /\ Len(line) <= LineDepth /\ Len(back) <= LineDepth

\* A visit is in exactly one hand: in the arrival topic, with the FSM, or in the
\* done topic; and only while the follower waits for it.  So an arrival never
\* finds the FSM busy and is dropped (serial_comm_fsm_node.py:142), and no DONE
\* is left over to release a later visit of the same waypoint
\* (x_yaml_waypoint_follower.py:239).
OneHandPerVisit ==
    /\ doneNames = {}
    /\ <<arrivals, wp, dones>> \in
         IF awaiting THEN { << <<Name>>, None, <<>> >>, << <<>>, Name, <<>> >>,
                            << <<>>, None, <<Name>> >> }
         ELSE { << <<>>, None, <<>> >> }

\* With fail_policy "stop" the robot never drives while the station works: not
\* even when requests and confirmations were repeated, lost or are under way
\* from an earlier visit.
StandsWhileWorking == (busy # None /\ param.fail = "stop") => awaiting

\* A visit ends for certain when requests are repeated without limit and nothing
\* cuts that short, whatever the line loses, or when the policy is to skip.
KeepsAsking == param.resend /\ param.maxResends = 0 /\ ~param.timeout
SkipsAfterAll ==
    param.fail = "skip_waypoint" /\ (param.timeout \/ (param.resend /\ param.maxResends > 0))

EveryVisitEnds == (wp # None /\ (KeepsAsking \/ SkipsAfterAll)) ~> (wp = None)

\* "Max resends per task" (yaml_waypoint_follower.launch.py:100): a task that is
\* not confirmed is being resent unless its own resends are used up.
ResendsPerTask ==
    (wp # None /\ param.resend /\ ~param.timeout /\ ~resendTimer)
        => count >= param.maxResends

-----------------------------------------------------------------------------
(* Refinement: the tour as Tour tells it.  The station has performed the   *)
(* current request when it finished it last; that tells visits apart       *)
(* because consecutive requests differ.                                    *)

Performed == wp # None /\ last = Current

RemainingTodo ==
    IF arrivals # <<>> THEN Requests(param, Head(arrivals), picked)
    ELSE IF wp # None THEN SubSeq(tasks, IF Performed THEN task + 1 ELSE task, Len(tasks))
    ELSE <<>>

TourPhase ==
    IF index > Len(param.tour) THEN "over"
    ELSE IF awaiting THEN "standing"
    ELSE IF nav = "idle" THEN "stranded"
    ELSE "driving"

FirstPickPerformed ==
    picked \/ (Performed /\ FirstPick(param) /\ Current[2] = Pick)

T == INSTANCE Tour WITH at <- index, phase <- TourPhase,
                        todo <- RemainingTodo, picked <- FirstPickPerformed

\* With fail_policy "stop" every step is a step of Tour or leaves it unchanged:
\* each task of each visit is performed exactly once and in order while the robot
\* stands there, and the robot leaves only after the last.
FollowsTheTour == T!Init /\ [][param.fail = "stop" => T!Next]_(T!vars)
=============================================================================
