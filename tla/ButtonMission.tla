---------------------------- MODULE ButtonMission ----------------------------
(***************************************************************************)
(* The delivery mission of elevator_delivery_final.py.  Its helpers for     *)
(* maps, Nav2, doors, forced moves and sounds are, statement for statement, *)
(* those of elevator_delivery_final_with_manipulator.py, so their actions   *)
(* are Mission's.  In the place of the two arm handshakes it watches the    *)
(* button panels through yolov8_node, a process it starts and stops itself. *)
(*                                                                          *)
(* The stages press_out and press_in are here the two calls of              *)
(* wait_until_button_active; time is counted in ticks while they last.      *)
(***************************************************************************)
EXTENDS Mission

CONSTANTS
  Topics,    \* button_detection_topics
  Stale,     \* detection_stale_timeout_sec, in ticks
  Confirm    \* button_active_confirm_sec, in ticks

ASSUME TimeAssumption == Stale \in Nat /\ Confirm \in Nat /\ Stale < Confirm

VARIABLES
  yolo,      \* the yolov8_node process: off, up, or asked to stop (SIGINT)
  held,      \* self.yolov8_process is not None
  missed,    \* a Ctrl-C fell where the process runs and run() will not stop it
  seen,      \* self.latest_detections, as the wait being executed reads it
  active,    \* the active candidate: since when, and whether seen again since
  latched    \* the panels in self.latched_active_buttons

process == <<yolo, held, missed>>
eyes == <<process, seen, active, latched>>

\* A frame too old to count shows nothing.
Views      == {"active", "inactive", "nothing"}
Unseen     == [shows |-> "nothing", age |-> 0]
Detections == [shows : Views \ {"nothing"}, age : 0 .. Stale] \cup {Unseen}
NoCandidate == [on |-> FALSE, elapsed |-> 0, again |-> FALSE]
Blind == [t \in Topics |-> Unseen]

ButtonInit ==
  /\ yolo = "off" /\ held = FALSE /\ missed = FALSE
  /\ seen = Blind /\ active = NoCandidate /\ latched = {}

-----------------------------------------------------------------------------
(***************************************************************************)
(* start_yolov8_node and stop_yolov8_node.                                  *)
(***************************************************************************)
Watching == <<seen, active, latched>>
AllElse  == <<caches, waiting, motion, location, hands, sound>>

\* Popen starts the process and returns, or raises.
StartDetector ==
  /\ At("press_out", "enter")
  /\ \/ Step("sent") /\ yolo' = "up"
     \/ Fail /\ UNCHANGED yolo
  /\ UNCHANGED <<AllElse, held, missed, Watching>>

\* Its result is assigned to self.yolov8_process.
HoldDetector ==
  /\ At("press_out", "sent") /\ Step("called")
  /\ held' = TRUE
  /\ UNCHANGED <<AllElse, yolo, missed, Watching>>

\* The wait for a panel begins with whatever earlier spins left in the cache.
BeginWatch(s) ==
  /\ seen' \in [Topics -> Detections] /\ active' = NoCandidate
  /\ stage' = s /\ step' = "counting" /\ UNCHANGED <<outcome, param>>
  /\ UNCHANGED <<AllElse, process, latched>>

\* The startup time is over: has the process exited already?
DetectorStarted == At("press_out", "called") /\ yolo = "up" /\ BeginWatch("press_out")

DetectorGone ==
  /\ At("press_out", "called") /\ yolo = "off" /\ Fail
  /\ UNCHANGED <<AllElse, eyes>>
WatchInside == At("press_in", "enter") /\ BeginWatch("press_in")

\* stop_yolov8_node is called after the last panel and in the finally clause.
Stopping == stage \in {"await", "finally"} /\ step = "enter" /\ held

AskDetector ==
  /\ Stopping /\ yolo = "up"
  /\ yolo' = "asked"
  /\ UNCHANGED <<progress, AllElse, held, missed, Watching>>

\* It has exited by itself, upon SIGINT, or upon SIGTERM or SIGKILL at last.
ForgetDetector ==
  /\ Stopping /\ yolo \in {"off", "asked"}
  /\ yolo' = "off" /\ held' = FALSE
  /\ UNCHANGED <<progress, AllElse, missed, Watching>>

\* yolov8_node fails, or obeys SIGINT.
DetectorExits ==
  /\ yolo # "off" /\ yolo' = "off"
  /\ UNCHANGED <<progress, AllElse, held, missed, Watching>>

-----------------------------------------------------------------------------
(***************************************************************************)
(* wait_until_button_active.  run() waits once for each panel, so the two   *)
(* early returns for a panel that is latched already are not taken.         *)
(***************************************************************************)
Aged(tick) ==
  [t \in Topics |->
     IF seen[t] # Unseen /\ seen[t].age + tick <= Stale
     THEN [seen[t] EXCEPT !.age = @ + tick] ELSE Unseen]

Frame(v) == IF v = "nothing" THEN Unseen ELSE [shows |-> v, age |-> 0]

Recent(d, v) == \E t \in Topics : d[t].shows = v

\* Mutant: the candidate survives an iteration that finds no active button.
CandidateKept(tick, d, fresh) ==
  IF ~active.on
  THEN [NoCandidate EXCEPT !.on = Recent(d, "active")]
  ELSE [on |-> TRUE, elapsed |-> active.elapsed + tick, again |-> active.again \/ fresh]

\* Mutant: a candidate that has to be seen on every topic.
CandidateOnAll(tick, d, fresh) ==
  IF \E t \in Topics : d[t].shows # "active" THEN NoCandidate
  ELSE IF ~active.on THEN [NoCandidate EXCEPT !.on = TRUE]
  ELSE [on |-> TRUE, elapsed |-> active.elapsed + tick, again |-> active.again \/ fresh]

\* active_since and active_elapsed after an iteration that finds d.
Candidate(tick, d, fresh) ==
  IF ~Recent(d, "active") THEN NoCandidate
  ELSE IF ~active.on THEN [NoCandidate EXCEPT !.on = TRUE]
  ELSE [on |-> TRUE, elapsed |-> active.elapsed + tick, again |-> active.again \/ fresh]

Confirmed == active'.elapsed >= Confirm

\* A person hides the panel: an idle mixer repeats the announcement.
Alarm(d) ==
  IF ~(Recent(d, "active") \/ Recent(d, "inactive")) /\ sound = "none" /\ param.files # {}
  THEN sound' \in {"none", "btn_not_perception"} ELSE UNCHANGED sound

\* One iteration: spin_once, then the tests on what it left in the caches.
Watch(s, tick, d, fresh) ==
  /\ At(s, "counting")
  /\ active' = Candidate(tick, d, fresh)
  /\ Alarm(d)
  /\ IF Confirmed
     THEN Goto(After[s]) /\ seen' = Blind /\ latched' = latched \cup {s}
     ELSE seen' = d /\ UNCHANGED <<progress, latched>>
  /\ UNCHANGED <<waiting, motion, location, hands, process>>

WatchDetection(s, tick) ==
  \E t \in Topics, v \in Views :
    /\ Watch(s, tick, [Aged(tick) EXCEPT ![t] = Frame(v)], v = "active")
    /\ UNCHANGED caches

WatchOther(s, tick) ==
  /\ Watch(s, tick, Aged(tick), FALSE)
  /\ \E fresh \in BOOLEAN : Spin(fresh)

WatchIteration(tick) == \E s \in Presses : WatchDetection(s, tick) \/ WatchOther(s, tick)

-----------------------------------------------------------------------------
(***************************************************************************)
(* The rest of run(), by the helper each step calls.                        *)
(***************************************************************************)
ButtonSettings == (Validate \/ RoomFront \/ Relocate) /\ UNCHANGED eyes

ButtonMaps == (\E s \in Loads : LoadMapCall(s) \/ LoadMapReply(s)) /\ UNCHANGED eyes

ButtonNavs ==
  /\ \E s \in Navs : NavSend(s) \/ NavAccepted(s) \/ NavSucceeded(s) \/ NavFailed(s)
  /\ UNCHANGED eyes

\* Every step of a move but the repetitions of its loops.
ButtonMoves ==
  /\ \/ \E s \in Moves : BeginMove(s) \/ FirstTurnDone(s) \/ LastTurnDone(s)
     \/ BadSpeed \/ DriveBlocked \/ DriveDone \/ BeginExit
  /\ UNCHANGED eyes

ButtonLoops == (Turn \/ Drive) /\ UNCHANGED eyes

\* The door waits; the latches are cleared when the second one returns.
ButtonDoors ==
  \/ /\ \E fresh \in BOOLEAN : DoorAlreadyInside(fresh) \/ DoorWait(fresh) \/ AwaitFloor(fresh)
     /\ UNCHANGED eyes
  \/ /\ \E fresh \in BOOLEAN : AwaitDoor(fresh)
     /\ latched' = IF stage' = "await" THEN latched ELSE {}
     /\ UNCHANGED <<process, seen, active>>

ButtonBoarding ==
  /\ \/ SkipBoarding \/ StartEstimation
     \/ ~Stopping /\ \E s \in Waits : BeginWait(s)
  /\ UNCHANGED eyes

\* This mission has no arm to notify between go_to_pose and the announcements.
ButtonArrival ==
  /\ \/ AnnounceArrival \/ AnnounceSnack
     \/ At("notify", "enter") /\ Goto("announce") /\ UNCHANGED AllElse
  /\ UNCHANGED eyes

\* Mutant: the finally clause stops the robot only.
ButtonEndKeepsDetector ==
  /\ StopRobot \/ Shutdown
  /\ UNCHANGED eyes

\* After Ctrl-C stop_robot may find the context shut down and publish nothing.
StopUnheard ==
  /\ At("finally", "enter") /\ outcome = "interrupted"
  /\ stage' = "cleanup" /\ UNCHANGED <<step, outcome, param, AllElse>>

ButtonEnd ==
  /\ \/ ~Stopping /\ (StopRobot \/ StopUnheard)
     \/ Shutdown
  /\ UNCHANGED eyes

\* Ctrl-C in the body of run() goes to the finally clause.  In the middle of
\* stop_yolov8_node it may forget the process, whether that was told or not.
InterruptBody ==
  /\ stage \notin {"validate", "finally", "cleanup", "over"}
  /\ stage' = "finally" /\ step' = "enter" /\ outcome' = "interrupted" /\ UNCHANGED param
  /\ \/ held' = held /\ ~(Stopping /\ yolo = "asked")
     \/ held' = FALSE /\ Stopping
  /\ missed' = (missed \/ (yolo = "up" /\ ~held'))
  /\ UNCHANGED <<AllElse, yolo, Watching>>

\* Ctrl-C in the finally clause ends run(), wherever in stop_yolov8_node or in
\* stop_robot it falls.
InterruptFinally ==
  /\ stage = "finally" /\ Interrupt
  /\ held' \in {held, FALSE}
  /\ missed' = (missed \/ yolo = "up")
  /\ UNCHANGED <<yolo, Watching>>

ButtonInterrupt == InterruptBody \/ InterruptFinally

\* No callback runs between Popen and its assignment, nor after Ctrl-C.
ButtonSpin ==
  /\ ~(stage \in Presses /\ step \in {"sent", "counting"})
  /\ outcome # "interrupted"
  /\ SpinOnce
  /\ UNCHANGED eyes

ButtonMusic == MusicEnds /\ UNCHANGED eyes

\* What gets done eventually; nothing is assumed of the map server, Nav2, the
\* panels and the doors.
ButtonProgress ==
  \/ StartDetector \/ HoldDetector \/ DetectorStarted \/ DetectorGone \/ WatchInside
  \/ AskDetector \/ ForgetDetector
  \/ ButtonSettings \/ ButtonMoves \/ ButtonBoarding \/ ButtonArrival \/ ButtonEnd

ButtonNext ==
  \/ ButtonProgress \/ ButtonMaps \/ ButtonNavs \/ ButtonLoops \/ ButtonDoors \/ (\E tick \in {0, 1} : WatchIteration(tick))
  \/ ButtonSpin \/ ButtonMusic \/ ButtonInterrupt \/ DetectorExits

ButtonSpec == Init /\ ButtonInit /\ [][ButtonNext]_<<vars, eyes>>

-----------------------------------------------------------------------------
(***************************************************************************)
(* Properties.                                                              *)
(***************************************************************************)
\* Every variable of the detection has its type.
EyesOK ==
  /\ yolo \in {"off", "up", "asked"} /\ held \in BOOLEAN /\ missed \in BOOLEAN
  /\ seen \in [Topics -> Detections]
  /\ active \in [on : BOOLEAN, elapsed : 0 .. Confirm, again : BOOLEAN]
  /\ latched \subseteq Presses

\* Every return of run() leaves no yolov8_node behind.  Ctrl-C leaves one that was
\* not told to stop only where it falls between Popen and the assignment of its
\* result, into stop_yolov8_node before SIGINT, or into the finally clause before
\* that: anywhere else the finally clause still stops it, even when it is being
\* stopped already.
NoDetectorLeft ==
  stage = "over" => /\ outcome # "interrupted" => yolo = "off"
                    /\ yolo = "up" => missed

\* No end of the mission at all leaves a yolov8_node that was not told to stop (the
\* comment of run()'s finally clause).
DetectorNeverLeft == stage = "over" => yolo # "up"

\* A single frame never presses a button: when wait_until_button_active
\* confirms a panel, an active frame has arrived after the one that started the
\* candidate, however the frames of the topics and other callbacks interleave.
ConfirmedByTwoFrames ==
  [][latched' \subseteq latched \/ active'.again]_<<latched, active>>

\* A button that keeps being seen active is confirmed, whatever the frames of
\* the other topic say meanwhile (has_button_active looks at every topic).
SteadyButtonConfirmed ==
  ~<>[](stage \in Presses /\ step = "counting" /\ Recent(seen, "active"))
=============================================================================
