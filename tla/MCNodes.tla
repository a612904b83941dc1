------------------------------- MODULE MCNodes -------------------------------
(***************************************************************************)
(* The nodes that share no state with each other, for TLC: "node" says      *)
(* which of them the behaviour is about; the others stay as they start.     *)
(* FloorEstimator runs sample by sample, with short windows and trips.      *)
(***************************************************************************)
EXTENDS Navigator, CenterClients, MarkerManager, TtsSpeaker, ArmSerial,
        FloorEstimator, BaseNode

VARIABLE node

nodeVars == <<node, navVars, centerVars, markerVars, speakerVars, armVars, vars, baseVars>>

ShortThresholds == <<3, 6>>

\* The hands a joystick shows: nothing, the stop button, a speed button, one
\* shoulder button, both.
MCHands == {{}, {"stop"}, {"faster"}, {"l2"}, {"l2", "r2"}}

NodeInit ==
  /\ node \in {"navigator", "center", "marker", "speaker", "arm", "floor", "base"}
  /\ NavInit /\ CenterInit /\ MarkerInit /\ SpeakerInit /\ ArmInit /\ Init /\ BaseInit
  /\ node # "navigator" => temper = [patient |-> TRUE, steady |-> TRUE, agreeing |-> TRUE]
  /\ node # "center" => served = "navigator" /\ patient
  /\ node # "speaker" => voiceFile
  /\ node # "arm" => connected
  /\ node # "base" => start = 0

Alone(n) ==
  /\ node = n /\ UNCHANGED node
  /\ n # "navigator" => UNCHANGED navVars
  /\ n # "center" => UNCHANGED centerVars
  /\ n # "marker" => UNCHANGED markerVars
  /\ n # "speaker" => UNCHANGED speakerVars
  /\ n # "arm" => UNCHANGED armVars
  /\ n # "floor" => UNCHANGED vars
  /\ n # "base" => UNCHANGED baseVars

NodeNext ==
  \/ Alone("navigator") /\ NavNext
  \/ Alone("center") /\ CenterNext
  \/ Alone("marker") /\ MarkerNext
  \/ Alone("speaker") /\ SpeakerNext
  \/ Alone("arm") /\ ArmNext
  \/ Alone("floor") /\ Next
  \/ Alone("base") /\ BaseNext

\* What the nodes with a liveness property assume, each while it is the one that
\* runs.  Navigator: the executor runs every callback; the server decides, and ends
\* every goal some time; a server that is away is found again and again.  Speaker:
\* the two callbacks share one executor, and a sound ends.  Base node: the timer
\* keeps firing, and the motor turns.
NodeFairness ==
  /\ SF_nodeVars(\/ Alone("navigator") /\ CheckServerReady
                 \/ Alone("speaker") /\ Executor)
  /\ SF_nodeVars(\/ Alone("navigator") /\ Decide
                 \/ Alone("speaker") /\ MonitorAlarm)
  /\ WF_nodeVars(\/ Alone("navigator") /\ Discover /\ serverReady'
                 \/ Alone("speaker") /\ SoundEnds
                 \/ Alone("base") /\ TimerCallback)
  /\ WF_nodeVars(Alone("base") /\ Motor)
  /\ \A g \in Goals : /\ WF_nodeVars(Alone("navigator") /\ GoalResponseCallback(g))
                      /\ WF_nodeVars(Alone("navigator") /\ ResultCallback(g))
                      /\ WF_nodeVars(Alone("navigator") /\ EndGoal(g))

NodeSpec == NodeInit /\ [][NodeNext]_nodeVars /\ NodeFairness

\* Every variable of the five nodes around the mission keeps its type.
PeripheralTypes ==
  NavTypeOK /\ CenterTypeOK /\ MarkerTypeOK /\ SpeakerTypeOK /\ ArmTypeOK
=============================================================================
