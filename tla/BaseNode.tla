------------------------------- MODULE BaseNode -------------------------------
(***************************************************************************)
(* The wheel base node (test_node_main.py) with its motor driver           *)
(* (motor_driver.py), for one wheel; positions are encoder counts.  Every  *)
(* timer callback sends one command and reads one frame of feedback, with a*)
(* timeout.  A frame travels in two halves, so that one can be cut, split  *)
(* by the timeout or come late; the read takes the next two halves, whose  *)
(* ever they are.  No marker topic is subscribed, so the dead reckoning of *)
(* timer_callback never starts.                                            *)
(***************************************************************************)
EXTENDS Integers, Sequences

CONSTANTS
    Reach,     \* bounds the positions: -Reach..Reach
    Sticks,    \* what the sticks may ask of the wheel, within -1..1
    Hands,     \* the sets of buttons that are held together
    MaxFaults  \* bounds the exchanges that go wrong on the line

Buttons == {"stop", "faster", "slower", "l2", "r2"}

ASSUME BaseAssumption == Reach \in Nat /\ MaxFaults \in Nat /\ Hands \subseteq SUBSET Buttons
                         /\ Sticks \subseteq {-1, 0, 1}

VARIABLES
    wheel,   \* the motor's position
    drive,   \* what the motor controller was last told, [kind, to]
    turning, \* the wheel may still turn before the next timer callback
    line,    \* halves of frames that arrived and were not read, [half, pos]
    faults,  \* exchanges that went wrong
    alive,   \* the node's process runs
    first,   \* firstloop
    pos,     \* md.pos1
    base,    \* del_pos1
    odom,    \* last_pos1, which is the sum of the published displacements
    target,  \* target_pos1
    joy,     \* JOY_CONTROL
    armed,   \* change_mode
    stick,   \* what the sticks ask of this wheel
    vel,     \* vel_input1_old
    stop,    \* joy_stop
    greeted, \* a joystick message was handled: joy_speed_up_old and the like exist
    start,   \* the position at the start
    asked,   \* a twist was accepted, or the joystick was in control
    fresh    \* the last exchange read its own answer

motorVars == <<wheel, drive, turning>>
modeVars  == <<target, joy, armed, stick, stop, greeted, asked>>
baseVars  == <<motorVars, line, faults, alive, first, pos, base, odom, modeVars, vel, start, fresh>>

Positions == -Reach..Reach

Sign(n) == IF n > 0 THEN 1 ELSE IF n < 0 THEN -1 ELSE 0
-----------------------------------------------------------------------------
(* The exchange with the motor controller *)

Half(n, p) == [half |-> n, pos |-> p]

Halves(p) == <<Half(1, p), Half(2, p)>>

\* What may arrive of an answer.
Parts(p) == {<<>>, <<Half(1, p)>>, <<Half(2, p)>>, Halves(p)}

\* recv_motor_state: 24 bytes with the right header and checksum.
ValidFrame(read) ==
    Len(read) = 2 /\ read[1].half = 1 /\ read[2].half = 2 /\ read[1].pos = read[2].pos

\* The command is sent and one frame is read: "early" arrives before the timeout
\* of the read, "later" after it, and the rest of the answer never.  A command
\* the controller does not understand is neither executed nor answered.
Exchange(command) ==
    \E early, later \in Parts(wheel) :
        LET here == line \o early
            read == SubSeq(here, 1, IF Len(here) < 2 THEN Len(here) ELSE 2)
            good == early = Halves(wheel)
        IN  /\ early \o later \in Parts(wheel)
            /\ faults' = IF good THEN faults ELSE faults + 1
            /\ faults' <= MaxFaults
            /\ \/ drive' = command
               \/ early \o later = <<>> /\ UNCHANGED drive
            /\ line' = SubSeq(here, Len(read) + 1, Len(here)) \o later
            /\ pos' = IF ValidFrame(read) THEN read[1].pos ELSE pos
            /\ fresh' = (good /\ line = <<>>)
    /\ turning' = TRUE
    /\ UNCHANGED wheel

To(p)  == [kind |-> "position", to |-> p]
Vel(v) == [kind |-> "velocity", to |-> v]

\* The motor (external): at most one count between two callbacks, towards the
\* position or along the velocity.
Motor ==
    /\ turning
    /\ wheel' = wheel + Sign(IF drive.kind = "position" THEN drive.to - wheel ELSE drive.to)
    /\ wheel' \in Positions
    /\ turning' = FALSE
    /\ UNCHANGED <<drive, line, faults, alive, first, pos, base, odom, modeVars, vel, start, fresh>>
-----------------------------------------------------------------------------
(* timer_callback *)

\* Mutant: the first loop leaves the target where it was.
FirstLoopKeepsTarget ==
    /\ alive /\ first
    /\ Exchange(Vel(0))
    /\ first' = FALSE
    /\ base' = pos'
    /\ UNCHANGED <<alive, odom, modeVars, vel, start>>

\* The first loop takes the position it read, or 0, for target and origin.
FirstLoop ==
    /\ alive /\ first
    /\ Exchange(Vel(0))
    /\ first' = FALSE
    /\ target' = pos'
    /\ base' = pos'
    /\ UNCHANGED <<alive, odom, joy, armed, stick, stop, greeted, asked, vel, start>>

\* The low-pass filter takes the velocity some way towards the sticks.
JoyLoop ==
    /\ alive /\ ~first /\ joy
    /\ vel' \in {vel, vel + Sign(stick - vel)}
    /\ Exchange(IF stop THEN To(pos) ELSE Vel(vel'))
    /\ odom' = pos' - base
    /\ UNCHANGED <<alive, first, base, modeVars, start>>

\* Mutant: within a count of the target the last command is repeated.
AutoDeadband ==
    /\ alive /\ ~first /\ ~joy
    /\ Exchange(IF target - pos \in -1..1 THEN drive ELSE To(target))
    /\ odom' = pos' - base
    /\ UNCHANGED <<alive, first, base, modeVars, vel, start>>

AutoLoop ==
    /\ alive /\ ~first /\ ~joy
    /\ Exchange(To(target))
    /\ odom' = pos' - base
    /\ UNCHANGED <<alive, first, base, modeVars, vel, start>>

TimerCallback == FirstLoop \/ JoyLoop \/ AutoLoop
-----------------------------------------------------------------------------
(* The subscriptions *)

\* A twist moves the target by the distance of a fixed control period.
CmdVelCallback ==
    /\ alive
    /\ ~joy
    /\ \E delta \in {-1, 1} : target' = target + delta
    /\ target' \in Positions
    /\ asked' = TRUE
    /\ UNCHANGED <<motorVars, line, faults, alive, first, pos, base, odom, joy, armed, stick,
                   stop, greeted, vel, start, fresh>>

\* The old values of the speed buttons do not exist before the first message is
\* handled: one of them held in it is an AttributeError that ends the process.
JoyDies(hand) ==
    /\ ~greeted
    /\ hand \cap {"faster", "slower"} # {}
    /\ alive' = FALSE
    /\ UNCHANGED <<target, joy, armed, stop, greeted, asked>>

\* Mutant: the change of mode leaves the target where it was.
ToggleKeepsTarget(hand) ==
    /\ hand \cap {"l2", "r2"} = {} /\ armed
    /\ joy' = ~joy
    /\ asked' = TRUE
    /\ armed' = FALSE
    /\ UNCHANGED target

\* Both shoulder buttons were held and both are free again: the mode changes.
Toggle(hand) ==
    /\ hand \cap {"l2", "r2"} = {} /\ armed
    /\ joy' = ~joy
    /\ asked' = TRUE
    /\ armed' = FALSE
    /\ target' = pos

KeepMode(hand) ==
    /\ hand \cap {"l2", "r2"} # {} \/ ~armed
    /\ armed' = (armed \/ {"l2", "r2"} \subseteq hand)
    /\ UNCHANGED <<target, joy, asked>>

\* The sticks hold until the next message.  The lift buttons and the gain decide
\* nothing but the lift's commands and the size of a velocity.
JoyCallback ==
    /\ alive
    /\ stick' \in Sticks
    /\ \E hand \in Hands :
          \/ JoyDies(hand)
          \/ /\ greeted \/ hand \cap {"faster", "slower"} = {}
             /\ Toggle(hand) \/ KeepMode(hand)
             /\ stop' = ("stop" \in hand)
             /\ greeted' = TRUE
             /\ UNCHANGED alive
    /\ UNCHANGED <<motorVars, line, faults, first, pos, base, odom, vel, start, fresh>>
-----------------------------------------------------------------------------
\* The driver opens the port, which drops what was in it; the controller, which
\* keeps its counts, holds the wheel where an earlier process left it.
BaseInit ==
    /\ start \in 0..Reach /\ wheel = start
    /\ drive = Vel(0) /\ turning = FALSE
    /\ line = <<>> /\ faults = 0 /\ fresh = FALSE
    /\ alive = TRUE /\ first = TRUE
    /\ pos = 0 /\ base = 0 /\ odom = 0 /\ target = 0
    /\ joy = FALSE /\ armed = FALSE /\ stick = 0 /\ vel = 0
    /\ stop = FALSE /\ greeted = FALSE /\ asked = FALSE

BaseNext == TimerCallback \/ CmdVelCallback \/ JoyCallback \/ Motor

BaseSpec == BaseInit /\ [][BaseNext]_baseVars

-----------------------------------------------------------------------------
(* Properties *)

BaseTypeOK ==
    /\ wheel \in Positions /\ pos \in Positions /\ base \in Positions
    /\ target \in Positions /\ start \in Positions
    /\ odom \in -2 * Reach..2 * Reach
    /\ drive \in [kind : {"position", "velocity"}, to : Positions \cup {-1, 0, 1}]
    /\ turning \in BOOLEAN /\ alive \in BOOLEAN /\ first \in BOOLEAN /\ joy \in BOOLEAN
    /\ armed \in BOOLEAN /\ asked \in BOOLEAN /\ fresh \in BOOLEAN
    /\ stop \in BOOLEAN /\ greeted \in BOOLEAN
    /\ line \in Seq([half : {1, 2}, pos : Positions])
    /\ faults \in 0..MaxFaults
    /\ stick \in {-1, 0, 1} /\ vel \in {-1, 0, 1}

\* A base that nobody has asked to move, neither by a twist nor by the joystick,
\* stands where it stood and reports no displacement, whatever happens to the
\* frames afterwards, if the first exchange told the node where it stands
\* (timer_callback's first loop).  If that answer is missing the node takes the
\* position for 0 and drives there.
UnaskedNeverMoves ==
    (~asked /\ (first \/ base = start)) => (wheel = start /\ odom = 0)

\* When the joystick hands over, the base is told to stay within a step of where
\* it is, however far it was driven, if the last exchange read its own answer
\* (joy_callback); with late or unreadable frames it is sent back to where it was.
TakesOverInPlace ==
    [][joy /\ ~joy' /\ fresh => target' - wheel \in -1..1]_baseVars

\* Out of the joystick's control a base that is asked nothing more comes to its
\* target and stays there, also when commands were lost, and the feedback agrees
\* unless half a frame is left in the line, after which no frame is ever valid
\* (timer_callback repeats the command; recv_motor_state).
Settles ==
    <>[](alive /\ ~first /\ ~joy) /\ <>[][UNCHANGED target]_baseVars
        => <>[](wheel = target /\ (Len(line) # 1 => pos = target))
=============================================================================
