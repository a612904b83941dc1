------------------------------ MODULE ArmSerial ------------------------------
(***************************************************************************)
(* The arm's serial driver (manipulator_driver.py) and the firmware at the *)
(* other end (4DOF_robot_arm_ver1/src/main.cpp).  The firmware answers each*)
(* command with one line; the driver takes the next line that parses for   *)
(* the answer to the call it is in.  Nothing in a line tells which command *)
(* it answers: "of" below is what the model knows and the driver does not. *)
(***************************************************************************)
EXTENDS Naturals, Sequences

CONSTANT MaxCalls  \* bounds the commands sent

ASSUME ArmAssumption == MaxCalls \in Nat

VARIABLES
    connected,  \* is_connected()
    calling,    \* the call the driver is in: "none", "request_state" or "ack"
    issued,     \* number of commands sent
    toArm,      \* commands on their way, [kind, of]
    fromArm,    \* lines not yet read, [header, of]
    answer,     \* what the last call returned, [ok, of]
    spent       \* one more than the command whose line was last taken for an answer

armVars == <<connected, calling, issued, toArm, fromArm, answer, spent>>

NoAnswer == [ok |-> FALSE, of |-> 0]

\* Mutant: parse_state takes any line.
ParseAnything(line) == TRUE

\* parse_state: five tokens, the first STATE or OK.
ParseState(line) == line.header \in {"STATE", "OK"}

Write(kind) ==
    /\ issued' = issued + 1
    /\ toArm' = Append(toArm, [kind |-> kind, of |-> issued + 1])

\* send_raw: the command the call writes, which becomes the call the driver is in;
\* or a refusal, for want of a port or by a SerialException, which leaves open
\* whether the command was written.
Send(kind, call) ==
    /\ calling = "none"
    /\ issued < MaxCalls
    /\ answer' = NoAnswer
    /\ \/ connected /\ Write(kind) /\ calling' = call
       \/ connected /\ Write(kind) /\ UNCHANGED calling
       \/ UNCHANGED <<issued, toArm, calling>>
    /\ UNCHANGED <<connected, fromArm, spent>>

SendJointAngles == Send("ARM", "none")
RequestState    == Send("GET_STATE", "request_state")
MoveAndWaitAck  == Send("ARM", "ack")

Answered(line) == IF ParseState(line) THEN [ok |-> TRUE, of |-> line.of] ELSE NoAnswer

\* request_state reads one line; move_and_wait_ack reads on until one parses.
ReadLine ==
    /\ calling # "none"
    /\ fromArm # <<>>
    /\ fromArm' = Tail(fromArm)
    /\ IF calling = "request_state" \/ ParseState(Head(fromArm))
       THEN answer' = Answered(Head(fromArm)) /\ calling' = "none"
       ELSE UNCHANGED <<answer, calling>>
    /\ spent' = IF ParseState(Head(fromArm)) THEN Head(fromArm).of + 1 ELSE spent
    /\ UNCHANGED <<connected, issued, toArm>>

\* The read timeout of request_state, max_wait of move_and_wait_ack; a read that
\* raises SerialException ends the former too, and the latter reads again.
Timeout ==
    /\ calling # "none"
    /\ answer' = NoAnswer
    /\ calling' = "none"
    /\ UNCHANGED <<connected, issued, toArm, fromArm, spent>>

Disconnect ==
    /\ calling = "none"
    /\ connected
    /\ connected' = FALSE
    /\ UNCHANGED <<calling, issued, toArm, fromArm, answer, spent>>

\* loop() of the firmware, for one received line.
Loop ==
    /\ toArm # <<>>
    /\ toArm' = Tail(toArm)
    /\ LET header == IF Head(toArm).kind = "ARM" THEN "OK"
                     ELSE IF Head(toArm).kind = "GET_STATE" THEN "STATE"
                     ELSE "ERR"
       IN  fromArm' = Append(fromArm, [header |-> header, of |-> Head(toArm).of])
    /\ UNCHANGED <<connected, calling, issued, answer, spent>>

\* A command is garbled, or an answer is cut in two by the read timeout (external).
Garble ==
    /\ \/ /\ toArm # <<>>
          /\ toArm[1].kind # "garbled"
          /\ toArm' = [toArm EXCEPT ![1].kind = "garbled"]
          /\ UNCHANGED fromArm
       \/ /\ fromArm # <<>>
          /\ fromArm[1].header # "part"
          /\ LET part == [fromArm[1] EXCEPT !.header = "part"]
             IN  fromArm' = <<part, part>> \o Tail(fromArm)
          /\ UNCHANGED toArm
    /\ UNCHANGED <<connected, calling, issued, answer, spent>>

\* A command, or a line of which the read has failed, is lost (external).
Lose ==
    /\ \/ toArm # <<>> /\ toArm' = Tail(toArm) /\ UNCHANGED fromArm
       \/ fromArm # <<>> /\ fromArm' = Tail(fromArm) /\ UNCHANGED toArm
    /\ UNCHANGED <<connected, calling, issued, answer, spent>>

\* connect(): opening the port resets the ESP32, whose setup() prints an OK line;
\* the driver waits two seconds and does not drop it.
ArmInit ==
    /\ connected \in BOOLEAN
    /\ calling = "none" /\ issued = 0
    /\ toArm = <<>>
    /\ fromArm = IF connected THEN <<[header |-> "OK", of |-> 0]>> ELSE <<>>
    /\ answer = NoAnswer /\ spent = 0

ArmNext ==
    \/ SendJointAngles \/ RequestState \/ MoveAndWaitAck
    \/ ReadLine \/ Timeout \/ Disconnect \/ Loop \/ Garble \/ Lose

-----------------------------------------------------------------------------
(* Properties *)

ArmTypeOK ==
    /\ connected \in BOOLEAN
    /\ calling \in {"none", "request_state", "ack"}
    /\ issued \in 0..MaxCalls
    /\ toArm \in Seq([kind: {"ARM", "GET_STATE", "garbled"}, of: 1..MaxCalls])
    /\ fromArm \in Seq([header: {"OK", "STATE", "ERR", "part"}, of: 0..MaxCalls])
    /\ answer \in [ok: BOOLEAN, of: 0..MaxCalls]
    /\ spent \in 0..(MaxCalls + 1)

\* A line answers at most one call, and the calls are answered in the order of the
\* commands, whatever is lost, garbled, cut in two, refused or late: parse_state has
\* to tell the halves of an answer from an answer (manipulator_driver.py:115).
AnswersInOrder ==
    [][calling # "none" /\ calling' = "none" /\ answer'.ok => answer'.of >= spent]_armVars

\* The OK that move_and_wait_ack waits for after its command acknowledges that
\* command (its docstring).
AckIsOwn ==
    [][calling = "ack" /\ calling' = "none" /\ answer'.ok => answer'.of = issued]_armVars
=============================================================================
