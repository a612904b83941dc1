--------------------------- MODULE PeripheralProofs ---------------------------
(***************************************************************************)
(* Proofs about the nodes around the mission: the arm's serial driver, the *)
(* marker command manager, the navigator and the control centre's clients. *)
(***************************************************************************)
EXTENDS MCNodes, FiniteSetTheorems, SequenceTheorems, TLAPS

-----------------------------------------------------------------------------
(***************************************************************************)
(* The arm's serial driver.  The commands under way and the lines that     *)
(* parse stand in the order of their commands, lines before commands, and  *)
(* after what was taken for an answer.  Other lines may stand anywhere.    *)
(***************************************************************************)
ArmSpec == ArmInit /\ [][ArmNext]_armVars

OrderInv ==
  /\ spent <= issued + 1
  /\ \A i \in 1..Len(fromArm) : ParseState(fromArm[i]) =>
       /\ spent <= fromArm[i].of /\ fromArm[i].of <= issued
       /\ \A j \in i + 1..Len(fromArm) : ParseState(fromArm[j]) => fromArm[i].of < fromArm[j].of
       /\ \A j \in 1..Len(toArm) : fromArm[i].of < toArm[j].of
  /\ \A i \in 1..Len(toArm) :
       /\ spent <= toArm[i].of /\ toArm[i].of <= issued
       /\ \A j \in i + 1..Len(toArm) : toArm[i].of < toArm[j].of

ArmCommands == [kind : {"ARM", "GET_STATE", "garbled"}, of : 1..MaxCalls]
Lines    == [header : {"OK", "STATE", "ERR", "part"}, of : 0..MaxCalls]

\* The places after the i-th in a queue that has become one longer than m.
LEMMA BeforeLast ==
  ASSUME NEW m \in Nat, NEW i \in 1..m
  PROVE  /\ \A j \in i + 1..m + 1 : j = m + 1 \/ j \in i + 1..m
         /\ \A j \in i + 1..m : j \in 1..m
  OBVIOUS

\* What is left of a queue when its first element is taken.
LEMMA Taking ==
  ASSUME NEW S, NEW q \in Seq(S), q # <<>>
  PROVE  /\ Head(q) \in S /\ Head(q) = q[1] /\ Tail(q) \in Seq(S)
         /\ Len(Tail(q)) = Len(q) - 1 /\ (Len(q) = 1 => Tail(q) = <<>>)
         /\ \A i \in 1..Len(Tail(q)) : Tail(q)[i] = q[i + 1] /\ i + 1 \in 1..Len(q)
<1>1. Len(q) \in Nat /\ Len(q) > 0 /\ Tail(q) \in Seq(S)
  OBVIOUS
<1>2. Len(q) = 1 => Tail(q) = <<>>
  <2>1. Len(Tail(q)) = Len(q) - 1
    BY <1>1
  <2>2. \A r \in Seq(S) : r # <<>> => Len(r) # 0
    BY EmptySeq
  <2>3. Len(q) = 1 => Len(Tail(q)) = 0
    BY <2>1
  <2> QED  BY <1>1, <2>2, <2>3, Zenon
<1> QED  BY <1>1, <1>2

\* A queue with one more element is not empty and ends with it.
LEMMA Adding ==
  ASSUME NEW S, NEW q \in Seq(S), NEW e \in S
  PROVE  /\ Append(q, e) \in Seq(S) /\ Append(q, e) # <<>>
         /\ Len(Append(q, e)) = Len(q) + 1
         /\ \A i \in 1..Len(q) : Append(q, e)[i] = q[i]
         /\ Append(q, e)[Len(q) + 1] = e
BY AppendProperties

\* Replacing the first element of a queue.
LEMMA Replacing ==
  ASSUME NEW S, NEW q \in Seq(S), q # <<>>, NEW e \in S, NEW r, r = [q EXCEPT ![1] = e]
  PROVE  /\ r \in Seq(S) /\ Len(r) = Len(q) /\ r[1] = e
         /\ \A i \in 2..Len(q) : r[i] = q[i]
<1>1. Len(q) \in Nat /\ Len(q) > 0 /\ 1 \in DOMAIN q
  OBVIOUS
<1> QED  BY <1>1

\* Two elements in the place of the first of a queue.
LEMMA Doubling ==
  ASSUME NEW S, NEW q \in Seq(S), q # <<>>, NEW e \in S,
         NEW r, r = <<e, e>> \o Tail(q)
  PROVE  /\ r \in Seq(S) /\ Len(r) = Len(q) + 1
         /\ \A i \in 1..2 : r[i] = e
         /\ \A i \in 3..(Len(q) + 1) : r[i] = q[i - 1] /\ i - 1 \in 2..Len(q)
<1> DEFINE two == <<e, e>>
<1>1. /\ two \in Seq(S) /\ Len(two) = 2 /\ two[1] = e /\ two[2] = e
  OBVIOUS
<1>0. r = two \o Tail(q)
  OBVIOUS
<1>2. /\ Len(q) \in Nat /\ Tail(q) \in Seq(S) /\ Len(Tail(q)) = Len(q) - 1
      /\ \A i \in 1..Len(Tail(q)) : Tail(q)[i] = q[i + 1]
  BY Taking
<1> HIDE DEF two
<1>3. /\ two \o Tail(q) \in Seq(S)
      /\ Len(two \o Tail(q)) = 2 + Len(Tail(q))
      /\ \A i \in 1..(2 + Len(Tail(q))) :
           (two \o Tail(q))[i] = IF i <= 2 THEN two[i] ELSE Tail(q)[i - 2]
  <2>1. /\ two \o Tail(q) \in Seq(S)
        /\ Len(two \o Tail(q)) = Len(two) + Len(Tail(q))
        /\ \A i \in 1..(Len(two) + Len(Tail(q))) :
             (two \o Tail(q))[i] = IF i <= Len(two) THEN two[i] ELSE Tail(q)[i - Len(two)]
    BY <1>1, <1>2, ConcatProperties, Zenon
  <2> QED  BY <1>1, <2>1
<1>4. \A i \in 1..2 : (two \o Tail(q))[i] = e
  BY <1>1, <1>2, <1>3
<1>5. ASSUME NEW i \in 3..(Len(q) + 1)
      PROVE  (two \o Tail(q))[i] = q[i - 1] /\ i - 1 \in 2..Len(q)
  <2>1. i \in 1..(2 + Len(Tail(q))) /\ ~(i <= 2) /\ i - 2 \in 1..Len(Tail(q))
    BY <1>2
  <2>2. (two \o Tail(q))[i] = Tail(q)[i - 2] /\ Tail(q)[i - 2] = q[(i - 2) + 1]
    BY <1>2, <1>3, <2>1
  <2>3. (i - 2) + 1 = i - 1 /\ i - 1 \in 2..Len(q)
    BY <1>2
  <2> QED  BY <2>2, <2>3, Zenon
<1>6. Len(two \o Tail(q)) = Len(q) + 1
  BY <1>2, <1>3
<1> QED  BY <1>0, <1>3, <1>4, <1>5, <1>6, Zenon

\* What Garble does to a command and to an answer.
LEMMA Garbling ==
  ASSUME ArmTypeOK, Garble
  PROVE  \/ /\ toArm # <<>> /\ UNCHANGED fromArm
            /\ toArm' \in Seq(ArmCommands) /\ Len(toArm') = Len(toArm)
            /\ \A i \in 1..Len(toArm) : toArm'[i].of = toArm[i].of
         \/ /\ fromArm # <<>> /\ UNCHANGED toArm
            /\ \E piece \in Lines : /\ piece.header = "part"
                                    /\ fromArm' = <<piece, piece>> \o Tail(fromArm)
<1>0. toArm \in Seq(ArmCommands) /\ fromArm \in Seq(Lines)
  BY DEF ArmTypeOK, ArmCommands, Lines
<1>1. CASE toArm # <<>> /\ toArm' = [toArm EXCEPT ![1].kind = "garbled"] /\ UNCHANGED fromArm
  <2>1. toArm[1] \in ArmCommands
    BY <1>0, <1>1
  <2> DEFINE command == [toArm[1] EXCEPT !.kind = "garbled"]
  <2>2. command \in ArmCommands /\ command.of = toArm[1].of
    BY <2>1 DEF ArmCommands
  <2>3. toArm' = [toArm EXCEPT ![1] = command]
    BY <1>1
  <2> HIDE DEF command
  <2>4. /\ toArm' \in Seq(ArmCommands) /\ Len(toArm') = Len(toArm) /\ toArm'[1] = command
        /\ \A i \in 2..Len(toArm) : toArm'[i] = toArm[i]
    <3>1. toArm \in Seq(ArmCommands) /\ toArm # <<>> /\ command \in ArmCommands
      BY <1>0, <1>1, <2>2
    <3> QED  BY <3>1, <2>3, Replacing
  <2>l. Len(toArm) \in Nat
    BY <1>0
  <2>5. \A i \in 1..Len(toArm) : i = 1 \/ i \in 2..Len(toArm)
    BY <2>l
  <2>6. \A i \in 1..Len(toArm) : toArm'[i].of = toArm[i].of
    BY <2>2, <2>4, <2>5, Zenon
  <2> QED  BY <1>1, <2>4, <2>6, Zenon
<1>2. CASE /\ fromArm # <<>> /\ UNCHANGED toArm
           /\ fromArm' = <<[fromArm[1] EXCEPT !.header = "part"],
                           [fromArm[1] EXCEPT !.header = "part"]>> \o Tail(fromArm)
  <2>1. fromArm[1] \in Lines
    BY <1>0, <1>2
  <2> DEFINE piece == [fromArm[1] EXCEPT !.header = "part"]
  <2>2. piece \in Lines /\ piece.header = "part"
    BY <2>1 DEF Lines
  <2>3. fromArm' = <<piece, piece>> \o Tail(fromArm)
    BY <1>2
  <2> HIDE DEF piece
  <2> QED  BY <1>2, <2>2, <2>3
<1> QED  BY <1>1, <1>2 DEF Garble

\* What a call does: at most one more command, with the next number.
LEMMA Sending ==
  ASSUME ArmTypeOK, SendJointAngles \/ RequestState \/ MoveAndWaitAck
  PROVE  /\ UNCHANGED <<connected, fromArm, spent>> /\ answer' = NoAnswer /\ calling = "none"
         /\ calling' \in {"none", "request_state", "ack"}
         /\ issued < MaxCalls
         /\ \/ UNCHANGED <<issued, toArm>>
            \/ /\ issued' = issued + 1
               /\ \E command \in ArmCommands : /\ command.of = issued + 1
                                            /\ toArm' = Append(toArm, command)
<1>1. issued < MaxCalls => issued + 1 \in 1..MaxCalls
  BY ArmAssumption DEF ArmTypeOK
<1>2. ASSUME NEW kind \in {"ARM", "GET_STATE"}, Write(kind), issued < MaxCalls
      PROVE  /\ issued' = issued + 1
             /\ \E command \in ArmCommands : /\ command.of = issued + 1
                                          /\ toArm' = Append(toArm, command)
  <2>1. [kind |-> kind, of |-> issued + 1] \in ArmCommands
    BY <1>1, <1>2 DEF ArmCommands
  <2> QED  BY <1>2, <2>1 DEF Write
<1>3. ASSUME NEW kind \in {"ARM", "GET_STATE"}, NEW call \in {"none", "request_state", "ack"},
             Send(kind, call)
      PROVE  /\ UNCHANGED <<connected, fromArm, spent>> /\ answer' = NoAnswer /\ calling = "none"
             /\ calling' \in {"none", "request_state", "ack"}
             /\ issued < MaxCalls
             /\ UNCHANGED <<issued, toArm>> \/ Write(kind)
  BY <1>3 DEF Send
<1> QED
  BY <1>2, <1>3 DEF SendJointAngles, RequestState, MoveAndWaitAck

LEMMA ArmTypeStep == ArmTypeOK /\ [ArmNext]_armVars => ArmTypeOK'
<1> SUFFICES ASSUME ArmTypeOK, [ArmNext]_armVars PROVE ArmTypeOK'
  OBVIOUS
<1> DEFINE Answers == [ok : BOOLEAN, of : 0..MaxCalls]
<1>0. /\ connected \in BOOLEAN
      /\ calling \in {"none", "request_state", "ack"} /\ issued \in 0..MaxCalls
      /\ toArm \in Seq(ArmCommands) /\ fromArm \in Seq(Lines)
      /\ answer \in Answers /\ NoAnswer \in Answers /\ spent \in 0..(MaxCalls + 1)
  BY ArmAssumption DEF ArmTypeOK, ArmCommands, Lines, NoAnswer
<1> DEFINE Goal == /\ connected' \in BOOLEAN
                   /\ calling' \in {"none", "request_state", "ack"} /\ issued' \in 0..MaxCalls
                   /\ toArm' \in Seq(ArmCommands) /\ fromArm' \in Seq(Lines)
                   /\ answer' \in Answers /\ spent' \in 0..(MaxCalls + 1)
<1>00. SUFFICES Goal
  BY DEF ArmTypeOK, ArmCommands, Lines
<1>1. CASE SendJointAngles \/ RequestState \/ MoveAndWaitAck
  <2>1. toArm' \in Seq(ArmCommands) /\ issued' \in 0..MaxCalls
    <3>1. CASE UNCHANGED <<issued, toArm>>
      BY <1>0, <3>1
    <3>2. ASSUME issued' = issued + 1, NEW command \in ArmCommands, toArm' = Append(toArm, command),
                 issued < MaxCalls
          PROVE  toArm' \in Seq(ArmCommands) /\ issued' \in 0..MaxCalls
      <4>1. Append(toArm, command) \in Seq(ArmCommands)
        BY <1>0, Adding
      <4> QED  BY <1>0, <3>2, <4>1, ArmAssumption
    <3> QED  BY <1>1, <3>1, <3>2, Sending
  <2>2. /\ UNCHANGED <<connected, fromArm, spent>> /\ answer' = NoAnswer
        /\ calling' \in {"none", "request_state", "ack"}
    BY <1>1, Sending
  <2> QED  BY <1>0, <2>1, <2>2
<1>2. CASE ReadLine
  <2>1. Head(fromArm) \in Lines /\ Tail(fromArm) \in Seq(Lines)
    BY <1>0, <1>2, Taking DEF ReadLine
  <2>2. Answered(Head(fromArm)) \in Answers /\ Head(fromArm).of + 1 \in 0..(MaxCalls + 1)
    BY <1>0, <2>1, ArmAssumption DEF Answered, Lines
  <2>3. /\ UNCHANGED <<connected, issued, toArm>> /\ fromArm' = Tail(fromArm)
        /\ calling' \in {calling, "none"} /\ answer' \in {answer, Answered(Head(fromArm))}
        /\ spent' \in {spent, Head(fromArm).of + 1}
    BY <1>2 DEF ReadLine
  <2> QED  BY <1>0, <2>1, <2>2, <2>3
<1>3. CASE Timeout \/ Disconnect
  <2>1. /\ UNCHANGED <<issued, toArm, fromArm, spent>> /\ connected' \in {connected, FALSE}
        /\ calling' \in {calling, "none"} /\ answer' \in {answer, NoAnswer}
    BY <1>3 DEF Timeout, Disconnect
  <2> QED  BY <1>0, <2>1
<1>4. CASE Loop
  <2>1. Head(toArm) \in ArmCommands /\ Tail(toArm) \in Seq(ArmCommands)
    BY <1>0, <1>4, Taking DEF Loop
  <2>2. PICK header \in {"OK", "STATE", "ERR"} :
          fromArm' = Append(fromArm, [header |-> header, of |-> Head(toArm).of])
    BY <1>4 DEF Loop
  <2>3. [header |-> header, of |-> Head(toArm).of] \in Lines
    BY <2>1, <2>2 DEF ArmCommands, Lines
  <2>4. fromArm' \in Seq(Lines)
    BY <1>0, <2>2, <2>3
  <2>5. UNCHANGED <<connected, calling, issued, answer, spent>> /\ toArm' = Tail(toArm)
    BY <1>4 DEF Loop
  <2> QED  BY <1>0, <2>1, <2>4, <2>5
<1>5. CASE Garble
  <2>1. UNCHANGED <<connected, calling, issued, answer, spent>>
    BY <1>5 DEF Garble
  <2>2. toArm' \in Seq(ArmCommands) /\ fromArm' \in Seq(Lines)
    <3>1. ASSUME fromArm # <<>>, NEW piece \in Lines, fromArm' = <<piece, piece>> \o Tail(fromArm)
          PROVE  fromArm' \in Seq(Lines)
      BY <1>0, <3>1, Doubling
    <3> QED  BY <1>0, <1>5, <3>1, Garbling
  <2> QED  BY <1>0, <2>1, <2>2
<1>6. CASE Lose
  <2>1. UNCHANGED <<connected, calling, issued, answer, spent>>
    BY <1>6 DEF Lose
  <2>2. CASE toArm # <<>> /\ toArm' = Tail(toArm) /\ UNCHANGED fromArm
    <3>1. Tail(toArm) \in Seq(ArmCommands)
      BY <1>0, <2>2, Taking
    <3> QED  BY <1>0, <2>1, <2>2, <3>1
  <2>3. CASE fromArm # <<>> /\ fromArm' = Tail(fromArm) /\ UNCHANGED toArm
    <3>1. Tail(fromArm) \in Seq(Lines)
      BY <1>0, <2>3, Taking
    <3> QED  BY <1>0, <2>1, <2>3, <3>1
  <2> QED  BY <1>6, <2>2, <2>3 DEF Lose
<1>7. CASE UNCHANGED armVars
  BY <1>0, <1>7 DEF armVars
<1> QED
  BY <1>1, <1>2, <1>3, <1>4, <1>5, <1>6, <1>7 DEF ArmNext

LEMMA ArmTypeInit == ArmInit => ArmTypeOK
<1> SUFFICES ASSUME ArmInit PROVE ArmTypeOK
  OBVIOUS
<1> DEFINE boot == [header |-> "OK", of |-> 0]
<1>1. boot \in Lines
  BY ArmAssumption DEF Lines
<1>2. fromArm = <<>> \/ fromArm = <<boot>>
  BY DEF ArmInit
<1> HIDE DEF boot
<1>3. <<>> \in Seq(Lines) /\ <<boot>> \in Seq(Lines)
  BY <1>1
<1>4. fromArm \in Seq(Lines)
  BY <1>2, <1>3
<1> QED  BY <1>4, ArmAssumption DEF ArmInit, ArmTypeOK, NoAnswer, Lines

\* The numbers of the commands are numbers, at every place of the queues.
LEMMA ArmNumbers ==
  ASSUME ArmTypeOK
  PROVE  /\ fromArm \in Seq(Lines) /\ toArm \in Seq(ArmCommands)
         /\ Len(fromArm) \in Nat /\ Len(toArm) \in Nat
         /\ issued \in Nat /\ spent \in Nat
         /\ \A i \in 1..Len(fromArm) : fromArm[i].of \in Nat
         /\ \A i \in 1..Len(toArm) : toArm[i].of \in 1..MaxCalls /\ toArm[i].of \in Nat
<1>1. /\ fromArm \in Seq(Lines) /\ toArm \in Seq(ArmCommands)
      /\ issued \in Nat /\ spent \in Nat
  BY ArmAssumption DEF ArmTypeOK, Lines, ArmCommands
<1>2. /\ Len(fromArm) \in Nat /\ Len(toArm) \in Nat
      /\ \A i \in 1..Len(fromArm) : fromArm[i] \in Lines
      /\ \A i \in 1..Len(toArm) : toArm[i] \in ArmCommands
  BY <1>1
<1>3. \A l \in Lines : l.of \in Nat
  BY ArmAssumption DEF Lines
<1>4. \A c \in ArmCommands : c.of \in 1..MaxCalls /\ c.of \in Nat
  BY ArmAssumption DEF ArmCommands
<1> QED  BY <1>1, <1>2, <1>3, <1>4

LEMMA OrderInit == ArmInit => OrderInv
<1> SUFFICES ASSUME ArmInit PROVE OrderInv
  OBVIOUS
<1>1. toArm = <<>> /\ Len(toArm) = 0 /\ spent = 0 /\ issued = 0
  BY EmptySeq DEF ArmInit
<1>2. \A i \in 1..Len(fromArm) : fromArm[i].of = 0 /\ Len(fromArm) = 1
  BY DEF ArmInit
<1> QED  BY <1>1, <1>2 DEF OrderInv

\* Taking the first line, read or lost, and setting "spent" past it when it parses.
LEMMA OrderReading ==
  ASSUME ArmTypeOK, OrderInv, fromArm # <<>>, fromArm' = Tail(fromArm),
         UNCHANGED <<issued, toArm>>,
         spent' = spent \/ (ParseState(fromArm[1]) /\ spent' = fromArm[1].of + 1)
  PROVE  OrderInv'
<1>t. /\ fromArm \in Seq(Lines) /\ toArm \in Seq(ArmCommands) /\ Len(fromArm) \in Nat
      /\ issued \in Nat /\ spent \in Nat
      /\ \A i \in 1..Len(fromArm) : fromArm[i].of \in Nat
      /\ \A i \in 1..Len(toArm) : toArm[i].of \in Nat
  BY ArmNumbers
<1>1. /\ Len(fromArm') = Len(fromArm) - 1 /\ 1 \in 1..Len(fromArm)
      /\ \A i \in 1..Len(fromArm') : fromArm'[i] = fromArm[i + 1] /\ i + 1 \in 1..Len(fromArm)
  BY <1>t, Taking
<1>2. spent' <= issued' + 1 /\ spent' \in Nat
  BY <1>t, <1>1 DEF OrderInv
<1>3. ASSUME NEW i \in 1..Len(fromArm'), ParseState(fromArm'[i])
      PROVE  /\ spent' <= fromArm'[i].of /\ fromArm'[i].of <= issued'
             /\ \A j \in i + 1..Len(fromArm') :
                  ParseState(fromArm'[j]) => fromArm'[i].of < fromArm'[j].of
             /\ \A j \in 1..Len(toArm') : fromArm'[i].of < toArm'[j].of
  <2>1. fromArm'[i] = fromArm[i + 1] /\ i + 1 \in 1..Len(fromArm) /\ i + 1 \in 1 + 1..Len(fromArm)
    BY <1>1, <1>t
  <2>2. spent' <= fromArm[i + 1].of
    BY <1>t, <1>1, <1>3, <2>1 DEF OrderInv
  <2>3. ASSUME NEW j \in i + 1..Len(fromArm'), ParseState(fromArm'[j])
        PROVE  fromArm'[i].of < fromArm'[j].of
    <3>1. fromArm'[j] = fromArm[j + 1] /\ j + 1 \in (i + 1) + 1..Len(fromArm)
      BY <1>1, <1>t
    <3> QED  BY <1>3, <2>1, <2>3, <3>1 DEF OrderInv
  <2> QED  BY <1>3, <2>1, <2>2, <2>3 DEF OrderInv
<1>4. ASSUME NEW i \in 1..Len(toArm) PROVE spent' <= toArm[i].of
  BY <1>t, <1>1 DEF OrderInv
<1> QED  BY <1>2, <1>3, <1>4 DEF OrderInv

\* Taking the first command: lost, or answered by the line of its number.
LEMMA OrderServing ==
  ASSUME ArmTypeOK, OrderInv, toArm # <<>>, toArm' = Tail(toArm), UNCHANGED <<issued, spent>>,
         \/ UNCHANGED fromArm
         \/ \E reply \in Lines : reply.of = toArm[1].of /\ fromArm' = Append(fromArm, reply)
  PROVE  OrderInv'
<1>t. /\ fromArm \in Seq(Lines) /\ toArm \in Seq(ArmCommands)
      /\ Len(fromArm) \in Nat /\ Len(toArm) \in Nat
      /\ issued \in Nat /\ spent \in Nat
      /\ \A i \in 1..Len(fromArm) : fromArm[i].of \in Nat
      /\ \A i \in 1..Len(toArm) : toArm[i].of \in Nat
  BY ArmNumbers
<1>1. /\ Len(toArm') = Len(toArm) - 1 /\ 1 \in 1..Len(toArm)
      /\ \A i \in 1..Len(toArm') : toArm'[i] = toArm[i + 1] /\ i + 1 \in 1..Len(toArm)
  BY <1>t, Taking
<1>2. ASSUME NEW i \in 1..Len(toArm')
      PROVE  /\ spent <= toArm'[i].of /\ toArm'[i].of <= issued /\ toArm[1].of < toArm'[i].of
             /\ \A j \in i + 1..Len(toArm') : toArm'[i].of < toArm'[j].of
             /\ \A k \in 1..Len(fromArm) :
                  ParseState(fromArm[k]) => fromArm[k].of < toArm'[i].of
  <2>1. /\ toArm'[i] = toArm[i + 1] /\ i + 1 \in 1..Len(toArm) /\ i + 1 \in 1 + 1..Len(toArm)
    BY <1>1, <1>t
  <2>2. ASSUME NEW j \in i + 1..Len(toArm') PROVE toArm'[i].of < toArm'[j].of
    <3>1. toArm'[j] = toArm[j + 1] /\ j + 1 \in (i + 1) + 1..Len(toArm)
      BY <1>1, <1>t
    <3> QED  BY <2>1, <3>1 DEF OrderInv
  <2> QED  BY <1>1, <2>1, <2>2 DEF OrderInv
<1>3. CASE UNCHANGED fromArm
  BY <1>2, <1>3 DEF OrderInv
<1>4. ASSUME NEW reply \in Lines, reply.of = toArm[1].of, fromArm' = Append(fromArm, reply)
      PROVE  OrderInv'
  <2> DEFINE n == Len(fromArm) + 1
  <2>1. /\ Len(fromArm') = n /\ fromArm'[n] = reply
        /\ \A i \in 1..Len(fromArm) : fromArm'[i] = fromArm[i]
    BY <1>t, <1>4, Adding
  <2>2. \A i \in 1..n : i \in 1..Len(fromArm) \/ i = n
    BY <1>t
  <2>3. /\ spent <= reply.of /\ reply.of <= issued
        /\ \A k \in 1..Len(fromArm) : ParseState(fromArm[k]) => fromArm[k].of < reply.of
        /\ \A j \in 1..Len(toArm') : reply.of < toArm'[j].of
    BY <1>1, <1>2, <1>4 DEF OrderInv
  <2>4. ASSUME NEW i \in 1..n, ParseState(fromArm'[i])
        PROVE  /\ spent <= fromArm'[i].of /\ fromArm'[i].of <= issued
               /\ \A j \in i + 1..n : ParseState(fromArm'[j]) => fromArm'[i].of < fromArm'[j].of
               /\ \A j \in 1..Len(toArm') : fromArm'[i].of < toArm'[j].of
    <3>1. CASE i = n
      <4>1. i + 1..n = {}
        BY <1>t, <3>1
      <4> QED  BY <2>1, <2>3, <3>1, <4>1
    <3>2. CASE i \in 1..Len(fromArm)
      <4>1. /\ \A j \in i + 1..n : j = n \/ j \in i + 1..Len(fromArm)
            /\ \A j \in i + 1..Len(fromArm) : j \in 1..Len(fromArm)
        BY <1>t, <3>2, BeforeLast
      <4> QED  BY <1>2, <2>1, <2>3, <2>4, <3>2, <4>1 DEF OrderInv
    <3> QED  BY <2>2, <3>1, <3>2
  <2> HIDE DEF n
  <2>5. spent <= issued + 1
    BY DEF OrderInv
  <2> QED  BY <1>2, <2>1, <2>4, <2>5 DEF OrderInv
<1> QED  BY <1>3, <1>4

LEMMA OrderStep == ArmTypeOK /\ OrderInv /\ [ArmNext]_armVars => OrderInv'
<1> SUFFICES ASSUME ArmTypeOK, OrderInv, [ArmNext]_armVars PROVE OrderInv'
  OBVIOUS
<1>t. /\ fromArm \in Seq(Lines) /\ toArm \in Seq(ArmCommands)
      /\ Len(fromArm) \in Nat /\ Len(toArm) \in Nat
      /\ issued \in Nat /\ spent \in Nat
      /\ \A i \in 1..Len(fromArm) : fromArm[i].of \in Nat
      /\ \A i \in 1..Len(toArm) : toArm[i].of \in Nat
  BY ArmNumbers
<1>1. CASE SendJointAngles \/ RequestState \/ MoveAndWaitAck
  <2>1. UNCHANGED <<fromArm, spent>>
    BY <1>1, Sending
  <2>2. CASE UNCHANGED <<issued, toArm>>
    BY <2>1, <2>2 DEF OrderInv
  <2>3. ASSUME issued' = issued + 1, NEW command \in ArmCommands, command.of = issued + 1,
               toArm' = Append(toArm, command)
        PROVE  OrderInv'
    <3> DEFINE n == Len(toArm) + 1
    <3>1. /\ Len(toArm') = n /\ toArm'[n] = command
          /\ \A i \in 1..Len(toArm) : toArm'[i] = toArm[i]
      BY <1>t, <2>3, Adding
    <3>2. \A i \in 1..n : i \in 1..Len(toArm) \/ i = n
      BY <1>t
    <3>3. spent <= issued' + 1 /\ spent <= command.of
      BY <1>t, <2>3 DEF OrderInv
    <3>4. ASSUME NEW i \in 1..Len(fromArm), ParseState(fromArm[i])
          PROVE  /\ fromArm[i].of <= issued'
                 /\ \A j \in 1..n : fromArm[i].of < toArm'[j].of
      <4>1. fromArm[i].of <= issued /\ \A j \in 1..Len(toArm) : fromArm[i].of < toArm[j].of
        BY <3>4 DEF OrderInv
      <4> QED  BY <1>t, <2>3, <3>1, <3>2, <4>1
    <3>5. ASSUME NEW i \in 1..n
          PROVE  /\ spent <= toArm'[i].of /\ toArm'[i].of <= issued'
                 /\ \A j \in i + 1..n : toArm'[i].of < toArm'[j].of
      <4>1. CASE i = n
        <5>1. i + 1..n = {}
          BY <1>t, <4>1
        <5> QED  BY <1>t, <2>3, <3>1, <3>3, <4>1, <5>1
      <4>2. CASE i \in 1..Len(toArm)
        <5>1. \A j \in i + 1..n : j = n \/ (j \in i + 1..Len(toArm) /\ j \in 1..Len(toArm))
          BY <1>t, <4>2
        <5>2. /\ spent <= toArm[i].of /\ toArm[i].of <= issued
              /\ \A j \in i + 1..Len(toArm) : toArm[i].of < toArm[j].of
          BY <4>2 DEF OrderInv
        <5> QED  BY <1>t, <2>3, <3>1, <4>2, <5>1, <5>2
      <4> QED  BY <3>2, <4>1, <4>2
    <3> HIDE DEF n
    <3> QED  BY <2>1, <3>1, <3>3, <3>4, <3>5 DEF OrderInv
  <2> QED  BY <1>1, <2>2, <2>3, Sending
<1>2. CASE ReadLine
  <2>1. /\ fromArm # <<>> /\ fromArm' = Tail(fromArm) /\ UNCHANGED <<issued, toArm>>
        /\ spent' = IF ParseState(Head(fromArm)) THEN Head(fromArm).of + 1 ELSE spent
    BY <1>2 DEF ReadLine
  <2>2. Head(fromArm) = fromArm[1]
    BY <1>t, <2>1, Taking
  <2> QED  BY <2>1, <2>2, OrderReading
<1>3. CASE Timeout \/ Disconnect
  BY <1>3 DEF Timeout, Disconnect, OrderInv
<1>4. CASE Loop
  <2>1. toArm # <<>> /\ toArm' = Tail(toArm) /\ UNCHANGED <<issued, spent>>
    BY <1>4 DEF Loop
  <2>2. PICK header \in {"OK", "STATE", "ERR"} :
          fromArm' = Append(fromArm, [header |-> header, of |-> Head(toArm).of])
    BY <1>4 DEF Loop
  <2>3. Head(toArm) = toArm[1] /\ 1 \in 1..Len(toArm)
    BY <1>t, <2>1, Taking
  <2>3a. toArm[1].of \in 0..MaxCalls
    BY <2>3, ArmNumbers, ArmAssumption
  <2>4. [header |-> header, of |-> Head(toArm).of] \in Lines
    BY <2>2, <2>3, <2>3a DEF Lines
  <2>5. [header |-> header, of |-> Head(toArm).of].of = toArm[1].of
    BY <2>3
  <2> QED  BY <2>1, <2>2, <2>4, <2>5, OrderServing
<1>5. CASE Garble
  <2>1. UNCHANGED <<issued, spent>>
    BY <1>5 DEF Garble
  <2>2. CASE /\ UNCHANGED fromArm /\ Len(toArm') = Len(toArm)
             /\ \A i \in 1..Len(toArm) : toArm'[i].of = toArm[i].of
    <3>1. \A i \in 1..Len(toArm) : \A j \in i + 1..Len(toArm) : j \in 1..Len(toArm)
      BY <1>t
    <3> QED  BY <2>1, <2>2, <3>1 DEF OrderInv
  <2>3. ASSUME fromArm # <<>>, UNCHANGED toArm, NEW piece \in Lines, piece.header = "part",
               fromArm' = <<piece, piece>> \o Tail(fromArm)
        PROVE  OrderInv'
    <3>1. /\ Len(fromArm') = Len(fromArm) + 1
          /\ \A i \in 1..2 : fromArm'[i] = piece
          /\ \A i \in 3..(Len(fromArm) + 1) :
               fromArm'[i] = fromArm[i - 1] /\ i - 1 \in 2..Len(fromArm)
      BY <1>t, <2>3, Doubling
    <3>2. ~ParseState(piece)
      BY <2>3 DEF ParseState
    <3>3. \A i \in 1..Len(fromArm') : i \in 1..2 \/ i \in 3..(Len(fromArm) + 1)
      BY <1>t, <3>1
    <3>4. ASSUME NEW i \in 1..Len(fromArm'), ParseState(fromArm'[i])
          PROVE  /\ spent' <= fromArm'[i].of /\ fromArm'[i].of <= issued'
                 /\ \A j \in i + 1..Len(fromArm') :
                      ParseState(fromArm'[j]) => fromArm'[i].of < fromArm'[j].of
                 /\ \A j \in 1..Len(toArm') : fromArm'[i].of < toArm'[j].of
      <4>1. i \in 3..(Len(fromArm) + 1)
        BY <3>1, <3>2, <3>3, <3>4
      <4>2. fromArm'[i] = fromArm[i - 1] /\ i - 1 \in 1..Len(fromArm)
        BY <1>t, <3>1, <4>1
      <4>3. \A j \in i + 1..Len(fromArm') :
              fromArm'[j] = fromArm[j - 1] /\ j - 1 \in (i - 1) + 1..Len(fromArm)
        BY <1>t, <3>1, <4>1
      <4> QED  BY <2>1, <2>3, <3>4, <4>2, <4>3 DEF OrderInv
    <3> QED  BY <2>1, <2>3, <3>4 DEF OrderInv
  <2> QED  BY <1>5, <2>2, <2>3, Garbling
<1>6. CASE Lose
  <2>1. UNCHANGED <<issued, spent>>
    BY <1>6 DEF Lose
  <2> QED  BY <1>6, <2>1, OrderReading, OrderServing DEF Lose
<1>7. CASE UNCHANGED armVars
  BY <1>7 DEF armVars, OrderInv
<1> QED  BY <1>1, <1>2, <1>3, <1>4, <1>5, <1>6, <1>7 DEF ArmNext

\* A line is taken for the answer of at most one call, and the calls are answered in
\* the order of the commands: for any number of calls, the boot line included, and
\* whatever is lost, garbled, cut in two, refused or late.
THEOREM ArmAnswersInOrder == ArmSpec => AnswersInOrder
<1>1. ArmInit => ArmTypeOK /\ OrderInv
  BY ArmTypeInit, OrderInit
<1>2. ArmTypeOK /\ OrderInv /\ [ArmNext]_armVars => (ArmTypeOK /\ OrderInv)'
  BY ArmTypeStep, OrderStep
<1>3. ASSUME ArmTypeOK, OrderInv, [ArmNext]_armVars
      PROVE  calling # "none" /\ calling' = "none" /\ answer'.ok => answer'.of >= spent
  <2> SUFFICES ASSUME calling # "none", calling' = "none", answer'.ok
               PROVE  answer'.of >= spent
    OBVIOUS
  <2>1. ~(SendJointAngles \/ RequestState \/ MoveAndWaitAck)
    BY <1>3, Sending
  <2>2. CASE ReadLine
    <3>1. fromArm \in Seq(Lines) /\ fromArm # <<>> /\ answer' = Answered(Head(fromArm))
      <4>1. fromArm # <<>>
        BY <2>2 DEF ReadLine
      <4>2. answer' = Answered(Head(fromArm))
        BY <2>2 DEF ReadLine
      <4> QED  BY <1>3, <4>1, <4>2, ArmNumbers
    <3>2. Head(fromArm) = fromArm[1] /\ 1 \in 1..Len(fromArm) /\ fromArm[1].of \in Nat
      <4>1. Head(fromArm) = fromArm[1] /\ 1 \in 1..Len(fromArm)
        BY <3>1, Taking
      <4> QED  BY <1>3, <4>1, ArmNumbers
    <3>3. ParseState(fromArm[1]) /\ answer'.of = fromArm[1].of
      BY <3>1, <3>2 DEF Answered, NoAnswer
    <3>4. spent \in Nat
      BY <1>3, ArmAssumption DEF ArmTypeOK
    <3> QED  BY <1>3, <3>2, <3>3, <3>4 DEF OrderInv
  <2>3. CASE Timeout
    BY <2>3 DEF Timeout, NoAnswer
  <2>4. CASE Disconnect \/ Loop \/ Garble \/ Lose \/ UNCHANGED armVars
    BY <2>4 DEF Disconnect, Loop, Garble, Lose, armVars
  <2> QED  BY <1>3, <2>1, <2>2, <2>3, <2>4 DEF ArmNext
<1> QED  BY <1>1, <1>2, <1>3, PTL DEF ArmSpec, AnswersInOrder

-----------------------------------------------------------------------------
(***************************************************************************)
(* The marker command manager.  _active_goal stands for the one goal that  *)
(* exists; a handle, and a cancel, come only after its acceptance.         *)
(***************************************************************************)
MarkerSpec == MarkerInit /\ [][MarkerNext]_markerVars

Alive == {m \in Moves : move[m] # "free"}

MotionInv ==
  /\ MarkerTypeOK
  /\ \A m, n \in Alive : m = n
  /\ activeGoal <=> Alive # {}
  /\ stopping \subseteq handle
  /\ \A m \in handle : move[m] \in {"moving", "done"}

LEMMA MotionStep == MotionInv /\ [MarkerNext]_markerVars => MotionInv'
<1> SUFFICES ASSUME MotionInv, [MarkerNext]_markerVars PROVE MotionInv'
  OBVIOUS
<1> USE DEF MotionInv, MarkerTypeOK, Alive
<1>1. CASE MarkerCb \/ MarkerAges \/ Clear \/ CancelActiveGoal
  BY <1>1 DEF MarkerCb, MarkerAges, Clear, CancelActiveGoal
<1>2. ASSUME NEW reachable \in BOOLEAN, ExecuteLastMarker(reachable) PROVE MotionInv'
  <2>1. CASE UNCHANGED <<activeGoal, move>>
    BY <1>2, <2>1 DEF ExecuteLastMarker
  <2>2. CASE ~activeGoal /\ activeGoal'
    <3>1. PICK m \in Moves : move[m] = "free" /\ move' = [move EXCEPT ![m] = "asked"]
      BY <1>2, <2>2 DEF ExecuteLastMarker
    <3> QED  BY <1>2, <2>2, <3>1 DEF ExecuteLastMarker
  <2> QED  BY <1>2, <2>1, <2>2 DEF ExecuteLastMarker
<1>3. ASSUME NEW m \in Moves, GoalResponseCb(m) \/ ResultCb(m) \/ Answer(m) \/ EndMove(m)
      PROVE  MotionInv'
  <2>1. m \in Alive
    BY <1>3 DEF GoalResponseCb, ResultCb, Answer, EndMove
  <2>2. CASE GoalResponseCb(m)
    <3>1. CASE move[m] = "refused"
      <4>1. handle = {} /\ stopping = {}
        BY <2>1, <3>1
      <4>2. Alive' = {}
        BY <2>1, <2>2, <3>1 DEF GoalResponseCb
      <4> QED  BY <2>2, <3>1, <4>1, <4>2 DEF GoalResponseCb
    <3>2. CASE move[m] # "refused"
      <4>1. m \notin handle /\ handle' = {m} /\ UNCHANGED <<marker, activeGoal, move, stopping>>
        BY <2>2, <3>2 DEF GoalResponseCb
      <4>2. handle = {}
        BY <2>1, <4>1
      <4> QED  BY <2>2, <3>2, <4>1, <4>2 DEF GoalResponseCb
    <3> QED  BY <3>1, <3>2
  <2>3. CASE ResultCb(m)
    BY <2>1, <2>3 DEF ResultCb
  <2>4. CASE Answer(m) \/ EndMove(m)
    BY <2>1, <2>4 DEF Answer, EndMove
  <2> QED  BY <1>3, <2>2, <2>3, <2>4
<1>4. CASE UNCHANGED markerVars
  BY <1>4 DEF markerVars
<1> QED  BY <1>1, <1>2, <1>3, <1>4 DEF MarkerNext

LEMMA MotionInit == MarkerInit => MotionInv
BY DEF MarkerInit, MotionInv, MarkerTypeOK, Alive

\* One goal at a time, and every handle and cancel is for it, however "go",
\* "cancel", markers and the answers of MoveIt interleave.
THEOREM MarkerOneMotion == MarkerSpec => []OneMotion
<1>1. MarkerInit => MotionInv
  BY MotionInit
<1>2. MotionInv => OneMotion
  <2> SUFFICES ASSUME MotionInv PROVE OneMotion
    OBVIOUS
  <2>1. Cardinality(Alive) <= 1
    <3>1. CASE Alive = {}
      BY <3>1, FS_EmptySet
    <3>2. ASSUME NEW m \in Alive PROVE Cardinality(Alive) <= 1
      <4>1. Alive = {m}
        BY <3>2 DEF MotionInv
      <4> QED  BY <4>1, FS_Singleton
    <3> QED  BY <3>1, <3>2
  <2>2. handle \cup stopping \subseteq Alive /\ (activeGoal <=> Alive # {})
    BY DEF MotionInv, MarkerTypeOK, Alive
  <2> QED  BY <2>1, <2>2 DEF OneMotion, Alive
<1> QED  BY <1>1, <1>2, MotionStep, PTL DEF MarkerSpec
-----------------------------------------------------------------------------
(***************************************************************************)
(* The navigator.                                                          *)
(***************************************************************************)
NavSpec == NavInit /\ [][NavNext]_navVars

LEMMA NavTypeStep == NavTypeOK /\ [NavNext]_navVars => NavTypeOK'
<1> SUFFICES ASSUME NavTypeOK, [NavNext]_navVars PROVE NavTypeOK'
  OBVIOUS
<1> USE NavigatorAssumption DEF NavTypeOK
<1>1. ASSUME NEW cmd \in Points, NEW g \in Goals, StartNavigation(cmd, g)
      PROVE  /\ goalInProgress' \in BOOLEAN /\ goalCmd' \in [Goals -> Points \cup {Nothing}]
             /\ client' \in [Goals -> {"free", "asked", "held"}] /\ requests' \in Seq(Goals)
  BY <1>1, Adding DEF StartNavigation
<1>2. CASE CheckServerReady
  <2>1. PICK g \in Goals : StartNavigation(pendingCmd, g)
    BY <1>2 DEF CheckServerReady
  <2>2. pendingCmd \in Points
    BY <1>2 DEF CheckServerReady
  <2> QED  BY <1>1, <1>2, <2>1, <2>2 DEF CheckServerReady
<1>3. ASSUME NEW cmd \in Points \cup {Unknown}, CmdCallback(cmd) PROVE NavTypeOK'
  <2>1. CASE cmd \notin Points
    BY <1>3, <2>1 DEF CmdCallback, nav2
  <2>2. CASE cmd \in Points /\ ~serverReady
    BY <1>3, <2>2 DEF CmdCallback, nav2
  <2>3. CASE cmd \in Points /\ serverReady /\ goalInProgress /\ goalHandle # Nothing
    BY <1>3, <2>3 DEF CmdCallback
  <2>4. CASE cmd \in Points /\ serverReady /\ ~(goalInProgress /\ goalHandle # Nothing)
    <3>1. PICK g \in Goals : StartNavigation(cmd, g)
      BY <1>3, <2>4 DEF CmdCallback
    <3>2. UNCHANGED <<temper, serverReady, pendingCmd, goalHandle, responses, server, cancels>>
          /\ latest' = cmd
      BY <1>3, <2>4 DEF CmdCallback
    <3> QED  BY <1>1, <2>4, <3>1, <3>2
  <2> QED  BY <2>1, <2>2, <2>3, <2>4
<1>4. ASSUME NEW g \in Goals, GoalResponseCallback(g) PROVE NavTypeOK'
  <2>1. responses' \in Seq(Goals)
    BY <1>4, Taking DEF GoalResponseCallback
  <2> QED  BY <1>4, <2>1 DEF GoalResponseCallback, ResetGoalState
<1>5. ASSUME NEW g \in Goals, ResultCallback(g) PROVE NavTypeOK'
  <2>1. CASE pendingCmd # Nothing /\ serverReady
    <3>1. /\ requests' = Append(requests, g) /\ goalInProgress' = TRUE
          /\ goalCmd' = [goalCmd EXCEPT ![g] = pendingCmd]
          /\ client' = [client EXCEPT ![g] = "asked"]
          /\ server' = [server EXCEPT ![g] = "none"]
          /\ goalHandle' = Nothing /\ pendingCmd' = Nothing /\ cancels' = cancels \ {g}
          /\ UNCHANGED <<temper, serverReady, responses, latest>>
      BY <1>5, <2>1 DEF ResultCallback
    <3>2. requests \in Seq(Goals)
      OBVIOUS
    <3>3. requests' \in Seq(Goals)
      BY <3>1, <3>2, AppendProperties
    <3> QED  BY <2>1, <3>1, <3>3
  <2>2. CASE ~(pendingCmd # Nothing /\ serverReady)
    BY <1>5, <2>2 DEF ResultCallback
  <2> QED  BY <2>1, <2>2
<1>6. CASE Decide
  <2>1. Head(requests) \in Goals /\ requests' \in Seq(Goals)
    BY <1>6, Taking DEF Decide
  <2>2. responses' \in Seq(Goals)
    BY <1>6, <2>1, Adding DEF Decide
  <2>3. server' \in [Goals -> {"none", "rejected", "running", "ended"}]
    <3>1. \/ server' = [server EXCEPT ![Head(requests)] = "rejected"]
          \/ server' = [h \in Goals |-> IF h = Head(requests) THEN "running"
                                        ELSE IF h \in Running THEN "ended" ELSE server[h]]
      BY <1>6 DEF Decide
    <3> QED  BY <2>1, <3>1
  <2>4. latest' \in Points \cup {Nothing}
    BY <1>6 DEF Decide
  <2>5. UNCHANGED <<temper, serverReady, pendingCmd, goalInProgress, goalHandle, goalCmd, client, cancels>>
    BY <1>6 DEF Decide
  <2> QED  BY <2>1, <2>2, <2>3, <2>4, <2>5
<1>7. ASSUME NEW g \in Goals, EndGoal(g) \/ TakeCancel(g) PROVE NavTypeOK'
  BY <1>7 DEF EndGoal, TakeCancel
<1>8. CASE Discover
  BY <1>8 DEF Discover, nav2
<1>9. CASE UNCHANGED navVars
  BY <1>9 DEF navVars
<1> QED  BY <1>2, <1>3, <1>4, <1>5, <1>6, <1>7, <1>8, <1>9 DEF NavNext

LEMMA NavTypeInit == NavInit => NavTypeOK
<1> SUFFICES ASSUME NavInit PROVE NavTypeOK
  OBVIOUS
<1>1. requests \in Seq(Goals) /\ responses \in Seq(Goals)
  BY EmptySeq DEF NavInit
<1>2. /\ temper \in [patient: BOOLEAN, steady: BOOLEAN, agreeing: BOOLEAN]
      /\ serverReady = temper.steady /\ temper.steady \in BOOLEAN
  BY DEF NavInit
<1> QED  BY <1>1, <1>2 DEF NavInit, NavTypeOK

-----------------------------------------------------------------------------
\* With a patient user and a steady server: one goal, whose request or answer is
\* all there is under way, and goal_in_progress says whether it exists.
Busy == {g \in Goals : client[g] # "free"}

OneGoalInv ==
  temper.patient /\ temper.steady =>
    /\ serverReady
    /\ \A g, h \in Busy : g = h
    /\ goalInProgress <=> Busy # {}
    /\ \A g \in Busy : client[g] = "held" => goalHandle = g
    /\ Len(requests) + Len(responses) <= 1
    /\ \A i \in 1..Len(requests) : client[requests[i]] = "asked"
    /\ \A i \in 1..Len(responses) : client[responses[i]] = "asked"
    /\ pendingCmd # Nothing => Settled /\ goalInProgress

LEMMA AtMostOne ==
  ASSUME NEW a \in Nat \ {0}, NEW b \in Nat, a + b <= 1 \/ b + a <= 1
  PROVE  a = 1 /\ b = 0
OBVIOUS

LEMMA OneGoalStep == NavTypeOK /\ OneGoalInv /\ [NavNext]_navVars => OneGoalInv'
<1> SUFFICES ASSUME NavTypeOK, OneGoalInv, [NavNext]_navVars,
                    temper'.patient, temper'.steady
             PROVE  OneGoalInv'
  BY DEF OneGoalInv
<1>0. temper' = temper /\ serverReady'
  BY DEF NavNext, navVars, CheckServerReady, CmdCallback, GoalResponseCallback, ResultCallback,
         Decide, EndGoal, TakeCancel, Discover, OneGoalInv
<1>i. /\ Len(requests) + Len(responses) <= 1
      /\ \A i \in 1..Len(responses) : client[responses[i]] = "asked"
  BY <1>0 DEF OneGoalInv
<1> USE NavigatorAssumption DEF NavTypeOK, OneGoalInv, Busy, Settled
<1>1. ASSUME NEW cmd, NEW g \in Goals, StartNavigation(cmd, g), Busy = {},
             responses' = responses, pendingCmd' = Nothing
      PROVE  OneGoalInv'
  <2>1. requests = <<>> /\ responses = <<>> 
    <3>1. \A i \in 1..Len(requests) : FALSE
      BY <1>0, <1>1
    <3>2. \A i \in 1..Len(responses) : FALSE
      BY <1>0, <1>1
    <3> QED  BY <3>1, <3>2
  <2>2. requests' = <<g>> /\ Len(responses') = 0
    BY <1>1, <2>1 DEF StartNavigation
  <2>3. client' = [client EXCEPT ![g] = "asked"] /\ goalInProgress' = TRUE
    BY <1>1 DEF StartNavigation
  <2>4. Busy' = {g} /\ client'[g] = "asked"
    BY <1>1, <2>3
  <2> QED  BY <1>0, <1>1, <2>2, <2>3, <2>4
<1>2. ~CheckServerReady
  BY <1>0 DEF CheckServerReady
<1>3. ASSUME NEW cmd \in Points \cup {Unknown}, CmdCallback(cmd) PROVE OneGoalInv'
  <2>1. CASE cmd \notin Points
    BY <1>0, <1>3, <2>1 DEF CmdCallback, nav2
  <2>2. CASE cmd \in Points /\ goalInProgress /\ goalHandle # Nothing
    BY <1>0, <1>3, <2>2 DEF CmdCallback
  <2>3. CASE cmd \in Points /\ ~(goalInProgress /\ goalHandle # Nothing)
    <3>1. Busy = {}
      <4>1. \A g \in Busy : client[g] = "held"
        BY <1>0, <1>3 DEF CmdCallback
      <4> QED  BY <1>0, <2>3, <4>1
    <3>2. /\ \E g \in Goals : StartNavigation(cmd, g)
          /\ UNCHANGED <<responses, pendingCmd>> /\ pendingCmd = Nothing
      BY <1>0, <1>3, <2>3, <3>1 DEF CmdCallback
    <3> QED  BY <1>1, <3>1, <3>2
  <2> QED  BY <2>1, <2>2, <2>3
<1>4. ASSUME NEW g \in Goals, GoalResponseCallback(g) PROVE OneGoalInv'
  <2>1. responses # <<>> /\ g = responses[1] /\ responses' = Tail(responses)
    BY <1>4, Taking DEF GoalResponseCallback
  <2>0. Len(responses) \in Nat \ {0} /\ Len(requests) \in Nat
    BY <2>1, EmptySeq, LenProperties
  <2>a. Len(responses) = 1 /\ Len(requests) = 0
    BY <1>i, <2>0, AtMostOne, Zenon
  <2>2. Len(responses) = 1 /\ Len(requests) = 0 /\ client[g] = "asked"
    BY <1>i, <2>a, <2>1
  <2>3. Len(responses') = 0 /\ Len(requests') = 0
    BY <1>4, <2>1, <2>2, Taking DEF GoalResponseCallback
  <2>4. Busy = {g} /\ pendingCmd = Nothing /\ pendingCmd' = Nothing
    BY <1>0, <1>4, <2>2 DEF GoalResponseCallback
  <2>5. CASE server[g] = "rejected"
    <3>1. goalInProgress' = FALSE /\ client' = [client EXCEPT ![g] = "free"]
      BY <1>4, <2>5 DEF GoalResponseCallback, ResetGoalState
    <3>2. Busy' = {}
      BY <2>4, <3>1
    <3> QED  BY <1>0, <2>3, <2>4, <3>1, <3>2
  <2>6. CASE server[g] # "rejected"
    <3>1. /\ goalHandle' = g /\ client' = [client EXCEPT ![g] = "held"]
          /\ UNCHANGED goalInProgress
      BY <1>4, <2>6 DEF GoalResponseCallback
    <3>2. Busy' = {g}
      BY <2>4, <3>1
    <3> QED  BY <1>0, <2>3, <2>4, <3>1, <3>2
  <2> QED  BY <2>5, <2>6
<1>5. ASSUME NEW g \in Goals, ResultCallback(g) PROVE OneGoalInv'
  <2>1. Busy = {g} /\ client[g] = "held"
    BY <1>0, <1>5 DEF ResultCallback
  <2>2. requests = <<>> /\ responses = <<>>
    <3>1. \A i \in 1..Len(requests) : FALSE
      BY <1>0, <2>1
    <3>2. \A i \in 1..Len(responses) : FALSE
      BY <1>0, <2>1
    <3> QED  BY <3>1, <3>2
  <2>3. pendingCmd' = Nothing /\ Len(responses') = 0
    BY <1>5, <2>2 DEF ResultCallback
  <2>4. CASE pendingCmd # Nothing
    <3>1. /\ goalInProgress' = TRUE /\ client' = [client EXCEPT ![g] = "asked"]
          /\ requests' = <<g>>
      BY <1>0, <1>5, <2>2, <2>4 DEF ResultCallback
    <3>2. Busy' = {g} /\ client'[g] = "asked"
      BY <2>1, <3>1
    <3> QED  BY <1>0, <2>3, <3>1, <3>2
  <2>5. CASE pendingCmd = Nothing
    <3>1. /\ goalInProgress' = FALSE /\ client' = [client EXCEPT ![g] = "free"]
          /\ requests' = <<>>
      BY <1>0, <1>5, <2>2, <2>5 DEF ResultCallback
    <3>2. Busy' = {}
      BY <2>1, <3>1
    <3> QED  BY <1>0, <2>3, <3>1, <3>2
  <2> QED  BY <2>4, <2>5
<1>6. CASE Decide
  <2>1. /\ requests # <<>> /\ requests' = Tail(requests)
        /\ responses' = Append(responses, Head(requests))
        /\ UNCHANGED <<pendingCmd, goalInProgress, goalHandle, client>>
    BY <1>6 DEF Decide
  <2>0. Len(requests) \in Nat \ {0} /\ Len(responses) \in Nat
    BY <2>1, EmptySeq, LenProperties
  <2>2. Len(requests) = 1 /\ Len(responses) = 0
    BY <1>i, <2>0, AtMostOne, Zenon
  <2>t. Head(requests) = requests[1] /\ Head(requests) \in Goals
    BY <2>1, Taking
  <2>3. Len(requests') = 0 /\ Len(responses') = 1 /\ responses'[1] = requests[1]
    BY <2>1, <2>2, <2>t, Taking, Adding
  <2>4. client[requests[1]] = "asked"
    BY <1>0, <2>2
  <2> QED  BY <1>0, <2>1, <2>3, <2>4
<1>7. ASSUME NEW g \in Goals, EndGoal(g) \/ TakeCancel(g) PROVE OneGoalInv'
  BY <1>0, <1>7 DEF EndGoal, TakeCancel
<1>8. CASE Discover
  BY <1>0, <1>8 DEF Discover, nav2
<1>9. CASE UNCHANGED navVars
  BY <1>0, <1>9 DEF navVars
<1> QED  BY <1>2, <1>3, <1>4, <1>5, <1>6, <1>7, <1>8, <1>9 DEF NavNext

LEMMA OneGoalInit == NavInit => OneGoalInv
BY DEF NavInit, OneGoalInv, Busy, Settled

\* With a patient user and a steady server the goal under way is really over,
\* and its result handled, before the next one is sent.
THEOREM NavigatorOneGoal == NavSpec => []OneGoalAtATime
<1>1. NavTypeOK /\ OneGoalInv => OneGoalAtATime
  <2> SUFFICES ASSUME NavTypeOK, OneGoalInv, temper.patient, temper.steady
               PROVE  Cardinality(Goals \ Free) <= 1
    BY DEF OneGoalAtATime
  <2>1. Goals \ Free = Busy
    BY DEF Free, Busy
  <2>2. CASE Busy = {}
    BY <2>1, <2>2, FS_EmptySet
  <2>3. ASSUME NEW g \in Busy PROVE Cardinality(Busy) <= 1
    <3>1. \A h \in Busy : h = g
      BY <2>3 DEF OneGoalInv
    <3>2. Busy = {g}
      BY <2>3, <3>1
    <3>3. Cardinality({g}) = 1
      BY FS_Singleton
    <3> QED  BY <3>2, <3>3
  <2> QED  BY <2>1, <2>2, <2>3
<1> QED  BY <1>1, NavTypeInit, NavTypeStep, OneGoalInit, OneGoalStep, PTL DEF NavSpec
-----------------------------------------------------------------------------
\* A command that waits is the last one given, and the result that will start it
\* is to come; with none waiting, the last request under way is for the last
\* command given, and so is the goal that runs when no request is under way.
LatestInv ==
  temper.steady /\ (temper.patient \/ temper.agreeing) =>
    /\ serverReady
    /\ temper.agreeing => \A g \in Goals : server[g] # "rejected"
    /\ pendingCmd # Nothing =>
         pendingCmd = latest /\ goalInProgress /\ goalHandle # Nothing
    /\ pendingCmd = Nothing /\ latest # Nothing =>
         /\ requests # <<>> => goalCmd[requests[Len(requests)]] = latest
         /\ requests = <<>> => \A g \in Running : goalCmd[g] = latest

LEMMA LatestStep == NavTypeOK /\ OneGoalInv /\ LatestInv /\ [NavNext]_navVars => LatestInv'
<1> SUFFICES ASSUME NavTypeOK, OneGoalInv, LatestInv, [NavNext]_navVars,
                    temper'.steady, temper'.patient \/ temper'.agreeing
             PROVE  LatestInv'
  BY DEF LatestInv
<1>0. temper' = temper /\ serverReady /\ serverReady'
  BY DEF NavNext, navVars, CheckServerReady, CmdCallback, GoalResponseCallback, ResultCallback,
         Decide, EndGoal, TakeCancel, Discover, LatestInv
<1>i. /\ temper.agreeing => \A g \in Goals : server[g] # "rejected"
      /\ pendingCmd # Nothing =>
           pendingCmd = latest /\ goalInProgress /\ goalHandle # Nothing
      /\ pendingCmd = Nothing /\ latest # Nothing =>
           /\ requests # <<>> => goalCmd[requests[Len(requests)]] = latest
           /\ requests = <<>> => \A g \in Running : goalCmd[g] = latest
  BY <1>0 DEF LatestInv
<1>t. requests \in Seq(Goals) /\ responses \in Seq(Goals)
  BY DEF NavTypeOK
<1> USE NavigatorAssumption DEF NavTypeOK, LatestInv, Running
<1>1. ASSUME NEW cmd \in Points, NEW g \in Goals, requests' = Append(requests, g),
             goalCmd' = [goalCmd EXCEPT ![g] = cmd], latest' = cmd, pendingCmd' = Nothing
      PROVE  requests' # <<>> /\ goalCmd'[requests'[Len(requests')]] = latest'
  <2>1. requests' # <<>> /\ Len(requests') = Len(requests) + 1 /\ requests'[Len(requests) + 1] = g
    BY <1>1, <1>t, AppendProperties
  <2> QED  BY <1>1, <2>1
<1>2. ~CheckServerReady
  BY <1>i DEF CheckServerReady
<1>3. ASSUME NEW cmd \in Points \cup {Unknown}, CmdCallback(cmd) PROVE LatestInv'
  <2>1. CASE cmd \notin Points
    BY <1>0, <1>i, <1>3, <2>1 DEF CmdCallback, nav2
  <2>2. CASE cmd \in Points /\ goalInProgress /\ goalHandle # Nothing
    BY <1>0, <1>i, <1>3, <2>2 DEF CmdCallback
  <2>3. CASE cmd \in Points /\ ~(goalInProgress /\ goalHandle # Nothing)
    <3>1. PICK g \in Goals : StartNavigation(cmd, g)
      BY <1>0, <1>3, <2>3 DEF CmdCallback
    <3>2. UNCHANGED <<pendingCmd, server>> /\ latest' = cmd
      BY <1>0, <1>3, <2>3 DEF CmdCallback
    <3>3. pendingCmd' = Nothing
      BY <1>i, <2>3, <3>2
    <3>4. requests' = Append(requests, g) /\ goalCmd' = [goalCmd EXCEPT ![g] = cmd]
      BY <3>1 DEF StartNavigation
    <3>5. requests' # <<>> /\ goalCmd'[requests'[Len(requests')]] = latest'
      BY <1>1, <2>3, <3>2, <3>3, <3>4
    <3> QED  BY <1>0, <1>i, <3>2, <3>3, <3>5
  <2> QED  BY <2>1, <2>2, <2>3
<1>4. ASSUME NEW g \in Goals, GoalResponseCallback(g) PROVE LatestInv'
  <2>1. UNCHANGED <<pendingCmd, goalCmd, requests, latest>>
    BY <1>4 DEF GoalResponseCallback
  <2>2. CASE server[g] = "rejected"
    <3>1. temper.patient /\ temper.steady /\ ~temper.agreeing
      BY <1>0, <1>i, <2>2
    <3>2. responses # <<>> /\ g = responses[1] /\ 1 \in 1..Len(responses)
      <4>1. responses # <<>> /\ g = Head(responses)
        BY <1>4 DEF GoalResponseCallback
      <4>2. Len(responses) \in Nat \ {0} /\ Head(responses) = responses[1]
        BY <1>t, <4>1, EmptySeq, Taking
      <4> QED  BY <4>1, <4>2
    <3>3. client[g] = "asked"
      BY <3>1, <3>2 DEF OneGoalInv
    <3>4. pendingCmd = Nothing
      BY <3>1, <3>3 DEF OneGoalInv, Settled
    <3>5. server' = [server EXCEPT ![g] = "none"]
      BY <1>4, <2>2 DEF GoalResponseCallback
    <3> QED  BY <1>0, <1>i, <2>1, <3>1, <3>4, <3>5
  <2>3. CASE server[g] # "rejected"
    <3>1. goalHandle' = g /\ UNCHANGED <<goalInProgress, server>>
      BY <1>4, <2>3 DEF GoalResponseCallback
    <3> QED  BY <1>0, <1>i, <2>1, <3>1
  <2> QED  BY <2>2, <2>3
<1>5. ASSUME NEW g \in Goals, ResultCallback(g) PROVE LatestInv'
  <2>1. /\ pendingCmd' = Nothing /\ UNCHANGED latest
        /\ server[g] = "ended" /\ server' = [server EXCEPT ![g] = "none"]
    BY <1>5 DEF ResultCallback
  <2>2. CASE pendingCmd # Nothing
    <3>1. requests' = Append(requests, g) /\ goalCmd' = [goalCmd EXCEPT ![g] = pendingCmd]
      BY <1>0, <1>5, <2>2 DEF ResultCallback
    <3>2. pendingCmd \in Points /\ latest' = pendingCmd
      BY <1>i, <2>1, <2>2
    <3>3. requests' # <<>> /\ goalCmd'[requests'[Len(requests')]] = latest'
      BY <1>1, <2>1, <3>1, <3>2
    <3> QED  BY <1>0, <1>i, <2>1, <3>3
  <2>3. CASE pendingCmd = Nothing
    <3>1. UNCHANGED <<goalCmd, requests>>
      BY <1>5, <2>3 DEF ResultCallback
    <3> QED  BY <1>0, <1>i, <2>1, <2>3, <3>1
  <2> QED  BY <2>2, <2>3
<1>6. CASE Decide
  <2> DEFINE g == Head(requests)
  <2>1. /\ requests # <<>> /\ requests' = Tail(requests)
        /\ UNCHANGED <<pendingCmd, goalInProgress, goalHandle, goalCmd, client>>
    BY <1>6 DEF Decide
  <2>2. Len(requests) \in Nat \ {0} /\ g = requests[1] /\ g \in Goals
    BY <1>t, <2>1, EmptySeq, Taking
  <2>3. requests' \in Seq(Goals) /\ Len(requests') = Len(requests) - 1
    BY <1>t, <2>1, Taking
  <2>4. requests' = <<>> => requests[Len(requests)] = g
    <3>1. requests' = <<>> => Len(requests') = 0
      BY EmptySeq
    <3>2. Len(requests') = 0 => Len(requests) = 1
      BY <2>2, <2>3
    <3> QED  BY <2>2, <3>1, <3>2, Zenon
  <2>5. requests' # <<>> => requests'[Len(requests')] = requests[Len(requests)]
    <3>1. \A i \in 1..Len(Tail(requests)) : Tail(requests)[i] = requests[i + 1]
      BY <1>t, <2>1, Taking
    <3>2. requests' # <<>> => Len(requests') \in Nat \ {0}
      BY <2>3, EmptySeq
    <3> QED  BY <2>1, <2>2, <2>3, <3>1, <3>2
  <2>6. \/ /\ ~temper.agreeing
           /\ server' = [server EXCEPT ![g] = "rejected"]
           /\ latest' = IF goalCmd[g] = latest THEN Nothing ELSE latest
        \/ /\ server' = [h \in Goals |-> IF h = g THEN "running"
                                         ELSE IF h \in Running THEN "ended" ELSE server[h]]
           /\ UNCHANGED latest
    BY <1>6 DEF Decide
  <2> HIDE DEF g
  <2>7. CASE /\ server' = [h \in Goals |-> IF h = g THEN "running"
                                           ELSE IF h \in Running THEN "ended" ELSE server[h]]
             /\ UNCHANGED latest
    <3>1. \A h \in Running' : h = g
      BY <2>7
    <3>2. \A h \in Goals : server'[h] = "rejected" => server[h] = "rejected"
      BY <2>7
    <3> QED  BY <1>0, <1>i, <2>1, <2>4, <2>5, <2>7, <3>1, <3>2
  <2>8. CASE /\ ~temper.agreeing
             /\ latest' = IF goalCmd[g] = latest THEN Nothing ELSE latest
    <3>1. temper.patient /\ temper.steady
      BY <1>0, <2>8
    <3>2. Len(requests) = 1 /\ client[g] = "asked"
      <4>1. Len(requests) + Len(responses) <= 1 /\ Len(responses) \in Nat
        BY <1>t, <3>1, LenProperties DEF OneGoalInv
      <4>2. Len(requests) = 1
        BY <2>2, <4>1, AtMostOne, Zenon
      <4> QED  BY <2>2, <3>1, <4>2 DEF OneGoalInv
    <3>3. pendingCmd' = Nothing
      BY <2>1, <2>2, <3>1, <3>2 DEF OneGoalInv, Settled
    <3>4. latest' = Nothing
      BY <1>i, <2>1, <2>2, <2>8, <3>2, <3>3
    <3> QED  BY <1>0, <2>8, <3>3, <3>4
  <2> QED  BY <2>6, <2>7, <2>8
<1>7. ASSUME NEW g \in Goals, EndGoal(g) \/ TakeCancel(g) PROVE LatestInv'
  <2>1. /\ UNCHANGED <<pendingCmd, goalInProgress, goalHandle, goalCmd, requests, latest>>
        /\ server' \in {server, [server EXCEPT ![g] = "ended"]}
    BY <1>7 DEF EndGoal, TakeCancel
  <2> QED  BY <1>0, <1>i, <2>1
<1>8. CASE Discover
  BY <1>0, <1>i, <1>8 DEF Discover, nav2
<1>9. CASE UNCHANGED navVars
  BY <1>0, <1>i, <1>9 DEF navVars
<1> QED  BY <1>2, <1>3, <1>4, <1>5, <1>6, <1>7, <1>8, <1>9 DEF NavNext

LEMMA LatestInit == NavInit => LatestInv
BY DEF NavInit, LatestInv, Running

\* With a steady server the robot ends up driving to the last destination that was
\* named and not rejected, for any number of destinations and goals in flight.
THEOREM NavigatorLatestWins == NavSpec => []LatestCommandWins
<1>1. LatestInv => LatestCommandWins
  BY DEF LatestInv, LatestCommandWins
<1> QED
  BY <1>1, NavTypeInit, NavTypeStep, OneGoalInit, OneGoalStep, LatestInit, LatestStep, PTL
  DEF NavSpec

-----------------------------------------------------------------------------
(***************************************************************************)
(* The clients of the control centre, when the centre is patient: one goal *)
(* at a time, whose request or answer is all there is under way, and from  *)
(* its acceptance on the node knows of it.                                 *)
(***************************************************************************)
CenterSpec == CenterInit /\ [][CenterNext]_centerVars

Engaged == {d \in Drives : drives[d].state # "free"}

CenterInv ==
  patient =>
    /\ \A d, e \in Engaged : d = e
    /\ Len(sent) + Len(decided) <= 1
    /\ \A i \in 1..Len(sent) : drives[sent[i]].state = "asked"
    /\ \A i \in 1..Len(decided) :
         drives[decided[i]].state \in {"refused", "running", "reached", "failed"}
    /\ sent # <<>> \/ decided # <<>> => ~accept /\ killing = {} /\ killed = {}
    /\ \A d \in InState({"running"}) : killing \subseteq {d} /\ killed = {}
    /\ served = "navigator" =>
         killing = {} /\ killed = {} /\ \A d \in Engaged : drives[d].to = destination
    /\ DriveIsKnown
    /\ ReportIsSo

LEMMA IdleIsRecord == Idle \in DriveRecord
BY DEF Idle, DriveRecord, States

LEMMA CenterTypeStep == CenterTypeOK /\ [CenterNext]_centerVars => CenterTypeOK'
<1> SUFFICES ASSUME CenterTypeOK, [CenterNext]_centerVars PROVE CenterTypeOK'
  OBVIOUS
<1> USE CenterAssumption, IdleIsRecord DEF CenterTypeOK
<1>0. drives \in [Drives -> DriveRecord]
  OBVIOUS
<1>1. ASSUME NEW place \in Places \cup {Nowhere}, SendGoal(place)
      PROVE  drives' \in [Drives -> DriveRecord] /\ sent' \in Seq(Drives) /\ report' = NoReport
  <2>1. PICK d \in Drives : /\ drives' = [drives EXCEPT ![d] = [state |-> "asked", to |-> place]]
                            /\ sent' = Append(sent, d) /\ report' = NoReport
    BY <1>1 DEF SendGoal, InState
  <2>2. [state |-> "asked", to |-> place] \in DriveRecord
    BY DEF DriveRecord, States
  <2>3. sent' \in Seq(Drives)
    BY <2>1, Adding
  <2> QED  BY <1>0, <2>1, <2>2, <2>3
<1>2. NoReport \in [told : Places \cup {"none", "driving_done"}, of : Places \cup {Nowhere},
                    moving : BOOLEAN]
  BY DEF NoReport
<1>3. ASSUME NEW place \in Places, StartDrive(place) \/ DriveTo(place) PROVE CenterTypeOK'
  <2>1. SendGoal(place) /\ destination' \in {destination, place}
        /\ UNCHANGED <<served, patient, accept, oldCommand, held, decided, killing, killed>>
    BY <1>3 DEF StartDrive, DriveTo, order
  <2> QED  BY <1>0, <1>1, <1>2, <2>1
<1>4. CASE FollowWaypoints
  <2>1. SendGoal(destination)
        /\ UNCHANGED <<served, patient, accept, destination, oldCommand, held, decided, killing, killed>>
    BY <1>4 DEF FollowWaypoints, order
  <2> QED  BY <1>0, <1>1, <1>2, <2>1
<1>5. CASE GoalResponse
  <2>1. Head(decided) \in Drives /\ decided' \in Seq(Drives)
    BY <1>5, Taking DEF GoalResponse
  <2>2. /\ accept' \in BOOLEAN /\ held' \in {Head(decided), held}
        /\ drives' \in {drives, [drives EXCEPT ![Head(decided)] = Idle]}
        /\ UNCHANGED <<served, patient, destination, oldCommand, sent, killing, killed, report>>
    BY <1>5 DEF GoalResponse, order
  <2> QED  BY <1>0, <2>1, <2>2
<1>6. ASSUME NEW place \in Places, PrepareStart(place) PROVE CenterTypeOK'
  BY <1>6 DEF PrepareStart, lines
<1>7. CASE Kill
  BY <1>7 DEF Kill, order
<1>8. ASSUME NEW d \in Drives, CancelDone(d) PROVE CenterTypeOK'
  BY <1>8 DEF CancelDone
<1>9. ASSUME NEW d \in Drives, NavigatorResult(d) \/ FollowerResult(d) PROVE CenterTypeOK'
  <2>1. /\ drives' = [drives EXCEPT ![d] = Idle]
        /\ UNCHANGED <<served, patient, sent, decided, killing, killed>>
        /\ oldCommand' = oldCommand /\ held' \in {held, Nowhere} /\ accept' \in {accept, FALSE}
        /\ destination' \in {destination, Nowhere}
        /\ \/ report' = report
           \/ destination # Nowhere /\ Reported(destination, d)
           \/ Reported("driving_done", d)
    BY <1>9 DEF NavigatorResult, FollowerResult, Ended, lines
  <2>2. drives[d].to \in Places \cup {Nowhere}
    BY <1>0 DEF DriveRecord
  <2>3. report' \in [told : Places \cup {"none", "driving_done"}, of : Places \cup {Nowhere},
                     moving : BOOLEAN]
    <3> DEFINE moving == InState({"running", "stopping"}) # {}
    <3>1. moving \in BOOLEAN
      OBVIOUS
    <3>2. ASSUME NEW told \in Places \cup {"none", "driving_done"}, Reported(told, d)
          PROVE  report' \in [told : Places \cup {"none", "driving_done"},
                              of : Places \cup {Nowhere}, moving : BOOLEAN]
      <4>1. report' = [told |-> told, of |-> drives[d].to, moving |-> moving]
        BY <3>2 DEF Reported
      <4> HIDE DEF moving
      <4> QED  BY <2>2, <3>1, <4>1
    <3> QED  BY <2>1, <3>2
  <2> QED  BY <1>0, <2>1, <2>3
<1>10. ASSUME NEW d \in Drives, NEW s \in States, NEW f, f = [drives EXCEPT ![d].state = s]
       PROVE  f \in [Drives -> DriveRecord]
  BY <1>0, <1>10 DEF DriveRecord
<1>11. CASE DecideDrive
  <2>1. Head(sent) \in Drives /\ sent' \in Seq(Drives)
    BY <1>11, Taking DEF DecideDrive
  <2>2. decided' \in Seq(Drives)
    BY <1>11, <2>1, Adding DEF DecideDrive
  <2>3. CASE drives' = [drives EXCEPT ![Head(sent)].state = "refused"]
    <3>1. drives' \in [Drives -> DriveRecord]
      BY <1>10, <2>1, <2>3 DEF States
    <3> QED  BY <1>0, <1>11, <2>1, <2>2, <3>1 DEF DecideDrive, order
  <2>4. CASE drives' = [d \in Drives |->
                       [drives[d] EXCEPT !.state =
                           IF d = Head(sent) THEN "running"
                           ELSE IF drives[d].state \in {"running", "stopping"} THEN "failed" ELSE @]]
    <3>1. drives' \in [Drives -> DriveRecord]
      BY <1>0, <2>4 DEF DriveRecord, States
    <3> QED  BY <1>0, <1>11, <2>1, <2>2, <3>1 DEF DecideDrive, order
  <2> QED  BY <1>11, <2>3, <2>4 DEF DecideDrive
<1>12. ASSUME NEW d \in Drives, EndDrive(d) PROVE CenterTypeOK'
  <2>1. drives' \in [Drives -> DriveRecord]
    BY <1>10, <1>12 DEF EndDrive, States
  <2> QED  BY <1>0, <1>12, <2>1 DEF EndDrive, order, lines
<1>13. ASSUME NEW d \in Drives, TakeKill(d) PROVE CenterTypeOK'
  <2>1. drives' \in [Drives -> DriveRecord]
    BY <1>0, <1>10, <1>13 DEF TakeKill, States
  <2> QED  BY <1>0, <1>13, <2>1 DEF TakeKill, order
<1>14. CASE UNCHANGED centerVars
  BY <1>14 DEF centerVars, order, lines
<1> QED
  BY <1>3, <1>4, <1>5, <1>6, <1>7, <1>8, <1>9, <1>11, <1>12, <1>13, <1>14 DEF CenterNext


\* A patient centre that gives an order finds nothing of the last one under way.
LEMMA NothingUnderWay ==
  ASSUME CenterTypeOK, CenterInv, patient, Hears, ~accept
  PROVE  Engaged = {} /\ sent = <<>> /\ decided = <<>> /\ killing = {} /\ killed = {}
<1>1. decided = <<>> /\ killing = {} /\ killed = {}
  BY DEF Hears
<1>2. \A d \in Drives : drives[d].state \in {"free", "running"}
  <2>1. \A d \in Drives : drives[d].state \in States
    BY DEF CenterTypeOK, DriveRecord
  <2> QED  BY <2>1 DEF Hears, InState
<1>3. sent = <<>>
  <2>1. SUFFICES ASSUME sent # <<>> PROVE FALSE
    OBVIOUS
  <2>2. 1 \in 1..Len(sent) /\ sent[1] \in Drives
    BY <2>1 DEF CenterTypeOK
  <2>3. drives[sent[1]].state = "asked"
    BY <2>2 DEF CenterInv
  <2> QED  BY <1>2, <2>2, <2>3
<1>4. \A d \in Drives : drives[d].state # "running"
  BY <1>1, EmptySeq DEF CenterInv, DriveIsKnown, InState
<1> QED  BY <1>1, <1>2, <1>3, <1>4 DEF Engaged

\* A goal whose result is handled is the only one, and nothing is under way to Nav2.
LEMMA OnlyOne ==
  ASSUME CenterTypeOK, CenterInv, patient, NEW d \in Drives, Ended(d, {"reached", "failed"})
  PROVE  /\ sent = <<>> /\ decided = <<>> /\ Engaged' = {}
         /\ d \in Engaged /\ InState({"running", "stopping"}) = {}
<1> USE DEF Engaged, InState
<1>1. d \in Engaged /\ drives[d].state \in {"reached", "failed"}
      /\ \A e \in Drives : e # d => drives[e].state = "free"
  BY DEF Ended, CenterInv
<1>2. sent = <<>>
  <2>1. SUFFICES ASSUME sent # <<>> PROVE FALSE
    OBVIOUS
  <2>2. 1 \in 1..Len(sent) /\ sent[1] \in Drives
    BY <2>1 DEF CenterTypeOK
  <2>3. drives[sent[1]].state = "asked"
    BY <2>2 DEF CenterInv
  <2> QED  BY <1>1, <2>2, <2>3
<1>3. decided = <<>>
  <2>1. SUFFICES ASSUME decided # <<>> PROVE FALSE
    OBVIOUS
  <2>2. 1 \in 1..Len(decided) /\ decided[1] \in Drives
    BY <2>1 DEF CenterTypeOK
  <2>3. drives[decided[1]].state \in {"refused", "running", "reached", "failed"}
    BY <2>2 DEF CenterInv
  <2> QED  BY <1>1, <2>2, <2>3 DEF Ended
<1>4. drives' = [drives EXCEPT ![d] = Idle]
  BY DEF Ended
<1>5. Engaged' = {}
  BY <1>1, <1>4 DEF CenterTypeOK, Idle
<1> QED  BY <1>1, <1>2, <1>3, <1>5

\* With no goal there is nothing to know of but the report.
LEMMA NothingToKnow ==
  ASSUME Engaged' = {}, sent' = <<>>, decided' = <<>>, ReportIsSo',
         served' = "navigator" => killing' = {} /\ killed' = {}
  PROVE  CenterInv'
<1>1. \A S : "free" \notin S => InState(S)' = {}
  BY DEF Engaged, InState
<1>2. InState({"running"})' = {}
  BY <1>1
<1> QED  BY <1>2, EmptySeq DEF CenterInv, DriveIsKnown

\* A goal is sent when nothing is under way.
LEMMA GoalSent ==
  ASSUME CenterTypeOK, NEW place \in Places \cup {Nowhere}, SendGoal(place),
         Engaged = {}, sent = <<>>, decided = <<>>, killing = {}, killed = {}, ~accept,
         UNCHANGED <<decided, killing, killed, served, accept>>,
         served = "navigator" => destination' = place
  PROVE  CenterInv'
<1>1. PICK d \in Drives : /\ drives' = [drives EXCEPT ![d] = [state |-> "asked", to |-> place]]
                          /\ sent' = Append(<<>>, d) /\ report' = NoReport
  BY DEF SendGoal, InState
<1>2. /\ \A e \in Drives : e # d => drives'[e].state = "free"
      /\ drives'[d].state = "asked" /\ drives'[d].to = place
  BY <1>1 DEF CenterTypeOK, Engaged
<1>3. Engaged' = {d} /\ InState({"running"})' = {}
  BY <1>2 DEF Engaged, InState
<1>4. Len(sent') = 1 /\ sent'[1] = d /\ Len(decided') = 0
  BY <1>1, EmptySeq
<1>5. ReportIsSo'
  <2>1. report'.told = "none" /\ report'.moving = FALSE
    BY <1>1 DEF NoReport
  <2> QED  BY <2>1, CenterAssumption DEF ReportIsSo
<1>6. DriveIsKnown'
  BY <1>3 DEF DriveIsKnown
<1>7. \A i \in 1..Len(sent') : drives'[sent'[i]].state = "asked"
  BY <1>2, <1>4
<1> QED  BY <1>2, <1>3, <1>4, <1>5, <1>6, <1>7 DEF CenterInv

LEMMA CenterStep == CenterTypeOK /\ CenterInv /\ [CenterNext]_centerVars => CenterInv'
<1> SUFFICES ASSUME CenterTypeOK, CenterInv, [CenterNext]_centerVars, patient' PROVE CenterInv'
  BY DEF CenterInv
<1>0. patient
  BY DEF CenterNext, centerVars, GoalResponse, FollowWaypoints, Kill, DecideDrive, StartDrive,
         DriveTo, PrepareStart, NavigatorResult, FollowerResult, CancelDone, EndDrive, TakeKill
<1>t. /\ sent \in Seq(Drives) /\ decided \in Seq(Drives) /\ drives \in [Drives -> DriveRecord]
      /\ Len(sent) \in Nat /\ Len(decided) \in Nat
  BY DEF CenterTypeOK
\* The invariant, its parts by name.
<1>i. /\ \A d, e \in Engaged : d = e
      /\ Len(sent) + Len(decided) <= 1
      /\ \A i \in 1..Len(sent) : drives[sent[i]].state = "asked"
      /\ \A i \in 1..Len(decided) :
           drives[decided[i]].state \in {"refused", "running", "reached", "failed"}
      /\ sent # <<>> \/ decided # <<>> => ~accept /\ killing = {} /\ killed = {}
      /\ \A d \in InState({"running"}) : killing \subseteq {d} /\ killed = {}
      /\ served = "navigator" =>
           killing = {} /\ killed = {} /\ \A d \in Engaged : drives[d].to = destination
      /\ DriveIsKnown
      /\ ReportIsSo
  BY <1>0 DEF CenterInv
<1>1. ASSUME NEW place \in Places, StartDrive(place) PROVE CenterInv'
  <2>1. /\ SendGoal(place) /\ destination' = place /\ Hears /\ ~accept
        /\ UNCHANGED <<decided, killing, killed, served, accept>>
    BY <1>0, <1>1 DEF StartDrive
  <2> QED  BY <1>0, <2>1, NothingUnderWay, GoalSent
<1>2. CASE FollowWaypoints
  <2>1. /\ SendGoal(destination) /\ served = "follower" /\ Hears /\ ~accept
        /\ destination \in Places \cup {Nowhere}
        /\ UNCHANGED <<decided, killing, killed, served, accept>>
    BY <1>0, <1>2 DEF FollowWaypoints, CenterTypeOK
  <2> QED  BY <1>0, <2>1, NothingUnderWay, GoalSent
<1>3. ASSUME NEW place \in Places, DriveTo(place) PROVE CenterInv'
  BY <1>0, <1>3 DEF DriveTo
<1>4. CASE GoalResponse
  <2> DEFINE d == Head(decided)
  <2>1. /\ decided # <<>> /\ d \in Drives /\ d = decided[1] /\ Len(decided) = 1
        /\ decided' = <<>> /\ sent = <<>> /\ sent' = <<>>
    <3>1. decided # <<>> /\ decided' = Tail(decided) /\ sent' = sent
      BY <1>4 DEF GoalResponse
    <3>2. Len(decided) >= 1
      BY <1>t, <3>1, EmptySeq
    <3>3. Len(sent) \in Nat /\ Len(decided) \in Nat /\ Len(sent) + Len(decided) <= 1
      BY <1>t, <1>i
    <3>4. Len(decided) = 1 /\ Len(sent) = 0
      BY <3>2, <3>3
    <3> QED  BY <1>t, <3>1, <3>4, Taking, EmptySeq
  <2>2. /\ drives[d].state \in {"refused", "running", "reached", "failed"} /\ d \in Engaged
        /\ ~accept /\ killing = {} /\ killed = {}
    <3>1. 1 \in 1..Len(decided)
      BY <2>1
    <3>2. drives[decided[1]].state \in {"refused", "running", "reached", "failed"}
      BY <1>i, <3>1
    <3> QED  BY <1>i, <2>1, <3>2 DEF Engaged
  <2>3. /\ UNCHANGED <<served, destination, killing, killed, report>>
        /\ served = "follower" => held' = d
    BY <1>4 DEF GoalResponse, order
  <2>4. ReportIsSo'
    BY <1>i, <2>3 DEF ReportIsSo
  <2>5. CASE drives[d].state = "refused"
    <3>1. drives' = [drives EXCEPT ![d] = Idle]
      BY <1>4, <2>5 DEF GoalResponse
    <3>2. Engaged' = {}
      BY <1>t, <1>i, <2>1, <2>2, <3>1 DEF Engaged, Idle
    <3> QED  BY <2>1, <2>2, <2>3, <2>4, <3>2, NothingToKnow
  <2>6. CASE drives[d].state # "refused"
    <3>1. accept' /\ drives' = drives
      BY <1>4, <2>6 DEF GoalResponse
    <3>2. \A e \in InState({"running"}) : e = d
      BY <1>i, <2>2 DEF InState, Engaged
    <3>3. InState({"running"})' = InState({"running"}) /\ Engaged' = Engaged
      BY <3>1 DEF InState, Engaged
    <3>4. DriveIsKnown'
      BY <2>3, <3>1, <3>2, <3>3 DEF DriveIsKnown
    <3> HIDE DEF d
    <3> QED  BY <1>i, <2>1, <2>2, <2>3, <2>4, <3>1, <3>3, <3>4, EmptySeq DEF CenterInv
  <2> QED  BY <2>5, <2>6
<1>5. ASSUME NEW place \in Places, PrepareStart(place) PROVE CenterInv'
  <2>1. /\ served = "follower"
        /\ UNCHANGED <<served, accept, held, drives, sent, decided, killing, killed, report>>
    BY <1>5 DEF PrepareStart, lines
  <2>2. Engaged' = Engaged /\ InState({"running"})' = InState({"running"})
    BY <2>1 DEF Engaged, InState
  <2>3. DriveIsKnown' /\ ReportIsSo'
    BY <1>i, <2>1, <2>2 DEF DriveIsKnown, ReportIsSo
  <2> QED  BY <1>i, <2>1, <2>2, <2>3 DEF CenterInv
<1>6. CASE Kill
  <2>1. /\ served = "follower" /\ accept /\ killing' = killing \cup {held}
        /\ UNCHANGED <<served, accept, held, drives, sent, decided, killed, report>>
    BY <1>6 DEF Kill
  <2>2. sent = <<>> /\ decided = <<>>
    BY <1>i, <2>1
  <2>3. Engaged' = Engaged /\ InState({"running"})' = InState({"running"})
    BY <2>1 DEF Engaged, InState
  <2>4. DriveIsKnown' /\ ReportIsSo'
    BY <1>i, <2>1, <2>3 DEF DriveIsKnown, ReportIsSo
  <2>5. \A d \in InState({"running"}) : held = d
    BY <1>i, <2>1, <2>2, EmptySeq DEF DriveIsKnown
  <2> QED  BY <1>i, <2>1, <2>2, <2>3, <2>4, <2>5 DEF CenterInv
<1>7. ASSUME NEW d \in Drives, CancelDone(d) PROVE CenterInv'
  <2>1. /\ d \in killed /\ killed' = killed \ {d} /\ accept' = FALSE
        /\ UNCHANGED <<served, drives, sent, decided, killing, report>>
    BY <1>7 DEF CancelDone
  <2>2. sent = <<>> /\ decided = <<>> /\ served # "navigator" /\ InState({"running"}) = {}
    BY <1>i, <2>1
  <2>3. Engaged' = Engaged /\ InState({"running"})' = {}
    BY <2>1, <2>2 DEF Engaged, InState
  <2>4. DriveIsKnown' /\ ReportIsSo'
    BY <1>i, <2>1, <2>3 DEF DriveIsKnown, ReportIsSo
  <2> QED  BY <1>i, <2>1, <2>2, <2>3, <2>4 DEF CenterInv
<1>8. ASSUME NEW d \in Drives, NavigatorResult(d) PROVE CenterInv'
  <2>1. /\ Ended(d, {"reached", "failed"}) /\ served = "navigator"
        /\ UNCHANGED <<served, sent, decided, killing, killed>>
        /\ report' = report \/ (destination # Nowhere /\ Reported(destination, d))
    BY <1>8 DEF NavigatorResult, Ended, InState, lines
  <2>2. /\ sent = <<>> /\ decided = <<>> /\ Engaged' = {}
        /\ d \in Engaged /\ InState({"running", "stopping"}) = {}
    BY <1>0, <2>1, OnlyOne
  <2>3. ReportIsSo'
    <3>1. CASE report' = report
      BY <1>i, <3>1 DEF ReportIsSo
    <3>2. CASE Reported(destination, d)
      <4>1. drives[d].to = destination
        BY <1>i, <2>1, <2>2
      <4>2. report'.told = destination /\ report'.of = drives[d].to /\ report'.moving = FALSE
        BY <2>2, <3>2 DEF Reported
      <4> QED  BY <4>1, <4>2 DEF ReportIsSo
    <3> QED  BY <2>1, <3>1, <3>2
  <2> QED  BY <1>i, <2>1, <2>2, <2>3, NothingToKnow
<1>9. ASSUME NEW d \in Drives, FollowerResult(d) PROVE CenterInv'
  <2>1. /\ Ended(d, {"reached", "failed"}) /\ served = "follower"
        /\ UNCHANGED <<served, sent, decided, killing, killed>>
        /\ Reported("driving_done", d)
    BY <1>9 DEF FollowerResult, lines
  <2>2. /\ sent = <<>> /\ decided = <<>> /\ Engaged' = {}
        /\ InState({"running", "stopping"}) = {}
    BY <1>0, <2>1, OnlyOne
  <2>3. report'.told = "driving_done" /\ report'.of = drives[d].to /\ report'.moving = FALSE
    BY <2>1, <2>2 DEF Reported
  <2>4. ReportIsSo'
    BY <2>3, CenterAssumption DEF ReportIsSo
  <2> QED  BY <2>1, <2>2, <2>4, NothingToKnow
<1>10. CASE DecideDrive
  <2> DEFINE d == Head(sent)
  <2>1. /\ sent # <<>> /\ d \in Drives /\ d = sent[1]
        /\ sent' = <<>> /\ Len(sent') = 0 /\ decided' = <<d>> /\ Len(sent) = 1
    <3>1. sent # <<>> /\ sent' = Tail(sent) /\ decided' = Append(decided, d)
      BY <1>10 DEF DecideDrive
    <3>2. Len(sent) >= 1
      BY <1>t, <3>1, EmptySeq
    <3>3. Len(sent) \in Nat /\ Len(decided) \in Nat /\ Len(sent) + Len(decided) <= 1
      BY <1>t, <1>i
    <3>4. Len(sent) = 1 /\ Len(decided) = 0
      <4>1. \A m, n \in Nat : m + n <= 1 /\ m >= 1 => m = 1 /\ n = 0
        OBVIOUS
      <4> QED  BY <3>2, <3>3, <4>1
    <3>5. decided = <<>>
      BY <1>t, <3>4, EmptySeq
    <3>6. d \in Drives /\ d = sent[1] /\ sent' = <<>>
      BY <1>t, <3>1, <3>4, Taking
    <3> HIDE DEF d
    <3> QED  BY <3>1, <3>4, <3>5, <3>6
  <2>2. /\ drives[d].state = "asked" /\ d \in Engaged
        /\ ~accept /\ killing = {} /\ killed = {}
    <3>1. 1 \in 1..Len(sent)
      BY <2>1
    <3>2. drives[sent[1]].state = "asked"
      BY <1>i, <3>1
    <3> QED  BY <1>i, <2>1, <3>2 DEF Engaged
  <2>3. UNCHANGED <<served, accept, destination, killing, killed, report>>
    BY <1>10 DEF DecideDrive, order
  <2>4. \A e \in Drives : e # d => drives[e].state = "free"
    BY <1>i, <2>2 DEF Engaged
  <2>5. /\ \A e \in Drives : e # d => drives'[e].state = "free"
        /\ drives'[d].state \in {"refused", "running"} /\ drives'[d].to = drives[d].to
    <3>1. CASE drives' = [drives EXCEPT ![Head(sent)].state = "refused"]
      BY <1>t, <2>1, <2>4, <3>1 DEF DriveRecord
    <3>2. CASE drives' = [e \in Drives |->
                       [drives[e] EXCEPT !.state =
                           IF e = Head(sent) THEN "running"
                           ELSE IF drives[e].state \in {"running", "stopping"} THEN "failed" ELSE @]]
      BY <1>t, <2>1, <2>4, <3>2 DEF DriveRecord
    <3> QED  BY <1>10, <3>1, <3>2 DEF DecideDrive
  <2> HIDE DEF d
  <2>6. Engaged' = {d} /\ InState({"running"})' \subseteq {d}
    BY <2>1, <2>5 DEF Engaged, InState
  <2>7. Len(decided') = 1 /\ decided'[1] = d
    BY <2>1
  <2>8. ReportIsSo'
    BY <1>i, <2>3 DEF ReportIsSo
  <2>9. DriveIsKnown'
    BY <2>6, <2>7 DEF DriveIsKnown
  <2>10. \A i \in 1..Len(decided') : drives'[decided'[i]].state \in {"refused", "running", "reached", "failed"}
    BY <2>5, <2>7
  <2>11. \A i \in 1..Len(sent') : drives'[sent'[i]].state = "asked"
    BY <2>1
  <2>12. served' = "navigator" => \A e \in Engaged' : drives'[e].to = destination'
    BY <1>i, <2>2, <2>3, <2>5, <2>6
  <2> QED  BY <2>1, <2>2, <2>3, <2>6, <2>7, <2>8, <2>9, <2>10, <2>11, <2>12 DEF CenterInv
\* A goal that moves on to its end, or to a cancelled one.
<1>11. ASSUME NEW d \in Drives, NEW s \in {"reached", "failed", "stopping"},
              drives' = [drives EXCEPT ![d].state = s], d \in InState({"running", "stopping"}),
              s = "stopping" => decided = <<>>,
              UNCHANGED <<served, accept, destination, held, sent, decided, report>>,
              killing' \subseteq killing,
              killed' = killed \/ (served = "follower" /\ sent = <<>> /\ decided = <<>>)
       PROVE  CenterInv'
  <2>1. /\ \A e \in Drives : e # d => drives'[e] = drives[e]
        /\ drives'[d].state = s /\ drives'[d].to = drives[d].to
    BY <1>t, <1>11 DEF DriveRecord
  <2>2. d \in Engaged /\ \A e \in Drives : e # d => drives[e].state = "free"
    BY <1>i, <1>11 DEF Engaged, InState
  <2>3. Engaged' = {d} /\ InState({"running"})' = {}
    BY <1>11, <2>1, <2>2 DEF Engaged, InState
  <2>4. ReportIsSo' /\ DriveIsKnown'
    BY <1>i, <1>11, <2>3 DEF ReportIsSo, DriveIsKnown
  <2>5. \A i \in 1..Len(sent') : drives'[sent'[i]].state = "asked"
    <3> SUFFICES ASSUME NEW i \in 1..Len(sent) PROVE drives'[sent[i]].state = "asked"
      BY <1>11
    <3>1. sent[i] \in Drives /\ drives[sent[i]].state = "asked"
      BY <1>t, <1>i
    <3>2. drives[d].state # "asked"
      BY <1>11 DEF InState
    <3> QED  BY <2>1, <3>1, <3>2
  <2>6. \A i \in 1..Len(decided') :
           drives'[decided'[i]].state \in {"refused", "running", "reached", "failed"}
    <3> SUFFICES ASSUME NEW i \in 1..Len(decided)
                 PROVE  drives'[decided[i]].state \in {"refused", "running", "reached", "failed"}
      BY <1>11
    <3>1. /\ decided[i] \in Drives
          /\ drives[decided[i]].state \in {"refused", "running", "reached", "failed"}
      BY <1>t, <1>i
    <3>2. s # "stopping"
      BY <1>t, <1>11, EmptySeq
    <3> QED  BY <2>1, <3>1, <3>2
  <2>7. /\ sent # <<>> \/ decided # <<>> => killed' = {}
        /\ served = "navigator" => killing' = {} /\ killed' = {}
    BY <1>i, <1>11
  <2> QED  BY <1>i, <1>11, <2>1, <2>2, <2>3, <2>4, <2>5, <2>6, <2>7 DEF CenterInv
<1>12. ASSUME NEW d \in Drives, EndDrive(d) PROVE CenterInv'
  <2>1. UNCHANGED <<served, accept, destination, held, sent, decided, killing, killed, report>>
    BY <1>12 DEF EndDrive, order, lines
  <2>2. PICK s \in {"reached", "failed"} :
          drives' = [drives EXCEPT ![d].state = s] /\ d \in InState({"running", "stopping"})
    BY <1>12 DEF EndDrive, InState
  <2> QED  BY <1>11, <2>1, <2>2
<1>13. ASSUME NEW d \in Drives, TakeKill(d) PROVE CenterInv'
  <2>1. /\ d \in killing /\ killing' = killing \ {d} /\ killed' = killed \cup {d}
        /\ UNCHANGED <<served, accept, destination, held, sent, decided, report>>
    BY <1>13 DEF TakeKill, order
  <2>2. sent = <<>> /\ decided = <<>> /\ served # "navigator"
    BY <1>i, <2>1
  <2>3. served = "follower"
    BY <2>2 DEF CenterTypeOK
  <2>4. CASE d \in InState({"running"})
    <3>1. drives' = [drives EXCEPT ![d].state = "stopping"]
      BY <1>13, <2>4 DEF TakeKill
    <3>2. d \in InState({"running", "stopping"})
      BY <2>4 DEF InState
    <3> QED  BY <1>11, <2>1, <2>2, <2>3, <3>1, <3>2
  <2>5. CASE d \notin InState({"running"})
    <3>1. drives' = drives
      BY <1>13, <2>5 DEF TakeKill
    <3>2. InState({"running"}) = {}
      BY <1>i, <2>1, <2>5
    <3>3. Engaged' = Engaged /\ InState({"running"})' = {}
      BY <3>1, <3>2 DEF Engaged, InState
    <3>4. DriveIsKnown' /\ ReportIsSo'
      BY <1>i, <2>1, <3>3 DEF DriveIsKnown, ReportIsSo
    <3> QED  BY <1>i, <2>1, <2>2, <3>1, <3>3, <3>4 DEF CenterInv
  <2> QED  BY <2>4, <2>5
<1>14. CASE UNCHANGED centerVars
  <2>1. UNCHANGED <<served, accept, destination, held, drives, sent, decided, killing, killed, report>>
    BY <1>14 DEF centerVars
  <2>2. Engaged' = Engaged /\ InState({"running"})' = InState({"running"})
    BY <2>1 DEF Engaged, InState
  <2>3. DriveIsKnown' /\ ReportIsSo'
    BY <1>i, <2>1, <2>2 DEF DriveIsKnown, ReportIsSo
  <2> QED  BY <1>i, <2>1, <2>2, <2>3 DEF CenterInv
<1> QED
  BY <1>1, <1>2, <1>3, <1>4, <1>5, <1>6, <1>7, <1>8, <1>9, <1>10, <1>12, <1>13, <1>14 DEF CenterNext

LEMMA CenterStart == CenterInit => CenterTypeOK /\ CenterInv
<1> SUFFICES ASSUME CenterInit PROVE CenterTypeOK /\ CenterInv
  OBVIOUS
<1>1. CenterTypeOK
  BY IdleIsRecord, EmptySeq DEF CenterInit, CenterTypeOK, NoReport
<1>2. Engaged = {} /\ InState({"running"}) = {}
  BY DEF CenterInit, Engaged, InState, Idle
<1>3. report.told = "none" /\ report.moving = FALSE
  BY DEF CenterInit, NoReport
<1>4. ReportIsSo /\ DriveIsKnown
  BY <1>2, <1>3, CenterAssumption DEF ReportIsSo, DriveIsKnown
<1>5. Len(sent) = 0 /\ Len(decided) = 0
  BY EmptySeq DEF CenterInit
<1> QED  BY <1>1, <1>2, <1>4, <1>5 DEF CenterInit, CenterInv

\* A patient centre is told the truth by the node that drives for it, and knows of
\* the drive that goes on; whatever Nav2 answers and in whatever order.
THEOREM CenterStaysInCommand == CenterSpec => []CenterInCommand
<1>1. CenterInit => CenterTypeOK /\ CenterInv
  BY CenterStart
<1>2. CenterTypeOK /\ CenterInv /\ [CenterNext]_centerVars => (CenterTypeOK /\ CenterInv)'
  BY CenterTypeStep, CenterStep
<1>3. CenterTypeOK /\ CenterInv => CenterInCommand
  BY DEF CenterInv, CenterInCommand
<1> QED  BY <1>1, <1>2, <1>3, PTL DEF CenterSpec

-----------------------------------------------------------------------------
(***************************************************************************)
(* The speaker: a queue that loses its oldest command keeps its bound.     *)
(***************************************************************************)
SpeakerSpec == SpeakerInit /\ [][SpeakerNext]_speakerVars

LEMMA SpeakerTypeStep == SpeakerTypeOK /\ [SpeakerNext]_speakerVars => SpeakerTypeOK'
<1> SUFFICES ASSUME SpeakerTypeOK, [SpeakerNext]_speakerVars PROVE SpeakerTypeOK'
  OBVIOUS
<1>1. /\ speakerQueue \in Seq(SpeakerCommands) /\ Len(speakerQueue) \in Nat
      /\ Len(speakerQueue) <= SpeakerDepth /\ SpeakerDepth \in Nat /\ SpeakerDepth >= 1
  BY SpeakerAssumption, LenProperties DEF SpeakerTypeOK
<1>2. ASSUME NEW cmd \in SpeakerCommands, Command(cmd) PROVE SpeakerTypeOK'
  <2>1. CASE Len(speakerQueue) < SpeakerDepth
    <3>1. speakerQueue' = Append(speakerQueue, cmd)
      BY <1>2, <2>1 DEF Command
    <3>2. speakerQueue' \in Seq(SpeakerCommands) /\ Len(speakerQueue') <= SpeakerDepth
      BY <1>1, <2>1, <3>1, Adding
    <3> QED  BY <1>2, <3>2 DEF Command, SpeakerTypeOK
  <2>2. CASE ~(Len(speakerQueue) < SpeakerDepth)
    <3>1. speakerQueue' = Append(Tail(speakerQueue), cmd)
      BY <1>2, <2>2 DEF Command
    <3>2. speakerQueue # <<>>
      BY <1>1, <2>2, EmptySeq
    <3>3. /\ Tail(speakerQueue) \in Seq(SpeakerCommands)
          /\ Len(Tail(speakerQueue)) = Len(speakerQueue) - 1
      BY <1>1, <3>2, Taking
    <3>4. speakerQueue' \in Seq(SpeakerCommands) /\ Len(speakerQueue') <= SpeakerDepth
      BY <1>1, <3>1, <3>3, Adding
    <3> QED  BY <1>2, <3>4 DEF Command, SpeakerTypeOK
  <2> QED  BY <2>1, <2>2
<1>3. ASSUME NEW cmd \in SpeakerCommands, Handle(cmd)
      PROVE  /\ speakerQueue' \in Seq(SpeakerCommands) /\ Len(speakerQueue') <= SpeakerDepth
             /\ UNCHANGED <<voiceFile, newest>>
  <2>1. speakerQueue # <<>> /\ speakerQueue' = Tail(speakerQueue) /\ UNCHANGED <<voiceFile, newest>>
    BY <1>3 DEF Handle
  <2>2. speakerQueue' \in Seq(SpeakerCommands) /\ Len(speakerQueue') = Len(speakerQueue) - 1
    BY <1>1, <2>1, Taking
  <2> QED  BY <1>1, <2>1, <2>2
<1> USE DEF SpeakerTypeOK
<1>4. CASE TestEffect
  BY <1>3, <1>4 DEF TestEffect, SpeakerCommands
<1>5. CASE TestVoice
  <2>1. /\ sound' \in {"silent", "once", "loop"} /\ speaking' \in BOOLEAN
        /\ alarmRequested' = alarmRequested /\ Handle("test_voice")
    BY <1>5 DEF TestVoice
  <2> QED  BY <1>3, <2>1 DEF SpeakerCommands
<1>6. CASE AlarmOn
  BY <1>3, <1>6 DEF AlarmOn, SpeakerCommands
<1>7. CASE AlarmOff
  BY <1>3, <1>7 DEF AlarmOff, SpeakerCommands
<1>8. CASE VoiceOver \/ MonitorAlarm \/ SoundEnds
  BY <1>8 DEF VoiceOver, MonitorAlarm, SoundEnds
<1>9. CASE UNCHANGED speakerVars
  BY <1>9 DEF speakerVars
<1> QED  BY <1>2, <1>4, <1>5, <1>6, <1>7, <1>8, <1>9 DEF SpeakerNext, Executor

LEMMA SpeakerTypeInit == SpeakerInit => SpeakerTypeOK
<1> SUFFICES ASSUME SpeakerInit PROVE SpeakerTypeOK
  OBVIOUS
<1>1. speakerQueue \in Seq(SpeakerCommands) /\ Len(speakerQueue) = 0
  BY EmptySeq DEF SpeakerInit
<1>2. Len(speakerQueue) <= SpeakerDepth
  BY <1>1, SpeakerAssumption
<1>3. /\ voiceFile \in BOOLEAN /\ alarmRequested \in BOOLEAN /\ speaking \in BOOLEAN
      /\ newest = "none" /\ sound = "silent"
  BY DEF SpeakerInit
<1>4. {voiceFile, alarmRequested, speaking} \subseteq BOOLEAN
  BY <1>3
<1> QED  BY <1>1, <1>2, <1>3, <1>4 DEF SpeakerTypeOK

-----------------------------------------------------------------------------
(***************************************************************************)
(* All of the nodes: in a behaviour of the model-checked specification one *)
(* of them runs and the others stay as they start, so it is a behaviour of *)
(* each.                                                                   *)
(***************************************************************************)
LEMMA NodesByThemselves ==
  NodeSpec => NavSpec /\ CenterSpec /\ MarkerSpec /\ SpeakerSpec /\ ArmSpec
<1>1. NodeInit => NavInit /\ CenterInit /\ MarkerInit /\ SpeakerInit /\ ArmInit
  BY DEF NodeInit
<1>2. ASSUME NEW n \in {"navigator", "center", "marker", "speaker", "arm", "floor", "base"},
             Alone(n)
      PROVE  /\ n # "navigator" => UNCHANGED navVars
             /\ n # "center" => UNCHANGED centerVars
             /\ n # "marker" => UNCHANGED markerVars
             /\ n # "speaker" => UNCHANGED speakerVars
             /\ n # "arm" => UNCHANGED armVars
  BY <1>2, Zenon DEF Alone
<1>3. [NodeNext]_nodeVars => /\ [NavNext]_navVars /\ [CenterNext]_centerVars
                             /\ [MarkerNext]_markerVars /\ [SpeakerNext]_speakerVars
                             /\ [ArmNext]_armVars
  BY <1>2, Zenon DEF NodeNext, nodeVars
<1> QED  BY <1>1, <1>3, PTL DEF NodeSpec, NavSpec, CenterSpec, MarkerSpec, SpeakerSpec, ArmSpec

\* Every variable of the five nodes keeps its type, and the queue of the speaker its
\* bound, for any number of places, goals, motions and calls.
THEOREM PeripheralsTypeCorrect == NodeSpec => []PeripheralTypes
<1>1. NavSpec => []NavTypeOK
  BY NavTypeInit, NavTypeStep, PTL DEF NavSpec
<1>2. CenterSpec => []CenterTypeOK
  BY CenterStart, CenterTypeStep, PTL DEF CenterSpec
<1>3. MarkerSpec => []MarkerTypeOK
  <2>1. MotionInv => MarkerTypeOK
    BY DEF MotionInv
  <2> QED  BY <2>1, MotionInit, MotionStep, PTL DEF MarkerSpec
<1>4. SpeakerSpec => []SpeakerTypeOK
  BY SpeakerTypeInit, SpeakerTypeStep, PTL DEF SpeakerSpec
<1>5. ArmSpec => []ArmTypeOK
  BY ArmTypeInit, ArmTypeStep, PTL DEF ArmSpec
<1>6. NavTypeOK /\ CenterTypeOK /\ MarkerTypeOK /\ SpeakerTypeOK /\ ArmTypeOK
        => PeripheralTypes
  BY DEF PeripheralTypes
<1> QED  BY <1>1, <1>2, <1>3, <1>4, <1>5, <1>6, NodesByThemselves, PTL
=============================================================================
