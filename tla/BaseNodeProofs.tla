---------------------------- MODULE BaseNodeProofs ----------------------------
(***************************************************************************)
(* Theorems about BaseNode, for every range of positions and every number  *)
(* of exchanges that go wrong.                                             *)
(***************************************************************************)
EXTENDS BaseNode, SequenceTheorems, TLAPS

Half0 == [half : {1, 2}, pos : Positions]

\* Every half frame in a sequence carries position p.
AllOf(seq, p) == \A i \in 1..Len(seq) : seq[i].pos = p

-----------------------------------------------------------------------------
(* What an exchange does *)

\* The parts of an answer are halves of frames, at most two, all with its position.
LEMMA PartsOf ==
    ASSUME NEW p \in Positions, NEW part \in Parts(p)
    PROVE  part \in Seq(Half0) /\ AllOf(part, p) /\ Len(part) \in 0..2
<1>1. Half(1, p) \in Half0 /\ Half(2, p) \in Half0  BY DEF Half, Half0
<1>2. Half(1, p).pos = p /\ Half(2, p).pos = p      BY DEF Half
<1>3. CASE part = <<>>                              BY <1>3 DEF AllOf
<1>4. CASE part = <<Half(1, p)>>                    BY <1>1, <1>2, <1>4 DEF AllOf
<1>5. CASE part = <<Half(2, p)>>                    BY <1>1, <1>2, <1>5 DEF AllOf
<1>6. CASE part = Halves(p)                         BY <1>1, <1>2, <1>6 DEF AllOf, Halves
<1> QED  BY <1>3, <1>4, <1>5, <1>6 DEF Parts

LEMMA AllOfBoth ==
    ASSUME NEW a \in Seq(Half0), NEW b \in Seq(Half0), NEW p, AllOf(a, p), AllOf(b, p)
    PROVE  AllOf(a \o b, p)
BY DEF AllOf

\* What is left of a sequence without its first n elements.
LEMMA Remainder ==
    ASSUME NEW S, NEW seq \in Seq(S), NEW n \in 0..Len(seq)
    PROVE  /\ SubSeq(seq, n + 1, Len(seq)) \in Seq(S)
           /\ Len(SubSeq(seq, n + 1, Len(seq))) = Len(seq) - n
           /\ \A i \in 1..Len(seq) - n : SubSeq(seq, n + 1, Len(seq))[i] = seq[n + i]
<1>1. n + 1 \in Int /\ Len(seq) \in Int /\ \A i \in n + 1..Len(seq) : seq[i] \in S
  OBVIOUS
<1>2. /\ SubSeq(seq, n + 1, Len(seq)) \in Seq(S)
      /\ Len(SubSeq(seq, n + 1, Len(seq)))
           = IF n + 1 <= Len(seq) THEN Len(seq) - (n + 1) + 1 ELSE 0
      /\ \A i \in 1..Len(seq) - (n + 1) + 1 :
            SubSeq(seq, n + 1, Len(seq))[i] = seq[n + 1 + i - 1]
  BY <1>1, SubSeqProperties
<1>3. \A i \in 1..Len(seq) - n : n + 1 + i - 1 = n + i
  OBVIOUS
<1> QED  BY <1>2, <1>3

\* An exchange reads halves that were in the line or are of the present position,
\* and so are the halves it leaves.
LEMMA ExchangeReads ==
    ASSUME NEW command, Exchange(command), wheel \in Positions, pos \in Positions,
           line \in Seq(Half0)
    PROVE  /\ line' \in Seq(Half0) /\ pos' \in Positions
           /\ drive' \in {command, drive}
           /\ turning' = TRUE /\ wheel' = wheel
           /\ fresh' \in BOOLEAN
           /\ fresh' => pos' = wheel
           /\ AllOf(line, wheel) => AllOf(line', wheel) /\ pos' \in {pos, wheel}
<1> DEFINE H(early)  == line \o early
           N(early)  == IF Len(H(early)) < 2 THEN Len(H(early)) ELSE 2
           Rd(early) == SubSeq(H(early), 1, N(early))
<1>1. PICK early \in Parts(wheel), later \in Parts(wheel) :
          /\ drive' = command \/ UNCHANGED drive
          /\ line' = SubSeq(H(early), Len(Rd(early)) + 1, Len(H(early))) \o later
          /\ pos' = IF ValidFrame(Rd(early)) THEN Rd(early)[1].pos ELSE pos
          /\ fresh' = (early = Halves(wheel) /\ line = <<>>)
  BY DEF Exchange
<1> DEFINE here == H(early)
           n    == N(early)
           read == Rd(early)
<1>2. early \in Seq(Half0) /\ AllOf(early, wheel) /\ later \in Seq(Half0) /\ AllOf(later, wheel)
  BY PartsOf
<1>3. here \in Seq(Half0) /\ Len(here) = Len(line) + Len(early)
  BY <1>2
<1>4. n \in 0..2 /\ n <= Len(here)
  BY <1>3
<1>5. /\ read \in Seq(Half0) /\ Len(read) = n
      /\ \A i \in 1..n : read[i] = here[i]
  BY <1>3, <1>4
<1>6. ValidFrame(read) => n = 2 /\ read[1] = here[1] /\ here[1] \in Half0
  BY <1>3, <1>4, <1>5 DEF ValidFrame
<1> DEFINE rest == SubSeq(here, n + 1, Len(here))
<1>7. /\ rest \in Seq(Half0) /\ Len(rest) = Len(here) - n
      /\ \A i \in 1..Len(rest) : rest[i] = here[n + i]
  <2>1. n \in 0..Len(here)                       BY <1>3, <1>4
  <2> HIDE DEF here, n
  <2> QED  BY <2>1, <1>3, Remainder
<1>8. line' = rest \o later
  BY <1>1, <1>5
<1>9. line' \in Seq(Half0) /\ pos' \in Positions
  <2>1. rest \o later \in Seq(Half0)                     BY <1>2, <1>7
  <2>2. ValidFrame(read) => read[1].pos \in Positions   BY <1>6 DEF Half0
  <2> QED  BY <2>1, <2>2, <1>1, <1>8
<1>10. ASSUME early = Halves(wheel), line = <<>> PROVE pos' = wheel
  <2>1. here = Halves(wheel)           BY <1>10, <1>2
  <2>2. Len(here) = 2 /\ here[1] = Half(1, wheel) /\ here[2] = Half(2, wheel)
    BY <2>1 DEF Halves
  <2>3. n = 2 /\ read[1] = Half(1, wheel) /\ read[2] = Half(2, wheel)
    BY <2>2, <1>5
  <2>4. ValidFrame(read) /\ read[1].pos = wheel
    BY <2>3, <1>5 DEF ValidFrame, Half
  <2> QED  BY <2>4, <1>1
<1>11. ASSUME AllOf(line, wheel) PROVE AllOf(line', wheel) /\ pos' \in {pos, wheel}
  <2>1. \A i \in 1..Len(here) : here[i].pos = wheel
    BY <1>2, <1>3, <1>11 DEF AllOf
  <2>2. \A i \in 1..Len(rest) : rest[i].pos = wheel
    <3>1. \A i \in 1..Len(rest) : n + i \in 1..Len(here)
      <4>1. Len(here) \in Nat  BY <1>3
      <4>2. TAKE i \in 1..Len(rest)
      <4>3. i \in Nat /\ 1 <= i /\ i <= Len(here) - n  BY <4>1, <4>2, <1>4, <1>7
      <4> HIDE DEF here, n, rest
      <4> QED  BY <4>1, <4>3, <1>4
    <3> HIDE DEF here, n, rest
    <3> QED  BY <3>1, <2>1, <1>7
  <2>3. AllOf(line', wheel)
    <3>1. AllOf(rest, wheel)           BY <2>2 DEF AllOf
    <3>2. AllOf(rest \o later, wheel)  BY <3>1, <1>2, <1>7, AllOfBoth
    <3> QED  BY <3>2, <1>8
  <2>4. ValidFrame(read) => read[1].pos = wheel
    BY <2>1, <1>4, <1>6
  <2> QED  BY <2>3, <2>4, <1>1
<1>12. turning' = TRUE /\ wheel' = wheel
  BY DEF Exchange
<1>13. fresh' \in BOOLEAN /\ (fresh' => pos' = wheel)
  <2>1. CASE early = Halves(wheel) /\ line = <<>>      BY <2>1, <1>1, <1>10
  <2>2. CASE ~(early = Halves(wheel) /\ line = <<>>)   BY <2>2, <1>1
  <2> QED  BY <2>1, <2>2
<1>14. drive' \in {command, drive}
  BY <1>1
<1> QED  BY <1>9, <1>11, <1>12, <1>13, <1>14

-----------------------------------------------------------------------------
(* Type correctness *)

LEMMA PositionFacts == 0 \in Positions /\ Positions \subseteq Int
BY BaseAssumption DEF Positions

Commands == [kind : {"position", "velocity"}, to : Positions \cup {-1, 0, 1}]

LEMMA CommandTypes ==
    /\ \A p \in Positions : To(p) \in Commands
    /\ \A v \in {-1, 0, 1} : Vel(v) \in Commands
BY DEF To, Vel, Commands

LEMMA FaultsBounded ==
    ASSUME NEW command, Exchange(command), faults \in 0..MaxFaults
    PROVE  faults' \in 0..MaxFaults
<1>1. MaxFaults \in Nat  BY BaseAssumption
<1>2. faults' \in {faults, faults + 1} /\ faults' <= MaxFaults
  BY DEF Exchange
<1> QED  BY <1>1, <1>2

LEMMA VelocityType ==
    ASSUME NEW v \in {-1, 0, 1}, NEW s \in {-1, 0, 1}
    PROVE  v + Sign(s - v) \in {-1, 0, 1}
BY DEF Sign

\* The motor stays in range by its guard, the odometry is a difference of positions,
\* and an exchange tells nothing but positions.
LEMMA TypeStep == BaseTypeOK /\ [BaseNext]_baseVars => BaseTypeOK'
<1> SUFFICES ASSUME BaseTypeOK, [BaseNext]_baseVars PROVE BaseTypeOK'
  OBVIOUS
<1> USE DEF Commands, Half0
<1>1. /\ wheel \in Positions /\ pos \in Positions /\ line \in Seq(Half0)
      /\ faults \in 0..MaxFaults /\ drive \in Commands
  BY DEF BaseTypeOK
<1>2. ASSUME NEW command \in Commands, Exchange(command)
      PROVE  /\ wheel' \in Positions /\ pos' \in Positions /\ line' \in Seq(Half0)
             /\ faults' \in 0..MaxFaults /\ drive' \in Commands
             /\ turning' \in BOOLEAN /\ fresh' \in BOOLEAN
  BY <1>1, <1>2, ExchangeReads, FaultsBounded
<1>3. ASSUME NEW p \in Positions, NEW b \in Positions PROVE p - b \in -2 * Reach..2 * Reach
  BY BaseAssumption DEF Positions
<1>4. CASE FirstLoop
  <2>1. Vel(0) \in Commands  BY CommandTypes
  <2>2. Exchange(Vel(0))     BY <1>4 DEF FirstLoop
  <2>3. /\ wheel' \in Positions /\ pos' \in Positions /\ line' \in Seq(Half0)
        /\ faults' \in 0..MaxFaults /\ drive' \in Commands
        /\ turning' \in BOOLEAN /\ fresh' \in BOOLEAN
    BY <2>1, <2>2, <1>2
  <2> QED  BY <1>4, <2>3 DEF FirstLoop, BaseTypeOK
<1>5. CASE JoyLoop
  <2>1. vel' \in {-1, 0, 1}
    <3>1. vel \in {-1, 0, 1} /\ stick \in {-1, 0, 1}  BY DEF BaseTypeOK
    <3> QED  BY <3>1, <1>5, VelocityType DEF JoyLoop
  <2>2. PICK command \in Commands : Exchange(command)
    BY <2>1, <1>1, <1>5, CommandTypes DEF JoyLoop
  <2>3. /\ wheel' \in Positions /\ pos' \in Positions /\ line' \in Seq(Half0)
        /\ faults' \in 0..MaxFaults /\ drive' \in Commands
        /\ turning' \in BOOLEAN /\ fresh' \in BOOLEAN
    BY <2>2, <1>2
  <2>4. odom' \in -2 * Reach..2 * Reach
    BY <2>3, <1>3, <1>5 DEF JoyLoop, BaseTypeOK
  <2> QED  BY <1>5, <2>1, <2>3, <2>4 DEF JoyLoop, modeVars, BaseTypeOK
<1>6. CASE AutoLoop
  <2>1. To(target) \in Commands  BY CommandTypes DEF BaseTypeOK
  <2>2. Exchange(To(target))     BY <1>6 DEF AutoLoop
  <2>3. /\ wheel' \in Positions /\ pos' \in Positions /\ line' \in Seq(Half0)
        /\ faults' \in 0..MaxFaults /\ drive' \in Commands
        /\ turning' \in BOOLEAN /\ fresh' \in BOOLEAN
    BY <2>1, <2>2, <1>2
  <2>4. odom' \in -2 * Reach..2 * Reach
    BY <2>3, <1>3, <1>6 DEF AutoLoop, BaseTypeOK
  <2> QED  BY <1>6, <2>3, <2>4 DEF AutoLoop, modeVars, BaseTypeOK
<1>7. CASE CmdVelCallback
  BY <1>7 DEF CmdVelCallback, motorVars, BaseTypeOK
<1>8. CASE JoyCallback
  <2>1. stick' \in {-1, 0, 1}  BY <1>8, BaseAssumption DEF JoyCallback
  <2>2. /\ target' \in Positions /\ joy' \in BOOLEAN /\ armed' \in BOOLEAN
        /\ stop' \in BOOLEAN /\ greeted' \in BOOLEAN /\ asked' \in BOOLEAN
        /\ alive' \in BOOLEAN
    <3>1. PICK hand \in Hands :
             \/ JoyDies(hand)
             \/ /\ Toggle(hand) \/ KeepMode(hand)
                /\ stop' = ("stop" \in hand)
                /\ greeted' = TRUE
                /\ UNCHANGED alive
      BY <1>8 DEF JoyCallback
    <3>2. CASE JoyDies(hand)
      BY <3>2 DEF JoyDies, BaseTypeOK
    <3>3. ASSUME stop' = ("stop" \in hand), greeted' = TRUE, UNCHANGED alive
          PROVE  stop' \in BOOLEAN /\ greeted' \in BOOLEAN /\ alive' \in BOOLEAN
      BY <3>3 DEF BaseTypeOK
    <3>4. ASSUME Toggle(hand)
          PROVE  target' \in Positions /\ joy' \in BOOLEAN /\ armed' \in BOOLEAN /\ asked' \in BOOLEAN
      <4>1. joy' = ~joy /\ armed' = FALSE /\ asked' = TRUE /\ target' = pos  BY <3>4 DEF Toggle
      <4>2. joy' \in BOOLEAN  BY <4>1
      <4> QED  BY <4>1, <4>2, <1>1
    <3>5. ASSUME KeepMode(hand)
          PROVE  target' \in Positions /\ joy' \in BOOLEAN /\ armed' \in BOOLEAN /\ asked' \in BOOLEAN
      <4>1. armed' = (armed \/ {"l2", "r2"} \subseteq hand) /\ UNCHANGED <<target, joy, asked>>
        BY <3>5 DEF KeepMode
      <4>2. armed' \in BOOLEAN  BY <4>1
      <4> QED  BY <4>1, <4>2 DEF BaseTypeOK
    <3> QED  BY <3>1, <3>2, <3>3, <3>4, <3>5
  <2>3. UNCHANGED <<motorVars, line, faults, first, pos, base, odom, vel, start, fresh>>
    BY <1>8 DEF JoyCallback
  <2> QED  BY <2>1, <2>2, <2>3 DEF motorVars, BaseTypeOK
<1>9. CASE Motor
  <2>1. wheel' \in Positions /\ turning' \in BOOLEAN
    BY <1>9 DEF Motor
  <2>2. UNCHANGED <<drive, line, faults, alive, first, pos, base, odom, modeVars, vel, start, fresh>>
    BY <1>9 DEF Motor
  <2> QED  BY <2>1, <2>2 DEF modeVars, BaseTypeOK
<1>10. CASE UNCHANGED baseVars
  BY <1>10 DEF baseVars, motorVars, modeVars, BaseTypeOK
<1> QED  BY <1>4, <1>5, <1>6, <1>7, <1>8, <1>9, <1>10 DEF BaseNext, TimerCallback

\* Every variable of the base node, its line and its motor keeps its type.
THEOREM BaseTypeCorrect == BaseSpec => []BaseTypeOK
<1>1. BaseInit => BaseTypeOK
  <2>1. 0..Reach \subseteq Positions /\ 0 \in Positions /\ 0 \in -2 * Reach..2 * Reach
    BY BaseAssumption DEF Positions
  <2>2. 0 \in 0..MaxFaults  BY BaseAssumption
  <2> SUFFICES ASSUME BaseInit PROVE BaseTypeOK  OBVIOUS
  <2>3. drive \in Commands /\ line \in Seq(Half0)
    BY CommandTypes DEF BaseInit
  <2>4. /\ wheel \in Positions /\ pos \in Positions /\ base \in Positions
        /\ target \in Positions /\ start \in Positions /\ odom \in -2 * Reach..2 * Reach
        /\ faults \in 0..MaxFaults /\ stick \in {-1, 0, 1} /\ vel \in {-1, 0, 1}
    BY <2>1, <2>2 DEF BaseInit
  <2>5. /\ turning \in BOOLEAN /\ alive \in BOOLEAN /\ first \in BOOLEAN /\ joy \in BOOLEAN
        /\ armed \in BOOLEAN /\ asked \in BOOLEAN /\ fresh \in BOOLEAN
        /\ stop \in BOOLEAN /\ greeted \in BOOLEAN
    BY Zenon DEF BaseInit
  <2> QED  BY <2>3, <2>4, <2>5 DEF BaseTypeOK, Commands, Half0
<1> QED  BY <1>1, TypeStep, PTL DEF BaseSpec

-----------------------------------------------------------------------------
(* The base that nobody asks *)

\* Until somebody asks, the joystick is not in control and the odometry is at 0 when
\* the first loop begins; and while the node does not know a wrong origin, the wheel,
\* the frames under way, the position known and the target are all at the start, and
\* so is every command the controller may have.
UnaskedInv ==
    ~asked =>
        /\ ~joy
        /\ first => odom = 0
        /\ (first \/ base = start) =>
              /\ wheel = start /\ odom = 0
              /\ drive \in {Vel(0), To(start)}
              /\ AllOf(line, start)
              /\ ~first => target = start /\ pos = start

LEMMA UnaskedStep ==
    BaseTypeOK /\ BaseTypeOK' /\ UnaskedInv /\ [BaseNext]_baseVars => UnaskedInv'
<1> SUFFICES ASSUME BaseTypeOK, BaseTypeOK', UnaskedInv, [BaseNext]_baseVars, ~asked'
             PROVE  /\ ~joy'
                    /\ first' => odom' = 0
                    /\ (first' \/ base' = start') =>
                          /\ wheel' = start' /\ odom' = 0
                          /\ drive' \in {Vel(0), To(start')}
                          /\ AllOf(line', start')
                          /\ ~first' => target' = start' /\ pos' = start'
  BY DEF UnaskedInv
<1>1. /\ wheel \in Positions /\ pos \in Positions /\ line \in Seq(Half0)
      /\ base \in Positions /\ start \in Positions /\ asked \in BOOLEAN
  BY DEF BaseTypeOK, Half0
<1>2. ASSUME NEW command, Exchange(command)
      PROVE  /\ pos' \in Positions /\ drive' \in {command, drive} /\ wheel' = wheel
             /\ AllOf(line, wheel) => AllOf(line', wheel) /\ pos' \in {pos, wheel}
  BY <1>1, <1>2, ExchangeReads
<1>3. start - start = 0
  BY <1>1, PositionFacts
<1>4. CASE FirstLoop
  <2>1. first /\ ~first' /\ base' = pos' /\ target' = pos'
        /\ UNCHANGED <<odom, joy, asked, start>>
    BY <1>4 DEF FirstLoop
  <2>2. ~joy /\ odom = 0 /\ wheel = start /\ drive \in {Vel(0), To(start)} /\ AllOf(line, start)
    BY <2>1 DEF UnaskedInv
  <2>3. Exchange(Vel(0))
    BY <1>4 DEF FirstLoop
  <2>4. drive' \in {Vel(0), drive} /\ wheel' = wheel /\ AllOf(line', wheel)
    BY <2>2, <2>3, <1>2
  <2> QED  BY <2>1, <2>2, <2>4
<1>5. CASE JoyLoop
  BY <1>5 DEF JoyLoop, UnaskedInv, modeVars
<1>6. CASE AutoLoop
  <2>1. ~first /\ ~first' /\ odom' = pos' - base
        /\ UNCHANGED <<base, target, joy, asked, start>>
    BY <1>6 DEF AutoLoop, modeVars
  <2>2. ~joy'  BY <2>1 DEF UnaskedInv
  <2>3. ASSUME base' = start'
        PROVE  /\ wheel' = start' /\ odom' = 0
               /\ drive' \in {Vel(0), To(start')}
               /\ AllOf(line', start')
               /\ target' = start' /\ pos' = start'
    <3>1. /\ wheel = start /\ drive \in {Vel(0), To(start)} /\ AllOf(line, start)
          /\ target = start /\ pos = start
      BY <2>1, <2>3 DEF UnaskedInv
    <3>2. Exchange(To(target))  BY <1>6 DEF AutoLoop
    <3>3. /\ drive' \in {To(target), drive} /\ wheel' = wheel
          /\ AllOf(line', wheel) /\ pos' \in {pos, wheel}
      BY <3>1, <3>2, <1>2
    <3>4. odom' = 0  BY <2>1, <2>3, <3>1, <3>3, <1>3
    <3> QED  BY <2>1, <3>1, <3>3, <3>4
  <2> QED  BY <2>1, <2>2, <2>3
<1>7. CASE CmdVelCallback
  BY <1>7 DEF CmdVelCallback
<1>8. CASE JoyCallback
  <2>1. PICK hand \in Hands : JoyDies(hand) \/ Toggle(hand) \/ KeepMode(hand)
    BY <1>8 DEF JoyCallback
  <2>2. UNCHANGED <<target, joy, asked>>
    BY <2>1 DEF JoyDies, Toggle, KeepMode
  <2>3. UNCHANGED <<wheel, drive, line, first, pos, base, odom, start>>
    BY <1>8 DEF JoyCallback, motorVars
  <2> QED  BY <2>2, <2>3 DEF UnaskedInv
<1>9. CASE Motor
  <2>1. UNCHANGED <<drive, line, first, pos, base, odom, start, target, joy, asked>>
    BY <1>9 DEF Motor, modeVars
  <2>2. ASSUME wheel = start, drive \in {Vel(0), To(start)} PROVE wheel' = start
    <3>1. wheel' = wheel + Sign(IF drive.kind = "position" THEN drive.to - wheel ELSE drive.to)
      BY <1>9 DEF Motor
    <3>2. (IF drive.kind = "position" THEN drive.to - wheel ELSE drive.to) = 0
      BY <2>2, <1>3 DEF Vel, To
    <3>3. Sign(0) = 0 /\ wheel + 0 = wheel
      BY <1>1, PositionFacts DEF Sign
    <3> QED  BY <3>1, <3>2, <3>3, <2>2
  <2> QED  BY <2>1, <2>2 DEF UnaskedInv
<1>10. CASE UNCHANGED baseVars
  BY <1>10 DEF baseVars, motorVars, modeVars, UnaskedInv
<1> QED  BY <1>4, <1>5, <1>6, <1>7, <1>8, <1>9, <1>10 DEF BaseNext, TimerCallback

\* Whatever happens to the frames after the first exchange, a base that was asked
\* nothing stays where it was and reports no displacement.
THEOREM UnaskedStandsStill == BaseSpec => []UnaskedNeverMoves
<1>1. BaseInit => UnaskedInv
  BY EmptySeq DEF BaseInit, UnaskedInv, AllOf
<1>2. UnaskedInv => UnaskedNeverMoves
  BY DEF UnaskedInv, UnaskedNeverMoves
<1> QED  BY <1>1, <1>2, UnaskedStep, BaseTypeCorrect, PTL DEF BaseSpec

-----------------------------------------------------------------------------
(* The change of mode *)

\* Right after an exchange that read its own answer the node knows where the wheel
\* is; the wheel turns by at most a count before the next one.
FreshInv ==
    fresh => /\ pos - wheel \in -1..1
             /\ turning => pos = wheel

LEMMA FreshStep == BaseTypeOK /\ FreshInv /\ [BaseNext]_baseVars => FreshInv'
<1> SUFFICES ASSUME BaseTypeOK, FreshInv, [BaseNext]_baseVars, fresh'
             PROVE  pos' - wheel' \in -1..1 /\ (turning' => pos' = wheel')
  BY DEF FreshInv
<1>1. wheel \in Int /\ pos \in Int /\ wheel \in Positions /\ pos \in Positions
      /\ line \in Seq(Half0) /\ wheel - wheel \in -1..1
  <2>1. wheel \in Positions /\ pos \in Positions /\ line \in Seq(Half0)
    BY DEF BaseTypeOK, Half0
  <2>2. wheel \in Int /\ pos \in Int  BY <2>1, PositionFacts
  <2> QED  BY <2>1, <2>2
<1>2. CASE TimerCallback
  <2>1. PICK command : Exchange(command)
    BY <1>2 DEF TimerCallback, FirstLoop, JoyLoop, AutoLoop
  <2>2. pos' = wheel /\ wheel' = wheel
    BY <2>1, <1>1, ExchangeReads
  <2> QED  BY <2>2, <1>1
<1>3. CASE Motor
  <2>1. turning /\ ~turning' /\ UNCHANGED <<pos, fresh>>
        /\ wheel' = wheel + Sign(IF drive.kind = "position" THEN drive.to - wheel ELSE drive.to)
    BY <1>3 DEF Motor
  <2>2. pos = wheel  BY <2>1 DEF FreshInv
  <2>3. \A n : Sign(n) \in -1..1  BY DEF Sign
  <2>4. PICK turn \in -1..1 : wheel' = wheel + turn
    BY <2>1, <2>3
  <2> QED  BY <2>1, <2>2, <2>4, <1>1
<1>4. CASE CmdVelCallback \/ JoyCallback \/ UNCHANGED baseVars
  <2>1. UNCHANGED <<wheel, pos, turning, fresh>>
    BY <1>4 DEF CmdVelCallback, JoyCallback, baseVars, motorVars
  <2> QED  BY <2>1 DEF FreshInv
<1> QED  BY <1>2, <1>3, <1>4 DEF BaseNext

\* With feedback in time the joystick hands over a base that stays where it is.
THEOREM HandsOverInPlace == BaseSpec => TakesOverInPlace
<1>1. BaseInit => FreshInv
  BY DEF BaseInit, FreshInv
<1>2. BaseTypeOK /\ FreshInv /\ [BaseNext]_baseVars
        => [joy /\ ~joy' /\ fresh => target' - wheel \in -1..1]_baseVars
  <2> SUFFICES ASSUME BaseTypeOK, FreshInv, BaseNext, joy, ~joy', fresh
               PROVE  target' - wheel \in -1..1
    OBVIOUS
  <2>1. ~TimerCallback /\ ~CmdVelCallback /\ ~Motor
    BY DEF TimerCallback, FirstLoop, JoyLoop, AutoLoop, CmdVelCallback, Motor, modeVars
  <2>2. PICK hand \in Hands : Toggle(hand)
    BY <2>1 DEF BaseNext, JoyCallback, JoyDies, KeepMode
  <2>3. target' = pos  BY <2>2 DEF Toggle
  <2> QED  BY <2>3 DEF FreshInv
<1> QED  BY <1>1, <1>2, FreshStep, BaseTypeCorrect, PTL DEF BaseSpec, TakesOverInPlace
=============================================================================
