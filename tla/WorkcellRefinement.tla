------------------------- MODULE WorkcellRefinement -------------------------
(***************************************************************************)
(* What is under way between FSM and station, why the robot stands while   *)
(* the station works, and that Workcell implements Tour.                   *)
(*                                                                         *)
(* The line carries an alternating-bit protocol whose bit is the request   *)
(* itself.  With it, under the policy "stop" every step of the follower,   *)
(* the FSM, the bridge, the line and the station is a step of the tour, or *)
(* changes nothing of it.                                                  *)
(***************************************************************************)
EXTENDS WorkcellProofs

-----------------------------------------------------------------------------
(* Queues that hold messages of A, then messages of C *)

Within(q, A) == \A i \in 1..Len(q) : q[i] \in A

Turns(q, A, C) ==
    \E k \in 0..Len(q) : /\ \A i \in 1..k : q[i] \in A
                         /\ \A i \in (k + 1)..Len(q) : q[i] \in C

\* Two queues in a row: what leaves the second enters the first.
Pipeline(first, second, A, C) ==
    \/ Turns(first, A, C) /\ Within(second, C)
    \/ Within(first, A) /\ Turns(second, A, C)

LEMMA WithinEmpty == ASSUME NEW A PROVE Within(<<>>, A)
  <1>1. Len(<<>>) = 0
    BY EmptySeq
  <1> QED BY <1>1 DEF Within

LEMMA WithinTail ==
    ASSUME NEW S, NEW q \in Seq(S), q # <<>>, NEW A, Within(q, A)
    PROVE  Within(Tail(q), A) /\ Head(q) \in A
  <1>1. /\ Len(q) \in Nat /\ Len(q) >= 1 /\ Head(q) = q[1]
        /\ Len(Tail(q)) = Len(q) - 1 /\ \A i \in 1..Len(Tail(q)) : Tail(q)[i] = q[i + 1]
    BY HeadTailProperties
  <1> QED BY <1>1 DEF Within

LEMMA WithinAppend ==
    ASSUME NEW S, NEW q \in Seq(S), NEW m \in S, NEW A, Within(q, A), m \in A
    PROVE  Within(Append(q, m), A)
  <1>1. /\ Len(q) \in Nat /\ Len(Append(q, m)) = Len(q) + 1
        /\ \A i \in 1..Len(q) : Append(q, m)[i] = q[i]
        /\ Append(q, m)[Len(q) + 1] = m
    BY AppendProperties
  <1> QED BY <1>1 DEF Within

LEMMA WithinSubset ==
    ASSUME NEW q, NEW A, NEW B, Within(q, A), A \subseteq B
    PROVE  Within(q, B)
  BY DEF Within

LEMMA TurnsTail ==
    ASSUME NEW S, NEW q \in Seq(S), q # <<>>, NEW A, NEW C, Turns(q, A, C)
    PROVE  Turns(Tail(q), A, C)
  <1>1. /\ Len(q) \in Nat /\ Len(q) >= 1
        /\ Len(Tail(q)) = Len(q) - 1 /\ \A i \in 1..Len(Tail(q)) : Tail(q)[i] = q[i + 1]
    BY HeadTailProperties
  <1>2. PICK k \in 0..Len(q) : /\ \A i \in 1..k : q[i] \in A
                               /\ \A i \in (k + 1)..Len(q) : q[i] \in C
    BY DEF Turns
  <1>3. CASE k = 0
    <2>1. /\ 0 \in 0..Len(Tail(q))
          /\ \A i \in 1..0 : Tail(q)[i] \in A
          /\ \A i \in (0 + 1)..Len(Tail(q)) : Tail(q)[i] \in C
      BY <1>1, <1>2, <1>3
    <2> QED BY <2>1 DEF Turns
  <1>4. CASE k # 0
    <2>1. /\ k - 1 \in 0..Len(Tail(q))
          /\ \A i \in 1..(k - 1) : Tail(q)[i] \in A
          /\ \A i \in ((k - 1) + 1)..Len(Tail(q)) : Tail(q)[i] \in C
      BY <1>1, <1>2, <1>4
    <2> QED BY <2>1 DEF Turns
  <1> QED BY <1>3, <1>4

LEMMA TurnsAppend ==
    ASSUME NEW S, NEW q \in Seq(S), NEW m \in S, NEW A, NEW C, Turns(q, A, C), m \in C
    PROVE  Turns(Append(q, m), A, C)
  <1>1. /\ Len(q) \in Nat /\ Len(Append(q, m)) = Len(q) + 1
        /\ \A i \in 1..Len(q) : Append(q, m)[i] = q[i]
        /\ Append(q, m)[Len(q) + 1] = m
    BY AppendProperties
  <1>2. PICK k \in 0..Len(q) : /\ \A i \in 1..k : q[i] \in A
                               /\ \A i \in (k + 1)..Len(q) : q[i] \in C
    BY DEF Turns
  <1>3. /\ k \in 0..Len(Append(q, m))
        /\ \A i \in 1..k : Append(q, m)[i] \in A
        /\ \A i \in (k + 1)..Len(Append(q, m)) : Append(q, m)[i] \in C
    BY <1>1, <1>2
  <1> QED BY <1>3 DEF Turns

\* Messages of C only from the first that is not one of A.
LEMMA TurnsHead ==
    ASSUME NEW S, NEW q \in Seq(S), q # <<>>, NEW A, NEW C, Turns(q, A, C), Head(q) \notin A
    PROVE  Within(q, C)
  <1>1. Len(q) \in Nat /\ Len(q) >= 1 /\ Head(q) = q[1]
    BY HeadTailProperties
  <1>2. PICK k \in 0..Len(q) : /\ \A i \in 1..k : q[i] \in A
                               /\ \A i \in (k + 1)..Len(q) : q[i] \in C
    BY DEF Turns
  <1>3. k = 0
    BY <1>1, <1>2
  <1> QED BY <1>1, <1>2, <1>3 DEF Within

LEMMA WithinTurns ==
    ASSUME NEW S, NEW q \in Seq(S), NEW A, NEW C, Within(q, A) \/ Within(q, C)
    PROVE  Turns(q, A, C)
  <1>1. Len(q) \in Nat
    OBVIOUS
  <1>2. CASE Within(q, A)
    <2>1. /\ Len(q) \in 0..Len(q)
          /\ \A i \in 1..Len(q) : q[i] \in A
          /\ \A i \in (Len(q) + 1)..Len(q) : q[i] \in C
      BY <1>1, <1>2 DEF Within
    <2> QED BY <2>1 DEF Turns
  <1>3. CASE Within(q, C)
    <2>1. /\ 0 \in 0..Len(q)
          /\ \A i \in 1..0 : q[i] \in A
          /\ \A i \in (0 + 1)..Len(q) : q[i] \in C
      BY <1>1, <1>3 DEF Within
    <2> QED BY <2>1 DEF Turns
  <1> QED BY <1>2, <1>3

\* What a topic or the wire does to a queue that is handed a message.
Took(q, m, r) ==
    \/ r = Append(q, m)
    \/ r = q
    \/ q # <<>> /\ r = Append(Tail(q), m)

LEMMA PublishTook ==
    ASSUME NEW S, NEW q \in Seq(S), NEW m
    PROVE  Took(q, m, Publish(q, m))
  <1>1. CASE Len(q) < QueueDepth
    BY <1>1 DEF Publish, Took
  <1>2. CASE ~(Len(q) < QueueDepth)
    <2>1. q # <<>>
      BY <1>2, WorkcellAssumption, EmptySeq
    <2> QED BY <1>2, <2>1 DEF Publish, Took
  <1> QED BY <1>1, <1>2

LEMMA TransmitTook ==
    ASSUME NEW q, NEW m
    PROVE  Took(q, m, Transmit(q, m))
  BY DEF Transmit, Took

LEMMA WithinTook ==
    ASSUME NEW S, NEW q \in Seq(S), NEW m \in S, NEW A, Within(q, A), m \in A,
           NEW r, Took(q, m, r)
    PROVE  Within(r, A)
  <1>1. CASE r = Append(q, m)
    BY <1>1, WithinAppend
  <1>2. CASE q # <<>> /\ r = Append(Tail(q), m)
    <2>1. Within(Tail(q), A) /\ Tail(q) \in Seq(S)
      BY <1>2, WithinTail, HeadTailProperties
    <2> QED BY <1>2, <2>1, WithinAppend
  <1> QED BY <1>1, <1>2 DEF Took

LEMMA TurnsTook ==
    ASSUME NEW S, NEW q \in Seq(S), NEW m \in S, NEW A, NEW C, Turns(q, A, C), m \in C,
           NEW r, Took(q, m, r)
    PROVE  Turns(r, A, C)
  <1>1. CASE r = Append(q, m)
    BY <1>1, TurnsAppend
  <1>2. CASE q # <<>> /\ r = Append(Tail(q), m)
    <2>1. Turns(Tail(q), A, C) /\ Tail(q) \in Seq(S)
      BY <1>2, TurnsTail, HeadTailProperties
    <2> QED BY <1>2, <2>1, TurnsAppend
  <1> QED BY <1>1, <1>2 DEF Took

LEMMA PipelineTook ==
    ASSUME NEW S, NEW f \in Seq(S), NEW s \in Seq(S), NEW m \in S, NEW A, NEW C,
           Pipeline(f, s, A, C), m \in C, NEW r, Took(s, m, r)
    PROVE  Pipeline(f, r, A, C)
  BY WithinTook, TurnsTook DEF Pipeline

LEMMA PipelineTails ==
    ASSUME NEW S, NEW f \in Seq(S), NEW s \in Seq(S), NEW A, NEW C, Pipeline(f, s, A, C)
    PROVE  /\ f # <<>> => Pipeline(Tail(f), s, A, C)
           /\ s # <<>> => Pipeline(f, Tail(s), A, C)
  BY WithinTail, TurnsTail DEF Pipeline

\* The two queues from the first message on that is not one of A.
LEMMA PipelineHead ==
    ASSUME NEW S, NEW f \in Seq(S), NEW s \in Seq(S), NEW A, NEW C, Pipeline(f, s, A, C),
           f # <<>>, Head(f) \notin A
    PROVE  Within(f, C) /\ Within(s, C)
  BY WithinTail, TurnsHead DEF Pipeline

LEMMA PipelineMove ==
    ASSUME NEW S, NEW f \in Seq(S), NEW s \in Seq(S), NEW A, NEW C, Pipeline(f, s, A, C),
           s # <<>>, NEW r, Took(f, Head(s), r)
    PROVE  Pipeline(r, Tail(s), A, C)
  <1>1. Head(s) \in S /\ Tail(s) \in Seq(S)
    BY HeadTailProperties
  <1>2. ASSUME Turns(f, A, C), Within(s, C) PROVE Pipeline(r, Tail(s), A, C)
    <2>1. Within(Tail(s), C) /\ Head(s) \in C
      BY <1>2, WithinTail
    <2>2. Turns(r, A, C)
      BY <1>1, <1>2, <2>1, TurnsTook
    <2> QED BY <2>1, <2>2 DEF Pipeline
  <1>3. ASSUME Within(f, A), Turns(s, A, C) PROVE Pipeline(r, Tail(s), A, C)
    <2>1. CASE Head(s) \in A
      <3>1. Within(r, A)
        BY <1>1, <1>3, <2>1, WithinTook
      <3>2. Turns(Tail(s), A, C)
        BY <1>3, TurnsTail
      <3> QED BY <3>1, <3>2 DEF Pipeline
    <2>2. CASE Head(s) \notin A
      <3>1. Within(s, C)
        BY <1>3, <2>2, TurnsHead
      <3>2. Turns(f, A, C)
        BY <1>3, WithinTurns
      <3> QED BY <3>1, <3>2, <1>2
    <2> QED BY <2>1, <2>2
  <1> QED BY <1>2, <1>3 DEF Pipeline

-----------------------------------------------------------------------------
(* Requests that follow each other differ *)

\* r is the last request of the last visit, b the first pick done by then, i the
\* position the robot has come to.
EndsVisit(p, r, b, i) ==
    IF FirstPick(p) THEN b /\ r[2] = Pick
    ELSE \E j \in Served(p) : r = LastAskedAt(p, j) /\ Onward(p, j, i)

LEMMA RequestAt ==
    ASSUME NEW p \in Configurations, NEW name \in Waypoints, NEW b \in BOOLEAN,
           Requests(p, name, b) # <<>>
    PROVE  \E ws \in Stations :
              /\ TasksForWs(p, ws, b) # <<>>
              /\ Len(Requests(p, name, b)) = Len(TasksForWs(p, ws, b))
              /\ \A i \in 1..Len(Requests(p, name, b)) :
                    Requests(p, name, b)[i] = <<ws, TasksForWs(p, ws, b)[i]>>
  <1> DEFINE ws == WsOf(p, name)
             ts == TasksForWs(p, ws, b)
             R == Requests(p, name, b)
  <1>1. ws # None
    BY DEF Requests
  <1>2. ws \in Stations
    BY <1>1, ConfigFields DEF WsOf
  <1>3. ts \in Seq(Tasks)
    BY <1>2, TasksType
  <1>4. R = [i \in 1..Len(ts) |-> <<ws, ts[i]>>]
    BY <1>1 DEF Requests
  <1>5. R \in Seq(Request) /\ R # <<>>
    BY RequestsType
  <1> HIDE DEF ws, ts, R
  <1>6. DOMAIN R = 1..Len(ts) /\ \A i \in 1..Len(ts) : R[i] = <<ws, ts[i]>>
    BY <1>4
  <1>7. DOMAIN R = 1..Len(R) /\ Len(R) \in Nat /\ Len(ts) \in Nat
    BY <1>3, <1>5, LenProperties
  <1>8. Len(R) = Len(ts)
    BY <1>6, <1>7
  <1>9. ts # <<>>
    BY <1>5, <1>7, <1>8, EmptySeq
  <1> QED BY <1>2, <1>6, <1>8, <1>9 DEF ws, ts, R

LEMMA FirstPickTasks ==
    ASSUME NEW p, NEW ws, NEW b \in BOOLEAN, FirstPick(p)
    PROVE  /\ b => TasksForWs(p, ws, b) = <<Place, Pick>>
           /\ ~b => TasksForWs(p, ws, b) = <<Pick>>
  BY DEF TasksForWs

LEMMA ShortPlans ==
    /\ Len(<<Pick>>) = 1 /\ <<Pick>>[1] = Pick
    /\ Len(<<Place, Pick>>) = 2 /\ <<Place, Pick>>[1] = Place /\ <<Place, Pick>>[2] = Pick
  OBVIOUS

\* The policy ws_plan asks the same of a waypoint each time.
LEMMA EachVisitTheSame ==
    ASSUME NEW p, NEW name, NEW b, ~FirstPick(p)
    PROVE  Requests(p, name, b) = Requests(p, name, TRUE)
  BY DEF Requests, TasksForWs

\* Within a visit.
LEMMA NextRequestDiffers ==
    ASSUME NEW p \in Configurations, NEW j \in 1..Len(p.tour), Visitable(p, p.tour[j]),
           NEW b \in BOOLEAN, Telling(p), Requests(p, p.tour[j], b) # <<>>,
           NEW i \in 1..Len(Requests(p, p.tour[j], b)), i # Len(Requests(p, p.tour[j], b))
    PROVE  Requests(p, p.tour[j], b)[i + 1] # Requests(p, p.tour[j], b)[i]
  <1> DEFINE R == Requests(p, p.tour[j], b)
  <1>0. p.tour[j] \in Waypoints
    BY ConfigFields
  <1>1. R \in Seq(Request) /\ Len(R) \in Nat
    BY <1>0, RequestsType
  <1>2. CASE FirstPick(p)
    <2>1. PICK ws \in Stations :
                /\ Len(R) = Len(TasksForWs(p, ws, b))
                /\ \A k \in 1..Len(R) : R[k] = <<ws, TasksForWs(p, ws, b)[k]>>
      BY <1>0, RequestAt
    <2> DEFINE ts == TasksForWs(p, ws, b)
    <2>2. ts = <<Place, Pick>> \/ ts = <<Pick>>
      BY <1>2, FirstPickTasks
    <2> HIDE DEF R, ts
    <2>3. i \in 1..Len(R) /\ i # Len(R)
      BY DEF R
    <2>4. CASE ts = <<Pick>>
      BY <2>1, <2>3, <2>4, ShortPlans DEF ts
    <2>5. CASE ts = <<Place, Pick>>
      <3>1. i = 1 /\ Len(R) = 2
        BY <2>1, <2>3, <2>5, ShortPlans DEF ts
      <3>2. R[1] = <<ws, Place>> /\ R[2] = <<ws, Pick>>
        BY <2>1, <2>5, <3>1, ShortPlans DEF ts
      <3>3. R[i + 1] # R[i]
        BY <3>1, <3>2, WorkPlanAssumption
      <3> QED BY <3>3 DEF R
    <2> QED BY <2>2, <2>4, <2>5
  <1>3. CASE ~FirstPick(p)
    <2>1. R = AskedAt(p, j) /\ j \in Served(p)
      BY <1>3, EachVisitTheSame DEF AskedAt, Served
    <2>2. \A k \in 1..(Len(AskedAt(p, j)) - 1) : AskedAt(p, j)[k + 1] # AskedAt(p, j)[k]
      BY <1>3, <2>1 DEF Telling
    <2> HIDE DEF R
    <2>3. i \in 1..(Len(R) - 1)
      BY <1>1 DEF R
    <2>4. R[i + 1] # R[i]
      BY <2>1, <2>2, <2>3
    <2> QED BY <2>4 DEF R
  <1> QED BY <1>2, <1>3

\* From a visit to the next one.
LEMMA FirstRequestDiffers ==
    ASSUME NEW p \in Configurations, NEW i \in 1..Len(p.tour), Visitable(p, p.tour[i]),
           NEW b \in BOOLEAN, Telling(p), Requests(p, p.tour[i], b) # <<>>,
           NEW r \in Request, EndsVisit(p, r, b, i)
    PROVE  Requests(p, p.tour[i], b)[1] # r
  <1>0. p.tour[i] \in Waypoints
    BY ConfigFields
  <1>1. CASE FirstPick(p)
    <2>1. b /\ r[2] = Pick
      BY <1>1 DEF EndsVisit
    <2>2. PICK ws \in Stations :
                /\ Len(Requests(p, p.tour[i], b)) = Len(TasksForWs(p, ws, b))
                /\ \A k \in 1..Len(Requests(p, p.tour[i], b)) :
                      Requests(p, p.tour[i], b)[k] = <<ws, TasksForWs(p, ws, b)[k]>>
      BY <1>0, RequestAt
    <2>3. TasksForWs(p, ws, b) = <<Place, Pick>>
      BY <1>1, <2>1, FirstPickTasks
    <2>4. Requests(p, p.tour[i], b)[1] = <<ws, Place>>
      BY <2>2, <2>3, ShortPlans
    <2>5. Requests(p, p.tour[i], b)[1][2] = Place
      BY <2>4
    <2> QED BY <2>1, <2>5, WorkPlanAssumption
  <1>2. CASE ~FirstPick(p)
    <2>1. PICK j \in Served(p) : r = LastAskedAt(p, j) /\ Onward(p, j, i)
      BY <1>2 DEF EndsVisit
    <2>2. Requests(p, p.tour[i], b) = AskedAt(p, i) /\ i \in Served(p)
      BY <1>2, EachVisitTheSame DEF AskedAt, Served
    <2> QED BY <1>2, <2>1, <2>2 DEF Telling
  <1> QED BY <1>1, <1>2

\* What the last request of a visit says of it.
LEMMA LastRequest ==
    ASSUME NEW p \in Configurations, NEW j \in 1..Len(p.tour), Visitable(p, p.tour[j]),
           NEW b \in BOOLEAN, Requests(p, p.tour[j], b) # <<>>
    PROVE  EndsVisit(p, Requests(p, p.tour[j], b)[Len(Requests(p, p.tour[j], b))],
                     b \/ FirstPick(p), j + 1)
  <1> DEFINE R == Requests(p, p.tour[j], b)
  <1>0. p.tour[j] \in Waypoints
    BY ConfigFields
  <1>1. CASE FirstPick(p)
    <2>1. PICK ws \in Stations :
                /\ TasksForWs(p, ws, b) # <<>>
                /\ Len(R) = Len(TasksForWs(p, ws, b))
                /\ \A k \in 1..Len(R) : R[k] = <<ws, TasksForWs(p, ws, b)[k]>>
      BY <1>0, RequestAt
    <2>2. TasksForWs(p, ws, b) = <<Place, Pick>> \/ TasksForWs(p, ws, b) = <<Pick>>
      BY <1>1, FirstPickTasks
    <2> HIDE DEF R
    <2>3. R[Len(R)] = <<ws, Pick>>
      BY <2>1, <2>2, ShortPlans
    <2>4. EndsVisit(p, R[Len(R)], b \/ FirstPick(p), j + 1)
      BY <1>1, <2>3 DEF EndsVisit
    <2> QED BY <2>4 DEF R
  <1>2. CASE ~FirstPick(p)
    <2>1. R = AskedAt(p, j) /\ j \in Served(p)
      BY <1>2, EachVisitTheSame DEF AskedAt, Served
    <2>2. Onward(p, j, j + 1)
      <3>1. j < j + 1 /\ Between(p, j, j + 1) = {}
        BY DEF Between
      <3> QED BY <3>1 DEF Onward
    <2> HIDE DEF R
    <2>3. R[Len(R)] = LastAskedAt(p, j)
      BY <2>1 DEF LastAskedAt
    <2>4. EndsVisit(p, R[Len(R)], b \/ FirstPick(p), j + 1)
      BY <1>2, <2>1, <2>2, <2>3 DEF EndsVisit
    <2> QED BY <2>4 DEF R
  <1> QED BY <1>1, <1>2

-----------------------------------------------------------------------------
(* On along the tour *)

\* The next position is the first listed one from i on; at the end of the tour
\* none is, or the tour starts again.
LEMMA NextStopSkips ==
    ASSUME NEW p \in Configurations, NEW i \in 1..(Len(p.tour) + 1),
           NEW n, n = NextStop(p, i)
    PROVE  /\ n \in 1..(Len(p.tour) + 1)
           /\ n <= Len(p.tour) => Visitable(p, p.tour[n])
           /\ \/ n >= i /\ \A k \in i..(n - 1) : ~Visitable(p, p.tour[k])
              \/ /\ p.repeat = "at once" /\ n <= Len(p.tour)
                 /\ \A k \in i..Len(p.tour) : ~Visitable(p, p.tour[k])
                 /\ \A k \in 1..(n - 1) : ~Visitable(p, p.tour[k])
  <1> DEFINE m == Len(p.tour)
  <1>1. m \in Nat /\ i \in Nat /\ i >= 1 /\ i <= m + 1
    <2>1. m \in Nat
      BY ConfigFields
    <2> QED BY <2>1
  <1>2. ASSUME NEW k \in Nat, k >= 1, StopsFrom(p, k) # {}
        PROVE  /\ Earliest(StopsFrom(p, k)) \in StopsFrom(p, k)
               /\ \A l \in k..(Earliest(StopsFrom(p, k)) - 1) : ~Visitable(p, p.tour[l])
    <2>1. StopsFrom(p, k) \in SUBSET Nat /\ StopsFrom(p, k) \subseteq k..m
      BY <1>1, <1>2 DEF StopsFrom
    <2>2. \E j \in StopsFrom(p, k) : \A l \in StopsFrom(p, k) : j <= l
      BY <2>1, <1>2, LeastNatural
    <2>3. /\ Earliest(StopsFrom(p, k)) \in StopsFrom(p, k)
          /\ \A l \in StopsFrom(p, k) : Earliest(StopsFrom(p, k)) <= l
      BY <2>2 DEF Earliest
    <2>4. ASSUME NEW l \in k..(Earliest(StopsFrom(p, k)) - 1) PROVE ~Visitable(p, p.tour[l])
      <3>1. Earliest(StopsFrom(p, k)) \in k..m
        BY <2>1, <2>3
      <3>2. l \in k..m /\ ~(Earliest(StopsFrom(p, k)) <= l)
        BY <1>1, <3>1
      <3> QED BY <2>3, <3>2 DEF StopsFrom
    <2> QED BY <2>3, <2>4
  <1>3. CASE StopsFrom(p, i) # {}
    <2>1. n = Earliest(StopsFrom(p, i)) /\ i \in Nat /\ i >= 1
      BY <1>3 DEF NextStop
    <2>2. n \in StopsFrom(p, i) /\ \A k \in i..(n - 1) : ~Visitable(p, p.tour[k])
      BY <1>2, <1>3, <2>1
    <2>3. n \in i..m /\ Visitable(p, p.tour[n])
      BY <2>2 DEF StopsFrom
    <2> HIDE DEF m
    <2>4. n \in 1..(m + 1) /\ n >= i
      BY <1>1, <2>3
    <2> QED BY <2>2, <2>3, <2>4 DEF m
  <1>4. CASE StopsFrom(p, i) = {} /\ p.repeat = "at once"
    <2>1. StopsFrom(p, 1) # {}
      BY ConfigFields DEF StopsFrom, Visitable
    <2>2. n = Earliest(StopsFrom(p, 1))
      BY <1>4 DEF NextStop, Wraps
    <2>3. n \in StopsFrom(p, 1) /\ \A k \in 1..(n - 1) : ~Visitable(p, p.tour[k])
      BY <1>2, <2>1, <2>2
    <2>4. n \in 1..m /\ Visitable(p, p.tour[n])
      BY <2>3 DEF StopsFrom
    <2>5. \A k \in i..m : ~Visitable(p, p.tour[k])
      BY <1>4 DEF StopsFrom
    <2> HIDE DEF m
    <2>6. n \in 1..(m + 1) /\ n <= m
      BY <1>1, <2>4
    <2> QED BY <1>4, <2>3, <2>4, <2>5, <2>6 DEF m
  <1>5. CASE StopsFrom(p, i) = {} /\ p.repeat # "at once"
    <2>1. n = m + 1
      BY <1>5 DEF NextStop, Wraps
    <2>2. \A k \in i..m : ~Visitable(p, p.tour[k])
      BY <1>5 DEF StopsFrom
    <2> HIDE DEF m
    <2>3. n \in 1..(m + 1) /\ n >= i /\ ~(n <= m) /\ i..(n - 1) = i..m
      BY <1>1, <2>1
    <2> QED BY <2>2, <2>3 DEF m
  <1> QED BY <1>3, <1>4, <1>5

\* Past a position without requests.
LEMMA OnwardPast ==
    ASSUME NEW p \in Configurations, NEW j \in Served(p), NEW i \in 1..Len(p.tour),
           i \notin Served(p), Onward(p, j, i)
    PROVE  Onward(p, j, i + 1)
  <1>0. Len(p.tour) \in Nat
    BY ConfigFields
  <1>1. j \in 1..Len(p.tour) /\ Len(p.tour) \in Nat /\ j # i
    BY <1>0 DEF Served
  <1>2. Between(p, j, i + 1) = Between(p, j, i) \cup {i}
    BY <1>1 DEF Between
  <1>3. j < i + 1 \/ p.repeat # "no"
    BY <1>1 DEF Onward
  <1> QED BY <1>2, <1>3 DEF Onward

\* On to the next stop.
LEMMA OnwardNext ==
    ASSUME NEW p \in Configurations, NEW j \in Served(p), NEW i \in 1..(Len(p.tour) + 1),
           p.continueOnMiss \/ Onward(p, j, i), j < i \/ p.repeat # "no"
    PROVE  Onward(p, j, NextStop(p, i))
  <1> DEFINE n == NextStop(p, i)
             m == Len(p.tour)
             Listed(k) == Visitable(p, p.tour[k])
  <1>0. m \in Nat
    BY ConfigFields
  <1>1. /\ j \in 1..m /\ i \in 1..(m + 1) /\ Listed(j)
        /\ \A k \in Served(p) : k \in 1..m /\ Listed(k)
    BY <1>0 DEF Served
  <1>2. /\ n \in 1..(m + 1)
        /\ \/ n >= i /\ \A k \in i..(n - 1) : ~Listed(k)
           \/ /\ p.repeat = "at once" /\ n <= m
              /\ \A k \in i..m : ~Listed(k)
              /\ \A k \in 1..(n - 1) : ~Listed(k)
    BY NextStopSkips
  <1> HIDE DEF n, m, Listed
  <1>10. j \in 1..m
    BY <1>1
  <1>11. i \in 1..(m + 1)
    BY <1>1
  <1>12. n \in 1..(m + 1)
    BY <1>2
  <1>20. j \in Nat /\ 1 <= j /\ j <= m
    BY <1>0, <1>10
  <1>21. i \in Nat /\ 1 <= i /\ i <= m + 1
    BY <1>0, <1>11
  <1>22. n \in Nat /\ 1 <= n /\ n <= m + 1
    BY <1>0, <1>12
  <1>3. ASSUME ~p.continueOnMiss, NEW k \in Between(p, j, n), k \in Served(p)
        PROVE  k \in Between(p, j, i)
    <2>1. k \in 1..m /\ Listed(k)
      BY <1>1, <1>3
    <2>2. k \in IF j < n THEN (j + 1)..(n - 1) ELSE (j + 1)..m \cup 1..(n - 1)
      BY <1>3 DEF Between, m
    <2>3. /\ m \in Nat /\ i \in Nat /\ j \in Nat /\ k \in Nat /\ n \in Nat
          /\ 1 <= i /\ 1 <= j /\ 1 <= k /\ 1 <= n /\ i <= m + 1 /\ j <= m /\ k <= m
      <3>1. k \in 1..m
        BY <2>1
      <3>2. k \in Nat /\ 1 <= k /\ k <= m
        BY <1>0, <3>1
      <3> QED BY <1>0, <1>20, <1>21, <1>22, <3>2
    <2>4. IF j < n THEN j < k /\ k < n ELSE j < k \/ k < n
      <3>1. CASE j < n
        <4>1. k \in (j + 1)..(n - 1)
          BY <2>2, <3>1
        <4> QED BY <2>3, <3>1, <4>1
      <3>2. CASE ~(j < n)
        <4>1. k \in (j + 1)..m \/ k \in 1..(n - 1)
          BY <2>2, <3>2
        <4> QED BY <2>3, <3>2, <4>1
      <3> QED BY <3>1, <3>2
    <2>5. IF j < i THEN j < k /\ k < i ELSE j < k \/ k < i
      <3>1. CASE n >= i /\ \A l \in i..(n - 1) : ~Listed(l)
        <4>1. ~(k \in i..(n - 1)) /\ ~(j \in i..(n - 1))
          BY <1>1, <2>1, <3>1
        <4>2. (k < i \/ k >= n) /\ (j < i \/ j >= n) /\ n >= i
          BY <2>3, <3>1, <4>1
        <4> QED BY <2>3, <2>4, <4>2
      <3>2. CASE n <= m /\ (\A l \in i..m : ~Listed(l)) /\ (\A l \in 1..(n - 1) : ~Listed(l))
        <4>1. /\ ~(k \in i..m) /\ ~(j \in i..m)
              /\ ~(k \in 1..(n - 1)) /\ ~(j \in 1..(n - 1))
          BY <1>1, <2>1, <3>2
        <4>2. k < i /\ j < i /\ k >= n /\ j >= n
          BY <2>3, <4>1
        <4> QED BY <2>3, <2>4, <4>2
      <3> QED BY <1>2, <3>1, <3>2
    <2>6. k \in IF j < i THEN (j + 1)..(i - 1) ELSE (j + 1)..m \cup 1..(i - 1)
      <3>1. CASE j < i
        <4>1. k \in (j + 1)..(i - 1)
          BY <2>3, <2>5, <3>1
        <4> QED BY <3>1, <4>1
      <3>2. CASE ~(j < i)
        <4>1. k \in (j + 1)..m \/ k \in 1..(i - 1)
          BY <2>3, <2>5, <3>2
        <4> QED BY <3>2, <4>1
      <3> QED BY <3>1, <3>2
    <2> QED BY <2>6 DEF Between, m
  <1>4. j < n \/ p.repeat # "no"
    <2>1. n >= i \/ p.repeat # "no"
      BY <1>2
    <2> QED BY <1>20, <1>21, <1>22, <2>1
  <1>5. p.continueOnMiss \/ Between(p, j, n) \cap Served(p) = {}
    BY <1>3 DEF Onward
  <1> QED BY <1>4, <1>5 DEF Onward, n

\* From the end of the tour to its first stop.
LEMMA OnwardAgain ==
    ASSUME NEW p \in Configurations, NEW j \in Served(p), p.repeat # "no",
           Onward(p, j, Len(p.tour) + 1)
    PROVE  Onward(p, j, NextStop(p, 1))
  <1> DEFINE n == NextStop(p, 1)
             m == Len(p.tour)
  <1>1. j \in 1..m /\ Visitable(p, p.tour[j]) /\ m \in Nat
    BY ConfigFields DEF Served
  <1>2. /\ n \in 1..(m + 1) /\ n <= m
        /\ \A k \in 1..(n - 1) : ~Visitable(p, p.tour[k])
    <2>1. 1 \in 1..(m + 1) /\ n <= m
      BY <1>1, FirstStop
    <2>2. /\ n \in 1..(m + 1)
          /\ \/ n >= 1 /\ \A k \in 1..(n - 1) : ~Visitable(p, p.tour[k])
             \/ \A k \in 1..(n - 1) : ~Visitable(p, p.tour[k])
      BY <2>1, NextStopSkips
    <2> QED BY <2>1, <2>2
  <1> HIDE DEF n, m
  <1>3. ~(j < n)
    BY <1>1, <1>2
  <1>4. ASSUME ~p.continueOnMiss, NEW k \in Between(p, j, n) PROVE k \notin Served(p)
    <2>1. Between(p, j, m + 1) \cap Served(p) = {}
      BY <1>4 DEF Onward, m
    <2>2. CASE k \in (j + 1)..m
      BY <1>1, <2>1, <2>2 DEF Between, m
    <2>3. CASE k \in 1..(n - 1)
      BY <1>2, <2>3 DEF Served
    <2> QED BY <1>3, <1>4, <2>2, <2>3 DEF Between, m
  <1>5. Onward(p, j, n)
    BY <1>4 DEF Onward
  <1> QED BY <1>5 DEF n

-----------------------------------------------------------------------------
(* What is under way between the FSM and the station *)

\* The first position a visit of which may still begin.
Ahead == IF dones = <<>> THEN index ELSE index + 1

\* Where the last request was made, and that the robot goes to listed stops only.
LastVisit ==
    /\ awaiting \/ nav # "idle" => Visitable(param, Name)
    /\ wp = None /\ last # None => EndsVisit(param, last, picked, Ahead)

\* A confirmation of nothing but r; of anything but r.  A FAIL is both.
Confirm(r) == {m \in Reply : m.type = "DONE" => m.request = r}
Others(r)  == {m \in Reply : m.type = "DONE" => m.request # r}

\* Between two visits: remains of the last request.
Quiet ==
    /\ busy = None
    /\ Within(line, {last}) /\ Within(tx, {last})
    /\ Within(rx, Confirm(last)) /\ Within(back, Confirm(last))

\* The current request is not performed: behind remains of the last one.
Asked ==
    /\ busy \in {None, Current}
    /\ Pipeline(line, tx, {last}, {Current})
    /\ busy = Current => Within(line, {Current}) /\ Within(tx, {Current})
    /\ Within(rx, Confirm(last)) /\ Within(back, Confirm(last))

\* It is performed: its confirmations come behind all others.
Answered ==
    /\ busy = None
    /\ Within(line, {Current}) /\ Within(tx, {Current})
    /\ Pipeline(rx, back, Others(Current), Confirm(Current))

Channel ==
    /\ wp = None => Quiet
    /\ wp # None /\ last # Current => Asked
    /\ wp # None /\ last = Current => Answered

LEMMA ConfirmNotOthers ==
    ASSUME NEW r
    PROVE  /\ Replied("DONE", r) \notin Others(r)
           /\ r \in Request => Replied("DONE", r) \in Confirm(r)
           /\ r \in Request => Replied("FAIL", r) \in Confirm(r)
           /\ \A s : s # r => Confirm(s) \subseteq Others(r)
           /\ \A s : r \in Request => Replied("FAIL", r) \in Confirm(s) /\ Replied("FAIL", r) \in Others(s)
  BY DEF Replied, Reply, Confirm, Others

\* The visit is that of a listed position.
LEMMA VisitPosition ==
    ASSUME TypeInv, OneHand, LastVisit, awaiting
    PROVE  index \in 1..Len(param.tour) /\ Visitable(param, param.tour[index])
  <1>1. index \in Nat /\ index >= 1 /\ Len(param.tour) \in Nat /\ index <= Len(param.tour)
    BY TypeFacts DEF TypeInv, FollowerOK
  <1> QED BY <1>1 DEF LastVisit, Name

LEMMA NextTaskDiffers ==
    ASSUME TypeInv, OneHand, LastVisit, Telling(param), wp # None, task # Len(tasks)
    PROVE  tasks[task + 1] # tasks[task]
  <1>1. awaiting /\ wp = param.tour[index]
    BY DEF OneHand, Name
  <1>2. tasks = Requests(param, param.tour[index], picked) /\ task \in 1..Len(tasks)
    BY <1>1 DEF TypeInv, VisitOK
  <1>3. tasks # <<>>
    BY <1>2, EmptySeq
  <1>4. index \in 1..Len(param.tour) /\ Visitable(param, param.tour[index])
    BY <1>1, VisitPosition
  <1>5. param \in Configurations /\ picked \in BOOLEAN
    BY TypeFacts
  <1> QED BY <1>2, <1>3, <1>4, <1>5, NextRequestDiffers

LEMMA FirstTaskDiffers ==
    ASSUME TypeInv, OneHand, LastVisit, Telling(param), arrivals # <<>>, last # None,
           Requests(param, Head(arrivals), picked) # <<>>
    PROVE  last # Requests(param, Head(arrivals), picked)[1]
  <1>1. awaiting /\ arrivals = <<Name>> /\ wp = None /\ dones = <<>>
    BY DEF OneHand
  <1>2. Head(arrivals) = param.tour[index]
    BY <1>1, FirstMessage DEF Name
  <1>3. index \in 1..Len(param.tour) /\ Visitable(param, param.tour[index])
    BY <1>1, VisitPosition
  <1>4. EndsVisit(param, last, picked, index)
    BY <1>1 DEF LastVisit, Ahead
  <1>5. param \in Configurations /\ picked \in BOOLEAN /\ last \in Request
    BY TypeFacts
  <1> QED BY <1>2, <1>3, <1>4, <1>5, FirstRequestDiffers

\* Steps that concern neither the line nor the visit.
LEMMA ChannelFrame ==
    ASSUME Channel, param' = param, wp' = wp, tasks' = tasks, task' = task, picked' = picked,
           UNCHANGED <<tx, rx, line, back>>, UNCHANGED station
    PROVE  Channel'
  <1>1. Current' = Current
    BY DEF Current
  <1> QED BY <1>1 DEF Channel, Quiet, Asked, Answered, station

LEMMA ChannelStart ==
    ASSUME TypeInv, Channel, Telling(param), wp = None, NEW name \in Waypoints,
           last # None /\ Requests(param, name, picked) # <<>>
               => last # Requests(param, name, picked)[1],
           StartWaypoint(name), param' = param, UNCHANGED <<rx, line, back>>, UNCHANGED station
    PROVE  Channel'
  <1> DEFINE R == Requests(param, name, picked)
  <1>0. Quiet
    BY DEF Channel
  <1>1. CASE R = <<>>
    <2>1. UNCHANGED visit /\ tx' = tx
      BY <1>1 DEF StartWaypoint
    <2> QED BY <2>1, ChannelFrame DEF visit
  <1>2. CASE R # <<>>
    <2>1. /\ wp' = name /\ tasks' = R /\ task' = 1 /\ tx' = Publish(tx, R[1])
      BY <1>2 DEF StartWaypoint
    <2>2. R \in Seq(Request)
      BY TypeFacts, RequestsType
    <2>3. R[1] \in Request
      BY <1>2, <2>2
    <2>4. last # R[1]
      <3>1. CASE last = None
        BY <2>3, <3>1, WorkPlanAssumption
      <3>2. CASE last # None
        BY <1>2, <3>2
      <3> QED BY <3>1, <3>2
    <2> HIDE DEF R
    <2>5. Current' = R[1]
      BY <2>1 DEF Current
    <2>6. Pipeline(line, tx, {last}, {R[1]})
      BY <1>0, TypeFacts, WithinTurns DEF Quiet, Pipeline
    <2>7. Pipeline(line, tx', {last}, {R[1]})
      BY <2>1, <2>3, <2>6, TypeFacts, PublishTook, PipelineTook
    <2>8. Asked'
      BY <1>0, <2>3, <2>5, <2>7, WorkPlanAssumption DEF Quiet, Asked, station
    <2>9. wp' # None /\ last' # Current'
      BY <2>1, <2>4, <2>5, WorkPlanAssumption DEF station
    <2> QED BY <2>8, <2>9 DEF Channel
  <1> QED BY <1>1, <1>2

\* A confirmation that is accepted is behind all others.
LEMMA ChannelConfirmed ==
    ASSUME TypeInv, Channel, rx # <<>>, Confirms(Head(rx))
    PROVE  /\ last = Current /\ busy = None
           /\ Within(line, {Current}) /\ Within(tx, {Current})
           /\ Within(Tail(rx), Confirm(Current)) /\ Within(back, Confirm(Current))
  <1>1. wp # None /\ Head(rx).type = "DONE" /\ Head(rx).request = Current
    BY DEF Confirms
  <1>2. last = Current
    <2>1. SUFFICES ASSUME last # Current PROVE FALSE
      OBVIOUS
    <2>2. Within(rx, Confirm(last))
      BY <1>1, <2>1 DEF Channel, Asked
    <2>3. Head(rx) \in Confirm(last)
      BY <2>2, TypeFacts, WithinTail
    <2> QED BY <1>1, <2>1, <2>3 DEF Confirm
  <1>3. Answered
    BY <1>1, <1>2 DEF Channel
  <1>4. Head(rx) \notin Others(Current)
    BY <1>1 DEF Others
  <1>5. Within(rx, Confirm(Current)) /\ Within(back, Confirm(Current))
    BY <1>3, <1>4, TypeFacts, PipelineHead DEF Answered
  <1> QED BY <1>2, <1>3, <1>5, TypeFacts, WithinTail DEF Answered

LEMMA ChannelAdvance ==
    ASSUME TypeInv, OneHand, Channel, LastVisit, Telling(param), rx # <<>>, Confirms(Head(rx)), AdvanceTask,
           rx' = Tail(rx), param' = param, UNCHANGED <<line, back>>, UNCHANGED station
    PROVE  Channel'
  <1>1. /\ last = Current /\ busy = None /\ wp # None
        /\ Within(line, {Current}) /\ Within(tx, {Current})
        /\ Within(rx', Confirm(Current)) /\ Within(back, Confirm(Current))
    BY ChannelConfirmed DEF Confirms
  <1>2. last' = Current /\ busy' = None
    BY <1>1 DEF station
  <1>3. /\ wp \in Waypoints /\ picked \in BOOLEAN /\ param \in Configurations
        /\ tasks \in Seq(Request) /\ task \in 1..Len(tasks)
    BY <1>1, TypeFacts
  <1>4. tasks = Requests(param, wp, picked) /\ tasks # <<>>
    BY <1>1, <1>3 DEF TypeInv, VisitOK
  <1>5. CASE task = Len(tasks)
    <2>1. wp' = None /\ picked' = (picked \/ FirstPick(param)) /\ tx' = tx
      BY <1>5 DEF AdvanceTask, FinishWaypoint
    <2>2. Quiet'
      BY <1>1, <1>2, <2>1 DEF Quiet
    <2> QED BY <2>1, <2>2 DEF Channel
  <1>6. CASE task # Len(tasks)
    <2>1. /\ wp' = wp /\ tasks' = tasks /\ task' = task + 1
          /\ tx' = Publish(tx, tasks[task + 1])
      BY <1>6 DEF AdvanceTask
    <2>2. Current' = tasks[task + 1] /\ tasks[task + 1] \in Request
      BY <1>3, <1>6, <2>1 DEF Current
    <2>3. tasks[task + 1] # tasks[task]
      BY <1>1, <1>6, NextTaskDiffers
    <2>4. last' # Current'
      BY <1>2, <2>2, <2>3 DEF Current
    <2>5. Pipeline(line, tx, {Current}, {tasks[task + 1]})
      BY <1>1, TypeFacts, WithinTurns DEF Pipeline
    <2>6. Pipeline(line, tx', {Current}, {tasks[task + 1]})
      BY <2>1, <2>2, <2>5, TypeFacts, PublishTook, PipelineTook
    <2>7. Asked'
      BY <1>1, <1>2, <2>2, <2>6, WorkPlanAssumption DEF Asked
    <2> QED BY <1>1, <2>1, <2>4, <2>7 DEF Channel
  <1> QED BY <1>5, <1>6

LEMMA ChannelAgain ==
    ASSUME TypeInv, Channel, wp # None, tx' = Publish(tx, Current),
           param' = param, wp' = wp, tasks' = tasks, task' = task, picked' = picked,
           UNCHANGED <<rx, line, back>>, UNCHANGED station
    PROVE  Channel'
  <1>1. Current' = Current /\ Current \in Request /\ last' = last /\ busy' = busy
    BY TypeFacts DEF Current, station
  <1>2. Within(tx, {Current}) => Within(tx', {Current})
    BY <1>1, TypeFacts, PublishTook, WithinTook
  <1>3. CASE last # Current
    <2>1. Asked
      BY <1>3 DEF Channel
    <2>2. Pipeline(line, tx', {last}, {Current})
      BY <2>1, <1>1, TypeFacts, PublishTook, PipelineTook DEF Asked
    <2>3. Asked'
      BY <1>1, <1>2, <2>1, <2>2 DEF Asked
    <2> QED BY <1>1, <1>3, <2>3 DEF Channel
  <1>4. CASE last = Current
    <2>1. Answered'
      BY <1>1, <1>2, <1>4 DEF Channel, Answered
    <2> QED BY <1>1, <1>4, <2>1 DEF Channel
  <1> QED BY <1>3, <1>4

LEMMA ChannelFsm ==
    ASSUME TypeInv, OneHand, Channel, LastVisit, Telling(param), param.fail = "stop",
           OnWpArrive \/ OnSerialRx \/ ResendCb \/ TimeoutCb
    PROVE  Channel'
  <1>0. param' = param /\ line' = line /\ back' = back /\ UNCHANGED station
    BY DEF OnWpArrive, OnSerialRx, ResendCb, TimeoutCb, wire
  <1>1. CASE OnWpArrive
    <2>1. arrivals # <<>> /\ rx' = rx
      BY <1>1 DEF OnWpArrive
    <2>2. CASE wp = None
      <3>1. Head(arrivals) \in Waypoints
        BY <2>1, TypeFacts, TailType
      <3>2. StartWaypoint(Head(arrivals))
        BY <1>1, <2>2 DEF OnWpArrive
      <3>3. last # None /\ Requests(param, Head(arrivals), picked) # <<>>
               => last # Requests(param, Head(arrivals), picked)[1]
        BY <2>1, FirstTaskDiffers
      <3> QED BY <1>0, <2>1, <2>2, <3>1, <3>2, <3>3, ChannelStart
    <2>3. CASE wp # None
      <3>1. UNCHANGED visit /\ tx' = tx
        BY <1>1, <2>3 DEF OnWpArrive
      <3> QED BY <1>0, <2>1, <3>1, ChannelFrame DEF visit
    <2> QED BY <2>2, <2>3
  <1>2. CASE OnSerialRx
    <2>1. rx # <<>> /\ rx' = Tail(rx)
      BY <1>2 DEF OnSerialRx
    <2>2. CASE Confirms(Head(rx))
      <3>1. AdvanceTask
        BY <1>2, <2>2 DEF OnSerialRx
      <3> QED BY <1>0, <2>1, <2>2, <3>1, ChannelAdvance
    <2>3. CASE ~Confirms(Head(rx))
      <3>1. /\ wp' = wp /\ tasks' = tasks /\ task' = task /\ picked' = picked /\ tx' = tx
            /\ last' = last /\ busy' = busy
        BY <1>0, <1>2, <2>3 DEF OnSerialRx, visit, station
      <3>2. \A A : Within(rx, A) => Within(rx', A)
        BY <2>1, TypeFacts, WithinTail
      <3>3. \A A, C : Pipeline(rx, back, A, C) => Pipeline(rx', back', A, C)
        BY <1>0, <2>1, TypeFacts, PipelineTails
      <3>4. Current' = Current
        BY <3>1 DEF Current
      <3>5. Quiet => Quiet'
        BY <1>0, <3>1, <3>2 DEF Quiet
      <3>6. Asked => Asked'
        BY <1>0, <3>1, <3>2, <3>4 DEF Asked
      <3>7. Answered => Answered'
        BY <1>0, <3>1, <3>3, <3>4 DEF Answered
      <3> QED BY <1>0, <3>1, <3>4, <3>5, <3>6, <3>7 DEF Channel
    <2> QED BY <2>2, <2>3
  <1>3. CASE ResendCb
    <2>1. rx' = rx /\ wp # None
      BY <1>3 DEF ResendCb
    <2>2. CASE param.maxResends > 0 /\ count >= param.maxResends
      <3>1. /\ wp' = wp /\ tasks' = tasks /\ task' = task /\ picked' = picked /\ tx' = tx
        BY <1>3, <2>2 DEF ResendCb, GiveUp
      <3> QED BY <1>0, <2>1, <3>1, ChannelFrame
    <2>3. CASE ~(param.maxResends > 0 /\ count >= param.maxResends)
      <3>1. /\ wp' = wp /\ tasks' = tasks /\ task' = task /\ picked' = picked
            /\ tx' = Publish(tx, Current)
        BY <1>3, <2>3 DEF ResendCb
      <3> QED BY <1>0, <2>1, <3>1, ChannelAgain
    <2> QED BY <2>2, <2>3
  <1>4. CASE TimeoutCb
    <2>1. /\ wp' = wp /\ tasks' = tasks /\ task' = task /\ picked' = picked
          /\ tx' = tx /\ rx' = rx
      BY <1>4 DEF TimeoutCb, GiveUp
    <2> QED BY <1>0, <2>1, ChannelFrame
  <1> QED BY <1>1, <1>2, <1>3, <1>4

LEMMA ChannelFollower ==
    ASSUME Channel, GoalResponse \/ GetResult \/ DoneCallback \/ Restart
    PROVE  Channel'
  <1>1. /\ param' = param /\ UNCHANGED visit /\ UNCHANGED <<tx, rx>>
        /\ UNCHANGED wire /\ UNCHANGED station
    BY DEF GoalResponse, GetResult, DoneCallback, Restart
  <1> QED BY <1>1, ChannelFrame DEF visit, wire

\* The queues of the line after a step of the bridge or of the wire.
LEMMA ChannelQueues ==
    ASSUME Channel, param' = param, UNCHANGED visit, UNCHANGED station,
           \A A : Within(line, A) /\ Within(tx, A) => Within(line', A) /\ Within(tx', A),
           \A A : Within(rx, A) /\ Within(back, A) => Within(rx', A) /\ Within(back', A),
           \A A, C : Pipeline(line, tx, A, C) => Pipeline(line', tx', A, C),
           \A A, C : Pipeline(rx, back, A, C) => Pipeline(rx', back', A, C)
    PROVE  Channel'
  <1>1. /\ wp' = wp /\ tasks' = tasks /\ task' = task /\ picked' = picked
        /\ last' = last /\ busy' = busy
    BY DEF visit, station
  <1>2. Current' = Current
    BY <1>1 DEF Current
  <1>3. Quiet => Quiet'
    BY <1>1 DEF Quiet
  <1>4. Asked => Asked'
    BY <1>1, <1>2 DEF Asked
  <1>5. Answered => Answered'
    BY <1>1, <1>2 DEF Answered
  <1> QED BY <1>1, <1>2, <1>3, <1>4, <1>5 DEF Channel

LEMMA ChannelBridge ==
    ASSUME TypeInv, Channel, TxCallback \/ ReadSerial \/ LoseLine
    PROVE  Channel'
  <1>0. param' = param /\ UNCHANGED visit /\ UNCHANGED station
    BY DEF TxCallback, ReadSerial, LoseLine
  <1>1. CASE TxCallback
    <2>1. tx # <<>> /\ tx' = Tail(tx) /\ UNCHANGED <<rx, back>>
      BY <1>1 DEF TxCallback
    <2>2. line' = Transmit(line, Head(tx)) \/ line' = line
      BY <1>1 DEF TxCallback
    <2>3. Took(line, Head(tx), line')
      BY <2>2, TransmitTook DEF Took
    <2>4. Head(tx) \in Request
      BY <2>1, TypeFacts, TailType
    <2>5. ASSUME NEW A, Within(line, A) /\ Within(tx, A)
          PROVE  Within(line', A) /\ Within(tx', A)
      <3>1. Within(tx', A) /\ Head(tx) \in A
        BY <2>1, <2>5, TypeFacts, WithinTail
      <3> QED BY <2>3, <2>4, <2>5, <3>1, TypeFacts, WithinTook
    <2>6. ASSUME NEW A, NEW C, Pipeline(line, tx, A, C)
          PROVE  Pipeline(line', tx', A, C)
      BY <2>1, <2>3, <2>6, TypeFacts, PipelineMove
    <2> QED BY <1>0, <2>1, <2>5, <2>6, ChannelQueues
  <1>2. CASE ReadSerial
    <2>1. UNCHANGED <<tx, line>>
      BY <1>2 DEF ReadSerial
    <2>2. CASE UNCHANGED <<rx, back>>
      BY <1>0, <2>1, <2>2, ChannelQueues
    <2>3. CASE back # <<>> /\ rx' = Publish(rx, Head(back)) /\ back' = Tail(back)
      <3>1. Took(rx, Head(back), rx')
        BY <2>3, TypeFacts, PublishTook
      <3>2. Head(back) \in Reply
        BY <2>3, TypeFacts, TailType
      <3>3. ASSUME NEW A, Within(rx, A) /\ Within(back, A)
            PROVE  Within(rx', A) /\ Within(back', A)
        <4>1. Within(back', A) /\ Head(back) \in A
          BY <2>3, <3>3, TypeFacts, WithinTail
        <4> QED BY <3>1, <3>2, <3>3, <4>1, TypeFacts, WithinTook
      <3>4. ASSUME NEW A, NEW C, Pipeline(rx, back, A, C)
            PROVE  Pipeline(rx', back', A, C)
        BY <2>3, <3>1, <3>4, TypeFacts, PipelineMove
      <3> QED BY <1>0, <2>1, <3>3, <3>4, ChannelQueues
    <2> QED BY <1>2, <2>2, <2>3 DEF ReadSerial
  <1>3. CASE LoseLine
    <2>1. UNCHANGED <<tx, rx>>
      BY <1>3 DEF LoseLine
    <2>2. \/ line # <<>> /\ line' = Tail(line) /\ back' = back
          \/ back # <<>> /\ back' = Tail(back) /\ line' = line
      BY <1>3 DEF LoseLine
    <2>3. \A A : Within(line, A) /\ Within(tx, A) => Within(line', A) /\ Within(tx', A)
      BY <2>1, <2>2, TypeFacts, WithinTail
    <2>4. \A A : Within(rx, A) /\ Within(back, A) => Within(rx', A) /\ Within(back', A)
      BY <2>1, <2>2, TypeFacts, WithinTail
    <2>5. \A A, C : Pipeline(line, tx, A, C) => Pipeline(line', tx', A, C)
      BY <2>1, <2>2, TypeFacts, PipelineTails
    <2>6. \A A, C : Pipeline(rx, back, A, C) => Pipeline(rx', back', A, C)
      BY <2>1, <2>2, TypeFacts, PipelineTails
    <2> QED BY <1>0, <2>3, <2>4, <2>5, <2>6, ChannelQueues
  <1> QED BY <1>1, <1>2, <1>3

\* The station works on nothing but the current request.
LEMMA BusyWithCurrent ==
    ASSUME Channel, busy # None
    PROVE  wp # None /\ busy = Current /\ last # Current /\ Asked
  BY DEF Channel, Quiet, Asked, Answered

LEMMA ChannelStation ==
    ASSUME TypeInv, Channel, StationRead \/ StationDone \/ StationFail
    PROVE  Channel'
  <1>0. /\ param' = param /\ UNCHANGED visit /\ UNCHANGED <<tx, rx>>
        /\ wp' = wp /\ tasks' = tasks /\ task' = task /\ picked' = picked
    BY DEF StationRead, StationDone, StationFail, visit
  <1>00. Current' = Current
    BY <1>0 DEF Current
  <1>1. CASE StationRead
    <2>1. line # <<>> /\ line' = Tail(line) /\ last' = last /\ Head(line) \in Request
      BY <1>1, TypeFacts, TailType DEF StationRead
    <2>2. \A A : Within(line, A) => Within(line', A) /\ Head(line) \in A
      BY <2>1, TypeFacts, WithinTail
    <2>3. \A A, C : Pipeline(line, tx, A, C) => Pipeline(line', tx, A, C)
      BY <2>1, TypeFacts, PipelineTails
    <2>4. CASE busy # None
      <3>1. busy' = busy /\ back' = back
        BY <1>1, <2>4 DEF StationRead
      <3>2. Asked'
        BY <1>0, <1>00, <2>1, <2>2, <2>3, <2>4, <3>1, BusyWithCurrent DEF Asked
      <3> QED BY <1>0, <1>00, <2>1, <2>4, <3>2, BusyWithCurrent DEF Channel
    <2>5. CASE busy = None /\ Head(line) = last
      <3>1. busy' = busy /\ back' = Transmit(back, Replied("DONE", last))
        BY <1>1, <2>5 DEF StationRead
      <3>2. Replied("DONE", last) \in Reply
        BY <2>1, <2>5, RepliedType
      <3>3. Replied("DONE", last) \in Confirm(last)
        BY <2>1, <2>5, ConfirmNotOthers
      <3>4. Took(back, Replied("DONE", last), back')
        BY <3>1, TransmitTook
      <3>5. Within(back, Confirm(last)) => Within(back', Confirm(last))
        BY <3>2, <3>3, <3>4, TypeFacts, WithinTook
      <3>6. \A A : Pipeline(rx, back, A, Confirm(last)) => Pipeline(rx, back', A, Confirm(last))
        BY <3>2, <3>3, <3>4, TypeFacts, PipelineTook
      <3>7. Quiet => Quiet'
        BY <1>0, <2>1, <2>2, <3>1, <3>5 DEF Quiet
      <3>8. Asked => Asked'
        BY <1>0, <1>00, <2>1, <2>2, <2>3, <3>1, <3>5 DEF Asked
      <3>9. last = Current /\ Answered => Answered'
        BY <1>0, <1>00, <2>1, <2>2, <3>1, <3>6 DEF Answered
      <3> QED BY <1>0, <1>00, <2>1, <3>7, <3>8, <3>9 DEF Channel
    <2>6. CASE busy = None /\ Head(line) # last
      <3>1. busy' = Head(line) /\ back' = back
        BY <1>1, <2>6 DEF StationRead
      <3>2. wp # None /\ last # Current
        <4>1. wp # None
          BY <2>2, <2>6 DEF Channel, Quiet
        <4>2. last # Current
          BY <2>2, <2>6, <4>1 DEF Channel, Answered
        <4> QED BY <4>1, <4>2
      <3>3. Asked
        BY <3>2 DEF Channel
      <3>4. Within(line, {Current}) /\ Within(tx, {Current})
        BY <2>1, <2>6, <3>3, TypeFacts, PipelineHead DEF Asked
      <3>5. Head(line) = Current
        BY <2>2, <3>4
      <3>6. Asked'
        BY <1>0, <1>00, <2>1, <2>2, <2>3, <3>1, <3>3, <3>4, <3>5 DEF Asked
      <3> QED BY <1>0, <1>00, <2>1, <3>2, <3>6 DEF Channel
    <2> QED BY <2>4, <2>5, <2>6
  <1>2. CASE StationDone
    <2>1. /\ busy # None /\ busy' = None /\ last' = busy /\ line' = line
          /\ back' = Transmit(back, Replied("DONE", busy))
      BY <1>2 DEF StationDone
    <2>2. wp # None /\ busy = Current /\ last # Current /\ Asked /\ Current \in Request
      BY <2>1, BusyWithCurrent, TypeFacts
    <2>3. Within(line, {Current}) /\ Within(tx, {Current})
      BY <2>2 DEF Asked
    <2>4. Within(rx, Others(Current)) /\ Within(back, Others(Current))
      BY <2>2, ConfirmNotOthers, WithinSubset DEF Asked
    <2>5. Pipeline(rx, back, Others(Current), Confirm(Current))
      BY <2>4, TypeFacts, WithinTurns DEF Pipeline
    <2>6. Replied("DONE", busy) \in Reply /\ Replied("DONE", busy) \in Confirm(Current)
      BY <2>2, RepliedType, ConfirmNotOthers
    <2>7. Pipeline(rx, back', Others(Current), Confirm(Current))
      BY <2>1, <2>5, <2>6, TypeFacts, TransmitTook, PipelineTook
    <2>8. Answered'
      BY <1>0, <1>00, <2>1, <2>3, <2>7 DEF Answered
    <2> QED BY <1>0, <1>00, <2>1, <2>2, <2>8 DEF Channel
  <1>3. CASE StationFail
    <2>1. /\ busy # None /\ busy' = None /\ last' = last /\ line' = line
          /\ back' = Transmit(back, Replied("FAIL", busy))
      BY <1>3 DEF StationFail
    <2>2. wp # None /\ busy = Current /\ last # Current /\ Asked /\ Current \in Request
      BY <2>1, BusyWithCurrent, TypeFacts
    <2>3. Replied("FAIL", busy) \in Reply /\ Replied("FAIL", busy) \in Confirm(last)
      BY <2>2, RepliedType, ConfirmNotOthers
    <2>4. Within(back', Confirm(last))
      BY <2>1, <2>2, <2>3, TypeFacts, TransmitTook, WithinTook DEF Asked
    <2>5. Asked'
      BY <1>0, <1>00, <2>1, <2>2, <2>4 DEF Asked
    <2> QED BY <1>0, <1>00, <2>1, <2>2, <2>5 DEF Channel
  <1> QED BY <1>1, <1>2, <1>3

-----------------------------------------------------------------------------
(* Where the last request was made *)

LEMMA LastVisitFrame ==
    ASSUME LastVisit, param' = param, UNCHANGED follower, dones' = dones,
           wp' = wp, picked' = picked, last' = last
    PROVE  LastVisit'
  <1>1. Name' = Name /\ Ahead' = Ahead /\ awaiting' = awaiting /\ nav' = nav
    BY DEF Name, Ahead, follower
  <1> QED BY <1>1 DEF LastVisit

\* While the FSM serves a visit the last request does not matter.
LEMMA LastVisitServed ==
    ASSUME LastVisit, param' = param, UNCHANGED follower, wp' # None
    PROVE  LastVisit'
  <1>1. Name' = Name /\ awaiting' = awaiting /\ nav' = nav
    BY DEF Name, follower
  <1> QED BY <1>1 DEF LastVisit

\* The follower sends the next goal, behind a visit or a miss.
LEMMA LastVisitGoto ==
    ASSUME TypeInv, LastVisit, wp = None, NEW i \in 1..(Len(param.tour) + 1),
           SendCurrentGoal(i), awaiting' = FALSE, dones' = <<>>,
           param' = param, wp' = wp, picked' = picked, last' = last,
           ~FirstPick(param) /\ last # None =>
              \A j \in Served(param) :
                 Onward(param, j, Ahead) => Onward(param, j, NextStop(param, i))
    PROVE  LastVisit'
  <1>1. /\ param \in Configurations /\ Len(param.tour) \in Nat
    BY TypeFacts
  <1>2. /\ index' = NextStop(param, i) /\ index' \in 1..(Len(param.tour) + 1)
        /\ index' <= Len(param.tour) => Visitable(param, param.tour[index'])
    BY <1>1, NextStopSkips DEF SendCurrentGoal
  <1>3. nav' = IF index' > Len(param.tour) THEN "idle" ELSE "requested"
    BY DEF SendCurrentGoal
  <1>4. nav' # "idle" => Visitable(param', Name')
    BY <1>1, <1>2, <1>3 DEF Name
  <1>5. ASSUME last # None PROVE EndsVisit(param, last, picked, index')
    <2>1. EndsVisit(param, last, picked, Ahead)
      BY <1>5 DEF LastVisit
    <2>2. CASE FirstPick(param)
      BY <2>1, <2>2 DEF EndsVisit
    <2>3. CASE ~FirstPick(param)
      <3>1. PICK j \in Served(param) : last = LastAskedAt(param, j) /\ Onward(param, j, Ahead)
        BY <2>1, <2>3 DEF EndsVisit
      <3>2. Onward(param, j, index')
        BY <1>2, <1>5, <2>3, <3>1
      <3> QED BY <2>3, <3>1, <3>2 DEF EndsVisit
    <2> QED BY <2>2, <2>3
  <1>6. Ahead' = index'
    BY DEF Ahead
  <1> QED BY <1>4, <1>5, <1>6 DEF LastVisit

LEMMA LastVisitMiss ==
    ASSUME TypeInv, OneHand, LastVisit, nav # "idle", NotReached,
           param' = param, UNCHANGED visit, dones' = dones, last' = last
    PROVE  LastVisit'
  <1>1. /\ param \in Configurations /\ index \in Nat /\ index >= 1 /\ Len(param.tour) \in Nat
        /\ index <= Len(param.tour) /\ ~awaiting
    BY TypeFacts DEF TypeInv, FollowerOK
  <1>2. wp = None /\ dones = <<>> /\ wp' = wp /\ picked' = picked
    BY <1>1 DEF OneHand, visit
  <1>3. CASE param.continueOnMiss
    <2>1. SendCurrentGoal(index + 1) /\ awaiting' = FALSE
      BY <1>3 DEF NotReached, AdvanceToNext
    <2>2. index + 1 \in 1..(Len(param.tour) + 1) /\ Ahead = index
      BY <1>1, <1>2 DEF Ahead
    <2>3. ASSUME NEW j \in Served(param), Onward(param, j, Ahead)
          PROVE  Onward(param, j, NextStop(param, index + 1))
      <3>1. j < index + 1 \/ param.repeat # "no"
        BY <1>1, <2>2, <2>3 DEF Onward, Served
      <3> QED BY <1>1, <1>3, <2>2, <3>1, OnwardNext
    <2> QED BY <1>2, <2>1, <2>2, <2>3, LastVisitGoto
  <1>4. CASE ~param.continueOnMiss
    <2>1. nav' = "idle" /\ index' = index /\ awaiting' = awaiting
      BY <1>4 DEF NotReached
    <2>2. Ahead' = Ahead /\ ~awaiting'
      BY <1>1, <2>1 DEF Ahead
    <2> QED BY <1>2, <2>1, <2>2 DEF LastVisit
  <1> QED BY <1>3, <1>4

LEMMA LastVisitFollower ==
    ASSUME TypeInv, OneHand, LastVisit, GoalResponse \/ GetResult \/ DoneCallback \/ Restart
    PROVE  LastVisit'
  <1>0. /\ param' = param /\ UNCHANGED visit /\ last' = last /\ wp' = wp /\ picked' = picked
    BY DEF GoalResponse, GetResult, DoneCallback, Restart, visit, station
  <1>1. CASE GoalResponse
    <2>1. nav = "requested" /\ dones' = dones
      BY <1>1 DEF GoalResponse
    <2>2. CASE nav' = "driving" /\ UNCHANGED <<index, awaiting, doneNames>>
      <3>1. Name' = Name /\ Ahead' = Ahead
        BY <1>0, <2>1, <2>2 DEF Name, Ahead
      <3> QED BY <1>0, <2>1, <2>2, <3>1 DEF LastVisit
    <2> QED BY <1>0, <1>1, <2>1, <2>2, LastVisitMiss DEF GoalResponse
  <1>2. CASE GetResult
    <2>1. nav = "driving" /\ dones' = dones
      BY <1>2 DEF GetResult
    <2>2. CASE HandleWaypointArrived
      <3>1. doneNames = {}
        BY DEF OneHand
      <3>2. index' = index /\ awaiting' = TRUE
        BY <2>2, <3>1 DEF HandleWaypointArrived
      <3>3. Name' = Name /\ Ahead' = Ahead /\ Visitable(param, Name)
        BY <1>0, <2>1, <3>2 DEF Name, Ahead, LastVisit
      <3> QED BY <1>0, <3>2, <3>3 DEF LastVisit
    <2> QED BY <1>0, <1>2, <2>1, <2>2, LastVisitMiss DEF GetResult
  <1>3. CASE DoneCallback
    <2>1. dones # <<>> /\ dones' = Tail(dones)
      BY <1>3 DEF DoneCallback
    <2>2. awaiting /\ wp = None /\ dones = <<Name>>
      BY <2>1 DEF OneHand
    <2>3. Head(dones) = Name /\ dones' = <<>>
      BY <2>1, <2>2, FirstMessage
    <2>4. SendCurrentGoal(index + 1) /\ awaiting' = FALSE
      BY <1>3, <2>2, <2>3 DEF DoneCallback, AdvanceToNext
    <2>5. /\ param \in Configurations /\ index \in Nat /\ Len(param.tour) \in Nat
          /\ index + 1 \in 1..(Len(param.tour) + 1) /\ Ahead = index + 1
      BY <2>1, <2>2, TypeFacts DEF TypeInv, FollowerOK, Ahead
    <2>6. ASSUME NEW j \in Served(param), Onward(param, j, Ahead)
          PROVE  Onward(param, j, NextStop(param, index + 1))
      <3>1. j < index + 1 \/ param.repeat # "no"
        BY <2>5, <2>6 DEF Onward
      <3> QED BY <2>5, <2>6, <3>1, OnwardNext
    <2> QED BY <1>0, <2>2, <2>3, <2>4, <2>5, <2>6, LastVisitGoto
  <1>4. CASE Restart
    <2>1. /\ param.repeat = "delayed" /\ index > Len(param.tour) /\ dones' = dones
          /\ SendCurrentGoal(1) /\ awaiting' = FALSE
      BY <1>4 DEF Restart
    <2>2. /\ param \in Configurations /\ Len(param.tour) \in Nat
          /\ index = Len(param.tour) + 1 /\ ~awaiting
      BY <2>1, TypeFacts DEF TypeInv, FollowerOK
    <2>3. wp = None /\ dones = <<>>
      BY <2>2 DEF OneHand
    <2>4. 1 \in 1..(Len(param.tour) + 1) /\ Ahead = Len(param.tour) + 1
      BY <2>2, <2>3 DEF Ahead
    <2>5. ASSUME NEW j \in Served(param), Onward(param, j, Ahead)
          PROVE  Onward(param, j, NextStop(param, 1))
      BY <2>1, <2>2, <2>4, <2>5, OnwardAgain
    <2> QED BY <1>0, <2>1, <2>3, <2>4, <2>5, LastVisitGoto
  <1> QED BY <1>1, <1>2, <1>3, <1>4

LEMMA LastVisitStart ==
    ASSUME TypeInv, OneHand, LastVisit, OnWpArrive
    PROVE  LastVisit'
  <1>1. /\ param' = param /\ UNCHANGED follower /\ last' = last /\ arrivals # <<>>
    BY DEF OnWpArrive, station
  <1>2. awaiting /\ arrivals = <<Name>> /\ wp = None /\ dones = <<>>
    BY <1>1 DEF OneHand
  <1>3. StartWaypoint(Name)
    BY <1>2, FirstMessage DEF OnWpArrive
  <1>4. CASE Requests(param, Name, picked) # <<>>
    <2>1. wp' = Name /\ Name \in Waypoints
      BY <1>2, <1>3, <1>4, TypeFacts DEF StartWaypoint
    <2> QED BY <1>1, <2>1, WorkPlanAssumption, LastVisitServed
  <1>5. CASE Requests(param, Name, picked) = <<>>
    <2>1. dones' = <<Name>> /\ UNCHANGED visit
      BY <1>2, <1>3, <1>5, FirstMessage DEF StartWaypoint
    <2>2. /\ param \in Configurations /\ index \in 1..Len(param.tour)
          /\ wp' = None /\ picked' = picked
      BY <1>2, <2>1, TypeFacts, VisitPosition DEF visit
    <2>3. Ahead = index /\ Ahead' = index + 1 /\ Name' = Name /\ index' = index
      BY <1>1, <1>2, <2>1, FirstMessage DEF Ahead, Name, follower
    <2>4. ASSUME last # None PROVE EndsVisit(param, last, picked, index + 1)
      <3>1. EndsVisit(param, last, picked, index)
        BY <1>2, <2>3, <2>4 DEF LastVisit
      <3>2. CASE FirstPick(param)
        BY <3>1, <3>2 DEF EndsVisit
      <3>3. CASE ~FirstPick(param)
        <4>1. PICK j \in Served(param) :
                  last = LastAskedAt(param, j) /\ Onward(param, j, index)
          BY <3>1, <3>3 DEF EndsVisit
        <4>2. index \notin Served(param)
          BY <1>5, <3>3, EachVisitTheSame DEF Served, Name
        <4>3. Onward(param, j, index + 1)
          BY <2>2, <4>1, <4>2, OnwardPast
        <4> QED BY <3>3, <4>1, <4>3 DEF EndsVisit
      <3> QED BY <3>2, <3>3
    <2>5. Visitable(param, Name)
      BY <1>2 DEF LastVisit
    <2> QED BY <1>1, <2>2, <2>3, <2>4, <2>5 DEF LastVisit
  <1> QED BY <1>4, <1>5

LEMMA LastVisitAdvance ==
    ASSUME TypeInv, OneHand, LastVisit, wp # None, last = Current, AdvanceTask,
           param' = param, UNCHANGED follower, last' = last
    PROVE  LastVisit'
  <1>1. awaiting /\ wp = Name /\ dones = <<>>
    BY DEF OneHand
  <1>2. CASE task # Len(tasks)
    <2>1. wp' = wp
      BY <1>2 DEF AdvanceTask
    <2> QED BY <2>1, LastVisitServed
  <1>3. CASE task = Len(tasks)
    <2>1. dones' = <<Name>> /\ picked' = (picked \/ FirstPick(param))
      BY <1>1, <1>3, FirstMessage DEF AdvanceTask, FinishWaypoint
    <2>2. Ahead' = index + 1 /\ Name' = Name
      BY <2>1, FirstMessage DEF Ahead, Name, follower
    <2>3. tasks = Requests(param, param.tour[index], picked) /\ task \in 1..Len(tasks)
      BY <1>1 DEF TypeInv, VisitOK, Name
    <2>4. tasks # <<>> /\ last = tasks[Len(tasks)]
      BY <1>3, <2>3, EmptySeq DEF Current
    <2>5. /\ param \in Configurations /\ picked \in BOOLEAN
          /\ index \in 1..Len(param.tour) /\ Visitable(param, param.tour[index])
      BY <1>1, TypeFacts, VisitPosition
    <2>6. EndsVisit(param, last, picked', index + 1)
      BY <2>1, <2>3, <2>4, <2>5, LastRequest
    <2>7. Visitable(param, Name)
      BY <1>1 DEF LastVisit
    <2> QED BY <2>2, <2>6, <2>7 DEF LastVisit
  <1> QED BY <1>2, <1>3

LEMMA LastVisitFsm ==
    ASSUME TypeInv, OneHand, Channel, LastVisit, param.fail = "stop",
           OnWpArrive \/ OnSerialRx \/ ResendCb \/ TimeoutCb
    PROVE  LastVisit'
  <1>1. param' = param /\ UNCHANGED follower /\ last' = last
    BY DEF OnWpArrive, OnSerialRx, ResendCb, TimeoutCb, station
  <1>2. CASE OnSerialRx
    <2>1. rx # <<>>
      BY <1>2 DEF OnSerialRx
    <2>2. CASE Confirms(Head(rx))
      <3>1. AdvanceTask /\ wp # None /\ last = Current
        BY <1>2, <2>1, <2>2, ChannelConfirmed DEF OnSerialRx, Confirms
      <3> QED BY <1>1, <3>1, LastVisitAdvance
    <2>3. CASE ~Confirms(Head(rx))
      <3>1. dones' = dones /\ wp' = wp /\ picked' = picked
        BY <1>2, <2>3 DEF OnSerialRx, visit
      <3> QED BY <1>1, <3>1, LastVisitFrame
    <2> QED BY <2>2, <2>3
  <1>3. CASE ResendCb \/ TimeoutCb
    <2>1. wp # None /\ wp' = wp
      BY <1>3 DEF ResendCb, TimeoutCb, GiveUp
    <2> QED BY <1>1, <2>1, LastVisitServed
  <1> QED BY <1>2, <1>3, LastVisitStart

LEMMA LastVisitLine ==
    ASSUME Channel, LastVisit,
           TxCallback \/ ReadSerial \/ LoseLine \/ StationRead \/ StationDone \/ StationFail
    PROVE  LastVisit'
  <1>1. /\ param' = param /\ UNCHANGED follower /\ dones' = dones
        /\ wp' = wp /\ picked' = picked
    BY DEF TxCallback, ReadSerial, LoseLine, StationRead, StationDone, StationFail, visit
  <1>2. CASE StationDone
    <2>1. wp # None
      BY <1>2, BusyWithCurrent DEF StationDone
    <2> QED BY <1>1, <2>1, LastVisitServed
  <1>3. CASE ~StationDone
    <2>1. last' = last
      BY <1>3 DEF TxCallback, ReadSerial, LoseLine, StationRead, StationFail, station
    <2> QED BY <1>1, <2>1, LastVisitFrame
  <1> QED BY <1>2, <1>3

LEMMA InitLastVisit ==
    ASSUME Init
    PROVE  LastVisit
  <1>1. /\ param \in Configurations /\ Len(param.tour) \in Nat /\ index = NextStop(param, 1)
    BY WorkcellAssumption, ConfigFields DEF Init
  <1>2. index <= Len(param.tour) /\ 1 \in 1..(Len(param.tour) + 1)
    BY <1>1, FirstStop
  <1>3. Visitable(param, Name)
    BY <1>1, <1>2, NextStopSkips DEF Name
  <1> QED BY <1>3 DEF Init, LastVisit

LEMMA InitChannel == Init => Channel
  BY WithinEmpty DEF Init, Channel, Quiet

\* With the policy "stop", and plans that tell a request from the one before it.
ChannelInv == param.fail = "stop" /\ Telling(param) => Channel /\ LastVisit

LEMMA ChannelStep == TypeInv /\ OneHand /\ ChannelInv /\ [Next]_vars => ChannelInv'
  <1> SUFFICES ASSUME TypeInv, OneHand, ChannelInv, [Next]_vars PROVE ChannelInv'
    OBVIOUS
  <1>1. param' = param
    BY DEF Next, GoalResponse, GetResult, DoneCallback, Restart, OnWpArrive, OnSerialRx,
           ResendCb, TimeoutCb, TxCallback, ReadSerial, LoseLine, StationRead, StationDone,
           StationFail, vars
  <1>2. SUFFICES ASSUME param.fail = "stop", Telling(param) PROVE Channel' /\ LastVisit'
    BY <1>1 DEF ChannelInv
  <1>3. Channel /\ LastVisit
    BY <1>2 DEF ChannelInv
  <1>4. CASE UNCHANGED vars
    <2>1. /\ param' = param /\ wp' = wp /\ tasks' = tasks /\ task' = task /\ picked' = picked
          /\ UNCHANGED <<tx, rx, line, back>> /\ UNCHANGED station
          /\ UNCHANGED follower /\ dones' = dones /\ last' = last
      BY <1>4 DEF vars, visit, wire, station
    <2> QED BY <1>3, <2>1, ChannelFrame, LastVisitFrame
  <1>5. CASE Next
    <2>1. Channel'
      BY <1>2, <1>3, <1>5, ChannelFollower, ChannelFsm, ChannelBridge, ChannelStation DEF Next
    <2>2. LastVisit'
      BY <1>2, <1>3, <1>5, LastVisitFollower, LastVisitFsm, LastVisitLine DEF Next
    <2> QED BY <2>1, <2>2
  <1> QED BY <1>4, <1>5

LEMMA ChannelAlways == Spec => []ChannelInv
  <1>1. Spec => []TypeInv
    BY InitTypes, TypeStep, PTL DEF Spec
  <1>2. Spec => []OneHand
    BY <1>1, InitHand, HandStep, PTL DEF Spec
  <1>3. Init => ChannelInv
    BY InitChannel, InitLastVisit DEF ChannelInv
  <1> QED BY <1>1, <1>2, <1>3, ChannelStep, PTL DEF Spec

LEMMA StandsNow ==
    ASSUME TypeInv, OneHand, ChannelInv, \A p \in Configs : Telling(p)
    PROVE  StandsWhileWorking
  <1>1. Telling(param)
    BY TypeFacts
  <1>2. SUFFICES ASSUME busy # None, param.fail = "stop" PROVE awaiting
    BY DEF StandsWhileWorking
  <1>3. wp # None
    BY <1>1, <1>2, BusyWithCurrent DEF ChannelInv
  <1> QED BY <1>3 DEF OneHand

\* Where requests that follow each other are never the same, the robot stands
\* still while the station works, however many messages, of which visits,
\* are repeated, lost or late on the line, and whatever gives up.
THEOREM StandsCorrect ==
    ASSUME \A p \in Configs : Telling(p)
    PROVE  Spec => []StandsWhileWorking
  <1>1. Spec => []TypeInv
    BY InitTypes, TypeStep, PTL DEF Spec
  <1>2. Spec => []OneHand
    BY <1>1, InitHand, HandStep, PTL DEF Spec
  <1>3. TypeInv /\ OneHand /\ ChannelInv => StandsWhileWorking
    BY StandsNow
  <1> QED BY <1>1, <1>2, <1>3, ChannelAlways, PTL

-----------------------------------------------------------------------------
(* Both specifications read the same configuration *)

LEMMA SameStops ==
    ASSUME NEW p, NEW i
    PROVE  T!NextStop(p, i) = NextStop(p, i)
  <1>1. \A k : T!StopsFrom(p, k) = StopsFrom(p, k)
    BY DEF T!StopsFrom, StopsFrom, T!Visitable, Visitable
  <1>2. \A S : T!Earliest(S) = Earliest(S)
    BY DEF T!Earliest, Earliest
  <1>3. T!Wraps(p, i) <=> Wraps(p, i)
    BY <1>1 DEF T!Wraps, Wraps
  <1> QED BY <1>1, <1>2, <1>3 DEF T!NextStop, NextStop

LEMMA SameRequests ==
    ASSUME NEW p, NEW name, NEW b
    PROVE  T!Requests(p, name, b) = Requests(p, name, b)
  BY DEF T!Requests, Requests, T!WsOf, WsOf, T!TasksForWs, TasksForWs, T!PlanOf, PlanOf,
         T!FirstPick, FirstPick

-----------------------------------------------------------------------------
(* What the tour looks like in the states of the workcell *)

\* The state the tour consists of.
LEMMA SameTour ==
    ASSUME param' = param, index' = index, TourPhase' = TourPhase,
           RemainingTodo' = RemainingTodo, FirstPickPerformed' = FirstPickPerformed
    PROVE  UNCHANGED T!vars
  BY DEF T!vars

LEMMA PhaseFacts ==
    ASSUME TypeInv
    PROVE  /\ awaiting => TourPhase = "standing" /\ index <= Len(param.tour)
           /\ nav # "idle" => TourPhase = "driving"
           /\ index > Len(param.tour) => TourPhase = "over"
  <1>1. index \in Nat /\ Len(param.tour) \in Nat
    BY TypeFacts
  <1> QED BY <1>1 DEF TypeInv, FollowerOK, TourPhase

\* The visit, as the tour sees it, follows from these variables.
LEMMA SameVisit ==
    ASSUME param' = param, arrivals' = arrivals, wp' = wp, tasks' = tasks, task' = task,
           picked' = picked, last' = last
    PROVE  RemainingTodo' = RemainingTodo /\ FirstPickPerformed' = FirstPickPerformed
  <1>1. Current' = Current
    BY DEF Current
  <1>2. Performed' = Performed
    BY <1>1, Zenon DEF Performed
  <1>3. RemainingTodo' = RemainingTodo
    BY <1>2, Zenon DEF RemainingTodo
  <1>4. FirstPickPerformed' = FirstPickPerformed
    BY <1>1, <1>2, Zenon DEF FirstPickPerformed
  <1> QED BY <1>3, <1>4

LEMMA SamePhase ==
    ASSUME param' = param, UNCHANGED follower
    PROVE  index' = index /\ TourPhase' = TourPhase
  BY DEF follower, TourPhase

\* Steps that change nothing of the tour.
LEMMA TourStutters ==
    ASSUME param' = param, UNCHANGED follower, arrivals' = arrivals, wp' = wp,
           tasks' = tasks, task' = task, picked' = picked, last' = last
    PROVE  UNCHANGED T!vars
  BY SameVisit, SamePhase, SameTour

LEMMA NotPerformed ==
    ASSUME TypeInv, ~Performed
    PROVE  FirstPickPerformed = picked
  <1>1. CASE picked
    <2>1. picked = TRUE
      BY <1>1, TypeFacts
    <2>2. FirstPickPerformed = TRUE
      BY <1>1, Zenon DEF FirstPickPerformed
    <2> QED BY <2>1, <2>2, Zenon
  <1>2. CASE ~picked
    <2>1. picked = FALSE
      BY <1>2, TypeFacts
    <2>2. FirstPickPerformed = FALSE
      BY <1>2, Zenon DEF FirstPickPerformed
    <2> QED BY <2>1, <2>2, Zenon
  <1> QED BY <1>1, <1>2

LEMMA NoVisitNoTodo ==
    ASSUME arrivals = <<>>, wp = None
    PROVE  RemainingTodo = <<>>
  BY DEF RemainingTodo

\* From a visit's task on, the requests that are left.
LEMMA TodoOfVisit ==
    ASSUME arrivals = <<>>, wp # None
    PROVE  /\ ~Performed => RemainingTodo = SubSeq(tasks, task, Len(tasks))
           /\ Performed => RemainingTodo = SubSeq(tasks, task + 1, Len(tasks))
  BY DEF RemainingTodo

-----------------------------------------------------------------------------
(* Steps of the follower *)

LEMMA GotoMapped ==
    ASSUME TypeInv, NEW i \in Nat, i >= 1, SendCurrentGoal(i), awaiting' = FALSE, param' = param
    PROVE  /\ index' = NextStop(param, i)
           /\ TourPhase' = IF index' > Len(param.tour) THEN "over" ELSE "driving"
  <1>1. param \in Configurations /\ Len(param.tour) \in Nat
    BY TypeFacts
  <1>2. NextStop(param, i) \in 1..(Len(param.tour) + 1)
    BY <1>1, NextStopType
  <1>3. index' = NextStop(param, i)
    BY DEF SendCurrentGoal
  <1>4. nav' = IF index' > Len(param.tour) THEN "idle" ELSE "requested"
    BY DEF SendCurrentGoal
  <1>5. TourPhase' = IF index' > Len(param.tour) THEN "over" ELSE "driving"
    BY <1>1, <1>2, <1>3, <1>4 DEF TourPhase
  <1> QED BY <1>3, <1>5

LEMMA MissMapped ==
    ASSUME TypeInv, OneHand, nav # "idle", NotReached, param' = param, arrivals' = arrivals,
           UNCHANGED visit, last' = last
    PROVE  T!Next
  <1>1. TourPhase = "driving" /\ index \in Nat /\ index <= Len(param.tour)
        /\ Len(param.tour) \in Nat
    BY PhaseFacts, TypeFacts DEF TypeInv, FollowerOK
  <1>2. RemainingTodo' = RemainingTodo /\ FirstPickPerformed' = FirstPickPerformed
    BY SameVisit DEF visit
  <1>3. CASE param.continueOnMiss
    <2>1. SendCurrentGoal(index + 1) /\ awaiting' = FALSE
      BY <1>3 DEF NotReached, AdvanceToNext
    <2>2. T!Goto(index + 1)
      <3>1. index + 1 \in Nat /\ index + 1 >= 1
        BY <1>1
      <3> QED BY <2>1, <3>1, GotoMapped, SameStops DEF T!Goto
    <2> QED BY <1>1, <1>2, <1>3, <2>2 DEF T!Next, T!Miss
  <1>4. CASE ~param.continueOnMiss
    <2>1. nav' = "idle" /\ index' = index /\ awaiting' = awaiting
      BY <1>4 DEF NotReached
    <2>2. ~awaiting
      BY DEF TypeInv, FollowerOK
    <2>3. TourPhase' = "stranded"
      BY <1>1, <2>1, <2>2 DEF TourPhase
    <2> QED BY <1>1, <1>2, <1>4, <2>1, <2>3 DEF T!Next, T!Miss
  <1> QED BY <1>3, <1>4

LEMMA FollowerMapped ==
    ASSUME TypeInv, OneHand, GoalResponse \/ GetResult \/ DoneCallback \/ Restart
    PROVE  T!Next \/ UNCHANGED T!vars
  <1>0. /\ param' = param /\ UNCHANGED visit /\ last' = last
        /\ wp' = wp /\ tasks' = tasks /\ task' = task /\ picked' = picked
    BY DEF GoalResponse, GetResult, DoneCallback, Restart, visit, station
  <1>1. CASE GoalResponse
    <2>1. nav = "requested" /\ arrivals' = arrivals
      BY <1>1 DEF GoalResponse
    <2>2. CASE NotReached
      BY <1>0, <2>1, <2>2, MissMapped
    <2>3. CASE nav' = "driving" /\ UNCHANGED <<index, awaiting, doneNames>>
      <3>1. TourPhase' = TourPhase
        BY <1>0, <2>1, <2>3 DEF TourPhase
      <3> QED BY <1>0, <2>1, <2>3, <3>1, SameVisit, SameTour
    <2> QED BY <1>1, <2>2, <2>3 DEF GoalResponse
  <1>2. CASE GetResult
    <2>1. nav = "driving"
      BY <1>2 DEF GetResult
    <2>2. CASE NotReached /\ UNCHANGED arrivals
      BY <1>0, <2>1, <2>2, MissMapped
    <2>3. CASE HandleWaypointArrived
      <3>1. ~awaiting /\ index <= Len(param.tour)
        BY <2>1 DEF TypeInv, FollowerOK
      <3>2. doneNames = {} /\ arrivals = <<>> /\ wp = None
        BY <3>1 DEF OneHand
      <3>3. arrivals' = <<Name>>
        BY <2>3, <3>2, FirstMessage DEF HandleWaypointArrived
      <3>4. awaiting' = TRUE /\ index' = index
        BY <2>3, <3>2 DEF HandleWaypointArrived
      <3>5. TourPhase = "driving" /\ TourPhase' = "standing"
        BY <1>0, <2>1, <3>1, <3>4, PhaseFacts, TypeFacts DEF TourPhase
      <3>6. ~Performed /\ ~Performed'
        BY <1>0, <3>2 DEF Performed
      <3>7. FirstPickPerformed = picked
        BY <3>6, NotPerformed
      <3>8. FirstPickPerformed' = FirstPickPerformed
        <4>1. Current' = Current /\ (Performed' <=> Performed)
          BY <1>0 DEF Current, Performed
        <4>2. CASE picked
          BY <1>0, <4>2, Zenon DEF FirstPickPerformed
        <4>3. CASE ~picked
          BY <1>0, <3>6, <4>3, Zenon DEF FirstPickPerformed
        <4> QED BY <4>2, <4>3
      <3>9. RemainingTodo' = Requests(param, Name, picked)
        <4>1. arrivals' # <<>> /\ Head(arrivals') = Name
          BY <3>3, FirstMessage
        <4> QED BY <1>0, <4>1 DEF RemainingTodo
      <3>10. RemainingTodo' = T!Requests(param, param.tour[index], FirstPickPerformed)
        BY <3>7, <3>9, SameRequests DEF Name
      <3> QED BY <1>0, <3>4, <3>5, <3>8, <3>10 DEF T!Next, T!Arrive
    <2> QED BY <1>2, <2>2, <2>3 DEF GetResult
  <1>3. CASE DoneCallback
    <2>1. dones # <<>> /\ arrivals' = arrivals
      BY <1>3 DEF DoneCallback
    <2>2. awaiting /\ arrivals = <<>> /\ wp = None /\ dones = <<Name>>
      BY <2>1 DEF OneHand
    <2>3. Head(dones) = Name
      BY <2>2, FirstMessage
    <2>4. SendCurrentGoal(index + 1) /\ awaiting' = FALSE
      BY <1>3, <2>2, <2>3 DEF DoneCallback, AdvanceToNext
    <2>5. T!Goto(index + 1)
      <3>1. index + 1 \in Nat /\ index + 1 >= 1
        BY TypeFacts
      <3> QED BY <1>0, <2>4, <3>1, GotoMapped, SameStops DEF T!Goto
    <2>6. TourPhase = "standing" /\ RemainingTodo = <<>>
      BY <2>2, PhaseFacts, NoVisitNoTodo
    <2>7. RemainingTodo' = RemainingTodo /\ FirstPickPerformed' = FirstPickPerformed
      BY <1>0, <2>1, SameVisit
    <2> QED BY <1>0, <2>5, <2>6, <2>7 DEF T!Next, T!Depart
  <1>4. CASE Restart
    <2>1. /\ param.repeat = "delayed" /\ index > Len(param.tour) /\ arrivals' = arrivals
          /\ SendCurrentGoal(1) /\ awaiting' = FALSE
      BY <1>4 DEF Restart
    <2>2. T!Goto(1)
      <3>1. 1 \in Nat /\ 1 >= 1
        OBVIOUS
      <3>2. /\ index' = NextStop(param, 1)
            /\ TourPhase' = IF index' > Len(param.tour) THEN "over" ELSE "driving"
        BY <1>0, <2>1, <3>1, GotoMapped
      <3> QED BY <3>2, SameStops DEF T!Goto
    <2>3. TourPhase = "over"
      BY <2>1, PhaseFacts
    <2>4. RemainingTodo' = RemainingTodo /\ FirstPickPerformed' = FirstPickPerformed
      BY <1>0, <2>1, SameVisit
    <2> QED BY <1>0, <2>1, <2>2, <2>3, <2>4 DEF T!Next, T!Restart
  <1> QED BY <1>1, <1>2, <1>3, <1>4

-----------------------------------------------------------------------------
(* Steps of the FSM *)

\* The arrival message becomes the visit that is asked for.
LEMMA StartMapped ==
    ASSUME TypeInv, OneHand, LastVisit, Telling(param), OnWpArrive
    PROVE  UNCHANGED T!vars
  <1> DEFINE R == Requests(param, Name, picked)
  <1>1. /\ param' = param /\ UNCHANGED follower /\ last' = last
        /\ arrivals # <<>> /\ arrivals' = Tail(arrivals)
    BY DEF OnWpArrive, station
  <1>2. awaiting /\ arrivals = <<Name>> /\ wp = None
    BY <1>1 DEF OneHand
  <1>3. Head(arrivals) = Name /\ arrivals' = <<>> /\ StartWaypoint(Name)
    BY <1>1, <1>2, FirstMessage DEF OnWpArrive
  <1>4. ~Performed /\ FirstPickPerformed = picked
    BY <1>2, NotPerformed DEF Performed
  <1>5. RemainingTodo = R
    BY <1>1, <1>3 DEF RemainingTodo
  <1>6. Name \in Waypoints /\ param \in Configurations /\ picked \in BOOLEAN
    BY <1>2, TypeFacts
  <1>7. CASE R = <<>>
    <2>1. wp' = None /\ picked' = picked
      BY <1>2, <1>3, <1>7 DEF StartWaypoint, visit
    <2>2. ~Performed' /\ RemainingTodo' = <<>>
      BY <1>3, <2>1 DEF Performed, RemainingTodo
    <2>3. FirstPickPerformed' = picked
      <3>1. CASE picked
        BY <2>1, <3>1, <1>6, Zenon DEF FirstPickPerformed
      <3>2. CASE ~picked
        BY <2>1, <2>2, <3>2, <1>6, Zenon DEF FirstPickPerformed
      <3> QED BY <3>1, <3>2
    <2> QED BY <1>1, <1>4, <1>5, <1>7, <2>2, <2>3, SamePhase, SameTour
  <1>8. CASE R # <<>>
    <2>1. wp' = Name /\ tasks' = R /\ task' = 1 /\ picked' = picked
      BY <1>3, <1>8 DEF StartWaypoint
    <2>2. R \in Seq(Request)
      BY <1>6, RequestsType
    <2>3. R[1] \in Request
      BY <1>8, <2>2
    <2>4. last # R[1]
      <3>1. CASE last = None
        BY <2>3, <3>1, WorkPlanAssumption
      <3>2. CASE last # None
        BY <1>1, <1>3, <1>8, <3>2, FirstTaskDiffers
      <3> QED BY <3>1, <3>2
    <2> HIDE DEF R
    <2>5. Current' = R[1]
      BY <2>1 DEF Current
    <2>6. ~Performed'
      BY <1>1, <2>4, <2>5 DEF Performed
    <2>7. wp' # None
      BY <2>1, <1>6, WorkPlanAssumption
    <2>8. RemainingTodo' = SubSeq(R, 1, Len(R))
      BY <1>3, <2>1, <2>6, <2>7 DEF RemainingTodo
    <2>9. RemainingTodo' = R
      BY <2>2, <2>8, SubSeqFull
    <2>10. FirstPickPerformed' = picked
      <3>1. CASE picked
        BY <2>1, <3>1, <1>6, Zenon DEF FirstPickPerformed
      <3>2. CASE ~picked
        BY <2>1, <2>6, <3>2, <1>6, Zenon DEF FirstPickPerformed
      <3> QED BY <3>1, <3>2
    <2> QED BY <1>1, <1>4, <1>5, <2>9, <2>10, SamePhase, SameTour DEF R
  <1> QED BY <1>7, <1>8

\* The confirmation of what has been performed moves the FSM, not the tour.
LEMMA AdvanceMapped ==
    ASSUME TypeInv, OneHand, Channel, LastVisit, Telling(param), rx # <<>>, Confirms(Head(rx)), AdvanceTask,
           param' = param, UNCHANGED follower, arrivals' = arrivals, last' = last
    PROVE  UNCHANGED T!vars
  <1>1. last = Current /\ wp # None /\ Performed
    BY ChannelConfirmed DEF Confirms, Performed
  <1>2. arrivals = <<>>
    BY <1>1 DEF OneHand
  <1>3. /\ wp \in Waypoints /\ picked \in BOOLEAN /\ param \in Configurations
        /\ tasks \in Seq(Request) /\ task \in 1..Len(tasks)
    BY <1>1, TypeFacts
  <1>4. tasks = Requests(param, wp, picked) /\ tasks # <<>>
    BY <1>1, <1>3 DEF TypeInv, VisitOK
  <1>5. RemainingTodo = SubSeq(tasks, task + 1, Len(tasks))
    BY <1>1, <1>2, TodoOfVisit
  <1>6. CASE task = Len(tasks)
    <2>1. wp' = None /\ picked' = (picked \/ FirstPick(param))
      BY <1>6 DEF AdvanceTask, FinishWaypoint
    <2>2. RemainingTodo' = <<>> /\ ~Performed'
      BY <1>2, <2>1 DEF RemainingTodo, Performed
    <2>3. RemainingTodo = <<>>
      <3>1. task + 1 \in Int /\ Len(tasks) \in Int /\ Len(tasks) < task + 1
        BY <1>3, <1>6
      <3> QED BY <1>5, <3>1, SubSeqEmpty
    <2>4. FirstPick(param) => Current[2] = Pick
      <3>1. wp = param.tour[index] /\ awaiting
        BY <1>1 DEF OneHand, Name
      <3>2. index \in 1..Len(param.tour) /\ Visitable(param, param.tour[index])
        BY <3>1, VisitPosition
      <3>3. EndsVisit(param, tasks[Len(tasks)], picked \/ FirstPick(param), index + 1)
        BY <1>3, <1>4, <3>1, <3>2, LastRequest
      <3> QED BY <1>6, <3>3 DEF EndsVisit, Current
    <2>5. FirstPickPerformed' = FirstPickPerformed
      <3>1. CASE picked \/ FirstPick(param)
        <4>1. picked' = TRUE
          BY <2>1, <3>1, Zenon
        <4>2. FirstPickPerformed' = TRUE
          BY <4>1, Zenon DEF FirstPickPerformed
        <4>3. FirstPickPerformed = TRUE
          BY <1>1, <2>4, <3>1, Zenon DEF FirstPickPerformed
        <4> QED BY <4>2, <4>3, Zenon
      <3>2. CASE ~(picked \/ FirstPick(param))
        <4>1. ~picked'
          BY <2>1, <3>2, Zenon
        <4>2. FirstPickPerformed' = FALSE
          BY <4>1, <2>2, Zenon DEF FirstPickPerformed
        <4>3. FirstPickPerformed = FALSE
          BY <3>2, Zenon DEF FirstPickPerformed
        <4> QED BY <4>2, <4>3, Zenon
      <3> QED BY <3>1, <3>2
    <2> QED BY <2>2, <2>3, <2>5, SamePhase, SameTour
  <1>7. CASE task # Len(tasks)
    <2>1. /\ wp' = wp /\ tasks' = tasks /\ task' = task + 1
          /\ picked' = (picked \/ (FirstPick(param) /\ Current[2] = Pick))
      BY <1>7 DEF AdvanceTask
    <2>2. tasks[task + 1] # tasks[task]
      BY <1>1, <1>7, NextTaskDiffers
    <2>3. ~Performed'
      BY <1>1, <2>1, <2>2 DEF Performed, Current
    <2>4. RemainingTodo' = SubSeq(tasks, task + 1, Len(tasks))
      BY <1>1, <1>2, <2>1, <2>3 DEF RemainingTodo
    <2>5. FirstPickPerformed' = FirstPickPerformed
      <3>1. CASE picked \/ (FirstPick(param) /\ Current[2] = Pick)
        <4>1. picked' = TRUE
          BY <2>1, <3>1, Zenon
        <4>2. FirstPickPerformed' = TRUE
          BY <4>1, Zenon DEF FirstPickPerformed
        <4>3. FirstPickPerformed = TRUE
          BY <1>1, <3>1, Zenon DEF FirstPickPerformed
        <4> QED BY <4>2, <4>3, Zenon
      <3>2. CASE ~(picked \/ (FirstPick(param) /\ Current[2] = Pick))
        <4>1. ~picked'
          BY <2>1, <3>2, Zenon
        <4>2. FirstPickPerformed' = FALSE
          BY <4>1, <2>3, Zenon DEF FirstPickPerformed
        <4>3. FirstPickPerformed = FALSE
          BY <3>2, Zenon DEF FirstPickPerformed
        <4> QED BY <4>2, <4>3, Zenon
      <3> QED BY <3>1, <3>2
    <2> QED BY <1>5, <2>4, <2>5, SamePhase, SameTour
  <1> QED BY <1>6, <1>7

LEMMA FsmMapped ==
    ASSUME TypeInv, OneHand, Channel, LastVisit, Telling(param), param.fail = "stop",
           OnWpArrive \/ OnSerialRx \/ ResendCb \/ TimeoutCb
    PROVE  UNCHANGED T!vars
  <1>0. param' = param /\ UNCHANGED follower /\ last' = last
    BY DEF OnWpArrive, OnSerialRx, ResendCb, TimeoutCb, station
  <1>1. CASE OnWpArrive
    BY <1>1, StartMapped
  <1>2. CASE OnSerialRx
    <2>1. rx # <<>> /\ arrivals' = arrivals
      BY <1>2 DEF OnSerialRx
    <2>2. CASE Confirms(Head(rx))
      <3>1. AdvanceTask
        BY <1>2, <2>2 DEF OnSerialRx
      <3> QED BY <1>0, <2>1, <2>2, <3>1, AdvanceMapped
    <2>3. CASE ~Confirms(Head(rx))
      <3>1. wp' = wp /\ tasks' = tasks /\ task' = task /\ picked' = picked
        BY <1>2, <2>3 DEF OnSerialRx, visit
      <3> QED BY <1>0, <2>1, <3>1, TourStutters
    <2> QED BY <2>2, <2>3
  <1>3. CASE ResendCb \/ TimeoutCb
    <2>1. arrivals' = arrivals
      BY <1>3 DEF ResendCb, TimeoutCb
    <2>2. wp' = wp /\ tasks' = tasks /\ task' = task /\ picked' = picked
      BY <1>3 DEF ResendCb, TimeoutCb, GiveUp
    <2> QED BY <1>0, <2>1, <2>2, TourStutters
  <1> QED BY <1>1, <1>2, <1>3

-----------------------------------------------------------------------------
(* Steps of the bridge, the line and the station *)

LEMMA PerformMapped ==
    ASSUME TypeInv, OneHand, Channel, StationDone
    PROVE  T!Next
  <1>1. /\ busy # None /\ last' = busy /\ param' = param /\ UNCHANGED follower
        /\ arrivals' = arrivals /\ wp' = wp /\ tasks' = tasks /\ task' = task /\ picked' = picked
    BY DEF StationDone, visit
  <1>2. wp # None /\ busy = Current /\ last # Current
    BY <1>1, BusyWithCurrent
  <1>3. awaiting /\ arrivals = <<>>
    BY <1>2 DEF OneHand
  <1>4. TourPhase = "standing"
    BY <1>3, PhaseFacts
  <1>5. tasks \in Seq(Request) /\ task \in 1..Len(tasks) /\ Len(tasks) \in Nat
    BY <1>2, TypeFacts
  <1>6. Current' = Current /\ ~Performed /\ Performed'
    BY <1>1, <1>2 DEF Current, Performed
  <1>7. RemainingTodo = SubSeq(tasks, task, Len(tasks))
    BY <1>2, <1>3, <1>6, TodoOfVisit
  <1>8. RemainingTodo' = SubSeq(tasks, task + 1, Len(tasks))
    BY <1>1, <1>2, <1>3, <1>6 DEF RemainingTodo
  <1>9. Len(tasks) \in task..Len(tasks)
    BY <1>5
  <1>10. Head(RemainingTodo) = Current /\ Tail(RemainingTodo) = RemainingTodo'
    BY <1>5, <1>7, <1>8, <1>9, HeadTailOfSubSeq DEF Current
  <1>11. RemainingTodo # <<>>
    <2>1. \A i \in task..Len(tasks) : tasks[i] \in Request
      BY <1>5
    <2>2. Len(RemainingTodo) = Len(tasks) - task + 1
      BY <1>5, <1>7, <2>1, SubSeqProperties
    <2>3. Len(RemainingTodo) # 0
      BY <1>5, <2>2
    <2> QED BY <2>3, EmptySeq
  <1>12. FirstPickPerformed' = (FirstPickPerformed \/ (T!FirstPick(param) /\ Head(RemainingTodo)[2] = Pick))
    <2>1. T!FirstPick(param) <=> FirstPick(param)
      BY DEF T!FirstPick, FirstPick
    <2>2. CASE picked \/ (FirstPick(param) /\ Current[2] = Pick)
      <3>1. FirstPickPerformed' = TRUE
        BY <1>1, <1>6, <2>2, Zenon DEF FirstPickPerformed
      <3>2. (FirstPickPerformed \/ (T!FirstPick(param) /\ Head(RemainingTodo)[2] = Pick)) = TRUE
        BY <1>10, <2>1, <2>2, Zenon DEF FirstPickPerformed
      <3> QED BY <3>1, <3>2, Zenon
    <2>3. CASE ~(picked \/ (FirstPick(param) /\ Current[2] = Pick))
      <3>1. FirstPickPerformed' = FALSE
        BY <1>1, <1>6, <2>3, Zenon DEF FirstPickPerformed
      <3>2. (FirstPickPerformed \/ (T!FirstPick(param) /\ Head(RemainingTodo)[2] = Pick)) = FALSE
        BY <1>6, <1>10, <2>1, <2>3, Zenon DEF FirstPickPerformed
      <3> QED BY <3>1, <3>2, Zenon
    <2> QED BY <2>2, <2>3
  <1>13. index' = index /\ TourPhase' = TourPhase
    BY <1>1, SamePhase
  <1>14. T!Perform
    BY <1>1, <1>4, <1>10, <1>11, <1>12, <1>13, Zenon DEF T!Perform
  <1> QED BY <1>14 DEF T!Next

LEMMA LineMapped ==
    ASSUME TxCallback \/ ReadSerial \/ LoseLine \/ StationRead \/ StationFail
    PROVE  UNCHANGED T!vars
  <1>1. /\ param' = param /\ UNCHANGED follower /\ arrivals' = arrivals /\ last' = last
        /\ wp' = wp /\ tasks' = tasks /\ task' = task /\ picked' = picked
    BY DEF TxCallback, ReadSerial, LoseLine, StationRead, StationFail, visit, station
  <1> QED BY <1>1, TourStutters

-----------------------------------------------------------------------------
LEMMA InitMapped == Init => T!Init
  <1> SUFFICES ASSUME Init PROVE T!Init
    OBVIOUS
  <1>1. param \in Configs /\ param \in Configurations
    BY WorkcellAssumption DEF Init
  <1>2. T!Configurations = Configurations
    BY DEF T!Configurations, Configurations, T!Tasks, Tasks
  <1>3. index = T!NextStop(param, 1)
    BY SameStops DEF Init
  <1>4. TourPhase = "driving"
    <2>1. index <= Len(param.tour) /\ index \in Nat /\ Len(param.tour) \in Nat
      BY <1>1, FirstStop, NextStopType, ConfigFields DEF Init
    <2>2. ~awaiting /\ nav # "idle"
      BY DEF Init
    <2> QED BY <2>1, <2>2 DEF TourPhase
  <1>5. RemainingTodo = <<>>
    BY NoVisitNoTodo DEF Init
  <1>6. FirstPickPerformed = FALSE
    BY Zenon DEF Init, FirstPickPerformed, Performed
  <1> QED BY <1>1, <1>2, <1>3, <1>4, <1>5, <1>6, Zenon DEF T!Init

LEMMA TourStep ==
    ASSUME TypeInv, OneHand, ChannelInv, Telling(param), [Next]_vars
    PROVE  [param.fail = "stop" => T!Next]_(T!vars)
  <1>1. SUFFICES ASSUME param.fail = "stop" PROVE T!Next \/ UNCHANGED T!vars
    OBVIOUS
  <1>2. Channel /\ LastVisit
    BY <1>1 DEF ChannelInv
  <1>3. CASE UNCHANGED vars
    <2>1. /\ param' = param /\ UNCHANGED follower /\ arrivals' = arrivals /\ last' = last
          /\ wp' = wp /\ tasks' = tasks /\ task' = task /\ picked' = picked
      BY <1>3 DEF vars, visit, station
    <2> QED BY <2>1, TourStutters
  <1>4. CASE Next
    BY <1>1, <1>2, <1>4, FollowerMapped, FsmMapped, PerformMapped, LineMapped DEF Next
  <1> QED BY <1>3, <1>4

\* Where requests that follow each other are never the same: each task of each
\* visit is performed exactly once and in order while the robot stands at the
\* stop, and the robot leaves only after the last of them, on to the stop that
\* follows; whatever the line loses, repeats or delays.
THEOREM TourImplemented ==
    ASSUME \A p \in Configs : Telling(p)
    PROVE  Spec => FollowsTheTour
  <1>1. Spec => []TypeInv
    BY InitTypes, TypeStep, PTL DEF Spec
  <1>2. Spec => []OneHand
    BY <1>1, InitHand, HandStep, PTL DEF Spec
  <1>3. TypeInv => Telling(param)
    BY TypeFacts
  <1>4. TypeInv /\ OneHand /\ ChannelInv /\ [Next]_vars
           => [param.fail = "stop" => T!Next]_(T!vars)
    BY <1>3, TourStep
  <1> QED BY <1>1, <1>2, <1>4, ChannelAlways, InitMapped, PTL DEF Spec, FollowsTheTour
=============================================================================
