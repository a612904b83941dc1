--------------------------- MODULE WorkcellProofs ---------------------------
(***************************************************************************)
(* Proofs about Workcell, for every set of configurations, every tour and  *)
(* every depth of the queues.                                              *)
(***************************************************************************)
EXTENDS Workcell, TLAPS, SequenceTheorems, WellFoundedInduction

-----------------------------------------------------------------------------
(* The tour *)

\* A set of naturals has a least element.
LEMMA LeastNatural ==
    ASSUME NEW S \in SUBSET Nat, S # {}
    PROVE  \E j \in S : \A k \in S : j <= k
  <1> DEFINE R == {ss \in Nat \X Nat : ss[1] < ss[2]}
  <1>1. IsWellFoundedOn(R, Nat)
    BY NatLessThanWellFounded DEF OpToRel
  <1>2. \E x \in S : \A y \in S : ~ (<<y, x>> \in R)
    <2> HIDE DEF R
    <2> QED BY <1>1, WFMin
  <1>3. PICK x \in S : \A y \in S : ~ (<<y, x>> \in R)
    BY <1>2
  <1>4. ASSUME NEW y \in S PROVE x <= y
    <2>1. <<y, x>> \notin R
      BY <1>3
    <2>2. y \in Nat /\ x \in Nat
      OBVIOUS
    <2> QED BY <2>1, <2>2
  <1> QED BY <1>4

\* The fields of a configuration the proofs speak of.
LEMMA ConfigFields ==
    ASSUME NEW p \in Configurations
    PROVE  /\ p.tour \in Seq(Waypoints)
           /\ p.wsOf \in [Waypoints -> Stations \cup {None}]
           /\ p.plan \in [Stations -> Seq(Tasks)]
           /\ p.maxResends \in Nat
           /\ p.resend \in BOOLEAN
           /\ p.timeout \in BOOLEAN
           /\ \E i \in 1..Len(p.tour) : p.tour[i] \in p.listed
  BY DEF Configurations

\* The next stop is a position of the tour, or the one behind its last.
LEMMA NextStopType ==
    ASSUME NEW p \in Configurations, NEW i \in Nat, i >= 1
    PROVE  NextStop(p, i) \in 1..(Len(p.tour) + 1)
  <1> DEFINE n == Len(p.tour)
  <1>1. n \in Nat
    BY ConfigFields
  <1>2. ASSUME NEW k \in Nat, k >= 1, StopsFrom(p, k) # {}
        PROVE  Earliest(StopsFrom(p, k)) \in 1..n
    <2>1. StopsFrom(p, k) \in SUBSET Nat /\ StopsFrom(p, k) \subseteq 1..n
      BY <1>1, <1>2 DEF StopsFrom
    <2>2. \E j \in StopsFrom(p, k) : \A m \in StopsFrom(p, k) : j <= m
      BY <2>1, <1>2, LeastNatural
    <2>3. Earliest(StopsFrom(p, k)) \in StopsFrom(p, k)
      BY <2>2 DEF Earliest
    <2> QED BY <2>1, <2>3
  <1>3. StopsFrom(p, 1) # {}
    BY ConfigFields DEF StopsFrom, Visitable
  <1> QED BY <1>1, <1>2, <1>3 DEF NextStop

\* The tour has a stop to start with.
LEMMA FirstStop ==
    ASSUME NEW p \in Configurations
    PROVE  NextStop(p, 1) <= Len(p.tour)
  <1> DEFINE n == Len(p.tour)
  <1>1. n \in Nat
    BY ConfigFields
  <1>2. StopsFrom(p, 1) # {}
    BY ConfigFields DEF StopsFrom, Visitable
  <1>3. StopsFrom(p, 1) \in SUBSET Nat /\ StopsFrom(p, 1) \subseteq 1..n
    BY <1>1 DEF StopsFrom
  <1>4. \E j \in StopsFrom(p, 1) : \A m \in StopsFrom(p, 1) : j <= m
    BY <1>3, <1>2, LeastNatural
  <1>5. Earliest(StopsFrom(p, 1)) \in StopsFrom(p, 1)
    BY <1>4 DEF Earliest
  <1> QED BY <1>2, <1>3, <1>5, <1>1 DEF NextStop

-----------------------------------------------------------------------------
(* The requests of a visit *)

LEMMA TasksType ==
    ASSUME NEW p \in Configurations, NEW ws \in Stations, NEW b \in BOOLEAN
    PROVE  TasksForWs(p, ws, b) \in Seq(Tasks)
  <1>1. p.plan[ws] \in Seq(Tasks)
    BY ConfigFields
  <1>2. <<Place, Pick>> \in Seq(Tasks) /\ <<Pick>> \in Seq(Tasks)
    BY DEF Tasks
  <1> QED BY <1>1, <1>2 DEF TasksForWs, PlanOf

LEMMA RequestsType ==
    ASSUME NEW p \in Configurations, NEW name \in Waypoints, NEW b \in BOOLEAN
    PROVE  Requests(p, name, b) \in Seq(Request)
  <1> DEFINE ws    == WsOf(p, name)
             tasks_ == TasksForWs(p, ws, b)
  <1>1. CASE ws = None
    BY <1>1 DEF Requests
  <1>2. CASE ws # None
    <2>1. ws \in Stations
      BY <1>2, ConfigFields DEF WsOf
    <2>2. tasks_ \in Seq(Tasks)
      BY <2>1, TasksType
    <2> HIDE DEF ws, tasks_
    <2>3. [i \in 1..Len(tasks_) |-> <<ws, tasks_[i]>>] \in Seq(Request)
      BY <2>1, <2>2 DEF Request
    <2> QED BY <1>2, <2>3 DEF Requests, ws, tasks_
  <1> QED BY <1>1, <1>2

-----------------------------------------------------------------------------
(* Types *)

\* What the follower keeps to: a goal is out or a DONE is awaited, never both,
\* and only for a position of the tour.
FollowerOK ==
    /\ nav # "idle" => index <= Len(param.tour) /\ ~awaiting
    /\ awaiting => index <= Len(param.tour)

\* What the FSM keeps to: the tasks of a visit are those of its waypoint.
VisitOK ==
    IF wp = None THEN tasks = <<>>
    ELSE tasks = Requests(param, wp, picked) /\ task \in 1..Len(tasks)

TypeInv == TypeOK /\ FollowerOK /\ VisitOK

LEMMA PublishType ==
    ASSUME NEW S, NEW q \in Seq(S), NEW m \in S, Len(q) <= QueueDepth
    PROVE  Publish(q, m) \in Seq(S) /\ Len(Publish(q, m)) <= QueueDepth
  <1>0. QueueDepth \in Nat \ {0} /\ Len(q) \in Nat
    BY WorkcellAssumption
  <1>1. CASE Len(q) < QueueDepth
    BY <1>0, <1>1, AppendProperties DEF Publish
  <1>2. CASE ~(Len(q) < QueueDepth)
    <2>1. q # <<>>
      BY <1>0, <1>2
    <2>2. Tail(q) \in Seq(S) /\ Len(Tail(q)) = Len(q) - 1
      BY <2>1, HeadTailProperties
    <2>3. Append(Tail(q), m) \in Seq(S) /\ Len(Append(Tail(q), m)) = Len(q)
      BY <2>2, <1>0, AppendProperties
    <2> QED BY <1>0, <1>2, <2>3 DEF Publish
  <1> QED BY <1>1, <1>2

LEMMA TransmitType ==
    ASSUME NEW S, NEW q \in Seq(S), NEW m \in S, Len(q) <= LineDepth
    PROVE  Transmit(q, m) \in Seq(S) /\ Len(Transmit(q, m)) <= LineDepth
  <1>0. LineDepth \in Nat \ {0} /\ Len(q) \in Nat
    BY WorkcellAssumption
  <1> QED BY <1>0, AppendProperties DEF Transmit

LEMMA TailType ==
    ASSUME NEW S, NEW q \in Seq(S), q # <<>>, NEW n \in Nat, Len(q) <= n
    PROVE  Tail(q) \in Seq(S) /\ Len(Tail(q)) <= n /\ Head(q) \in S
  BY HeadTailProperties

\* TypeInv, written out for the provers.
LEMMA TypeFacts ==
    ASSUME TypeInv
    PROVE  /\ param \in Configurations /\ param \in Configs
           /\ param.tour \in Seq(Waypoints) /\ Len(param.tour) \in Nat
           /\ index \in 1..(Len(param.tour) + 1) /\ index \in Nat /\ index >= 1
           /\ nav \in {"idle", "requested", "driving"} /\ awaiting \in BOOLEAN
           /\ doneNames \subseteq Waypoints
           /\ wp \in Waypoints \cup {None} /\ None \notin Waypoints
           /\ tasks \in Seq(Request) /\ Len(tasks) \in Nat /\ task \in Nat /\ count \in Nat
           /\ resendTimer \in BOOLEAN /\ timeoutTimer \in BOOLEAN
           /\ picked \in BOOLEAN /\ open \in BOOLEAN
           /\ arrivals \in Seq(Waypoints) /\ dones \in Seq(Waypoints)
           /\ tx \in Seq(Request) /\ line \in Seq(Request)
           /\ rx \in Seq(Reply) /\ back \in Seq(Reply)
           /\ busy \in Request \cup {None} /\ last \in Request \cup {None}
           /\ Len(arrivals) <= QueueDepth /\ Len(dones) <= QueueDepth
           /\ Len(tx) <= QueueDepth /\ Len(rx) <= QueueDepth
           /\ Len(line) <= LineDepth /\ Len(back) <= LineDepth
           /\ QueueDepth \in Nat /\ LineDepth \in Nat
           /\ awaiting \/ nav # "idle" => Name \in Waypoints
           /\ wp # None => task \in 1..Len(tasks) /\ Current \in Request
  <1>1. param \in Configurations /\ param \in Configs
    BY WorkcellAssumption DEF TypeInv, TypeOK
  <1>2. param.tour \in Seq(Waypoints) /\ Len(param.tour) \in Nat
    BY <1>1, ConfigFields
  <1>3. index \in 1..(Len(param.tour) + 1) /\ index \in Nat /\ index >= 1
    BY <1>2 DEF TypeInv, TypeOK
  <1>4. /\ nav \in {"idle", "requested", "driving"} /\ awaiting \in BOOLEAN
        /\ doneNames \subseteq Waypoints
        /\ wp \in Waypoints \cup {None} /\ None \notin Waypoints
    BY WorkPlanAssumption DEF TypeInv, TypeOK
  <1>5. /\ tasks \in Seq(Request) /\ Len(tasks) \in Nat
        /\ task \in 1..(Len(tasks) + 1) /\ count \in Nat
    BY DEF TypeInv, TypeOK
  <1>6. task \in Nat
    BY <1>5
  <1>7. /\ resendTimer \in BOOLEAN /\ timeoutTimer \in BOOLEAN
        /\ picked \in BOOLEAN /\ open \in BOOLEAN
        /\ arrivals \in Seq(Waypoints) /\ dones \in Seq(Waypoints)
        /\ tx \in Seq(Request) /\ line \in Seq(Request)
        /\ rx \in Seq(Reply) /\ back \in Seq(Reply)
        /\ busy \in Request \cup {None} /\ last \in Request \cup {None}
    BY DEF TypeInv, TypeOK
  <1>8. /\ Len(arrivals) <= QueueDepth /\ Len(dones) <= QueueDepth
        /\ Len(tx) <= QueueDepth /\ Len(rx) <= QueueDepth
        /\ Len(line) <= LineDepth /\ Len(back) <= LineDepth
        /\ QueueDepth \in Nat /\ LineDepth \in Nat
    BY WorkcellAssumption DEF TypeInv, TypeOK
  <1>9. awaiting \/ nav # "idle" => Name \in Waypoints
    BY <1>2, <1>3 DEF TypeInv, FollowerOK, Name
  <1>10. wp # None => task \in 1..Len(tasks) /\ Current \in Request
    BY <1>5 DEF TypeInv, VisitOK, Current
  <1> QED BY <1>1, <1>2, <1>3, <1>4, <1>5, <1>6, <1>7, <1>8, <1>9, <1>10

\* The types of the parts of the state, by the component that keeps them.
FollowerTypes ==
    /\ index \in 1..(Len(param.tour) + 1)
    /\ nav \in {"idle", "requested", "driving"}
    /\ awaiting \in BOOLEAN
    /\ doneNames \subseteq Waypoints
    /\ FollowerOK

VisitTypes ==
    /\ wp \in Waypoints \cup {None}
    /\ tasks \in Seq(Request) /\ task \in 1..(Len(tasks) + 1) /\ count \in Nat
    /\ resendTimer \in BOOLEAN /\ timeoutTimer \in BOOLEAN /\ picked \in BOOLEAN
    /\ VisitOK

TopicTypes ==
    /\ arrivals \in Seq(Waypoints) /\ Len(arrivals) <= QueueDepth
    /\ dones \in Seq(Waypoints) /\ Len(dones) <= QueueDepth
    /\ tx \in Seq(Request) /\ Len(tx) <= QueueDepth
    /\ rx \in Seq(Reply) /\ Len(rx) <= QueueDepth

LineTypes ==
    /\ open \in BOOLEAN
    /\ line \in Seq(Request) /\ Len(line) <= LineDepth
    /\ back \in Seq(Reply) /\ Len(back) <= LineDepth
    /\ busy \in Request \cup {None} /\ last \in Request \cup {None}

LEMMA TypeNext ==
    ASSUME TypeInv, param' = param, FollowerTypes', VisitTypes', TopicTypes', LineTypes'
    PROVE  TypeInv'
  BY DEF TypeInv, TypeOK, FollowerTypes, VisitTypes, TopicTypes, LineTypes

LEMMA FollowerFrame ==
    ASSUME TypeInv, param' = param, UNCHANGED follower
    PROVE  FollowerTypes'
  BY DEF TypeInv, TypeOK, FollowerTypes, FollowerOK, follower

LEMMA VisitFrame ==
    ASSUME TypeInv, param' = param, UNCHANGED visit
    PROVE  VisitTypes'
  BY DEF TypeInv, TypeOK, VisitTypes, VisitOK, visit

LEMMA LineFrame ==
    ASSUME TypeInv, UNCHANGED wire, UNCHANGED station
    PROVE  LineTypes'
  BY DEF TypeInv, TypeOK, LineTypes, wire, station

LEMMA AdvanceTypes ==
    ASSUME TypeInv, NEW names, names \subseteq Waypoints, param' = param, AdvanceToNext(names)
    PROVE  FollowerTypes'
  <1>1. index' \in 1..(Len(param.tour) + 1)
    <2>1. index + 1 \in Nat /\ index + 1 >= 1
      BY TypeFacts
    <2> QED BY <2>1, TypeFacts, NextStopType DEF AdvanceToNext, SendCurrentGoal
  <1>2. nav' \in {"idle", "requested"} /\ (nav' # "idle" => index' <= Len(param.tour))
    BY <1>1, TypeFacts DEF AdvanceToNext, SendCurrentGoal
  <1> QED BY <1>1, <1>2 DEF AdvanceToNext, FollowerTypes, FollowerOK

LEMMA NotReachedTypes ==
    ASSUME TypeInv, nav # "idle", param' = param, NotReached
    PROVE  FollowerTypes'
  <1>1. CASE param.continueOnMiss
    <2>1. AdvanceToNext(doneNames)
      BY <1>1 DEF NotReached
    <2> QED BY <2>1, TypeFacts, AdvanceTypes
  <1>2. CASE ~param.continueOnMiss
    <2>1. nav' = "idle" /\ UNCHANGED <<index, awaiting, doneNames>>
      BY <1>2 DEF NotReached
    <2> QED BY <2>1 DEF TypeInv, TypeOK, FollowerOK, FollowerTypes
  <1> QED BY <1>1, <1>2

LEMMA FollowerStepTypes ==
    ASSUME TypeInv, GoalResponse \/ GetResult \/ DoneCallback \/ Restart
    PROVE  TypeInv'
  <1>1. CASE GoalResponse
    <2>1. /\ param' = param /\ UNCHANGED <<visit, arrivals, dones, tx, rx>>
          /\ UNCHANGED wire /\ UNCHANGED station
      BY <1>1 DEF GoalResponse
    <2>2. FollowerTypes'
      <3>1. CASE nav' = "driving" /\ UNCHANGED <<index, awaiting, doneNames>>
        BY <1>1, <2>1, <3>1 DEF GoalResponse, TypeInv, TypeOK, FollowerOK, FollowerTypes
      <3>2. CASE NotReached
        BY <1>1, <2>1, <3>2, NotReachedTypes DEF GoalResponse
      <3> QED BY <1>1, <3>1, <3>2 DEF GoalResponse
    <2>3. TopicTypes'
      BY <2>1, TypeFacts DEF TopicTypes
    <2> QED BY <2>1, <2>2, <2>3, VisitFrame, LineFrame, TypeNext
  <1>2. CASE GetResult
    <2>1. /\ param' = param /\ UNCHANGED <<visit, dones, tx, rx>>
          /\ UNCHANGED wire /\ UNCHANGED station /\ nav = "driving"
      BY <1>2 DEF GetResult
    <2>2. FollowerTypes' /\ arrivals' \in Seq(Waypoints) /\ Len(arrivals') <= QueueDepth
      <3>1. CASE HandleWaypointArrived
        <4>1. Name \in Waypoints
          BY <2>1, TypeFacts
        <4>2. arrivals' \in Seq(Waypoints) /\ Len(arrivals') <= QueueDepth
          BY <3>1, <4>1, TypeFacts, PublishType DEF HandleWaypointArrived
        <4>3. CASE Name \in doneNames
          <5>1. AdvanceToNext(doneNames \ {Name}) /\ doneNames \ {Name} \subseteq Waypoints
            BY <3>1, <4>3, TypeFacts DEF HandleWaypointArrived
          <5> QED BY <4>2, <5>1, <2>1, AdvanceTypes
        <4>4. CASE Name \notin doneNames
          <5>1. awaiting' = TRUE /\ nav' = "idle" /\ UNCHANGED <<index, doneNames>>
            BY <3>1, <4>4 DEF HandleWaypointArrived
          <5> QED BY <4>2, <5>1, <2>1 DEF TypeInv, TypeOK, FollowerOK, FollowerTypes
        <4> QED BY <4>3, <4>4
      <3>2. CASE NotReached /\ UNCHANGED arrivals
        <4>1. FollowerTypes'
          BY <2>1, <3>2, NotReachedTypes
        <4> QED BY <4>1, <3>2, TypeFacts
      <3> QED BY <1>2, <3>1, <3>2 DEF GetResult
    <2>3. TopicTypes'
      BY <2>1, <2>2, TypeFacts DEF TopicTypes
    <2> QED BY <2>1, <2>2, <2>3, VisitFrame, LineFrame, TypeNext
  <1>3. CASE DoneCallback
    <2> DEFINE names == doneNames \cup {Head(dones)}
    <2>1. /\ param' = param /\ UNCHANGED <<visit, arrivals, tx, rx>>
          /\ UNCHANGED wire /\ UNCHANGED station /\ dones # <<>> /\ dones' = Tail(dones)
      BY <1>3 DEF DoneCallback
    <2>2. names \subseteq Waypoints /\ dones' \in Seq(Waypoints) /\ Len(dones') <= QueueDepth
      BY <2>1, TypeFacts, TailType
    <2>3. FollowerTypes'
      <3>1. CASE awaiting /\ Name \in names
        <4>1. AdvanceToNext(names \ {Name})
          BY <1>3, <3>1 DEF DoneCallback
        <4> QED BY <4>1, <2>1, <2>2, AdvanceTypes
      <3>2. CASE ~(awaiting /\ Name \in names)
        <4>1. doneNames' = names /\ UNCHANGED <<index, nav, awaiting>>
          BY <1>3, <3>2 DEF DoneCallback
        <4> QED BY <4>1, <2>1, <2>2 DEF TypeInv, TypeOK, FollowerOK, FollowerTypes
      <3> QED BY <3>1, <3>2
    <2>4. TopicTypes'
      BY <2>1, <2>2, TypeFacts DEF TopicTypes
    <2> QED BY <2>1, <2>3, <2>4, VisitFrame, LineFrame, TypeNext
  <1>4. CASE Restart
    <2>1. /\ param' = param /\ UNCHANGED <<visit, arrivals, dones, tx, rx>>
          /\ UNCHANGED wire /\ UNCHANGED station
      BY <1>4 DEF Restart
    <2>2. index' \in 1..(Len(param.tour) + 1)
      <3>1. index' = NextStop(param, 1)
        BY <1>4 DEF Restart, SendCurrentGoal
      <3>2. param \in Configurations /\ 1 \in Nat \ {0}
        BY TypeFacts
      <3>3. 1 \in 1..(Len(param.tour) + 1)
        BY TypeFacts
      <3> QED BY <3>1, <3>2, <3>3, NextStopType
    <2>3. nav' \in {"idle", "requested"} /\ (nav' # "idle" => index' <= Len(param.tour))
      <3>1. nav' = IF index' > Len(param.tour) THEN "idle" ELSE "requested"
        BY <1>4 DEF Restart, SendCurrentGoal
      <3>2. Len(param.tour) \in Nat
        BY TypeFacts
      <3>3. index' \in Nat
        BY <2>2, <3>2
      <3>4. index' > Len(param.tour) \/ index' <= Len(param.tour)
        BY <3>2, <3>3
      <3> QED BY <3>1, <3>4
    <2>4. FollowerTypes'
      BY <1>4, <2>1, <2>2, <2>3 DEF Restart, FollowerTypes, FollowerOK
    <2>5. TopicTypes'
      BY <2>1, TypeFacts DEF TopicTypes
    <2> QED BY <2>1, <2>4, <2>5, VisitFrame, LineFrame, TypeNext
  <1> QED BY <1>1, <1>2, <1>3, <1>4

\* The visit that makes the first pick consists of this one task.
LEMMA FirstVisit ==
    ASSUME NEW p \in Configurations, NEW name \in Waypoints, NEW b \in BOOLEAN,
           FirstPick(p), ~b, Requests(p, name, b) # <<>>
    PROVE  Len(Requests(p, name, b)) = 1 /\ Requests(p, name, b)[1][2] = Pick
  <1> DEFINE ws == WsOf(p, name)
  <1>1. ws # None
    BY DEF Requests
  <1>2. TasksForWs(p, ws, b) = <<Pick>>
    BY DEF TasksForWs
  <1>3. Requests(p, name, b) = [i \in 1..Len(<<Pick>>) |-> <<ws, <<Pick>>[i]>>]
    BY <1>1, <1>2 DEF Requests
  <1>4. Len(<<Pick>>) = 1 /\ <<Pick>>[1] = Pick
    OBVIOUS
  <1>5. Requests(p, name, b) = [i \in 1..1 |-> <<ws, <<Pick>>[i]>>]
    BY <1>3, <1>4
  <1>6. Requests(p, name, b) \in Seq(Request)
    BY RequestsType
  <1> HIDE DEF ws
  <1>7. DOMAIN Requests(p, name, b) = 1..1 /\ Requests(p, name, b)[1] = <<ws, Pick>>
    BY <1>4, <1>5
  <1>8. DOMAIN Requests(p, name, b) = 1..Len(Requests(p, name, b))
        /\ Len(Requests(p, name, b)) \in Nat
    BY <1>6, LenProperties
  <1> QED BY <1>7, <1>8

\* Between two tasks of a visit the first pick stays as it is.
LEMMA PickedStays ==
    ASSUME TypeInv, wp # None, task # Len(tasks)
    PROVE  (picked \/ (FirstPick(param) /\ Current[2] = Pick)) = picked
  <1>1. picked \in BOOLEAN /\ param \in Configurations /\ wp \in Waypoints
        /\ task \in 1..Len(tasks) /\ Len(tasks) \in Nat /\ tasks \in Seq(Request)
    BY TypeFacts
  <1>2. CASE picked
    <2>1. picked = TRUE
      BY <1>2, <1>1
    <2>2. (picked \/ (FirstPick(param) /\ Current[2] = Pick)) = TRUE
      BY <1>2, Zenon
    <2> QED BY <2>1, <2>2, Zenon
  <1>3. CASE ~picked
    <2>0. tasks # <<>> /\ Len(tasks) # 1
      BY <1>1
    <2>1. tasks = Requests(param, wp, picked)
      BY <1>1 DEF TypeInv, VisitOK
    <2>2. ~FirstPick(param)
      BY <2>0, <2>1, <1>1, <1>3, FirstVisit
    <2>3. picked = FALSE
      BY <1>3, <1>1
    <2>4. (picked \/ (FirstPick(param) /\ Current[2] = Pick)) = FALSE
      BY <2>2, <1>3, Zenon
    <2> QED BY <2>3, <2>4, Zenon
  <1> QED BY <1>2, <1>3, Zenon

LEMMA FinishTypes ==
    ASSUME TypeInv, wp # None, param' = param, FinishWaypoint
    PROVE  /\ VisitTypes' /\ wp' = None
           /\ dones' \in Seq(Waypoints) /\ Len(dones') <= QueueDepth
  <1>1. /\ wp' = None /\ tasks' = <<>> /\ task' = 1 /\ count' = 0
        /\ resendTimer' = FALSE /\ timeoutTimer' = FALSE
        /\ picked' = (picked \/ FirstPick(param))
    BY DEF FinishWaypoint
  <1>2. picked' \in BOOLEAN
    BY <1>1, TypeFacts
  <1>3. tasks' \in Seq(Request) /\ task' \in 1..(Len(tasks') + 1) /\ count' \in Nat
    BY <1>1
  <1>4. VisitTypes'
    BY <1>1, <1>2, <1>3 DEF VisitTypes, VisitOK
  <1>5. dones' \in Seq(Waypoints) /\ Len(dones') <= QueueDepth
    BY TypeFacts, PublishType DEF FinishWaypoint
  <1> QED BY <1>1, <1>4, <1>5

LEMMA StartTypes ==
    ASSUME TypeInv, wp = None, param' = param, NEW name \in Waypoints, StartWaypoint(name)
    PROVE  /\ VisitTypes'
           /\ dones' \in Seq(Waypoints) /\ Len(dones') <= QueueDepth
           /\ tx' \in Seq(Request) /\ Len(tx') <= QueueDepth
  <1> DEFINE requests == Requests(param, name, picked)
  <1>1. requests \in Seq(Request)
    BY TypeFacts, RequestsType
  <1>2. CASE requests = <<>>
    <2>1. dones' = Publish(dones, name) /\ UNCHANGED visit /\ tx' = tx
      BY <1>2 DEF StartWaypoint
    <2>2. VisitTypes'
      BY <2>1, VisitFrame
    <2> QED BY <2>1, <2>2, TypeFacts, PublishType
  <1>3. CASE requests # <<>>
    <2>1. /\ wp' = name /\ tasks' = requests /\ task' = 1 /\ count' = 0
          /\ tx' = Publish(tx, requests[1])
          /\ resendTimer' = param.resend /\ timeoutTimer' = param.timeout
          /\ picked' = picked /\ dones' = dones
      BY <1>3 DEF StartWaypoint
    <2>2. Len(requests) \in Nat /\ Len(requests) >= 1 /\ requests[1] \in Request
      BY <1>1, <1>3
    <2>3. tx' \in Seq(Request) /\ Len(tx') <= QueueDepth
      BY <2>1, <2>2, TypeFacts, PublishType
    <2>4. resendTimer' \in BOOLEAN /\ timeoutTimer' \in BOOLEAN
      BY <2>1, TypeFacts, ConfigFields
    <2>5. tasks' \in Seq(Request) /\ task' \in 1..Len(tasks') /\ task' \in 1..(Len(tasks') + 1)
          /\ count' \in Nat
      BY <2>1, <2>2, <1>1
    <2>6. VisitOK'
      BY <2>1, <2>5, TypeFacts DEF VisitOK
    <2>7. VisitTypes'
      BY <2>1, <2>4, <2>5, <2>6, TypeFacts DEF VisitTypes
    <2> QED BY <2>1, <2>3, <2>7, TypeFacts
  <1> QED BY <1>2, <1>3

LEMMA AdvanceTaskTypes ==
    ASSUME TypeInv, wp # None, param' = param, AdvanceTask
    PROVE  /\ VisitTypes'
           /\ dones' \in Seq(Waypoints) /\ Len(dones') <= QueueDepth
           /\ tx' \in Seq(Request) /\ Len(tx') <= QueueDepth
  <1>1. CASE task = Len(tasks)
    <2>1. FinishWaypoint /\ tx' = tx
      BY <1>1 DEF AdvanceTask
    <2> QED BY <2>1, FinishTypes, TypeFacts
  <1>2. CASE task # Len(tasks)
    <2>1. /\ picked' = (picked \/ (FirstPick(param) /\ Current[2] = Pick))
          /\ task' = task + 1 /\ count' = 0
          /\ tx' = Publish(tx, tasks[task + 1])
          /\ timeoutTimer' = param.timeout
          /\ wp' = wp /\ tasks' = tasks /\ resendTimer' = resendTimer /\ dones' = dones
      BY <1>2 DEF AdvanceTask
    <2>2. picked' = picked
      BY <2>1, <1>2, PickedStays
    <2>3. task' \in 1..Len(tasks) /\ task' \in 1..(Len(tasks) + 1) /\ tasks[task + 1] \in Request
      BY <2>1, <1>2, TypeFacts
    <2>4. tx' \in Seq(Request) /\ Len(tx') <= QueueDepth
      BY <2>1, <2>3, TypeFacts, PublishType
    <2>5. timeoutTimer' \in BOOLEAN
      BY <2>1, TypeFacts, ConfigFields
    <2>6. VisitOK'
      BY <2>1, <2>2, <2>3 DEF VisitOK, TypeInv
    <2>7. VisitTypes'
      BY <2>1, <2>2, <2>3, <2>5, <2>6, TypeFacts DEF VisitTypes
    <2> QED BY <2>1, <2>4, <2>7, TypeFacts
  <1> QED BY <1>1, <1>2

LEMMA GiveUpTypes ==
    ASSUME TypeInv, wp # None, param' = param, GiveUp,
           timeoutTimer' \in BOOLEAN
    PROVE  /\ VisitTypes'
           /\ dones' \in Seq(Waypoints) /\ Len(dones') <= QueueDepth
  <1>1. CASE param.fail = "skip_waypoint"
    <2>1. FinishWaypoint
      BY <1>1 DEF GiveUp
    <2> QED BY <2>1, FinishTypes
  <1>2. CASE param.fail # "skip_waypoint"
    <2>1. /\ resendTimer' = FALSE
          /\ wp' = wp /\ tasks' = tasks /\ task' = task /\ count' = count
          /\ picked' = picked /\ dones' = dones
      BY <1>2 DEF GiveUp
    <2>2. VisitOK'
      BY <2>1 DEF TypeInv, VisitOK
    <2>3. /\ wp \in Waypoints \cup {None} /\ tasks \in Seq(Request)
          /\ task \in 1..(Len(tasks) + 1) /\ count \in Nat
      BY DEF TypeInv, TypeOK
    <2> QED BY <2>1, <2>2, <2>3, TypeFacts DEF VisitTypes
  <1> QED BY <1>1, <1>2

LEMMA FsmStepTypes ==
    ASSUME TypeInv, OnWpArrive \/ OnSerialRx \/ ResendCb \/ TimeoutCb
    PROVE  TypeInv'
  <1>1. CASE OnWpArrive
    <2>1. /\ param' = param /\ UNCHANGED follower /\ rx' = rx
          /\ UNCHANGED wire /\ UNCHANGED station
          /\ arrivals # <<>> /\ arrivals' = Tail(arrivals)
      BY <1>1 DEF OnWpArrive
    <2>2. arrivals' \in Seq(Waypoints) /\ Len(arrivals') <= QueueDepth
          /\ Head(arrivals) \in Waypoints
      BY <2>1, TypeFacts, TailType
    <2>3. /\ VisitTypes'
          /\ dones' \in Seq(Waypoints) /\ Len(dones') <= QueueDepth
          /\ tx' \in Seq(Request) /\ Len(tx') <= QueueDepth
      <3>1. CASE wp = None
        <4>1. StartWaypoint(Head(arrivals))
          BY <1>1, <3>1 DEF OnWpArrive
        <4> QED BY <2>1, <2>2, <3>1, <4>1, StartTypes
      <3>2. CASE wp # None
        <4>1. UNCHANGED visit /\ dones' = dones /\ tx' = tx
          BY <1>1, <3>2 DEF OnWpArrive
        <4> QED BY <2>1, <4>1, VisitFrame, TypeFacts
      <3> QED BY <3>1, <3>2
    <2>4. TopicTypes'
      BY <2>1, <2>2, <2>3, TypeFacts DEF TopicTypes
    <2> QED BY <2>1, <2>3, <2>4, FollowerFrame, LineFrame, TypeNext
  <1>2. CASE OnSerialRx
    <2>1. /\ param' = param /\ UNCHANGED follower /\ arrivals' = arrivals
          /\ UNCHANGED wire /\ UNCHANGED station
          /\ rx # <<>> /\ rx' = Tail(rx)
      BY <1>2 DEF OnSerialRx
    <2>2. rx' \in Seq(Reply) /\ Len(rx') <= QueueDepth
      BY <2>1, TypeFacts, TailType
    <2>3. /\ VisitTypes'
          /\ dones' \in Seq(Waypoints) /\ Len(dones') <= QueueDepth
          /\ tx' \in Seq(Request) /\ Len(tx') <= QueueDepth
      <3>1. CASE Confirms(Head(rx))
        <4>1. AdvanceTask
          BY <1>2, <3>1 DEF OnSerialRx
        <4>2. wp # None
          BY <3>1 DEF Confirms
        <4> QED BY <2>1, <4>1, <4>2, AdvanceTaskTypes
      <3>2. CASE ~Confirms(Head(rx))
        <4>1. UNCHANGED visit /\ dones' = dones /\ tx' = tx
          BY <1>2, <3>2 DEF OnSerialRx
        <4> QED BY <2>1, <4>1, VisitFrame, TypeFacts
      <3> QED BY <3>1, <3>2
    <2>4. TopicTypes'
      BY <2>1, <2>2, <2>3, TypeFacts DEF TopicTypes
    <2> QED BY <2>1, <2>3, <2>4, FollowerFrame, LineFrame, TypeNext
  <1>3. CASE ResendCb
    <2>1. /\ param' = param /\ UNCHANGED follower /\ arrivals' = arrivals /\ rx' = rx
          /\ UNCHANGED wire /\ UNCHANGED station /\ wp # None
      BY <1>3 DEF ResendCb
    <2>2. /\ VisitTypes'
          /\ dones' \in Seq(Waypoints) /\ Len(dones') <= QueueDepth
          /\ tx' \in Seq(Request) /\ Len(tx') <= QueueDepth
      <3>1. CASE param.maxResends > 0 /\ count >= param.maxResends
        <4>1. GiveUp /\ tx' = tx /\ (param.fail = "stop" => timeoutTimer' = timeoutTimer)
          BY <1>3, <3>1 DEF ResendCb
        <4>2. param.fail # "skip_waypoint" => param.fail = "stop"
          BY TypeFacts DEF Configurations
        <4>3. param.fail = "skip_waypoint" => timeoutTimer' = FALSE
          BY <4>1 DEF GiveUp, FinishWaypoint
        <4>4. timeoutTimer' \in BOOLEAN
          BY <4>1, <4>2, <4>3, TypeFacts
        <4> QED BY <2>1, <4>1, <4>4, GiveUpTypes, TypeFacts
      <3>2. CASE ~(param.maxResends > 0 /\ count >= param.maxResends)
        <4>1. /\ tx' = Publish(tx, Current)
              /\ count' = IF param.maxResends > 0 THEN count + 1 ELSE count
              /\ wp' = wp /\ tasks' = tasks /\ task' = task
              /\ resendTimer' = resendTimer /\ timeoutTimer' = timeoutTimer
              /\ picked' = picked /\ dones' = dones
          BY <1>3, <3>2 DEF ResendCb
        <4>2. count' \in Nat
          BY <4>1, TypeFacts
        <4>3. VisitOK'
          BY <4>1, <2>1 DEF TypeInv, VisitOK
        <4>4. /\ wp \in Waypoints \cup {None} /\ tasks \in Seq(Request)
              /\ task \in 1..(Len(tasks) + 1)
          BY DEF TypeInv, TypeOK
        <4>5. VisitTypes'
          BY <4>1, <4>2, <4>3, <4>4, TypeFacts DEF VisitTypes
        <4>6. tx' \in Seq(Request) /\ Len(tx') <= QueueDepth
          BY <2>1, <4>1, TypeFacts, PublishType
        <4> QED BY <4>1, <4>5, <4>6, TypeFacts
      <3> QED BY <3>1, <3>2
    <2>3. TopicTypes'
      BY <2>1, <2>2, TypeFacts DEF TopicTypes
    <2> QED BY <2>1, <2>2, <2>3, FollowerFrame, LineFrame, TypeNext
  <1>4. CASE TimeoutCb
    <2>1. /\ param' = param /\ UNCHANGED follower /\ arrivals' = arrivals
          /\ rx' = rx /\ tx' = tx /\ UNCHANGED wire /\ UNCHANGED station
          /\ wp # None /\ GiveUp /\ timeoutTimer' = FALSE
      BY <1>4 DEF TimeoutCb
    <2>2. /\ VisitTypes'
          /\ dones' \in Seq(Waypoints) /\ Len(dones') <= QueueDepth
      BY <2>1, GiveUpTypes
    <2>3. TopicTypes'
      BY <2>1, <2>2, TypeFacts DEF TopicTypes
    <2> QED BY <2>1, <2>2, <2>3, FollowerFrame, LineFrame, TypeNext
  <1> QED BY <1>1, <1>2, <1>3, <1>4

LEMMA RepliedType ==
    ASSUME NEW type \in {"DONE", "FAIL"}, NEW request \in Request
    PROVE  Replied(type, request) \in Reply
  BY DEF Replied, Reply

LEMMA LineStepTypes ==
    ASSUME TypeInv,
           TxCallback \/ ReadSerial \/ LoseLine \/ StationRead \/ StationDone \/ StationFail
    PROVE  TypeInv'
  <1>1. /\ param' = param /\ UNCHANGED follower /\ UNCHANGED visit
        /\ arrivals' = arrivals /\ dones' = dones
    BY DEF TxCallback, ReadSerial, LoseLine, StationRead, StationDone, StationFail
  <1>2. CASE TxCallback
    <2>1. /\ tx # <<>> /\ tx' = Tail(tx) /\ rx' = rx /\ back' = back /\ UNCHANGED station
      BY <1>2 DEF TxCallback
    <2>2. tx' \in Seq(Request) /\ Len(tx') <= QueueDepth /\ Head(tx) \in Request
      BY <2>1, TypeFacts, TailType
    <2>3. PICK up \in EnsuredPort, written \in BOOLEAN :
            /\ open' = (up /\ written)
            /\ line' = IF open' THEN Transmit(line, Head(tx)) ELSE line
      BY <1>2 DEF TxCallback
    <2>4. open' \in BOOLEAN
      BY <2>3
    <2>5. line' \in Seq(Request) /\ Len(line') <= LineDepth
      BY <2>2, <2>3, TypeFacts, TransmitType
    <2>6. TopicTypes' /\ LineTypes'
      BY <1>1, <2>1, <2>2, <2>4, <2>5, TypeFacts DEF TopicTypes, LineTypes, station
    <2> QED BY <1>1, <2>6, FollowerFrame, VisitFrame, TypeNext
  <1>3. CASE ReadSerial
    <2>1. tx' = tx /\ line' = line /\ UNCHANGED station
      BY <1>3 DEF ReadSerial
    <2>2. PICK up \in EnsuredPort, readable \in BOOLEAN :
            /\ open' = (up /\ readable)
            /\ IF open' /\ back # <<>>
               THEN rx' = Publish(rx, Head(back)) /\ back' = Tail(back)
               ELSE UNCHANGED <<rx, back>>
      BY <1>3 DEF ReadSerial
    <2>3. open' \in BOOLEAN
      BY <2>2
    <2>4. /\ rx' \in Seq(Reply) /\ Len(rx') <= QueueDepth
          /\ back' \in Seq(Reply) /\ Len(back') <= LineDepth
      <3>1. CASE back # <<>> /\ rx' = Publish(rx, Head(back)) /\ back' = Tail(back)
        BY <3>1, TypeFacts, TailType, PublishType
      <3>2. CASE UNCHANGED <<rx, back>>
        BY <3>2, TypeFacts
      <3> QED BY <2>2, <3>1, <3>2
    <2>5. TopicTypes' /\ LineTypes'
      BY <1>1, <2>1, <2>3, <2>4, TypeFacts DEF TopicTypes, LineTypes, station
    <2> QED BY <1>1, <2>5, FollowerFrame, VisitFrame, TypeNext
  <1>4. CASE LoseLine
    <2>1. tx' = tx /\ rx' = rx /\ open' = open /\ UNCHANGED station
      BY <1>4 DEF LoseLine
    <2>2. /\ line' \in Seq(Request) /\ Len(line') <= LineDepth
          /\ back' \in Seq(Reply) /\ Len(back') <= LineDepth
      BY <1>4, TypeFacts, TailType DEF LoseLine
    <2>3. TopicTypes' /\ LineTypes'
      BY <1>1, <2>1, <2>2, TypeFacts DEF TopicTypes, LineTypes, station
    <2> QED BY <1>1, <2>3, FollowerFrame, VisitFrame, TypeNext
  <1>5. CASE StationRead \/ StationDone \/ StationFail
    <2>1. tx' = tx /\ rx' = rx /\ open' = open
      BY <1>5 DEF StationRead, StationDone, StationFail
    <2>2. line' \in Seq(Request) /\ Len(line') <= LineDepth
      BY <1>5, TypeFacts, TailType DEF StationRead, StationDone, StationFail
    <2>3. /\ back' \in Seq(Reply) /\ Len(back') <= LineDepth
          /\ busy' \in Request \cup {None} /\ last' \in Request \cup {None}
      <3>1. CASE StationRead
        <4>1. line # <<>> /\ Head(line) \in Request /\ last' = last
          BY <3>1, TypeFacts, TailType DEF StationRead
        <4>2. CASE busy # None
          BY <3>1, <4>1, <4>2, TypeFacts DEF StationRead
        <4>3. CASE busy = None /\ Head(line) = last
          <5>1. back' = Transmit(back, Replied("DONE", last)) /\ busy' = busy
            BY <3>1, <4>3 DEF StationRead
          <5>2. Replied("DONE", last) \in Reply
            BY <4>1, <4>3, RepliedType
          <5> QED BY <4>1, <5>1, <5>2, TypeFacts, TransmitType
        <4>4. CASE busy = None /\ Head(line) # last
          BY <3>1, <4>1, <4>4, TypeFacts DEF StationRead
        <4> QED BY <4>2, <4>3, <4>4
      <3>2. CASE StationDone
        <4>1. busy \in Request /\ busy' = None /\ last' = busy
              /\ back' = Transmit(back, Replied("DONE", busy))
          BY <3>2, TypeFacts DEF StationDone
        <4>2. Replied("DONE", busy) \in Reply
          BY <4>1, RepliedType
        <4> QED BY <4>1, <4>2, TypeFacts, TransmitType
      <3>3. CASE StationFail
        <4>1. busy \in Request /\ busy' = None /\ last' = last
              /\ back' = Transmit(back, Replied("FAIL", busy))
          BY <3>3, TypeFacts DEF StationFail
        <4>2. Replied("FAIL", busy) \in Reply
          BY <4>1, RepliedType
        <4> QED BY <4>1, <4>2, TypeFacts, TransmitType
      <3> QED BY <1>5, <3>1, <3>2, <3>3
    <2>4. TopicTypes' /\ LineTypes'
      BY <1>1, <2>1, <2>2, <2>3, TypeFacts DEF TopicTypes, LineTypes
    <2> QED BY <1>1, <2>4, FollowerFrame, VisitFrame, TypeNext
  <1> QED BY <1>2, <1>3, <1>4, <1>5

LEMMA InitTypes == Init => TypeInv
  <1> SUFFICES ASSUME Init PROVE TypeInv
    OBVIOUS
  <1>1. param \in Configs /\ param \in Configurations
    BY WorkcellAssumption DEF Init
  <1>2. index <= Len(param.tour) /\ index \in 1..(Len(param.tour) + 1)
    BY <1>1, FirstStop, NextStopType DEF Init
  <1>3. FollowerOK /\ VisitOK
    BY <1>2 DEF Init, FollowerOK, VisitOK
  <1>4. /\ <<>> \in Seq(Request) /\ <<>> \in Seq(Reply) /\ <<>> \in Seq(Waypoints)
        /\ Len(<<>>) = 0
    BY EmptySeq
  <1>5. QueueDepth \in Nat /\ LineDepth \in Nat
    BY WorkcellAssumption
  <1>6. /\ FollowerTypes /\ VisitTypes /\ TopicTypes /\ LineTypes
    <2>1. FollowerTypes
      BY <1>2, <1>3 DEF Init, FollowerTypes
    <2>2. VisitTypes
      <3>1. tasks \in Seq(Request) /\ Len(tasks) = 0
        BY <1>4 DEF Init
      <3>2. task \in 1..(Len(tasks) + 1) /\ count \in Nat
        BY <3>1 DEF Init
      <3> QED BY <1>3, <3>1, <3>2 DEF Init, VisitTypes
    <2>3. TopicTypes
      BY <1>4, <1>5 DEF Init, TopicTypes
    <2>4. LineTypes
      BY <1>4, <1>5 DEF Init, LineTypes
    <2> QED BY <2>1, <2>2, <2>3, <2>4
  <1> QED BY <1>1, <1>6
      DEF TypeInv, TypeOK, FollowerTypes, VisitTypes, TopicTypes, LineTypes

LEMMA StutterTypes == TypeInv /\ UNCHANGED vars => TypeInv'
  BY DEF TypeInv, TypeOK, FollowerOK, VisitOK, vars, follower, visit, wire, station

LEMMA TypeStep == TypeInv /\ [Next]_vars => TypeInv'
  BY FollowerStepTypes, FsmStepTypes, LineStepTypes, StutterTypes DEF Next

\* Every variable keeps its type and every queue its depth, whatever the
\* configurations are: in particular _current_name and the current task, indices
\* of lists in both nodes, are always there when they are read.
THEOREM TypeCorrect == Spec => []TypeOK
  <1>1. Spec => []TypeInv
    BY InitTypes, TypeStep, PTL DEF Spec
  <1>2. TypeInv => TypeOK
    BY DEF TypeInv
  <1> QED BY <1>1, <1>2, PTL

-----------------------------------------------------------------------------
(* One hand per visit *)

\* OneHandPerVisit, spelled out.
OneHand ==
    /\ doneNames = {}
    /\ \/ ~awaiting /\ arrivals = <<>> /\ wp = None /\ dones = <<>>
       \/ awaiting /\ arrivals = <<Name>> /\ wp = None /\ dones = <<>>
       \/ awaiting /\ arrivals = <<>> /\ wp = Name /\ dones = <<>>
       \/ awaiting /\ arrivals = <<>> /\ wp = None /\ dones = <<Name>>

LEMMA OneHandSaysSo == TypeInv => (OneHand <=> OneHandPerVisit)
  <1> SUFFICES ASSUME TypeInv PROVE OneHand <=> OneHandPerVisit
    OBVIOUS
  <1>1. CASE awaiting
    BY <1>1, Zenon DEF OneHand, OneHandPerVisit
  <1>2. CASE ~awaiting
    BY <1>2, Zenon DEF OneHand, OneHandPerVisit
  <1> QED BY <1>1, <1>2

LEMMA FirstMessage ==
    ASSUME NEW m
    PROVE  /\ Publish(<<>>, m) = <<m>>
           /\ <<m>> # <<>> /\ Head(<<m>>) = m /\ Tail(<<m>>) = <<>>
  <1>1. Len(<<>>) = 0 /\ 0 < QueueDepth
    BY EmptySeq, WorkcellAssumption
  <1>2. Publish(<<>>, m) = Append(<<>>, m)
    BY <1>1 DEF Publish
  <1>3. Append(<<>>, m) = <<m>>
    OBVIOUS
  <1>4. <<m>> # <<>> /\ Head(<<m>>) = m /\ Tail(<<m>>) = <<>>
    OBVIOUS
  <1> QED BY <1>2, <1>3, <1>4

\* The hands of a step that leaves the follower and the topics to it alone.
LEMMA HandFrame ==
    ASSUME OneHand, param' = param, UNCHANGED follower,
           arrivals' = arrivals, dones' = dones, wp' = wp
    PROVE  OneHand'
  BY DEF OneHand, Name, follower

LEMMA AdvanceHand ==
    ASSUME NEW names, names = {}, AdvanceToNext(names),
           arrivals' = <<>>, dones' = <<>>, wp' = None
    PROVE  OneHand'
  BY DEF AdvanceToNext, OneHand

LEMMA NotReachedHand ==
    ASSUME TypeInv, OneHand, nav # "idle", NotReached,
           arrivals' = arrivals, dones' = dones, wp' = wp
    PROVE  OneHand'
  <1>1. ~awaiting
    BY DEF TypeInv, FollowerOK
  <1>2. doneNames = {} /\ arrivals = <<>> /\ wp = None /\ dones = <<>>
    BY <1>1 DEF OneHand
  <1>3. CASE param.continueOnMiss
    BY <1>2, <1>3, AdvanceHand DEF NotReached
  <1>4. CASE ~param.continueOnMiss
    <2>1. UNCHANGED <<awaiting, doneNames>>
      BY <1>4 DEF NotReached
    <2> QED BY <1>1, <1>2, <2>1 DEF OneHand
  <1> QED BY <1>3, <1>4

LEMMA FinishHand ==
    ASSUME TypeInv, OneHand, wp # None, param' = param, UNCHANGED follower,
           arrivals' = arrivals, FinishWaypoint
    PROVE  OneHand'
  <1>1. awaiting /\ arrivals = <<>> /\ wp = Name /\ dones = <<>> /\ doneNames = {}
    BY DEF OneHand
  <1>2. wp' = None /\ dones' = <<Name>>
    BY <1>1, FirstMessage DEF FinishWaypoint
  <1>3. Name' = Name /\ awaiting' = awaiting /\ doneNames' = doneNames
    BY DEF Name, follower
  <1> QED BY <1>1, <1>2, <1>3 DEF OneHand

LEMMA HandFollower ==
    ASSUME TypeInv, OneHand, GoalResponse \/ GetResult \/ DoneCallback \/ Restart
    PROVE  OneHand'
  <1>1. CASE GoalResponse
    <2>1. /\ nav = "requested" /\ arrivals' = arrivals /\ dones' = dones
          /\ wp' = wp /\ param' = param
      BY <1>1 DEF GoalResponse, visit
    <2>2. CASE NotReached
      BY <2>1, <2>2, NotReachedHand
    <2>3. CASE UNCHANGED <<index, awaiting, doneNames>>
      BY <2>1, <2>3 DEF OneHand, Name
    <2> QED BY <1>1, <2>2, <2>3 DEF GoalResponse
  <1>2. CASE GetResult
    <2>1. nav = "driving" /\ dones' = dones /\ wp' = wp /\ param' = param
      BY <1>2 DEF GetResult, visit
    <2>2. ~awaiting
      BY <2>1 DEF TypeInv, FollowerOK
    <2>3. doneNames = {} /\ arrivals = <<>> /\ wp = None /\ dones = <<>>
      BY <2>2 DEF OneHand
    <2>4. CASE HandleWaypointArrived
      <3>1. arrivals' = <<Name>>
        BY <2>3, <2>4, FirstMessage DEF HandleWaypointArrived
      <3>2. awaiting' = TRUE /\ index' = index /\ doneNames' = doneNames
        BY <2>3, <2>4 DEF HandleWaypointArrived
      <3>3. Name' = Name
        BY <2>1, <3>2 DEF Name
      <3> QED BY <2>1, <2>3, <3>1, <3>2, <3>3 DEF OneHand
    <2>5. CASE NotReached /\ UNCHANGED arrivals
      BY <2>1, <2>5, NotReachedHand
    <2> QED BY <1>2, <2>4, <2>5 DEF GetResult
  <1>3. CASE DoneCallback
    <2>1. /\ dones # <<>> /\ dones' = Tail(dones) /\ arrivals' = arrivals
          /\ wp' = wp /\ param' = param
      BY <1>3 DEF DoneCallback, visit
    <2>2. awaiting /\ arrivals = <<>> /\ wp = None /\ dones = <<Name>> /\ doneNames = {}
      BY <2>1 DEF OneHand
    <2>3. Head(dones) = Name /\ Tail(dones) = <<>>
      BY <2>2, FirstMessage
    <2>4. AdvanceToNext((doneNames \cup {Head(dones)}) \ {Name})
      BY <1>3, <2>2, <2>3 DEF DoneCallback
    <2>5. (doneNames \cup {Head(dones)}) \ {Name} = {}
      BY <2>2, <2>3
    <2> QED BY <2>1, <2>2, <2>3, <2>4, <2>5, AdvanceHand
  <1>4. CASE Restart
    <2>1. /\ index > Len(param.tour) /\ awaiting' = FALSE /\ doneNames' = {}
          /\ arrivals' = arrivals /\ dones' = dones /\ wp' = wp
      BY <1>4 DEF Restart, visit
    <2>2. ~awaiting
      BY <2>1, TypeFacts DEF TypeInv, FollowerOK
    <2> QED BY <2>1, <2>2 DEF OneHand
  <1> QED BY <1>1, <1>2, <1>3, <1>4

LEMMA HandFsm ==
    ASSUME TypeInv, OneHand, OnWpArrive \/ OnSerialRx \/ ResendCb \/ TimeoutCb
    PROVE  OneHand'
  <1>0. param' = param /\ UNCHANGED follower
    BY DEF OnWpArrive, OnSerialRx, ResendCb, TimeoutCb
  <1>1. CASE OnWpArrive
    <2>1. arrivals # <<>> /\ arrivals' = Tail(arrivals)
      BY <1>1 DEF OnWpArrive
    <2>2. awaiting /\ arrivals = <<Name>> /\ wp = None /\ dones = <<>> /\ doneNames = {}
      BY <2>1 DEF OneHand
    <2>3. Head(arrivals) = Name /\ arrivals' = <<>>
      BY <2>1, <2>2, FirstMessage
    <2>4. StartWaypoint(Name)
      BY <1>1, <2>2, <2>3 DEF OnWpArrive
    <2>5. \/ wp' = None /\ dones' = <<Name>>
          \/ wp' = Name /\ dones' = <<>>
      <3>1. CASE Requests(param, Name, picked) = <<>>
        <4>1. dones' = Publish(dones, Name) /\ wp' = wp
          BY <2>4, <3>1 DEF StartWaypoint, visit
        <4> QED BY <4>1, <2>2, FirstMessage
      <3>2. CASE Requests(param, Name, picked) # <<>>
        BY <2>2, <2>4, <3>2 DEF StartWaypoint
      <3> QED BY <3>1, <3>2
    <2>6. Name' = Name /\ awaiting' = awaiting /\ doneNames' = doneNames
      BY <1>0 DEF Name, follower
    <2> QED BY <2>2, <2>3, <2>5, <2>6 DEF OneHand
  <1>2. CASE OnSerialRx
    <2>1. arrivals' = arrivals
      BY <1>2 DEF OnSerialRx
    <2>2. CASE Confirms(Head(rx)) /\ task = Len(tasks)
      <3>1. FinishWaypoint /\ wp # None
        BY <1>2, <2>2 DEF OnSerialRx, AdvanceTask, Confirms
      <3> QED BY <1>0, <2>1, <3>1, FinishHand
    <2>3. CASE Confirms(Head(rx)) /\ task # Len(tasks)
      <3>1. wp' = wp /\ dones' = dones
        BY <1>2, <2>3 DEF OnSerialRx, AdvanceTask
      <3> QED BY <1>0, <2>1, <3>1, HandFrame
    <2>4. CASE ~Confirms(Head(rx))
      <3>1. wp' = wp /\ dones' = dones
        BY <1>2, <2>4 DEF OnSerialRx, visit
      <3> QED BY <1>0, <2>1, <3>1, HandFrame
    <2> QED BY <2>2, <2>3, <2>4
  <1>3. CASE ResendCb \/ TimeoutCb
    <2>1. arrivals' = arrivals /\ wp # None
      BY <1>3 DEF ResendCb, TimeoutCb
    <2>2. CASE FinishWaypoint
      BY <1>0, <2>1, <2>2, FinishHand
    <2>3. CASE wp' = wp /\ dones' = dones
      BY <1>0, <2>1, <2>3, HandFrame
    <2>4. FinishWaypoint \/ (wp' = wp /\ dones' = dones)
      BY <1>3 DEF ResendCb, TimeoutCb, GiveUp
    <2> QED BY <2>2, <2>3, <2>4
  <1> QED BY <1>1, <1>2, <1>3

LEMMA HandLine ==
    ASSUME OneHand,
           TxCallback \/ ReadSerial \/ LoseLine \/ StationRead \/ StationDone \/ StationFail
    PROVE  OneHand'
  <1>1. /\ param' = param /\ UNCHANGED follower /\ wp' = wp
        /\ arrivals' = arrivals /\ dones' = dones
    BY DEF TxCallback, ReadSerial, LoseLine, StationRead, StationDone, StationFail, visit
  <1> QED BY <1>1, HandFrame

LEMMA InitHand == Init => OneHand
  BY DEF Init, OneHand

LEMMA HandStep == TypeInv /\ OneHand /\ [Next]_vars => OneHand'
  <1>1. ASSUME OneHand, UNCHANGED vars PROVE OneHand'
    BY <1>1 DEF vars, follower, visit, OneHand, Name
  <1> QED BY <1>1, HandFollower, HandFsm, HandLine DEF Next

\* Whatever the configurations, whatever the line loses and whatever gives up on a
\* visit: an arrival never finds the FSM busy, and no DONE is left over to release
\* a later visit of the same waypoint.
THEOREM OneHandCorrect == Spec => []OneHandPerVisit
  <1>1. Spec => []TypeInv
    BY InitTypes, TypeStep, PTL DEF Spec
  <1>2. Spec => []OneHand
    BY <1>1, InitHand, HandStep, PTL DEF Spec
  <1> QED BY <1>1, <1>2, OneHandSaysSo, PTL

=============================================================================
