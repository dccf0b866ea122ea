-------------------------- MODULE HostDispatchProofs --------------------------
(***************************************************************************)
(* What HostDispatch.tla promises for every map, any cars, requests, events  *)
(* and capacities, proved with TLAPS.                                       *)
(***************************************************************************)
EXTENDS HostDispatch, AgvMapProofs, SequenceTheorems

-----------------------------------------------------------------------------
(* Message queues.                                                           *)
Message(M) == [msg : M, prio : {Normal, High}]

(* The priorities are numbers.                                               *)
LEMMA Priorities ==
  ASSUME NEW M, NEW q \in Seq(Message(M))
  PROVE  /\ Len(q) \in Nat /\ \A i \in 1..Len(q) : q[i] \in Message(M) /\ q[i].prio \in Nat
         /\ \A prio \in {Normal, High} : prio \in Nat
<1>1. Len(q) \in Nat /\ \A i \in 1..Len(q) : q[i] \in Message(M)
  OBVIOUS
<1>2. \A e \in Message(M) : e.prio \in Nat
  BY DEF Message, Normal, High
<1> QED  BY <1>1, <1>2 DEF Normal, High

(* In an ordered queue the messages that stay ahead of a new one are its      *)
(* first ones.                                                             *)
LEMMA AheadIsFirst ==
  ASSUME NEW M, NEW q \in Seq(Message(M)), InOrder(q), NEW prio \in {Normal, High}
  PROVE  /\ Ahead(q, prio) \in 0..Len(q)
         /\ \A i \in 1..Len(q) : i <= Ahead(q, prio) <=> q[i].prio >= prio
<1>0. Len(q) \in Nat /\ prio \in Nat /\ \A i \in 1..Len(q) : q[i].prio \in Nat
  BY Priorities
<1> DEFINE Lower == {i \in 1..Len(q) : q[i].prio < prio}
<1>1. \E k \in 0..Len(q) : \A i \in 1..Len(q) : i <= k <=> q[i].prio >= prio
  <2>1. CASE Lower = {}
    <3>1. \A i \in 1..Len(q) : q[i].prio >= prio
      BY <2>1, <1>0
    <3> WITNESS Len(q) \in 0..Len(q)
    <3> QED  BY <3>1, <1>0
  <2>2. CASE Lower # {}
    <3>1. PICK f \in Lower : \A i \in Lower : f <= i
      <4>1. Lower \in SUBSET Nat
        OBVIOUS
      <4> HIDE DEF Lower
      <4> QED  BY <4>1, <2>2, Least
    <3>2. f \in 1..Len(q) /\ q[f].prio < prio /\ f - 1 \in 0..Len(q)
      BY <3>1, <1>0
    <3>3. ASSUME NEW i \in 1..Len(q) PROVE i <= f - 1 <=> q[i].prio >= prio
      <4>1. CASE i < f
        <5>1. i \notin Lower
          BY <4>1, <3>1, <3>2
        <5> QED  BY <5>1, <4>1, <1>0, <3>2
      <4>2. CASE i = f
        BY <4>2, <3>2, <1>0
      <4>3. CASE i > f
        <5>1. q[f].prio >= q[i].prio
          BY <4>3, <3>2 DEF InOrder
        <5> QED  BY <5>1, <4>3, <3>2, <1>0
      <4> QED  BY <4>1, <4>2, <4>3, <3>2
    <3> QED  BY <3>2, <3>3
  <2> QED  BY <2>1, <2>2
<1> QED  BY <1>1 DEF Ahead

(* r is q with one more entry, e.                                            *)
PutBehind(q, r, e, k) ==
  \A i \in 1..(Len(q) + 1) :
    /\ i <= k => r[i] = q[i]
    /\ i = k + 1 => r[i] = e
    /\ i > k + 1 => r[i] = q[i - 1] /\ i - 1 \in 1..Len(q)

(* What a message is inserted into keeps its order, and so do the messages.   *)
LEMMA Inserted ==
  ASSUME NEW M, NEW q \in Seq(Message(M)), InOrder(q), NEW m \in M, NEW prio \in {Normal, High}
  PROVE  LET r == Insert(q, m, prio)
         IN /\ r \in Seq(Message(M)) /\ Len(r) = Len(q) + 1 /\ InOrder(r)
            /\ \A i \in 1..Len(r) : r[i] = Entry(m, prio) \/ \E j \in 1..Len(q) : r[i] = q[j]
            /\ PutBehind(q, r, Entry(m, prio), Ahead(q, prio))
<1> DEFINE k == Ahead(q, prio)
           n == Len(q)
           before == SubSeq(q, 1, k)
           after == SubSeq(q, k + 1, n)
           new == <<Entry(m, prio)>>
           r == before \o new \o after
<1>1. k \in 0..n /\ n \in Nat /\ \A i \in 1..n : i <= k <=> q[i].prio >= prio
  BY AheadIsFirst
<1>2. Entry(m, prio) \in Message(M) /\ Entry(m, prio).prio = prio /\ \A i \in 1..n : q[i] \in Message(M)
  <2>1. Entry(m, prio) \in Message(M) /\ Entry(m, prio).prio = prio
    BY DEF Entry, Message
  <2> QED  BY <2>1, Priorities
<1> HIDE DEF k
<1>3. /\ before \in Seq(Message(M)) /\ Len(before) = k
      /\ \A i \in 1..k : before[i] = q[i]
  <2>1. \A i \in 1..k : q[i] \in Message(M)
    BY <1>1, <1>2
  <2> HIDE DEF n
  <2> QED  BY <2>1, <1>1, SubSeqProperties
<1>4. /\ after \in Seq(Message(M)) /\ Len(after) = n - k
      /\ \A i \in 1..(n - k) : after[i] = q[k + i]
  <2>1. \A i \in (k + 1)..n : q[i] \in Message(M)
    BY <1>1, <1>2
  <2> HIDE DEF n
  <2> QED  BY <2>1, <1>1, SubSeqProperties
<1>5. new \in Seq(Message(M)) /\ Len(new) = 1 /\ new[1] = Entry(m, prio)
  BY <1>2
<1> HIDE DEF before, after, new
<1>6. /\ before \o new \in Seq(Message(M)) /\ Len(before \o new) = k + 1
      /\ \A i \in 1..(k + 1) : (before \o new)[i] = IF i <= k THEN before[i] ELSE new[i - k]
  <2> DEFINE c == before \o new
  <2>1. /\ c \in Seq(Message(M)) /\ Len(c) = Len(before) + Len(new)
        /\ \A i \in 1..(Len(before) + Len(new)) :
             c[i] = IF i <= Len(before) THEN before[i] ELSE new[i - Len(before)]
    BY <1>3, <1>5, ConcatProperties
  <2> HIDE DEF c
  <2>2. /\ c \in Seq(Message(M)) /\ Len(c) = k + 1
        /\ \A i \in 1..(k + 1) : c[i] = IF i <= k THEN before[i] ELSE new[i - k]
    BY <2>1, <1>3, <1>5
  <2> QED  BY <2>2 DEF c
<1>7. /\ r \in Seq(Message(M)) /\ Len(r) = (k + 1) + (n - k)
      /\ \A i \in 1..((k + 1) + (n - k)) :
           r[i] = IF i <= k + 1 THEN (before \o new)[i] ELSE after[i - (k + 1)]
  <2> DEFINE b == before \o new
             c == b \o after
  <2>1. b \in Seq(Message(M)) /\ Len(b) = k + 1
    BY <1>6
  <2> HIDE DEF b
  <2>2. /\ c \in Seq(Message(M)) /\ Len(c) = Len(b) + Len(after)
        /\ \A i \in 1..(Len(b) + Len(after)) :
             c[i] = IF i <= Len(b) THEN b[i] ELSE after[i - Len(b)]
    BY <2>1, <1>4, ConcatProperties
  <2> HIDE DEF c
  <2>3. /\ c \in Seq(Message(M)) /\ Len(c) = (k + 1) + (n - k)
        /\ \A i \in 1..((k + 1) + (n - k)) :
             c[i] = IF i <= k + 1 THEN b[i] ELSE after[i - (k + 1)]
    BY <2>1, <2>2, <1>4
  <2> QED  BY <2>3 DEF b, c
<1>8. Len(r) = n + 1
  BY <1>1, <1>7
<1> HIDE DEF r
<1>9. ASSUME NEW i \in 1..(n + 1)
      PROVE  /\ i <= k => r[i] = q[i]
             /\ i = k + 1 => r[i] = Entry(m, prio)
             /\ i > k + 1 => r[i] = q[i - 1] /\ i - 1 \in 1..n
  <2>1. CASE i <= k
    BY <2>1, <1>1, <1>3, <1>6, <1>7
  <2>2. CASE i = k + 1
    BY <2>2, <1>1, <1>5, <1>6, <1>7
  <2>3. CASE i > k + 1
    <3>1. i - (k + 1) \in 1..(n - k) /\ k + (i - (k + 1)) = i - 1 /\ i - 1 \in 1..n
      BY <2>3, <1>1
    <3>2. after[i - (k + 1)] = q[i - 1]
      BY <3>1, <1>4
    <3>3. r[i] = after[i - (k + 1)]
      BY <1>1, <1>7, <2>3
    <3> QED  BY <3>1, <3>2, <3>3, <2>3, <1>1
  <2> QED  BY <2>1, <2>2, <2>3, <1>1
<1>10. InOrder(r)
  <2> SUFFICES ASSUME NEW i \in 1..(n + 1), NEW j \in 1..(n + 1), i < j
               PROVE  r[i].prio >= r[j].prio
    BY <1>8 DEF InOrder
  <2>0. prio \in Nat /\ \A h \in 1..n : q[h].prio \in Nat
    BY <1>2 DEF Message, Normal, High
  <2>1. \A g, h \in 1..n : g < h => q[g].prio >= q[h].prio
    BY DEF InOrder
  <2>2. CASE j <= k
    BY <2>1, <2>2, <1>9, <1>1
  <2>3. CASE j = k + 1
    BY <2>3, <1>9, <1>1, <1>2, <2>0
  <2>4. CASE j > k + 1 /\ i <= k
    BY <2>4, <2>1, <1>9, <1>1, <2>0
  <2>5. CASE j > k + 1 /\ i = k + 1
    BY <2>5, <1>9, <1>1, <1>2, <2>0
  <2>6. CASE j > k + 1 /\ i > k + 1
    BY <2>6, <2>1, <1>9, <1>1, <2>0
  <2> QED  BY <2>2, <2>3, <2>4, <2>5, <2>6, <1>1
<1>11. \A i \in 1..Len(r) : r[i] = Entry(m, prio) \/ \E j \in 1..n : r[i] = q[j]
  <2> SUFFICES ASSUME NEW i \in 1..(n + 1)
               PROVE  r[i] = Entry(m, prio) \/ \E j \in 1..n : r[i] = q[j]
    BY <1>8
  <2> QED  BY <1>9, <1>1
<1>12. PutBehind(q, r, Entry(m, prio), k)
  BY <1>9 DEF PutBehind
<1> QED  BY <1>7, <1>8, <1>10, <1>11, <1>12 DEF Insert, r, before, after, new, k

(* Sending keeps a queue's type, capacity and order, and adds nothing but the *)
(* message.                                                                *)
LEMMA Sent ==
  ASSUME NEW M, NEW cap \in Nat, NEW q \in QueueOf(M, cap), NEW m \in M, NEW prio \in {Normal, High}
  PROVE  LET r == Send(q, cap, m, prio)
         IN /\ r \in QueueOf(M, cap)
            /\ \A i \in 1..Len(r) : r[i].msg = m \/ \E j \in 1..Len(q) : r[i] = q[j]
<1>1. q \in Seq(Message(M)) /\ Len(q) <= cap /\ InOrder(q) /\ Len(q) \in Nat
  BY DEF QueueOf, Message
<1>2. CASE Len(q) >= cap
  BY <1>2 DEF Send
<1>3. CASE ~(Len(q) >= cap)
  <2> DEFINE r == Insert(q, m, prio)
  <2>1. /\ r \in Seq(Message(M)) /\ Len(r) = Len(q) + 1 /\ InOrder(r)
        /\ \A i \in 1..Len(r) : r[i] = Entry(m, prio) \/ \E j \in 1..Len(q) : r[i] = q[j]
    BY <1>1, Inserted
  <2> HIDE DEF r
  <2>2. r \in QueueOf(M, cap)
    BY <2>1, <1>1, <1>3 DEF QueueOf, Message
  <2>3. Entry(m, prio).msg = m
    BY DEF Entry
  <2>4. Send(q, cap, m, prio) = r
    BY <1>3 DEF Send, r
  <2> QED  BY <2>1, <2>2, <2>3, <2>4
<1> QED  BY <1>2, <1>3

(* Receiving takes the first message.                                        *)
LEMMA Received ==
  ASSUME NEW M, NEW cap \in Nat, NEW q \in QueueOf(M, cap), q # <<>>
  PROVE  /\ First(q) \in M /\ 1 \in 1..Len(q) /\ First(q) = q[1].msg
         /\ Tail(q) \in QueueOf(M, cap)
         /\ \A i \in 1..Len(Tail(q)) : i + 1 \in 1..Len(q) /\ Tail(q)[i] = q[i + 1]
<1>1. q \in Seq(Message(M)) /\ Len(q) <= cap /\ InOrder(q) /\ Len(q) \in Nat /\ Len(q) # 0
  BY DEF QueueOf, Message
<1>2. /\ Tail(q) \in Seq(Message(M)) /\ Len(Tail(q)) = Len(q) - 1
      /\ \A i \in 1..Len(Tail(q)) : Tail(q)[i] = q[i + 1]
  BY <1>1, HeadTailProperties
<1>3. \A i \in 1..Len(Tail(q)) : i + 1 \in 1..Len(q)
  BY <1>1, <1>2
<1>4. InOrder(Tail(q))
  BY <1>1, <1>2, <1>3 DEF InOrder
<1>5. First(q) = q[1].msg /\ q[1] \in Message(M) /\ 1 \in 1..Len(q)
  BY <1>1 DEF First
<1> QED  BY <1>1, <1>2, <1>3, <1>4, <1>5 DEF QueueOf, Message

(* A queue starts empty.                                                     *)
LEMMA EmptyQueue == ASSUME NEW M, NEW cap \in Nat PROVE <<>> \in QueueOf(M, cap)
<1>1. <<>> \in Seq(Message(M)) /\ Len(<<>>) = 0 /\ 1..0 = {}
  OBVIOUS
<1> QED  BY <1>1 DEF QueueOf, Message, InOrder

-----------------------------------------------------------------------------
(* Car records.  A sound one has its type, is on a road and has a whole plan. *)
SoundCar == {car \in CarRecord : EdgeBetween(car.last, car.cur) # {} /\ WholePlan(car)}
Statuses == {"IDLE", "MOVING", "WAIT"}

(* What the fields of a sound record hold.                                   *)
LEMMA SoundFields ==
  ASSUME NEW car \in SoundCar
  PROVE  /\ car \in CarRecord /\ EdgeBetween(car.last, car.cur) # {} /\ WholePlan(car)
         /\ car.cur \in Nodes /\ car.last \in Nodes /\ car.start \in Nodes
         /\ car.tgt \in 0..NodeCount /\ car.status \in Statuses /\ car.path \in Seq(Edges)
<1>1. car \in CarRecord /\ EdgeBetween(car.last, car.cur) # {} /\ WholePlan(car)
  BY DEF SoundCar
<1> QED  BY <1>1 DEF CarRecord, Statuses

(* The greatest of some edges is one of them.                                *)
LEMMA LatestIsOne ==
  ASSUME NEW S \in SUBSET Nat, NEW n \in Nat, \A e \in S : e <= n, S # {}
  PROVE  LatestOf(S) \in S /\ \A d \in S : d <= LatestOf(S)
<1>1. S \in SUBSET (0..n)
  OBVIOUS
<1>2. \E m \in S : \A k \in S : k <= m
  BY <1>1, Greatest
<1> QED  BY <1>2 DEF LatestOf

(* No plan at all is a whole one.                                            *)
LEMMA EmptyPlan == ASSUME NEW car, car.path = <<>> PROVE WholePlan(car)
<1>1. Len(car.path) = 0 /\ 1..0 = {} /\ 1..(0 - 1) = {}
  OBVIOUS
<1> QED  BY <1>1 DEF WholePlan, IsChain

(* A plan is whole whatever else is in the record.                           *)
LEMMA SamePlan ==
  ASSUME NEW car, NEW other, WholePlan(car), other.path = car.path, other.tgt = car.tgt
  PROVE  WholePlan(other)
BY DEF WholePlan

(* The home of a car is on a road.                                           *)
LEMMA HomeSound ==
  ASSUME NEW c \in Cars
  PROVE  /\ Home[c][1] \in Nodes /\ Home[c][2] \in Nodes
         /\ EdgeBetween(Home[c][1], Home[c][2]) # {}
         /\ HomeCar(c) \in SoundCar
<1>1. Home[c] \in Nodes \X Nodes /\ EdgeBetween(Home[c][1], Home[c][2]) # {}
  BY HomeAssumption
<1>2. Home[c][1] \in Nodes /\ Home[c][2] \in Nodes
  BY <1>1
<1>3. 0 \in 0..NodeCount /\ <<>> \in Seq(Edges)
  BY MapTypes
<1>4. HomeCar(c) \in CarRecord
  BY <1>2, <1>3 DEF HomeCar, CarRecord
<1>5. HomeCar(c).path = <<>> /\ HomeCar(c).last = Home[c][1] /\ HomeCar(c).cur = Home[c][2]
  BY DEF HomeCar
<1> QED  BY <1>1, <1>2, <1>4, <1>5, EmptyPlan DEF SoundCar

(* A car that is placed is at home, without a plan.                          *)
LEMMA PlacedSound ==
  ASSUME NEW c \in Cars, NEW car \in SoundCar
  PROVE  [car EXCEPT !.cur = Home[c][2], !.last = Home[c][1], !.path = <<>>, !.status = "IDLE"]
           \in SoundCar
<1> DEFINE new == [car EXCEPT !.cur = Home[c][2], !.last = Home[c][1], !.path = <<>>, !.status = "IDLE"]
<1>1. Home[c][1] \in Nodes /\ Home[c][2] \in Nodes /\ EdgeBetween(Home[c][1], Home[c][2]) # {}
  BY HomeSound
<1>2. car \in CarRecord /\ <<>> \in Seq(Edges)
  BY DEF SoundCar
<1>3. new \in CarRecord
  BY <1>1, <1>2 DEF CarRecord
<1>4. new.path = <<>> /\ new.last = Home[c][1] /\ new.cur = Home[c][2]
  BY <1>2 DEF CarRecord
<1> HIDE DEF new
<1> QED  BY <1>1, <1>3, <1>4, EmptyPlan DEF SoundCar, new

(* The status of a car does not matter for its plan.                         *)
LEMMA StatusSound ==
  ASSUME NEW car \in SoundCar, NEW s \in Statuses
  PROVE  [car EXCEPT !.status = s] \in SoundCar
<1> DEFINE new == [car EXCEPT !.status = s]
<1>1. car \in CarRecord /\ EdgeBetween(car.last, car.cur) # {} /\ WholePlan(car)
  BY DEF SoundCar
<1>2. new \in CarRecord
  BY <1>1 DEF CarRecord, Statuses
<1>3. new.path = car.path /\ new.tgt = car.tgt /\ new.last = car.last /\ new.cur = car.cur
  BY <1>1 DEF CarRecord
<1> HIDE DEF new
<1> QED  BY <1>1, <1>2, <1>3, SamePlan DEF SoundCar, new

(* What the router makes of the record of a car that has arrived.             *)
Ended(car) == [car EXCEPT !.status = "IDLE", !.path = <<>>, !.start = car.cur]

(* A car that has arrived has no plan.                                       *)
LEMMA EndedSound ==
  ASSUME NEW car \in SoundCar
  PROVE  Ended(car) \in SoundCar /\ Ended(car).tgt = car.tgt /\ Ended(car).cur = car.cur
         /\ Ended(car).path = <<>> /\ Ended(car).status = "IDLE"
<1>1. car \in CarRecord /\ EdgeBetween(car.last, car.cur) # {} /\ <<>> \in Seq(Edges)
  BY DEF SoundCar
<1>2. Ended(car) \in CarRecord
  BY <1>1 DEF CarRecord, Ended
<1>3. /\ Ended(car).tgt = car.tgt /\ Ended(car).cur = car.cur /\ Ended(car).last = car.last
      /\ Ended(car).path = <<>> /\ Ended(car).status = "IDLE"
  BY <1>1 DEF CarRecord, Ended
<1> QED  BY <1>1, <1>2, <1>3, EmptyPlan DEF SoundCar

(* The next leg of a plan leads the car along a road, and keeps its plan.     *)
LEMMA AdvancedSound ==
  ASSUME NEW car \in SoundCar, LegsFrom(car) # {}
  PROVE  /\ Advanced(car) \in SoundCar
         /\ \E i \in 1..Len(car.path) : Advanced(car).cur = To(car.path[i])
         /\ Advanced(car).last = car.cur /\ Advanced(car).tgt = car.tgt
         /\ Advanced(car).path = car.path /\ Advanced(car).status = car.status
<1>1. car \in CarRecord /\ car.cur \in Nodes /\ car.path \in Seq(Edges) /\ WholePlan(car)
  BY SoundFields
<1> DEFINE i == LatestOf(LegsFrom(car))
           e == car.path[i]
<1>2. Len(car.path) \in Nat /\ LegsFrom(car) \in SUBSET Nat /\ \A j \in LegsFrom(car) : j <= Len(car.path)
  BY <1>1 DEF LegsFrom
<1>3. i \in LegsFrom(car)
  BY <1>2, LatestIsOne
<1>4. i \in 1..Len(car.path) /\ From(e) = car.cur
  BY <1>3 DEF LegsFrom
<1>5. e \in Edges /\ To(e) \in Nodes
  BY <1>1, <1>4, MapTypes
<1>6. Advanced(car) = [car EXCEPT !.last = car.cur, !.cur = To(e)]
  BY DEF Advanced
<1> HIDE DEF e, i
<1>7. Advanced(car) \in CarRecord
  BY <1>1, <1>5, <1>6 DEF CarRecord
<1>8. /\ Advanced(car).cur = To(e) /\ Advanced(car).last = car.cur /\ Advanced(car).tgt = car.tgt
      /\ Advanced(car).path = car.path /\ Advanced(car).status = car.status
  BY <1>1, <1>6 DEF CarRecord
<1>9. e \in EdgeBetween(car.cur, To(e))
  BY <1>4, <1>5 DEF EdgeBetween, OutEdges
<1>10. Advanced(car) \in SoundCar
  BY <1>1, <1>7, <1>8, <1>9, SamePlan DEF SoundCar
<1> QED  BY <1>4, <1>8, <1>10 DEF e

(* A plan is a route from the road the car is on, or is turned around on.     *)
LEMMA PlannedSound ==
  ASSUME NEW car \in SoundCar, pMsg \in TaskMsg, CanStart(car), NEW p \in PlannerPaths(car)
  PROVE  /\ Planned(car, p) \in SoundCar
         /\ Planned(car, p).path = p /\ p # <<>> /\ Len(p) \in 1..NodeCount
         /\ Planned(car, p).cur = From(p[1]) /\ Planned(car, p).tgt = To(p[Len(p)])
         /\ Planned(car, p).status = "MOVING"
         /\ IsWalk(pMap.est, pMap.nst, Planned(car, p).cur, p)
<1> DEFINE s == PlannerStart(car)
           t == PlannerTarget(car)
           l == IF pMsg.imm = "uturnNoCross" THEN car.cur ELSE car.last
<1>1. /\ car \in CarRecord /\ EdgeBetween(car.last, car.cur) # {}
      /\ car.cur \in Nodes /\ car.last \in Nodes /\ car.start \in Nodes /\ car.tgt \in 0..NodeCount
  BY SoundFields
<1>2. /\ pMsg.imm \in Strategies /\ pMsg.act \in {"assign", "cancel", "replan"}
      /\ pMsg.tgt \in 0..NodeCount
  BY DEF TaskMsg
<1>3. s \in Nodes /\ l \in Nodes /\ EdgeBetween(l, s) # {}
  <2>1. CASE pMsg.imm = "uturnNoCross"
    BY <2>1, <1>1, RoadsGoBothWays DEF PlannerStart
  <2>2. CASE pMsg.imm = "uturn"
    <3> DEFINE e == LatestOf(WaysBack(car))
    <3>1. WaysBack(car) # {} /\ WaysBack(car) \in SUBSET Nat /\ EdgeCount \in Nat
          /\ \A d \in WaysBack(car) : d <= EdgeCount
      BY <2>2, MapTypes DEF CanStart, WaysBack, OutEdges, Edges
    <3>2. e \in WaysBack(car)
      BY <3>1, LatestIsOne
    <3>3. e \in Edges /\ From(e) = car.last
      BY <3>2 DEF WaysBack, OutEdges
    <3>4. s = To(e) /\ l = car.last
      BY <2>2 DEF PlannerStart
    <3> HIDE DEF e, s, l
    <3> QED  BY <3>3, <3>4, <1>1, MapTypes DEF EdgeBetween, OutEdges
  <2>3. CASE pMsg.imm \notin {"uturnNoCross", "uturn"}
    BY <2>3, <1>1 DEF PlannerStart
  <2> QED  BY <2>1, <2>2, <2>3
<1>4. t \in 0..NodeCount
  <2>1. Nodes \subseteq 0..NodeCount
    BY MapTypes DEF Nodes
  <2> QED  BY <2>1, <1>1, <1>2 DEF PlannerTarget
<1> HIDE DEF s, t, l
<1>5. p \in Routes(pMap.est, pMap.nst, s, t)
  BY DEF PlannerPaths, s, t
<1>6. /\ IsWalk(pMap.est, pMap.nst, s, p) /\ p # <<>> /\ Len(p) \in 1..NodeCount
      /\ From(p[1]) = s /\ To(p[Len(p)]) = t
      /\ \A i, j \in 1..Len(p) : From(p[i]) = From(p[j]) => i = j
  BY <1>3, <1>5, RoutesLead
<1>7. p \in Seq(Edges) /\ IsChain(p)
  BY <1>6 DEF IsWalk
<1>8. Planned(car, p) = [car EXCEPT !.last = l, !.cur = s, !.tgt = t, !.path = p, !.status = "MOVING"]
  BY DEF Planned, l, s, t
<1>9. Planned(car, p) \in CarRecord
  BY <1>1, <1>3, <1>4, <1>7, <1>8 DEF CarRecord
<1>10. /\ Planned(car, p).last = l /\ Planned(car, p).cur = s /\ Planned(car, p).tgt = t
       /\ Planned(car, p).path = p /\ Planned(car, p).status = "MOVING"
  BY <1>1, <1>8 DEF CarRecord
<1>11. WholePlan(Planned(car, p))
  BY <1>6, <1>7, <1>10 DEF WholePlan
<1> QED  BY <1>3, <1>6, <1>9, <1>10, <1>11 DEF SoundCar

-----------------------------------------------------------------------------
(* The inductive invariant: types, and sound records in shared memory and in *)
(* the hands of those who will store them.                                 *)
EdgeStatuses == {"IDLE", "FAULT_TEMP"} \cup HardBlocked
NodeStatuses == {"IDLE", "FAULT"}
Turns == {"STRAIGHT", "LEFT", "RIGHT", "UTURN"}
Troubles == Obstacles \cup {"REPAIRED"}
Left == [edges : Seq(Edges), nodes : Seq(Nodes)]

MapInv == est \in [Edges -> EdgeStatuses] /\ nst \in [Nodes -> NodeStatuses]
CarsInv == cars \in [Cars -> SoundCar]
TaskQInv == taskQ \in QueueOf(TaskMsg, TaskCap)
RouteQInv == routeQ \in QueueOf(Cars, RouteCap)
PubQInv == pubQ \in QueueOf(PubMsg, PubCap)
PlannerInv ==
  /\ pPc \in {"idle", "map", "plan", "pause", "requeue", "commit", "count", "action"}
  /\ pPc # "idle" => pMsg \in TaskMsg
  /\ pPc \in {"commit", "count", "action"} => pCar \in SoundCar /\ Len(pCar.path) \in 0..NodeCount
RouterInv ==
  /\ rPc \in {"idle", "read", "turn", "store", "arrived"}
  /\ rPc # "idle" => rId \in Cars
  /\ rPc \in {"turn", "store", "arrived"} => rCar \in SoundCar
  /\ rPc = "turn" => rTurn \in Turns
SubInv ==
  /\ sPc \in {"idle", "locate", "edge", "other", "after", "place", "store"}
  /\ sPc # "idle" => sEv \in Reports
  /\ sPc \in {"locate", "edge", "other", "after"} => sEv.type \in Troubles
  /\ sPc \in {"edge", "other"} => sEdge \in Edges
  /\ sPc = "store" => sCar \in SoundCar
TopoInv ==
  /\ tPc \in {"idle", "set", "other", "send"}
  /\ tPc # "idle" => tReq \in Requested
  /\ tLeft \in Left
  /\ tPc = "other" => tLeft.edges # <<>>
  /\ tTodo \subseteq Cars
OutsideInv ==
  /\ inbox \in Seq(Reports)
  /\ drive \in [Cars -> Places]
  /\ num \in [Cars -> 0..NodeCount] /\ count \in [Cars -> 0..NodeCount]
  /\ tmp \in [Cars -> BOOLEAN]
TypeInv ==
  /\ MapInv /\ CarsInv /\ TaskQInv /\ RouteQInv /\ PubQInv
  /\ PlannerInv /\ RouterInv /\ SubInv /\ TopoInv /\ OutsideInv

(* Each part is about some variables only.                                   *)
LEMMA Frames ==
  /\ MapInv /\ UNCHANGED <<est, nst>> => MapInv'
  /\ CarsInv /\ UNCHANGED cars => CarsInv'
  /\ TaskQInv /\ UNCHANGED taskQ => TaskQInv'
  /\ RouteQInv /\ UNCHANGED routeQ => RouteQInv'
  /\ PubQInv /\ UNCHANGED pubQ => PubQInv'
  /\ PlannerInv /\ UNCHANGED plannerVars => PlannerInv'
  /\ RouterInv /\ UNCHANGED routerVars => RouterInv'
  /\ SubInv /\ UNCHANGED subVars => SubInv'
  /\ TopoInv /\ UNCHANGED topoVars => TopoInv'
  /\ OutsideInv /\ UNCHANGED outside => OutsideInv'
<1>1. MapInv /\ UNCHANGED <<est, nst>> => MapInv'
  BY DEF MapInv
<1>2. CarsInv /\ UNCHANGED cars => CarsInv'
  BY DEF CarsInv
<1>3. TaskQInv /\ UNCHANGED taskQ => TaskQInv'
  BY DEF TaskQInv
<1>4. RouteQInv /\ UNCHANGED routeQ => RouteQInv'
  BY DEF RouteQInv
<1>5. PubQInv /\ UNCHANGED pubQ => PubQInv'
  BY DEF PubQInv
<1>6. PlannerInv /\ UNCHANGED plannerVars => PlannerInv'
  BY DEF PlannerInv, plannerVars
<1>7. RouterInv /\ UNCHANGED routerVars => RouterInv'
  BY DEF RouterInv, routerVars
<1>8. SubInv /\ UNCHANGED subVars => SubInv'
  BY DEF SubInv, subVars
<1>9. TopoInv /\ UNCHANGED topoVars => TopoInv'
  BY DEF TopoInv, topoVars
<1>10. OutsideInv /\ UNCHANGED outside => OutsideInv'
  BY DEF OutsideInv, outside
<1> QED  BY <1>1, <1>2, <1>3, <1>4, <1>5, <1>6, <1>7, <1>8, <1>9, <1>10

(* At the start everything is empty and every car at home.                   *)
LEMMA TypeInit == Init => TypeInv
<1> SUFFICES ASSUME Init PROVE TypeInv
  OBVIOUS
<1>1. MapInv
  BY DEF Init, MapInv, EdgeStatuses, NodeStatuses
<1>2. CarsInv
  BY HomeSound DEF Init, CarsInv
<1>3. TaskQInv /\ RouteQInv /\ PubQInv
  BY EmptyQueue, CapacitiesAssumption DEF Init, TaskQInv, RouteQInv, PubQInv
<1>4. PlannerInv /\ RouterInv /\ SubInv
  BY DEF Init, PlannerInv, RouterInv, SubInv
<1>5. TopoInv
  BY DEF Init, TopoInv, NothingLeft, Left
<1>6. OutsideInv
  <2>1. 0 \in 0..NodeCount /\ <<>> \in Seq(Reports)
    BY MapTypes
  <2> QED  BY <2>1 DEF Init, OutsideInv, Places
<1> QED  BY <1>1, <1>2, <1>3, <1>4, <1>5, <1>6 DEF TypeInv

-----------------------------------------------------------------------------
(* The messages of the processes have their types.                           *)
LEMMA TaskMessages ==
  ASSUME NEW c \in Cars
  PROVE  /\ \A t \in Targets : Assign(c, t) \in TaskMsg
         /\ \A imm \in Strategies : Cancel(c, imm) \in TaskMsg /\ Replan(c, imm) \in TaskMsg
<1>1. 0 \in 0..NodeCount /\ \A t \in Targets : t \in 0..NodeCount
  BY MapTypes, TargetsAssumption DEF Nodes
<1> QED  BY <1>1 DEF Assign, Cancel, Replan, TaskMsg, Strategies

(* What planner and router publish is a command.                             *)
LEMMA Commands ==
  ASSUME NEW c \in Cars
  PROVE  /\ \A a \in {"PAUSE", "PROCESS", "UTURN"} : Command(c, "ACTION", a) \in PubMsg
         /\ \A d \in Turns \cup {"ARRIVED"} : Command(c, "ORIENT", d) \in PubMsg
         /\ \A n \in 0..NodeCount : CountCommand(c, n) \in PubMsg
<1>1. 0 \in 0..NodeCount
  BY MapTypes
<1> QED  BY <1>1 DEF Command, CountCommand, PubMsg, Turns

(* The planner leaves the map, the router, the subscriber, topo and the       *)
(* outside alone.                                                          *)
LEMMA PlannerFrame ==
  ASSUME TypeInv, Planner \/ PlannerCrash
  PROVE  MapInv' /\ RouteQInv' /\ RouterInv' /\ SubInv' /\ TopoInv' /\ OutsideInv'
<1>1. UNCHANGED <<est, nst, routeQ, routerVars, subVars, topoVars, outside>>
  <2>1. CASE Planner
    BY <2>1 DEF Planner, PlannerRest, PlannerReceive, PlannerReadMap, PlannerPlan, PlannerGiveUp,
                PlannerPause, PlannerRequeue, PlannerCommit, PlannerSendCount, PlannerSendAction
  <2>2. CASE PlannerCrash
    BY <2>2 DEF PlannerCrash, shm, queues
  <2> QED  BY <2>1, <2>2
<1> QED  BY <1>1, Frames DEF TypeInv

(* A planner that is done holds nothing.                                     *)
LEMMA PlannerIdles == ASSUME PlannerDone PROVE PlannerInv'
BY DEF PlannerDone, PlannerInv

(* The planner takes messages of the right type, plans and stores sound       *)
(* records, and counts no more roads than there are nodes.                 *)
LEMMA PlannerStep ==
  ASSUME TypeInv, Planner \/ PlannerCrash
  PROVE  TypeInv'
<1> USE CapacitiesAssumption
<1>0. /\ CarsInv /\ TaskQInv /\ PubQInv /\ PlannerInv
      /\ taskQ \in QueueOf(TaskMsg, TaskCap) /\ pubQ \in QueueOf(PubMsg, PubCap)
  BY DEF TypeInv, TaskQInv, PubQInv
<1> SUFFICES CarsInv' /\ TaskQInv' /\ PubQInv' /\ PlannerInv'
  BY PlannerFrame DEF TypeInv
<1>1. CASE PlannerReceive
  <2>1. First(taskQ) \in TaskMsg /\ Tail(taskQ) \in QueueOf(TaskMsg, TaskCap)
    BY <1>0, <1>1, Received DEF PlannerReceive
  <2>2. CarsInv' /\ PubQInv'
    BY <1>0, <1>1, Frames DEF PlannerReceive
  <2>3. TaskQInv' /\ PlannerInv'
    BY <1>1, <2>1 DEF PlannerReceive, TaskQInv, PlannerInv
  <2> QED  BY <2>2, <2>3
<1>2. CASE PlannerReadMap
  <2>1. CarsInv' /\ TaskQInv' /\ PubQInv'
    BY <1>0, <1>2, Frames DEF PlannerReadMap
  <2>2. PlannerInv'
    BY <1>0, <1>2 DEF PlannerReadMap, PlannerInv
  <2> QED  BY <2>1, <2>2
<1>3. CASE PlannerPlan
  <2>1. pMsg \in TaskMsg /\ cars[pMsg.car] \in SoundCar
    BY <1>0, <1>3 DEF PlannerPlan, PlannerInv, CarsInv, TaskMsg
  <2>2. PICK p \in PlannerPaths(cars[pMsg.car]) : pCar' = Planned(cars[pMsg.car], p)
    BY <1>3 DEF PlannerPlan
  <2>3. CanStart(cars[pMsg.car])
    BY <1>3 DEF PlannerPlan
  <2>4. pCar' \in SoundCar /\ pCar'.path = p /\ Len(p) \in 1..NodeCount
    BY <2>1, <2>2, <2>3, PlannedSound
  <2>5. Len(p) \in 0..NodeCount
    BY <2>4, MapTypes
  <2>6. CarsInv' /\ TaskQInv' /\ PubQInv'
    BY <1>0, <1>3, Frames DEF PlannerPlan
  <2>7. PlannerInv'
    BY <1>3, <2>1, <2>4, <2>5 DEF PlannerPlan, PlannerInv
  <2> QED  BY <2>6, <2>7
<1>4. CASE PlannerGiveUp
  <2>1. CarsInv' /\ TaskQInv' /\ PubQInv'
    BY <1>0, <1>4, Frames DEF PlannerGiveUp
  <2>2. PlannerInv'
    <3>1. PlannerDone \/ (pPc = "plan" /\ pPc' \in {"pause", "requeue"} /\ pMsg' = pMsg)
      BY <1>4 DEF PlannerGiveUp
    <3> QED  BY <3>1, <1>0, PlannerIdles DEF PlannerInv
  <2> QED  BY <2>1, <2>2
<1>5. CASE PlannerPause
  <2>1. pMsg.car \in Cars
    BY <1>0, <1>5 DEF PlannerPause, PlannerInv, TaskMsg
  <2>2. PubQInv'
    <3>1. Command(pMsg.car, "ACTION", "PAUSE") \in PubMsg
      BY <2>1, Commands
    <3>2. Send(pubQ, PubCap, Command(pMsg.car, "ACTION", "PAUSE"), High) \in QueueOf(PubMsg, PubCap)
      BY <3>1, <1>0, Sent
    <3> QED  BY <3>2, <1>5 DEF PlannerPause, PubQInv
  <2>3. CarsInv' /\ TaskQInv' /\ PlannerInv'
    BY <1>0, <1>5, Frames, PlannerIdles DEF PlannerPause
  <2> QED  BY <2>2, <2>3
<1>6. CASE PlannerRequeue
  <2>1. pMsg.car \in Cars /\ pMsg.imm \in Strategies
    BY <1>0, <1>6 DEF PlannerRequeue, PlannerInv, TaskMsg
  <2>2. TaskQInv'
    <3>1. Cancel(pMsg.car, pMsg.imm) \in TaskMsg
      BY <2>1, TaskMessages
    <3>2. Send(taskQ, TaskCap, Cancel(pMsg.car, pMsg.imm), High) \in QueueOf(TaskMsg, TaskCap)
      BY <3>1, <1>0, Sent
    <3> QED  BY <3>2, <1>6 DEF PlannerRequeue, TaskQInv
  <2>3. CarsInv' /\ PubQInv' /\ PlannerInv'
    BY <1>0, <1>6, Frames, PlannerIdles DEF PlannerRequeue
  <2> QED  BY <2>2, <2>3
<1>7. CASE PlannerCommit
  <2>1. pCar \in SoundCar
    BY <1>0, <1>7 DEF PlannerCommit, PlannerInv
  <2>2. CarsInv'
    BY <1>0, <1>7, <2>1 DEF PlannerCommit, CarsInv
  <2>3. TaskQInv' /\ PubQInv'
    BY <1>0, <1>7, Frames DEF PlannerCommit
  <2>4. PlannerInv'
    BY <1>0, <1>7 DEF PlannerCommit, PlannerInv
  <2> QED  BY <2>2, <2>3, <2>4
<1>8. CASE PlannerSendCount
  <2>1. pMsg.car \in Cars /\ Len(pCar.path) \in 0..NodeCount
    BY <1>0, <1>8 DEF PlannerSendCount, PlannerInv, TaskMsg
  <2>2. PubQInv'
    <3>1. CountCommand(pMsg.car, Len(pCar.path)) \in PubMsg
      BY <2>1, Commands
    <3>2. Send(pubQ, PubCap, CountCommand(pMsg.car, Len(pCar.path)), High) \in QueueOf(PubMsg, PubCap)
      BY <3>1, <1>0, Sent
    <3> QED  BY <3>2, <1>8 DEF PlannerSendCount, PubQInv
  <2>3. CarsInv' /\ TaskQInv'
    BY <1>0, <1>8, Frames DEF PlannerSendCount
  <2>4. PlannerInv'
    BY <1>0, <1>8 DEF PlannerSendCount, PlannerInv
  <2> QED  BY <2>2, <2>3, <2>4
<1>9. CASE PlannerSendAction
  <2>1. pMsg.car \in Cars
    BY <1>0, <1>9 DEF PlannerSendAction, PlannerInv, TaskMsg
  <2>2. PubQInv'
    <3>1. Command(pMsg.car, "ACTION", ActionFor(pMsg.imm)) \in PubMsg
      BY <2>1, Commands DEF ActionFor
    <3>2. Send(pubQ, PubCap, Command(pMsg.car, "ACTION", ActionFor(pMsg.imm)), High)
            \in QueueOf(PubMsg, PubCap)
      BY <3>1, <1>0, Sent
    <3> QED  BY <3>2, <1>0, <1>9 DEF PlannerSendAction, PubQInv
  <2>3. CarsInv' /\ TaskQInv' /\ PlannerInv'
    BY <1>0, <1>9, Frames, PlannerIdles DEF PlannerSendAction
  <2> QED  BY <2>2, <2>3
<1>10. CASE PlannerCrash
  BY <1>0, <1>10, Frames, PlannerIdles DEF PlannerCrash, shm, queues
<1> QED  BY <1>1, <1>2, <1>3, <1>4, <1>5, <1>6, <1>7, <1>8, <1>9, <1>10 DEF Planner

-----------------------------------------------------------------------------
(* The router: every turn has a name, and what it stores is sound.           *)
LEMMA RouterFrame ==
  ASSUME TypeInv, Router \/ RouterCrash
  PROVE  MapInv' /\ TaskQInv' /\ PlannerInv' /\ SubInv' /\ TopoInv' /\ OutsideInv'
<1>1. UNCHANGED <<est, nst, taskQ, plannerVars, subVars, topoVars, outside>>
  <2>1. CASE Router
    BY <2>1 DEF Router, RouterRest, RouterReceive, RouterRead, RouterSendTurn, RouterStore,
                RouterSendArrived
  <2>2. CASE RouterCrash
    BY <2>2 DEF RouterCrash, shm, queues
  <2> QED  BY <2>1, <2>2
<1> QED  BY <1>1, Frames DEF TypeInv

(* A router that is done holds nothing.                                      *)
LEMMA RouterIdles == ASSUME RouterDone PROVE RouterInv'
BY DEF RouterDone, RouterInv

(* What RouterRead makes of a record.                                        *)
LEMMA RouterReads ==
  ASSUME RouterRead
  PROVE  LET car == cars[rId]
         IN \/ /\ car.cur = car.tgt /\ rCar' = Ended(car)
               /\ rTurn' = "ARRIVED" /\ rPc' = "store" /\ rId' = rId
            \/ /\ car.cur # car.tgt /\ LegsFrom(car) # {} /\ rCar' = Advanced(car)
               /\ rTurn' \in Turns /\ rPc' = "turn" /\ rId' = rId
            \/ RouterDone
<1>1. \A l, c, n : GenerateTurn(l, c, n) \in Turns
  BY DEF GenerateTurn, Turns
<1> QED  BY <1>1 DEF RouterRead, Ended

(* The steps of the router, and its restart, keep the types.                 *)
LEMMA RouterStep ==
  ASSUME TypeInv, Router \/ RouterCrash
  PROVE  TypeInv'
<1> USE CapacitiesAssumption
<1>0. /\ CarsInv /\ RouteQInv /\ PubQInv /\ RouterInv
      /\ routeQ \in QueueOf(Cars, RouteCap) /\ pubQ \in QueueOf(PubMsg, PubCap)
  BY DEF TypeInv, RouteQInv, PubQInv
<1> SUFFICES CarsInv' /\ RouteQInv' /\ PubQInv' /\ RouterInv'
  BY RouterFrame DEF TypeInv
<1>1. CASE RouterReceive
  <2>1. First(routeQ) \in Cars /\ Tail(routeQ) \in QueueOf(Cars, RouteCap)
    BY <1>0, <1>1, Received DEF RouterReceive
  <2>2. CarsInv' /\ PubQInv'
    BY <1>0, <1>1, Frames DEF RouterReceive
  <2>3. RouteQInv' /\ RouterInv'
    BY <1>1, <2>1 DEF RouterReceive, RouteQInv, RouterInv
  <2> QED  BY <2>2, <2>3
<1>2. CASE RouterRead
  <2>1. CarsInv' /\ RouteQInv' /\ PubQInv'
    BY <1>0, <1>2, Frames DEF RouterRead
  <2>2. rId \in Cars /\ cars[rId] \in SoundCar
    BY <1>0, <1>2 DEF RouterRead, RouterInv, CarsInv
  <2>3. Ended(cars[rId]) \in SoundCar
    BY <2>2, EndedSound
  <2>4. LegsFrom(cars[rId]) # {} => Advanced(cars[rId]) \in SoundCar
    BY <2>2, AdvancedSound
  <2>5. RouterInv'
    BY <1>2, <2>2, <2>3, <2>4, RouterReads, RouterIdles DEF RouterInv
  <2> QED  BY <2>1, <2>5
<1>3. CASE RouterSendTurn
  <2>1. rId \in Cars /\ rTurn \in Turns /\ rCar \in SoundCar
    BY <1>0, <1>3 DEF RouterSendTurn, RouterInv
  <2>2. PubQInv'
    <3>1. Command(rId, "ORIENT", rTurn) \in PubMsg
      BY <2>1, Commands
    <3>2. Send(pubQ, PubCap, Command(rId, "ORIENT", rTurn), High) \in QueueOf(PubMsg, PubCap)
      BY <3>1, <1>0, Sent
    <3> QED  BY <3>2, <1>3 DEF RouterSendTurn, PubQInv
  <2>3. CarsInv' /\ RouteQInv'
    BY <1>0, <1>3, Frames DEF RouterSendTurn
  <2>4. RouterInv'
    BY <1>3, <2>1 DEF RouterSendTurn, RouterInv
  <2> QED  BY <2>2, <2>3, <2>4
<1>4. CASE RouterStore
  <2>1. rId \in Cars /\ rCar \in SoundCar
    BY <1>0, <1>4 DEF RouterStore, RouterInv
  <2>2. CarsInv'
    BY <1>0, <1>4, <2>1 DEF RouterStore, CarsInv
  <2>3. RouteQInv' /\ PubQInv'
    BY <1>0, <1>4, Frames DEF RouterStore
  <2>4. RouterInv'
    <3>1. RouterDone \/ (rPc' = "arrived" /\ rId' = rId /\ rCar' = rCar)
      BY <1>4 DEF RouterStore
    <3> QED  BY <3>1, <2>1, RouterIdles DEF RouterInv
  <2> QED  BY <2>2, <2>3, <2>4
<1>5. CASE RouterSendArrived
  <2>1. rId \in Cars
    BY <1>0, <1>5 DEF RouterSendArrived, RouterInv
  <2>2. PubQInv'
    <3>1. Command(rId, "ORIENT", "ARRIVED") \in PubMsg
      BY <2>1, Commands
    <3>2. Send(pubQ, PubCap, Command(rId, "ORIENT", "ARRIVED"), Normal) \in QueueOf(PubMsg, PubCap)
      BY <3>1, <1>0, Sent
    <3> QED  BY <3>2, <1>5 DEF RouterSendArrived, PubQInv
  <2>3. CarsInv' /\ RouteQInv' /\ RouterInv'
    BY <1>0, <1>5, Frames, RouterIdles DEF RouterSendArrived
  <2> QED  BY <2>2, <2>3
<1>6. CASE RouterCrash
  BY <1>0, <1>6, Frames, RouterIdles DEF RouterCrash, shm, queues
<1> QED  BY <1>1, <1>2, <1>3, <1>4, <1>5, <1>6 DEF Router

-----------------------------------------------------------------------------
(* The subscriber.                                                           *)
LEMMA SubFrame ==
  ASSUME TypeInv, Subscriber
  PROVE  PubQInv' /\ PlannerInv' /\ RouterInv' /\ TopoInv'
         /\ UNCHANGED <<nst, drive, num, count, tmp>>
<1>1. UNCHANGED <<nst, pubQ, plannerVars, routerVars, topoVars, drive, num, count, tmp>>
  BY DEF Subscriber, SubRest, SubReceiveArrive, SubReceive, SubLocate, SubSetEdge, SubSetOther,
         SubAfter, SubReadPlace, SubStorePlace
<1> QED  BY <1>1, Frames DEF TypeInv

(* A subscriber that is done holds nothing.                                  *)
LEMMA SubIdles == ASSUME SubDone PROVE SubInv'
BY DEF SubDone, SubInv

(* The inbox loses its first report.                                         *)
LEMMA ReportTaken ==
  ASSUME OutsideInv, inbox # <<>>, inbox' = Tail(inbox), UNCHANGED <<drive, num, count, tmp>>
  PROVE  OutsideInv' /\ Head(inbox) \in Reports
<1>1. inbox \in Seq(Reports)
  BY DEF OutsideInv
<1>2. Tail(inbox) \in Seq(Reports) /\ Head(inbox) \in Reports
  BY <1>1, HeadTailProperties
<1> QED  BY <1>2 DEF OutsideInv

(* Which statuses a report gives a road.                                     *)
LEMMA StatusAfter == \A type \in Troubles : EdgeStatusAfter(type) \in EdgeStatuses
BY DEF Troubles, Obstacles, Lasting, EdgeStatusAfter, EdgeStatuses, HardBlocked

(* A status written to an edge keeps the types of the map.                   *)
LEMMA MapSet ==
  ASSUME MapInv, NEW e \in Edges, NEW s \in EdgeStatuses, est' = [est EXCEPT ![e] = s], nst' = nst
  PROVE  MapInv'
BY DEF MapInv

(* The steps of the subscriber keep the types.                               *)
LEMMA SubStep ==
  ASSUME TypeInv, Subscriber
  PROVE  TypeInv'
<1> USE CapacitiesAssumption
<1>0. /\ MapInv /\ CarsInv /\ TaskQInv /\ RouteQInv /\ SubInv /\ OutsideInv
      /\ taskQ \in QueueOf(TaskMsg, TaskCap) /\ routeQ \in QueueOf(Cars, RouteCap)
      /\ UNCHANGED <<nst, drive, num, count, tmp>>
  BY SubFrame DEF TypeInv, TaskQInv, RouteQInv
<1> SUFFICES MapInv' /\ CarsInv' /\ TaskQInv' /\ RouteQInv' /\ SubInv' /\ OutsideInv'
  BY SubFrame DEF TypeInv
<1>1. CASE SubReceiveArrive
  <2>1. OutsideInv' /\ Head(inbox) \in Reports
    BY <1>0, <1>1, ReportTaken DEF SubReceiveArrive
  <2>2. RouteQInv'
    <3>1. Head(inbox).car \in Cars
      BY <2>1 DEF Reports
    <3>2. Send(routeQ, RouteCap, Head(inbox).car, Normal) \in QueueOf(Cars, RouteCap)
      BY <3>1, <1>0, Sent
    <3> QED  BY <3>2, <1>1 DEF SubReceiveArrive, RouteQInv
  <2>3. MapInv' /\ CarsInv' /\ TaskQInv' /\ SubInv'
    BY <1>0, <1>1, Frames DEF SubReceiveArrive
  <2> QED  BY <2>1, <2>2, <2>3
<1>2. CASE SubReceive
  <2>1. OutsideInv' /\ Head(inbox) \in Reports
    BY <1>0, <1>2, ReportTaken DEF SubReceive
  <2>2. Head(inbox).type # "POSITION" => Head(inbox).type \in Troubles
    BY <1>2, <2>1 DEF SubReceive, Reports, Troubles
  <2>3. SubInv'
    BY <1>2, <2>1, <2>2 DEF SubReceive, SubInv
  <2>4. MapInv' /\ CarsInv' /\ TaskQInv' /\ RouteQInv'
    BY <1>0, <1>2, Frames DEF SubReceive
  <2> QED  BY <2>1, <2>3, <2>4
<1>3. CASE SubLocate
  <2>1. MapInv' /\ CarsInv' /\ TaskQInv' /\ RouteQInv' /\ OutsideInv'
    BY <1>0, <1>3, Frames DEF SubLocate, outside
  <2> DEFINE S == EdgeBetween(cars[sEv.car].last, cars[sEv.car].cur)
  <2>2. S # {} => (CHOOSE x \in S : \A y \in S : x <= y) \in S
    <3>1. S \in SUBSET Nat
      BY MapTypes DEF EdgeBetween, OutEdges, Edges
    <3> HIDE DEF S
    <3> QED  BY <3>1, Least
  <2>3. S \subseteq Edges
    BY DEF EdgeBetween, OutEdges
  <2>4. SubInv'
    <3>1. \/ sPc' = "after" /\ sEdge' = sEdge
          \/ S # {} /\ sPc' = "edge" /\ sEdge' = CHOOSE x \in S : \A y \in S : x <= y
      BY <1>3 DEF SubLocate
    <3>2. sEv' = sEv /\ sPc = "locate"
      BY <1>3 DEF SubLocate
    <3> HIDE DEF S
    <3> QED  BY <3>1, <3>2, <2>2, <2>3, <1>0 DEF SubInv
  <2> QED  BY <2>1, <2>4
<1>4. CASE SubSetEdge
  <2>1. sEdge \in Edges /\ EdgeStatusAfter(sEv.type) \in EdgeStatuses
    BY <1>0, <1>4, StatusAfter DEF SubSetEdge, SubInv
  <2>2. MapInv'
    BY <1>0, <1>4, <2>1, MapSet DEF SubSetEdge
  <2>3. CarsInv' /\ TaskQInv' /\ RouteQInv' /\ OutsideInv'
    BY <1>0, <1>4, Frames DEF SubSetEdge, outside
  <2>4. SubInv'
    BY <1>0, <1>4 DEF SubSetEdge, SubInv
  <2> QED  BY <2>2, <2>3, <2>4
<1>5. CASE SubSetOther
  <2>1. Other(sEdge) \in Edges /\ EdgeStatusAfter(sEv.type) \in EdgeStatuses
    BY <1>0, <1>5, StatusAfter, OtherDirection DEF SubSetOther, SubInv
  <2>2. MapInv'
    BY <1>0, <1>5, <2>1, MapSet DEF SubSetOther
  <2>3. CarsInv' /\ TaskQInv' /\ RouteQInv' /\ OutsideInv'
    BY <1>0, <1>5, Frames DEF SubSetOther, outside
  <2>4. SubInv'
    BY <1>0, <1>5 DEF SubSetOther, SubInv
  <2> QED  BY <2>2, <2>3, <2>4
<1>6. CASE SubAfter
  <2>1. sEv.type \in Troubles /\ sEv.car \in Cars
    BY <1>0, <1>6 DEF SubAfter, SubInv, Reports
  <2>2. MapInv' /\ RouteQInv' /\ OutsideInv' /\ SubInv'
    BY <1>0, <1>6, Frames, SubIdles DEF SubAfter, outside
  <2>3. CASE sEv.type \in Lasting
    <3> DEFINE m == Replan(sEv.car, IF sEv.past THEN "uturnNoCross" ELSE "uturn")
    <3>1. m \in TaskMsg
      BY <2>1, TaskMessages DEF Strategies
    <3>2. taskQ' = Send(taskQ, TaskCap, m, Normal) /\ cars' = cars
      BY <1>6, <2>3 DEF SubAfter, Lasting
    <3> HIDE DEF m
    <3>3. Send(taskQ, TaskCap, m, Normal) \in QueueOf(TaskMsg, TaskCap)
      BY <3>1, <1>0, Sent
    <3> QED  BY <3>2, <3>3, <2>2, <1>0, Frames DEF TaskQInv
  <2>4. ASSUME NEW s \in Statuses, cars' = [cars EXCEPT ![sEv.car].status = s], taskQ' = taskQ
        PROVE  CarsInv' /\ TaskQInv'
    <3>1. cars[sEv.car] \in SoundCar
      BY <1>0, <2>1 DEF CarsInv
    <3>2. [cars[sEv.car] EXCEPT !.status = s] \in SoundCar
      BY <3>1, StatusSound
    <3>3. CarsInv'
      BY <3>2, <2>4, <1>0, <2>1 DEF CarsInv
    <3> QED  BY <3>3, <2>4, <1>0, Frames
  <2>5. CASE sEv.type = "FRUIT"
    <3>1. cars' = [cars EXCEPT ![sEv.car].status = "WAIT"] /\ taskQ' = taskQ
      BY <1>6, <2>5 DEF SubAfter, Lasting
    <3> QED  BY <3>1, <2>4, <2>2 DEF Statuses
  <2>6. CASE sEv.type = "REPAIRED"
    <3>1. cars' = [cars EXCEPT ![sEv.car].status = "MOVING"] /\ taskQ' = taskQ
      BY <1>6, <2>6 DEF SubAfter, Lasting
    <3> QED  BY <3>1, <2>4, <2>2 DEF Statuses
  <2> QED  BY <2>1, <2>3, <2>5, <2>6 DEF Troubles, Obstacles, Lasting
<1>7. CASE SubReadPlace
  <2>1. sEv \in Reports /\ sEv.car \in Cars
    BY <1>0, <1>7 DEF SubReadPlace, SubInv, Reports
  <2>2. sCar' \in SoundCar
    <3>1. cars[sEv.car] \in SoundCar
      BY <1>0, <2>1 DEF CarsInv
    <3> QED  BY <3>1, <2>1, <1>7, PlacedSound DEF SubReadPlace
  <2>3. SubInv'
    BY <1>7, <2>1, <2>2 DEF SubReadPlace, SubInv
  <2>4. MapInv' /\ CarsInv' /\ TaskQInv' /\ RouteQInv' /\ OutsideInv'
    BY <1>0, <1>7, Frames DEF SubReadPlace, outside
  <2> QED  BY <2>3, <2>4
<1>8. CASE SubStorePlace
  <2>1. sCar \in SoundCar
    BY <1>0, <1>8 DEF SubStorePlace, SubInv
  <2>2. CarsInv'
    BY <1>0, <1>8, <2>1 DEF SubStorePlace, CarsInv
  <2>3. MapInv' /\ TaskQInv' /\ RouteQInv' /\ OutsideInv' /\ SubInv'
    BY <1>0, <1>8, Frames, SubIdles DEF SubStorePlace, outside
  <2> QED  BY <2>2, <2>3
<1> QED  BY <1>1, <1>2, <1>3, <1>4, <1>5, <1>6, <1>7, <1>8 DEF Subscriber

-----------------------------------------------------------------------------
(* topo sets statuses and sends replans.                                     *)
LEMMA StatusFor ==
  \A act \in {"ban", "access", "repair"} : EdgeStatusFor(act) \in EdgeStatuses
BY DEF EdgeStatusFor, EdgeStatuses, HardBlocked

(* What is left of a request is taken from the front.                        *)
LEMMA LessLeft ==
  ASSUME NEW l \in Left
  PROVE  /\ l.edges \in Seq(Edges) /\ l.nodes \in Seq(Nodes)
         /\ l.edges # <<>> => Head(l.edges) \in Edges /\ [l EXCEPT !.edges = Tail(@)] \in Left
         /\ l.nodes # <<>> => Head(l.nodes) \in Nodes /\ [l EXCEPT !.nodes = Tail(@)] \in Left
<1>1. l.edges \in Seq(Edges) /\ l.nodes \in Seq(Nodes)
  BY DEF Left
<1>2. l.edges # <<>> => Head(l.edges) \in Edges /\ Tail(l.edges) \in Seq(Edges)
  BY <1>1, HeadTailProperties
<1>3. l.nodes # <<>> => Head(l.nodes) \in Nodes /\ Tail(l.nodes) \in Seq(Nodes)
  BY <1>1, HeadTailProperties
<1> QED  BY <1>1, <1>2, <1>3 DEF Left

(* Topo writes the map, its queue and its own variables.                     *)
LEMMA TopoFrame ==
  ASSUME TypeInv, Topo
  PROVE  CarsInv' /\ RouteQInv' /\ PubQInv' /\ PlannerInv' /\ RouterInv' /\ SubInv' /\ OutsideInv'
<1>1. UNCHANGED <<cars, routeQ, pubQ, plannerVars, routerVars, subVars, outside>>
  BY DEF Topo, TopoRest, TopoSetEdge, TopoSetOther, TopoSetNode, TopoReadCars, TopoSend, TopoReply
<1> QED  BY <1>1, Frames DEF TypeInv

(* The steps of topo keep the types.                                         *)
LEMMA TopoStep ==
  ASSUME TypeInv, Topo
  PROVE  TypeInv'
<1> USE CapacitiesAssumption
<1>0. MapInv /\ TaskQInv /\ TopoInv /\ taskQ \in QueueOf(TaskMsg, TaskCap) /\ tLeft \in Left
  BY DEF TypeInv, TaskQInv, TopoInv
<1> SUFFICES MapInv' /\ TaskQInv' /\ TopoInv'
  BY TopoFrame DEF TypeInv
<1>1. CASE TopoSetEdge
  <2>1. /\ tReq \in Requested /\ tReq.act \in {"ban", "access", "repair"}
        /\ Head(tLeft.edges) \in Edges /\ [tLeft EXCEPT !.edges = Tail(@)] \in Left
    BY <1>0, <1>1, LessLeft DEF TopoSetEdge, TopoInv, Requested
  <2>2. MapInv'
    BY <1>0, <1>1, <2>1, MapSet, StatusFor DEF TopoSetEdge
  <2>3. /\ tPc' \in {"set", "other"} /\ tReq' = tReq /\ tTodo' = tTodo
        /\ tLeft' = tLeft \/ (tPc' = "set" /\ tLeft' = [tLeft EXCEPT !.edges = Tail(@)])
        /\ tLeft.edges # <<>>
    BY <1>1 DEF TopoSetEdge
  <2>4. TopoInv'
    BY <1>0, <2>1, <2>3 DEF TopoInv
  <2> QED  BY <1>0, <1>1, <2>2, <2>4, Frames DEF TopoSetEdge
<1>2. CASE TopoSetOther
  <2>1. /\ tReq \in Requested /\ tReq.act \in {"ban", "access", "repair"}
        /\ Head(tLeft.edges) \in Edges /\ [tLeft EXCEPT !.edges = Tail(@)] \in Left
    BY <1>0, <1>2, LessLeft DEF TopoSetOther, TopoInv, Requested
  <2>2. MapInv'
    BY <1>0, <1>2, <2>1, MapSet, StatusFor, OtherDirection DEF TopoSetOther
  <2>3. TopoInv'
    BY <1>0, <1>2, <2>1 DEF TopoSetOther, TopoInv
  <2> QED  BY <1>0, <1>2, <2>2, <2>3, Frames DEF TopoSetOther
<1>3. CASE TopoSetNode
  <2>1. Head(tLeft.nodes) \in Nodes /\ [tLeft EXCEPT !.nodes = Tail(@)] \in Left
    BY <1>0, <1>3, LessLeft DEF TopoSetNode
  <2>2. MapInv'
    BY <1>0, <1>3, <2>1 DEF TopoSetNode, MapInv, NodeStatuses
  <2>3. TopoInv'
    BY <1>0, <1>3, <2>1 DEF TopoSetNode, TopoInv
  <2> QED  BY <1>0, <1>3, <2>2, <2>3, Frames DEF TopoSetNode
<1>4. CASE TopoReadCars
  <2>1. TopoInv'
    BY <1>0, <1>4 DEF TopoReadCars, TopoInv
  <2> QED  BY <1>0, <1>4, <2>1, Frames DEF TopoReadCars
<1>5. CASE TopoSend
  <2> DEFINE c == CHOOSE d \in tTodo : \A o \in tTodo : d <= o
  <2>1. c \in tTodo /\ tTodo \subseteq Cars
    <3>1. tTodo \in SUBSET Nat /\ tTodo # {} /\ tTodo \subseteq Cars
      BY <1>0, <1>5, CarsAssumption DEF TopoSend, TopoInv
    <3>2. \E d \in tTodo : \A o \in tTodo : d <= o
      BY <3>1, Least
    <3> QED  BY <3>1, <3>2
  <2>2. taskQ' = Send(taskQ, TaskCap, Replan(c, "normal"), High) /\ tTodo' = tTodo \ {c}
    BY <1>5 DEF TopoSend
  <2> HIDE DEF c
  <2>3. Replan(c, "normal") \in TaskMsg
    BY <2>1, TaskMessages DEF Strategies
  <2>4. Send(taskQ, TaskCap, Replan(c, "normal"), High) \in QueueOf(TaskMsg, TaskCap)
    BY <2>3, <1>0, Sent
  <2>5. TaskQInv'
    BY <2>2, <2>4 DEF TaskQInv
  <2>6. TopoInv'
    BY <1>0, <1>5, <2>1, <2>2 DEF TopoSend, TopoInv
  <2> QED  BY <1>0, <1>5, <2>5, <2>6, Frames DEF TopoSend
<1>6. CASE TopoReply
  <2>1. TopoInv'
    BY <1>0, <1>6 DEF TopoReply, TopoInv
  <2> QED  BY <1>0, <1>6, <2>1, Frames DEF TopoReply
<1> QED  BY <1>1, <1>2, <1>3, <1>4, <1>5, <1>6 DEF Topo

-----------------------------------------------------------------------------
(* Requests.                                                                 *)
LEMMA ClientStep ==
  ASSUME TypeInv, Client
  PROVE  TypeInv'
<1> USE CapacitiesAssumption
<1>0. TaskQInv /\ TopoInv /\ taskQ \in QueueOf(TaskMsg, TaskCap)
  BY DEF TypeInv, TaskQInv
<1>1. ASSUME NEW m \in TaskMsg, NEW prio \in {Normal, High}, taskQ' = Send(taskQ, TaskCap, m, prio),
             UNCHANGED <<shm, routeQ, pubQ, plannerVars, routerVars, subVars, topoVars, outside>>
      PROVE  TypeInv'
  <2>1. TaskQInv'
    BY <1>0, <1>1, Sent DEF TaskQInv
  <2> QED  BY <1>1, <2>1, Frames DEF TypeInv, shm
<1>2. CASE \E c \in Cars, t \in Targets : TaskAssign(c, t)
  <2>1. PICK c \in Cars, t \in Targets : TaskAssign(c, t)
    BY <1>2
  <2>2. Assign(c, t) \in TaskMsg
    BY TaskMessages
  <2> QED  BY <1>1, <2>1, <2>2 DEF TaskAssign, TaskRest
<1>3. CASE \E c \in Cancels : TaskCancel(c)
  <2>1. PICK c \in Cancels : TaskCancel(c)
    BY <1>3
  <2>2. Cancel(c, "normal") \in TaskMsg
    BY TaskMessages, TargetsAssumption DEF Strategies
  <2> QED  BY <1>1, <2>1, <2>2 DEF TaskCancel, TaskRest
<1>4. CASE \E req \in TopoRequests : TopoAccept(req)
  <2>1. PICK req \in TopoRequests : TopoAccept(req)
    BY <1>4
  <2>2. req \in Requested /\ req.edges \in Seq(Edges) /\ req.nodes \in Seq(Nodes)
    BY TopoAssumption DEF Requested
  <2>3. tReq' = req /\ tPc' = "set" /\ tTodo' = tTodo /\ tLeft' \in Left
    BY <2>1, <2>2 DEF TopoAccept, Left
  <2>4. TopoInv'
    BY <1>0, <2>2, <2>3 DEF TopoInv
  <2>5. UNCHANGED <<est, nst, cars, taskQ, routeQ, pubQ, plannerVars, routerVars, subVars, outside>>
    BY <2>1 DEF TopoAccept, TopoRest
  <2> QED  BY <2>4, <2>5, Frames DEF TypeInv
<1> QED  BY <1>2, <1>3, <1>4 DEF Client

-----------------------------------------------------------------------------
(* A command leaves a vehicle in one of its places.                          *)
LEMMA PlacesObeyed ==
  ASSUME NEW d \in Places
  PROVE  /\ Started(d) \subseteq Places /\ Resumed(d) \subseteq Places
         /\ \A cmd \in PubMsg : Obeyed(d, cmd) \subseteq Places
<1>1. Started(d) \subseteq Places /\ Paused(d) \subseteq Places
  BY DEF Places, Started, Paused
<1>2. Resumed(d) \subseteq Places
  BY <1>1 DEF Places, Resumed
<1>3. \A dir : Directed(d, dir) \subseteq Places
  BY DEF Places, Directed
<1>4. {"follow"} \subseteq Places /\ {"follow", "idle"} \subseteq Places
  BY DEF Places
<1>5. ASSUME NEW cmd \in PubMsg PROVE Obeyed(d, cmd) \subseteq Places
  BY <1>1, <1>3, <1>4 DEF Obeyed
<1> QED  BY <1>1, <1>2, <1>5

(* Publishing a command keeps the types.                                     *)
LEMMA PublishStep ==
  ASSUME TypeInv, PublishOne
  PROVE  TypeInv'
<1> USE CapacitiesAssumption
<1>0. PubQInv /\ OutsideInv /\ pubQ \in QueueOf(PubMsg, PubCap)
  BY DEF TypeInv, PubQInv
<1> DEFINE cmd == First(pubQ)
<1>1. cmd \in PubMsg /\ Tail(pubQ) \in QueueOf(PubMsg, PubCap)
  BY <1>0, Received DEF PublishOne
<1>2. PubQInv'
  BY <1>1 DEF PublishOne, PubQInv
<1> HIDE DEF cmd
<1>3. /\ Delivered(cmd) \/ UNCHANGED <<drive, num, count>>
      /\ UNCHANGED <<inbox, tmp>>
  BY DEF PublishOne, cmd
<1>4. cmd.car \in Cars /\ cmd.n \in 0..NodeCount /\ 0 \in 0..NodeCount
  BY <1>1, MapTypes DEF PubMsg
<1>5. drive \in [Cars -> Places] /\ num \in [Cars -> 0..NodeCount] /\ count \in [Cars -> 0..NodeCount]
  BY <1>0 DEF OutsideInv
<1>6. drive' \in [Cars -> Places]
  <2>1. CASE Delivered(cmd)
    <3>1. drive[cmd.car] \in Places
      BY <1>4, <1>5
    <3>2. Obeyed(drive[cmd.car], cmd) \subseteq Places
      BY <3>1, <1>1, PlacesObeyed
    <3>3. PICK d \in Obeyed(drive[cmd.car], cmd) : drive' = [drive EXCEPT ![cmd.car] = d]
      BY <2>1 DEF Delivered
    <3> QED  BY <3>2, <3>3, <1>5
  <2> QED  BY <2>1, <1>3, <1>5
<1>7. num' \in [Cars -> 0..NodeCount] /\ count' \in [Cars -> 0..NodeCount]
  <2>1. CASE Delivered(cmd)
    BY <2>1, <1>4, <1>5 DEF Delivered
  <2> QED  BY <2>1, <1>3, <1>5
<1>8. OutsideInv'
  BY <1>0, <1>3, <1>6, <1>7 DEF OutsideInv
<1>9. UNCHANGED <<est, nst, cars, taskQ, routeQ, plannerVars, routerVars, subVars, topoVars>>
  BY DEF PublishOne, OutsideRest, shm
<1> QED  BY <1>2, <1>8, <1>9, Frames DEF TypeInv

-----------------------------------------------------------------------------
(* The vehicles.                                                             *)
LEMMA Reported ==
  ASSUME OutsideInv, NEW c \in Cars, NEW type \in Troubles \cup {"ARRIVE", "POSITION"},
         NEW past \in BOOLEAN, Report(c, type, past)
  PROVE  inbox' \in Seq(Reports)
<1>1. Event(c, type, past) \in Reports
  BY DEF Event, Reports, Troubles
<1>2. inbox \in Seq(Reports)
  BY DEF OutsideInv
<1>3. inbox' = Append(inbox, Event(c, type, past)) \/ inbox' = inbox
  BY DEF Report
<1> QED  BY <1>1, <1>2, <1>3

(* An announced junction keeps the types of broker and vehicles.             *)
LEMMA AnnouncesType ==
  ASSUME OutsideInv, NEW c \in Cars, Announces(c)
  PROVE  OutsideInv'
<1>1. Report(c, "ARRIVE", FALSE)
  BY DEF Announces
<1>2. inbox' \in Seq(Reports)
  BY <1>1, Reported DEF Troubles
<1>3. drive' \in [Cars -> Places]
  BY DEF Announces, OutsideInv, Places
<1>4. count' \in [Cars -> 0..NodeCount]
  <2>1. NodeCount \in Nat /\ count \in [Cars -> 0..NodeCount]
    BY MapTypes DEF OutsideInv
  <2>2. count[c] \in 0..NodeCount
    BY <2>1
  <2> DEFINE last == num[c] # 0 /\ count[c] >= num[c]
             new == IF last THEN 0 ELSE IF count[c] < NodeCount THEN count[c] + 1 ELSE count[c]
  <2>3. count' = [count EXCEPT ![c] = new]
    BY DEF Announces
  <2> HIDE DEF last
  <2>4. new \in 0..NodeCount
    BY <2>1, <2>2
  <2> HIDE DEF new
  <2> QED  BY <2>1, <2>3, <2>4
<1>5. num' = num /\ tmp' = tmp
  BY DEF Announces
<1> QED  BY <1>2, <1>3, <1>4, <1>5 DEF OutsideInv

(* So does a vehicle that gives up or parks,                                 *)
LEMMA MovesType ==
  ASSUME OutsideInv, NEW c \in Cars, NEW d \in Places, CarMoves(c, d)
  PROVE  OutsideInv'
BY DEF CarMoves, OutsideInv

(* and one that meets an event.                                              *)
LEMMA SeesType ==
  ASSUME OutsideInv, NEW c \in Cars, NEW type \in Events, CarSees(c, type)
  PROVE  OutsideInv'
<1>0. type \in Troubles \cup {"POSITION", "AGAIN", "SILENT"}
  BY EventsAssumption DEF Troubles, Obstacles
<1>1. CASE type \in Obstacles
  <2>1. CarStops(c, type) /\ type \in Troubles
    BY <1>1 DEF CarSees, Troubles, Obstacles
  <2>2. PICK past \in BOOLEAN : Report(c, type, past)
    BY <2>1 DEF CarStops
  <2>3. inbox' \in Seq(Reports)
    BY <2>1, <2>2, Reported
  <2>4. drive' \in [Cars -> Places] /\ num' = num /\ count' = count
    BY <2>1 DEF CarStops, OutsideInv, Places
  <2>5. tmp' \in [Cars -> BOOLEAN]
    <3> DEFINE b == tmp[c] \/ type = "ANIMAL"
    <3>1. b \in BOOLEAN
      OBVIOUS
    <3>2. tmp' = [tmp EXCEPT ![c] = b]
      BY <2>1 DEF CarStops
    <3> HIDE DEF b
    <3> QED  BY <3>1, <3>2 DEF OutsideInv
  <2> QED  BY <2>3, <2>4, <2>5 DEF OutsideInv
<1>2. CASE type = "REPAIRED"
  <2>1. CarResumes(c)
    BY <1>2 DEF CarSees, Obstacles
  <2>2. inbox' \in Seq(Reports)
    BY <2>1, Reported DEF CarResumes, Troubles
  <2>3. drive[c] \in Places
    BY DEF OutsideInv
  <2>4. PICK d \in Resumed(drive[c]) : drive' = [drive EXCEPT ![c] = d]
    BY <2>1 DEF CarResumes
  <2>5. d \in Places
    BY <2>3, <2>4, PlacesObeyed
  <2>6. drive' \in [Cars -> Places]
    BY <2>4, <2>5 DEF OutsideInv
  <2>7. num' = num /\ count' = count /\ tmp' \in [Cars -> BOOLEAN]
    BY <2>1 DEF CarResumes, OutsideInv
  <2> QED  BY <2>2, <2>6, <2>7 DEF OutsideInv
<1>3. CASE type = "POSITION"
  <2>1. CarIsPlaced(c)
    BY <1>3 DEF CarSees, Obstacles
  <2>2. inbox' \in Seq(Reports)
    BY <2>1, Reported DEF CarIsPlaced
  <2> QED  BY <2>1, <2>2 DEF CarIsPlaced, OutsideInv
<1>4. CASE type = "AGAIN"
  BY <1>4, AnnouncesType DEF CarSees, CarRepeats, Obstacles
<1>5. CASE type = "SILENT"
  <2>1. CarHalts(c)
    BY <1>5 DEF CarSees, Obstacles
  <2>2. PICK waits \in BOOLEAN : tmp' = [tmp EXCEPT ![c] = tmp[c] \/ waits]
    BY <2>1 DEF CarHalts
  <2>3. tmp' \in [Cars -> BOOLEAN]
    <3> DEFINE b == tmp[c] \/ waits
    <3>1. b \in BOOLEAN
      OBVIOUS
    <3> HIDE DEF b
    <3> QED  BY <2>2, <3>1 DEF OutsideInv, b
  <2>4. drive' \in [Cars -> Places] /\ UNCHANGED <<inbox, num, count>>
    BY <2>1 DEF CarHalts, OutsideInv, Places
  <2> QED  BY <2>3, <2>4 DEF OutsideInv
<1> QED  BY <1>0, <1>1, <1>2, <1>3, <1>4, <1>5 DEF Troubles

(* A vehicle concerns nothing but itself and the inbox.                      *)
LEMMA VehicleFrame ==
  ASSUME Vehicles
  PROVE  UNCHANGED <<shm, queues, plannerVars, routerVars, subVars, topoVars, requests, crashes, asked>>
<1>1. \A c, type, past : Report(c, type, past) => UNCHANGED <<OutsideRest, pubQ>>
  BY DEF Report
<1>2. \A c, place : CarMoves(c, place) => UNCHANGED <<OutsideRest, pubQ>>
  BY DEF CarMoves
<1>3. \A c : Announces(c) => UNCHANGED <<OutsideRest, pubQ>>
  BY <1>1 DEF Announces
<1>4. \A c : \A type \in Events : CarSees(c, type) => UNCHANGED <<OutsideRest, pubQ>>
  <2> SUFFICES ASSUME NEW c, NEW type \in Events, CarSees(c, type) PROVE UNCHANGED <<OutsideRest, pubQ>>
    OBVIOUS
  <2>1. CarStops(c, type) \/ CarResumes(c) \/ CarIsPlaced(c) \/ CarRepeats(c) \/ CarHalts(c)
    BY EventsAssumption DEF CarSees, Obstacles
  <2> QED  BY <2>1, <1>1, <1>3 DEF CarStops, CarResumes, CarIsPlaced, CarRepeats, CarHalts
<1>5. UNCHANGED <<OutsideRest, pubQ>>
  BY <1>2, <1>3, <1>4 DEF Vehicles, CarArrive, CarGivesUp, CarParks
<1> QED  BY <1>5 DEF OutsideRest, queues

(* The steps of the vehicles keep the types.                                 *)
LEMMA VehicleStep ==
  ASSUME TypeInv, Vehicles
  PROVE  TypeInv'
<1>1. OutsideInv
  BY DEF TypeInv
<1>2. OutsideInv'
  BY <1>1, AnnouncesType, MovesType, SeesType DEF Vehicles, CarArrive, CarGivesUp, CarParks, Places
<1>3. UNCHANGED <<est, nst, cars, taskQ, routeQ, pubQ, plannerVars, routerVars, subVars, topoVars>>
  BY VehicleFrame DEF shm, queues
<1> QED  BY <1>2, <1>3, Frames DEF TypeInv

-----------------------------------------------------------------------------
(* Every step keeps the types.                                               *)
LEMMA TypeStep == TypeInv /\ [Next]_vars => TypeInv'
<1> SUFFICES ASSUME TypeInv, [Next]_vars PROVE TypeInv'
  OBVIOUS
<1>1. CASE Next
  BY <1>1, PlannerStep, RouterStep, SubStep, TopoStep, PublishStep, ClientStep, VehicleStep DEF Next
<1>2. CASE UNCHANGED vars
  BY <1>2, Frames DEF vars, shm, queues, TypeInv
<1> QED  BY <1>1, <1>2

(* The types, for every map, cars, requests and capacities.                  *)
THEOREM TypeCorrect == Spec => []TypeOK
<1>1. TypeInv => TypeOK
  <2> SUFFICES ASSUME TypeInv PROVE TypeOK
    OBVIOUS
  <2>1. est \in [Edges -> {"IDLE", "FAULT_TEMP"} \cup HardBlocked] /\ nst \in [Nodes -> {"IDLE", "FAULT"}]
    BY DEF TypeInv, MapInv, EdgeStatuses, NodeStatuses
  <2>2. SoundCar \subseteq CarRecord
    BY DEF SoundCar
  <2>3. cars \in [Cars -> CarRecord]
    BY <2>2 DEF TypeInv, CarsInv
  <2>4. /\ taskQ \in QueueOf(TaskMsg, TaskCap)
        /\ routeQ \in QueueOf(Cars, RouteCap)
        /\ pubQ \in QueueOf(PubMsg, PubCap)
    BY DEF TypeInv, TaskQInv, RouteQInv, PubQInv
  <2>5. /\ pPc \in {"idle", "map", "plan", "pause", "requeue", "commit", "count", "action"}
        /\ pPc # "idle" => pMsg \in TaskMsg
        /\ pPc \in {"commit", "count", "action"} => pCar \in CarRecord
    BY <2>2 DEF TypeInv, PlannerInv
  <2>6. /\ rPc \in {"idle", "read", "turn", "store", "arrived"}
        /\ rPc # "idle" => rId \in Cars
        /\ rPc \in {"turn", "store", "arrived"} => rCar \in CarRecord
    BY <2>2 DEF TypeInv, RouterInv
  <2>7. /\ sPc \in {"idle", "locate", "edge", "other", "after", "place", "store"}
        /\ sPc # "idle" => sEv \in Reports
        /\ sPc \in {"edge", "other"} => sEdge \in Edges
        /\ sPc = "store" => sCar \in CarRecord
    BY <2>2 DEF TypeInv, SubInv
  <2>8. tPc \in {"idle", "set", "other", "send"} /\ tTodo \subseteq Cars
    BY DEF TypeInv, TopoInv
  <2>9. OutsideInv
    BY DEF TypeInv
  <2> QED  BY <2>1, <2>3, <2>4, <2>5, <2>6, <2>7, <2>8, <2>9 DEF TypeOK, OutsideInv
<1> QED  BY <1>1, TypeInit, TypeStep, PTL DEF Spec

(* Whatever the interleaving, stored plans are whole (planner.h and router.h  *)
(* store whole records).                                                   *)
THEOREM PlansAreWhole == Spec => []PlanIsWhole
<1>1. TypeInv => PlanIsWhole
  BY DEF TypeInv, CarsInv, SoundCar, PlanIsWhole
<1> QED  BY <1>1, TypeInit, TypeStep, PTL DEF Spec

(* Whatever the interleaving, a car is on a road (alter_edges_status).       *)
THEOREM CarsOnRoads == Spec => []OnARoad
<1>1. TypeInv => OnARoad
  BY DEF TypeInv, CarsInv, SoundCar, OnARoad
<1> QED  BY <1>1, TypeInit, TypeStep, PTL DEF Spec
=============================================================================
