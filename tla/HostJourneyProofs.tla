-------------------------- MODULE HostJourneyProofs ---------------------------
(***************************************************************************)
(* What becomes of a plan once it is stored: it leads on while nothing        *)
(* disturbs it, and only the overlaps of HostOverlaps keep a car on a closed  *)
(* road or from a cancel.                                                    *)
(* Proved with TLAPS for every map, any cars, requests and capacities.       *)
(***************************************************************************)
EXTENDS HostOverlaps, HostDispatchProofs

-----------------------------------------------------------------------------
(* What a vehicle may report: arrivals, and the events that happen.           *)
Kinds == {"ARRIVE"} \cup (Events \ {"AGAIN", "SILENT"})

(* A step of the vehicles leaves the inbox alone or adds a report, of a        *)
(* vehicle that drives or waits, or of one that is placed; no other vehicle    *)
(* moves, and none that neither drives nor waits starts.                      *)
LEMMA VehicleReports ==
  ASSUME TypeInv, Vehicles
  PROVE  \E c \in Cars :
           /\ \/ inbox' = inbox
              \/ \E type \in Kinds, past \in BOOLEAN :
                   /\ OutsideMayAct /\ inbox' = Append(inbox, Event(c, type, past))
                   /\ type = "POSITION" \/ drive[c] # "idle" \/ tmp[c]
           /\ \A d \in Cars : d # c => drive'[d] = drive[d] /\ tmp'[d] = tmp[d]
           /\ drive'[c] # "idle" \/ tmp'[c] => drive[c] # "idle" \/ tmp[c]
<1>0. /\ drive \in [Cars -> Places] /\ tmp \in [Cars -> BOOLEAN]
      /\ \A d \in Cars : drive[d] \in Places
  BY DEF TypeInv, OutsideInv
<1>1. PICK c \in Cars : \/ CarArrive(c) \/ CarGivesUp(c) \/ CarParks(c)
                        \/ \E type \in Events : CarSees(c, type)
  BY DEF Vehicles
<1> SUFFICES
      /\ \/ inbox' = inbox
         \/ \E type \in Kinds, past \in BOOLEAN :
              /\ OutsideMayAct /\ inbox' = Append(inbox, Event(c, type, past))
              /\ type = "POSITION" \/ drive[c] # "idle" \/ tmp[c]
      /\ \A d \in Cars : d # c => drive'[d] = drive[d] /\ tmp'[d] = tmp[d]
      /\ drive'[c] # "idle" \/ tmp'[c] => drive[c] # "idle" \/ tmp[c]
  OBVIOUS
<1>2. ASSUME NEW type \in Kinds, NEW past \in BOOLEAN, Report(c, type, past),
             type = "POSITION" \/ drive[c] # "idle" \/ tmp[c]
      PROVE  \/ inbox' = inbox
             \/ \E t \in Kinds, p \in BOOLEAN :
                  /\ OutsideMayAct /\ inbox' = Append(inbox, Event(c, t, p))
                  /\ t = "POSITION" \/ drive[c] # "idle" \/ tmp[c]
  BY <1>2 DEF Report
<1>3. ASSUME Announces(c), drive[c] # "idle"
      PROVE  /\ \/ inbox' = inbox
                \/ \E type \in Kinds, past \in BOOLEAN :
                     /\ OutsideMayAct /\ inbox' = Append(inbox, Event(c, type, past))
                     /\ type = "POSITION" \/ drive[c] # "idle" \/ tmp[c]
             /\ \A d \in Cars : d # c => drive'[d] = drive[d] /\ tmp'[d] = tmp[d]
  <2>1. Report(c, "ARRIVE", FALSE) /\ "ARRIVE" \in Kinds
    BY <1>3 DEF Announces, Kinds
  <2>2. \A d \in Cars : d # c => drive'[d] = drive[d] /\ tmp'[d] = tmp[d]
    BY <1>3, <1>0 DEF Announces
  <2> QED  BY <2>1, <2>2, <1>2, <1>3
<1>4. CASE CarArrive(c)
  BY <1>3, <1>4 DEF CarArrive
<1>5. ASSUME NEW place, CarMoves(c, place), drive[c] # "idle"
      PROVE  inbox' = inbox /\ \A d \in Cars : d # c => drive'[d] = drive[d] /\ tmp'[d] = tmp[d]
  BY <1>5, <1>0 DEF CarMoves
<1>6. CASE CarGivesUp(c) \/ CarParks(c)
  BY <1>5, <1>6 DEF CarGivesUp, CarParks
<1>7. ASSUME NEW type \in Events, CarSees(c, type)
      PROVE  /\ \/ inbox' = inbox
                \/ \E t \in Kinds, past \in BOOLEAN :
                     /\ OutsideMayAct /\ inbox' = Append(inbox, Event(c, t, past))
                     /\ t = "POSITION" \/ drive[c] # "idle" \/ tmp[c]
             /\ \A d \in Cars : d # c => drive'[d] = drive[d] /\ tmp'[d] = tmp[d]
             /\ drive'[c] # "idle" \/ tmp'[c] => drive[c] # "idle" \/ tmp[c]
  <2>0. type \in Troubles \cup {"POSITION", "AGAIN", "SILENT"}
    BY EventsAssumption DEF Troubles, Obstacles
  <2>1. CASE type \in Obstacles
    <3>1. CarStops(c, type) /\ type \in Kinds /\ drive[c] # "idle"
      BY <1>7, <2>1 DEF CarSees, CarStops, Obstacles, Kinds
    <3>2. PICK past \in BOOLEAN : Report(c, type, past)
      BY <3>1 DEF CarStops
    <3>3. \A d \in Cars : d # c => drive'[d] = drive[d] /\ tmp'[d] = tmp[d]
      BY <3>1, <1>0 DEF CarStops
    <3> QED  BY <3>1, <3>2, <3>3, <1>2
  <2>2. CASE type = "REPAIRED"
    <3>1. CarResumes(c) /\ type \in Kinds
      BY <1>7, <2>2 DEF CarSees, Obstacles, Kinds
    <3>2. tmp[c] /\ Report(c, type, FALSE)
      BY <3>1, <2>2 DEF CarResumes
    <3>3. \A d \in Cars : d # c => drive'[d] = drive[d] /\ tmp'[d] = tmp[d]
      BY <3>1, <1>0 DEF CarResumes
    <3> QED  BY <3>1, <3>2, <3>3, <1>2
  <2>3. CASE type = "POSITION"
    <3>1. CarIsPlaced(c) /\ type \in Kinds
      BY <1>7, <2>3 DEF CarSees, Obstacles, Kinds
    <3>2. Report(c, type, FALSE) /\ drive' = drive /\ tmp' = tmp
      BY <3>1, <2>3 DEF CarIsPlaced
    <3> QED  BY <3>1, <3>2, <2>3, <1>2
  <2>4. CASE type = "AGAIN"
    BY <2>4, <1>3, <1>7 DEF CarSees, CarRepeats, Obstacles
  <2>5. CASE type = "SILENT"
    <3>1. CarHalts(c)
      BY <1>7, <2>5 DEF CarSees, Obstacles
    <3>2. drive[c] # "idle" /\ inbox' = inbox
      BY <3>1 DEF CarHalts
    <3>3. \A d \in Cars : d # c => drive'[d] = drive[d] /\ tmp'[d] = tmp[d]
      BY <3>1, <1>0 DEF CarHalts
    <3> QED  BY <3>2, <3>3
  <2> QED  BY <2>0, <2>1, <2>2, <2>3, <2>4, <2>5 DEF Troubles
<1> QED  BY <1>1, <1>4, <1>6, <1>7

-----------------------------------------------------------------------------
(* Who writes what.                                                          *)
LEMMA Writers ==
  ASSUME TypeInv, Next
  PROVE  /\ cars' = cars \/ PlannerCommit \/ RouterStore \/ SubAfter \/ SubStorePlace
         /\ UNCHANGED <<taskQ, sPc, sEv, inbox>> \/ Subscriber \/ Vehicles
            \/ PlannerReceive \/ PlannerRequeue \/ TopoSend \/ Client
         /\ UNCHANGED inbox \/ SubReceiveArrive \/ SubReceive \/ Vehicles
         /\ UNCHANGED <<sPc, sEv, sCar>> \/ Subscriber
         /\ UNCHANGED <<pPc, pMsg, pMap, pCar>> \/ Planner \/ PlannerCrash
         /\ UNCHANGED <<rPc, rId, rCar, rTurn>> \/ Router \/ RouterCrash
         /\ UNCHANGED asked \/ Client
         /\ UNCHANGED <<drive, tmp>> \/ PublishOne \/ Vehicles
         /\ \/ UNCHANGED pubQ \/ PublishOne
            \/ PlannerPause \/ PlannerSendCount \/ PlannerSendAction
            \/ RouterSendTurn \/ RouterSendArrived
<1>1. CASE Planner
  BY <1>1 DEF Planner, PlannerRest, PlannerReceive, PlannerReadMap, PlannerPlan, PlannerGiveUp,
              PlannerPause, PlannerRequeue, PlannerCommit, PlannerSendCount, PlannerSendAction,
              routerVars, subVars, outside
<1>2. CASE PlannerCrash
  BY <1>2 DEF PlannerCrash, shm, queues, routerVars, subVars, outside
<1>3. CASE Router
  BY <1>3 DEF Router, RouterRest, RouterReceive, RouterRead, RouterSendTurn, RouterStore,
              RouterSendArrived, plannerVars, subVars, outside
<1>4. CASE RouterCrash
  BY <1>4 DEF RouterCrash, shm, queues, plannerVars, subVars, outside
<1>5. CASE Subscriber
  BY <1>5 DEF Subscriber, SubRest, SubReceiveArrive, SubReceive, SubLocate, SubSetEdge, SubSetOther,
              SubAfter, SubReadPlace, SubStorePlace, plannerVars, routerVars
<1>6. CASE Topo
  BY <1>6 DEF Topo, TopoRest, TopoSetEdge, TopoSetOther, TopoSetNode, TopoReadCars, TopoSend,
              TopoReply, plannerVars, routerVars, subVars, outside
<1>7. CASE PublishOne
  BY <1>7 DEF PublishOne, OutsideRest, shm, plannerVars, routerVars, subVars
<1>8. CASE Client
  BY <1>8 DEF Client, TaskAssign, TaskCancel, TopoAccept, TaskRest, TopoRest, shm, plannerVars,
              routerVars, subVars, outside
<1>9. CASE Vehicles
  BY <1>9, VehicleFrame DEF shm, queues, plannerVars, routerVars, subVars
<1> QED  BY <1>1, <1>2, <1>3, <1>4, <1>5, <1>6, <1>7, <1>8, <1>9 DEF Next

-----------------------------------------------------------------------------
(* A car that is on its way has arrived or can go on.                        *)
OnWay(car) == car.cur = car.tgt \/ LegsFrom(car) # {}

(* A new plan starts where the car is believed to be.                        *)
LEMMA PlannedOnWay ==
  ASSUME NEW car \in SoundCar, pMsg \in TaskMsg, CanStart(car), NEW p \in PlannerPaths(car)
  PROVE  OnWay(Planned(car, p)) /\ Planned(car, p).tgt # 0
<1> DEFINE new == Planned(car, p)
<1>1. /\ new \in SoundCar /\ new.path = p /\ Len(p) \in 1..NodeCount
      /\ new.cur = From(p[1]) /\ new.tgt = To(p[Len(p)])
  BY PlannedSound
<1> HIDE DEF new
<1>2. p \in Seq(Edges) /\ 1 \in 1..Len(p) /\ Len(p) \in 1..Len(p)
  BY <1>1, MapTypes, SoundFields
<1>3. 1 \in LegsFrom(new)
  BY <1>1, <1>2 DEF LegsFrom
<1>4. new.tgt \in Nodes
  BY <1>1, <1>2, MapTypes
<1> QED  BY <1>3, <1>4, MapTypes DEF OnWay, Nodes, new

(* From one leg of a whole plan the next goes on, and the last ends in the    *)
(* target.                                                                 *)
LEMMA AdvancedOnWay ==
  ASSUME NEW car \in SoundCar, LegsFrom(car) # {}
  PROVE  OnWay(Advanced(car)) /\ Advanced(car).tgt # 0
<1> DEFINE new == Advanced(car)
           n == Len(car.path)
<1>1. /\ new \in SoundCar /\ \E i \in 1..n : new.cur = To(car.path[i])
      /\ new.tgt = car.tgt /\ new.path = car.path
  BY AdvancedSound
<1>2. car.path \in Seq(Edges) /\ WholePlan(car) /\ n \in Nat
  BY SoundFields
<1> HIDE DEF new
<1>3. PICK i \in 1..n : new.cur = To(car.path[i])
  BY <1>1
<1>4. car.path # <<>> /\ n \in 1..n
  BY <1>2, <1>3
<1>5. car.tgt = To(car.path[n])
  BY <1>2, <1>4 DEF WholePlan
<1>6. OnWay(new)
  <2>1. CASE i = n
    BY <2>1, <1>1, <1>3, <1>5 DEF OnWay
  <2>2. CASE i # n
    <3>1. i + 1 \in 1..n /\ i \in 1..(n - 1)
      BY <2>2, <1>2
    <3>2. To(car.path[i]) = From(car.path[i + 1])
      BY <3>1, <1>2 DEF WholePlan, IsChain
    <3>3. i + 1 \in LegsFrom(new)
      BY <3>1, <3>2, <1>1, <1>3 DEF LegsFrom
    <3> QED  BY <3>3 DEF OnWay
  <2> QED  BY <2>1, <2>2
<1>7. car.tgt \in Nodes
  BY <1>2, <1>4, <1>5, MapTypes
<1> QED  BY <1>1, <1>6, <1>7, MapTypes DEF Nodes, new

(* A car in its target has arrived.                                          *)
LEMMA EndedOnWay ==
  ASSUME NEW car \in SoundCar, car.cur = car.tgt
  PROVE  OnWay(Ended(car)) /\ Ended(car).tgt # 0
<1>1. car.cur \in Nodes
  BY SoundFields
<1> QED  BY <1>1, EndedSound, MapTypes DEF OnWay, Nodes

(* Its status does not matter.                                               *)
LEMMA StatusOnWay ==
  ASSUME NEW car \in SoundCar, NEW s \in Statuses
  PROVE  LET new == [car EXCEPT !.status = s]
         IN new.status = s /\ new.tgt = car.tgt /\ (OnWay(car) => OnWay(new))
<1> DEFINE new == [car EXCEPT !.status = s]
<1>1. car \in CarRecord
  BY SoundFields
<1>2. new.status = s /\ new.tgt = car.tgt /\ new.cur = car.cur /\ new.path = car.path
  BY <1>1 DEF CarRecord
<1> HIDE DEF new
<1>3. OnWay(car) => OnWay(new)
  BY <1>2 DEF OnWay, LegsFrom
<1> QED  BY <1>2, <1>3 DEF new

-----------------------------------------------------------------------------
(* What is about to be stored is on its way, or does not move.               *)
Held ==
  /\ pPc \in {"commit", "count", "action"} => OnWay(pCar) /\ pCar.tgt # 0
  /\ rPc \in {"turn", "store", "arrived"} => OnWay(rCar) /\ rCar.tgt # 0
  /\ sPc = "store" => sCar.status # "MOVING"

(* Every step keeps what the held records are.                               *)
LEMMA HeldStep ==
  ASSUME TypeInv, Held, Next
  PROVE  Held'
<1>1. (pPc \in {"commit", "count", "action"} => OnWay(pCar) /\ pCar.tgt # 0)'
  <2>1. CASE UNCHANGED <<pPc, pMsg, pCar>>
    BY <2>1 DEF Held, OnWay, LegsFrom
  <2>2. CASE PlannerPlan
    <3>1. pMsg \in TaskMsg /\ cars[pMsg.car] \in SoundCar
      BY <2>2 DEF PlannerPlan, TypeInv, PlannerInv, CarsInv, TaskMsg
    <3>2. CanStart(cars[pMsg.car])
          /\ \E p \in PlannerPaths(cars[pMsg.car]) : pCar' = Planned(cars[pMsg.car], p)
      BY <2>2 DEF PlannerPlan
    <3>3. OnWay(pCar') /\ pCar'.tgt # 0
      BY <3>1, <3>2, PlannedOnWay
    <3> QED  BY <3>3 DEF OnWay, LegsFrom
  <2>3. CASE PlannerCommit \/ PlannerSendCount
    BY <2>3 DEF PlannerCommit, PlannerSendCount, Held, OnWay, LegsFrom
  <2>4. CASE (Planner \/ PlannerCrash) /\ ~PlannerPlan /\ ~PlannerCommit /\ ~PlannerSendCount
    <3>1. pPc' \notin {"commit", "count", "action"}
      BY <2>4 DEF Planner, PlannerReceive, PlannerReadMap, PlannerGiveUp, PlannerPause,
                  PlannerRequeue, PlannerSendAction, PlannerCrash, PlannerDone
    <3> QED  BY <3>1
  <2> QED  BY <2>1, <2>2, <2>3, <2>4, Writers
<1>2. (rPc \in {"turn", "store", "arrived"} => OnWay(rCar) /\ rCar.tgt # 0)'
  <2>1. CASE UNCHANGED <<rPc, rId, rCar>>
    BY <2>1 DEF Held, OnWay, LegsFrom
  <2>2. CASE RouterRead
    <3>1. cars[rId] \in SoundCar
      BY <2>2 DEF RouterRead, TypeInv, RouterInv, CarsInv
    <3>2. RouterDone \/ (OnWay(rCar') /\ rCar'.tgt # 0)
      BY <3>1, <2>2, RouterReads, EndedOnWay, AdvancedOnWay
    <3> QED  BY <3>2 DEF RouterDone, OnWay, LegsFrom
  <2>3. CASE RouterSendTurn
    BY <2>3 DEF RouterSendTurn, Held, OnWay, LegsFrom
  <2>4. CASE RouterStore
    BY <2>4 DEF RouterStore, RouterDone, Held, OnWay, LegsFrom
  <2>5. CASE RouterReceive \/ RouterSendArrived \/ RouterCrash
    BY <2>5 DEF RouterReceive, RouterSendArrived, RouterCrash, RouterDone
  <2> QED  BY <2>1, <2>2, <2>3, <2>4, <2>5, Writers DEF Router
<1>3. (sPc = "store" => sCar.status # "MOVING")'
  <2>1. CASE UNCHANGED <<sPc, sEv, sCar>>
    BY <2>1 DEF Held
  <2>2. CASE SubReadPlace
    <3>1. cars[sEv.car] \in CarRecord
      BY <2>2, SoundFields DEF SubReadPlace, TypeInv, SubInv, CarsInv, Reports
    <3> DEFINE b == Home[sEv.car][2]
               a == Home[sEv.car][1]
    <3>2. sCar' = [cars[sEv.car] EXCEPT !.cur = b, !.last = a, !.path = <<>>, !.status = "IDLE"]
      BY <2>2 DEF SubReadPlace
    <3> HIDE DEF a, b
    <3>3. sCar'.status = "IDLE"
      BY <3>1, <3>2 DEF CarRecord
    <3> QED  BY <3>3
  <2>3. CASE Subscriber /\ ~SubReadPlace
    <3>1. sPc' # "store" \/ (sPc' = sPc /\ sCar' = sCar)
      BY <2>3 DEF Subscriber, SubReceiveArrive, SubReceive, SubLocate, SubSetEdge, SubSetOther,
                  SubAfter, SubStorePlace, SubDone, subVars
    <3> QED  BY <3>1 DEF Held
  <2> QED  BY <2>1, <2>2, <2>3, Writers
<1> QED  BY <1>1, <1>2, <1>3 DEF Held

(* What SubAfter does to the records.                                        *)
LEMMA SubAfterCars ==
  ASSUME TypeInv, SubAfter
  PROVE  /\ sEv.car \in Cars /\ sPc = "after"
         /\ \/ cars' = cars
            \/ cars' = [cars EXCEPT ![sEv.car].status = "WAIT"]
            \/ sEv.type = "REPAIRED" /\ cars' = [cars EXCEPT ![sEv.car].status = "MOVING"]
<1>1. sEv.type \in Troubles /\ sEv.car \in Cars /\ sPc = "after"
  BY DEF SubAfter, TypeInv, SubInv, Reports
<1> QED  BY <1>1 DEF SubAfter, Lasting, Troubles, Obstacles

(* A moving car stays on its way, as long as the end of an obstacle starts    *)
(* only cars that are.                                                     *)
Leading == \A c \in Cars : cars[c].status = "MOVING" => OnWay(cars[c])

(* Every step keeps a moving car on its way.                                 *)
LEMMA LeadingStep ==
  ASSUME TypeInv, Held, Leading, Next,
         sPc = "after" /\ sEv.type = "REPAIRED" => OnWay(cars[sEv.car])
  PROVE  Leading'
<1>0. cars \in [Cars -> SoundCar] /\ \A c \in Cars : cars[c] \in SoundCar
  BY DEF TypeInv, CarsInv
<1> SUFFICES ASSUME NEW c \in Cars, cars'[c].status = "MOVING"
             PROVE  OnWay(cars'[c])
  BY DEF Leading, OnWay, LegsFrom
<1>1. CASE cars' = cars
  BY <1>1 DEF Leading
<1>2. CASE PlannerCommit
  <2>1. cars' = [cars EXCEPT ![pMsg.car] = pCar] /\ OnWay(pCar)
    BY <1>2 DEF PlannerCommit, Held
  <2> QED  BY <2>1, <1>0 DEF Leading
<1>3. CASE RouterStore
  <2>1. cars' = [cars EXCEPT ![rId] = rCar] /\ OnWay(rCar)
    BY <1>3 DEF RouterStore, Held
  <2> QED  BY <2>1, <1>0 DEF Leading
<1>4. CASE SubAfter
  <2>1. sEv.car \in Cars /\ sPc = "after"
    BY <1>4, SubAfterCars
  <2>2. CASE c = sEv.car
    <3>1. CASE cars' = cars
      BY <3>1 DEF Leading
    <3>2. CASE cars' = [cars EXCEPT ![sEv.car].status = "WAIT"]
      <4>1. cars'[c] = [cars[c] EXCEPT !.status = "WAIT"]
        BY <3>2, <2>2, <1>0
      <4>2. cars'[c].status = "WAIT"
        BY <4>1, <1>0, StatusOnWay DEF Statuses
      <4> QED  BY <4>2
    <3>3. CASE sEv.type = "REPAIRED" /\ cars' = [cars EXCEPT ![sEv.car].status = "MOVING"]
      <4>1. cars'[c] = [cars[c] EXCEPT !.status = "MOVING"]
        BY <3>3, <2>2, <1>0
      <4> QED  BY <4>1, <2>1, <2>2, <3>3, <1>0, StatusOnWay DEF Statuses
    <3> QED  BY <3>1, <3>2, <3>3, <1>4, SubAfterCars
  <2>3. CASE c # sEv.car
    <3>1. cars'[c] = cars[c]
      BY <2>3, <2>1, <1>4, <1>0, SubAfterCars
    <3> QED  BY <3>1 DEF Leading
  <2> QED  BY <2>2, <2>3
<1>5. CASE SubStorePlace
  <2>1. cars' = [cars EXCEPT ![sEv.car] = sCar] /\ sCar.status # "MOVING"
    BY <1>5 DEF SubStorePlace, Held
  <2> QED  BY <2>1, <1>0 DEF Leading
<1> QED  BY <1>1, <1>2, <1>3, <1>4, <1>5, Writers
-----------------------------------------------------------------------------
(* The subscriber meets only the events that happen, and places cars only     *)
(* when told to.                                                           *)
OnlyEvents ==
  /\ \A i \in 1..Len(inbox) : inbox[i].type \in Kinds
  /\ sPc # "idle" => sEv.type \in Kinds
  /\ sPc \in {"place", "store"} => sEv.type = "POSITION"

(* What is in the inbox after a step was there before, or is a new report.    *)
LEMMA InboxSteps ==
  ASSUME TypeInv, Next
  PROVE  /\ Len(inbox) \in Nat /\ inbox \in Seq(Reports)
         /\ inbox # <<>> => 1 \in 1..Len(inbox) /\ Head(inbox) = inbox[1]
         /\ \A i \in 1..Len(inbox') :
              \/ \E j \in 1..Len(inbox) : inbox'[i] = inbox[j]
              \/ /\ Vehicles
                 /\ \E c \in Cars, type \in Kinds, past \in BOOLEAN :
                      /\ inbox'[i] = Event(c, type, past)
                      /\ type = "POSITION" \/ drive[c] # "idle" \/ tmp[c]
<1>1. inbox \in Seq(Reports) /\ Len(inbox) \in Nat
  BY DEF TypeInv, OutsideInv
<1>2. inbox # <<>> => 1 \in 1..Len(inbox) /\ Head(inbox) = inbox[1]
  BY <1>1
<1> SUFFICES ASSUME NEW i \in 1..Len(inbox')
             PROVE  \/ \E j \in 1..Len(inbox) : inbox'[i] = inbox[j]
                    \/ /\ Vehicles
                       /\ \E c \in Cars, type \in Kinds, past \in BOOLEAN :
                            /\ inbox'[i] = Event(c, type, past)
                            /\ type = "POSITION" \/ drive[c] # "idle" \/ tmp[c]
  BY <1>1, <1>2
<1>3. CASE inbox' = inbox
  BY <1>3
<1>4. CASE inbox # <<>> /\ inbox' = Tail(inbox)
  <2>1. i \in 1..Len(Tail(inbox)) /\ inbox'[i] = inbox[i + 1] /\ Len(Tail(inbox)) = Len(inbox) - 1
    BY <1>1, <1>4, HeadTailProperties
  <2>2. i + 1 \in 1..Len(inbox)
    BY <1>1, <2>1
  <2> QED  BY <2>1, <2>2
<1>5. CASE Vehicles
  <2>1. PICK c \in Cars :
          \/ inbox' = inbox
          \/ \E type \in Kinds, past \in BOOLEAN :
               /\ inbox' = Append(inbox, Event(c, type, past))
               /\ type = "POSITION" \/ drive[c] # "idle" \/ tmp[c]
    BY <1>5, VehicleReports
  <2>2. CASE \E type \in Kinds, past \in BOOLEAN :
               /\ inbox' = Append(inbox, Event(c, type, past))
               /\ type = "POSITION" \/ drive[c] # "idle" \/ tmp[c]
    <3>1. PICK type \in Kinds, past \in BOOLEAN :
               /\ inbox' = Append(inbox, Event(c, type, past))
               /\ type = "POSITION" \/ drive[c] # "idle" \/ tmp[c]
      BY <2>2
    <3> DEFINE ev == Event(c, type, past)
    <3>2. ev \in Reports
      BY EventsAssumption DEF Kinds, Event, Reports, Obstacles
    <3>3. inbox' = Append(inbox, ev)
      BY <3>1
    <3> HIDE DEF ev
    <3>4. (i \in 1..Len(inbox) /\ inbox'[i] = inbox[i]) \/ inbox'[i] = ev
      BY <1>1, <3>2, <3>3, AppendProperties
    <3> QED  BY <3>1, <3>4, <1>5 DEF ev
  <2> QED  BY <2>1, <2>2, <1>3
<1> QED  BY <1>3, <1>4, <1>5, Writers DEF SubReceiveArrive, SubReceive

(* Every step keeps to the events there are.                                 *)
LEMMA OnlyEventsStep ==
  ASSUME TypeInv, OnlyEvents, Next
  PROVE  OnlyEvents'
<1>1. \A i \in 1..Len(inbox') : inbox'[i].type \in Kinds
  <2> SUFFICES ASSUME NEW i \in 1..Len(inbox') PROVE inbox'[i].type \in Kinds
    OBVIOUS
  <2>1. CASE \E j \in 1..Len(inbox) : inbox'[i] = inbox[j]
    BY <2>1 DEF OnlyEvents
  <2>2. CASE \E c \in Cars, type \in Kinds, past \in BOOLEAN : inbox'[i] = Event(c, type, past)
    BY <2>2 DEF Event
  <2> QED  BY <2>1, <2>2, InboxSteps
<1>2. /\ sPc' # "idle" => sEv'.type \in Kinds
      /\ sPc' \in {"place", "store"} => sEv'.type = "POSITION"
  <2>1. CASE UNCHANGED <<sPc, sEv, sCar>>
    BY <2>1 DEF OnlyEvents
  <2>2. CASE SubReceive
    <3>1. inbox # <<>> /\ sEv' = Head(inbox)
          /\ sPc' = IF Head(inbox).type = "POSITION" THEN "place" ELSE "locate"
      BY <2>2 DEF SubReceive
    <3>2. Head(inbox).type \in Kinds
      BY <3>1, InboxSteps DEF OnlyEvents
    <3> QED  BY <3>1, <3>2
  <2>3. CASE Subscriber /\ ~SubReceive
    <3>1. sPc' = "idle" \/ (sPc # "idle" /\ sEv' = sEv /\ (sPc' \in {"place", "store"} => sPc = "place"))
      BY <2>3 DEF Subscriber, SubReceiveArrive, SubLocate, SubSetEdge, SubSetOther,
                  SubAfter, SubReadPlace, SubStorePlace, SubDone, subVars
    <3> QED  BY <3>1 DEF OnlyEvents
  <2> QED  BY <2>1, <2>2, <2>3, Writers
<1> QED  BY <1>1, <1>2 DEF OnlyEvents

-----------------------------------------------------------------------------
(* A car with a target has been sent on its way.  Only such cars drive, wait, *)
(* or are started.                                                         *)
Begun(c) == cars[c].tgt # 0
Starts(cmd) == cmd.kind = "ACTION" /\ cmd.arg # "PAUSE"

Sending ==
  /\ \A c \in Cars : Begun(c) => OnWay(cars[c])
  /\ \A c \in Cars : drive[c] # "idle" \/ tmp[c] => Begun(c)
  /\ \A i \in 1..Len(inbox) : inbox[i].type = "REPAIRED" => Begun(inbox[i].car)
  /\ sPc # "idle" /\ sEv.type = "REPAIRED" => Begun(sEv.car)
  /\ \A i \in 1..Len(pubQ) : Starts(pubQ[i].msg) => Begun(pubQ[i].msg.car)
  /\ pPc \in {"count", "action"} => Begun(pMsg.car)

(* It stays so, and stays on its way, if it is never placed by hand.          *)
LEMMA BegunStays ==
  ASSUME TypeInv, Held, OnlyEvents, "POSITION" \notin Events, Next, NEW c \in Cars
  PROVE  /\ Begun(c) => Begun(c)'
         /\ (Begun(c) => OnWay(cars[c])) => (Begun(c) => OnWay(cars[c]))'
<1>0. cars \in [Cars -> SoundCar] /\ cars[c] \in SoundCar
  BY DEF TypeInv, CarsInv
<1>1. CASE cars'[c] = cars[c]
  BY <1>1 DEF Begun, OnWay, LegsFrom
<1>2. CASE OnWay(cars'[c]) /\ cars'[c].tgt # 0
  BY <1>2 DEF Begun, OnWay, LegsFrom
<1>3. CASE PlannerCommit
  <2>1. cars' = [cars EXCEPT ![pMsg.car] = pCar] /\ OnWay(pCar) /\ pCar.tgt # 0
    BY <1>3 DEF PlannerCommit, Held
  <2> QED  BY <2>1, <1>0, <1>1, <1>2
<1>4. CASE RouterStore
  <2>1. cars' = [cars EXCEPT ![rId] = rCar] /\ OnWay(rCar) /\ rCar.tgt # 0
    BY <1>4 DEF RouterStore, Held
  <2> QED  BY <2>1, <1>0, <1>1, <1>2
<1>5. CASE SubAfter
  <2>1. ASSUME NEW s \in Statuses, cars' = [cars EXCEPT ![sEv.car].status = s]
        PROVE  /\ Begun(c) => Begun(c)'
               /\ (Begun(c) => OnWay(cars[c])) => (Begun(c) => OnWay(cars[c]))'
    <3>1. CASE c # sEv.car
      BY <3>1, <2>1, <1>0, <1>1
    <3>2. CASE c = sEv.car
      <4>1. cars'[c] = [cars[c] EXCEPT !.status = s]
        BY <3>2, <2>1, <1>0
      <4>2. cars'[c].tgt = cars[c].tgt /\ (OnWay(cars[c]) => OnWay(cars'[c]))
        BY <4>1, <1>0, StatusOnWay
      <4> QED  BY <4>2 DEF Begun, OnWay, LegsFrom
    <3> QED  BY <3>1, <3>2
  <2> QED  BY <2>1, <1>1, <1>5, SubAfterCars DEF Statuses
<1>6. CASE SubStorePlace
  <2>1. sPc = "store"
    BY <1>6 DEF SubStorePlace
  <2> QED  BY <2>1, EventsAssumption DEF OnlyEvents, Kinds
<1> QED  BY <1>1, <1>3, <1>4, <1>5, <1>6, Writers

(* A vehicle that stands is set off only by a command that starts it.         *)
LEMMA StandingObeys ==
  ASSUME NEW cmd \in PubMsg, ~Starts(cmd)
  PROVE  Obeyed("idle", cmd) \subseteq {"idle"}
<1>1. cmd.kind \in {"CNT", "ACTION", "ORIENT"}
  BY DEF PubMsg
<1>2. Directed("idle", cmd.arg) = {"idle"} /\ Paused("idle") = {"idle"}
  BY DEF Directed, Paused
<1> QED  BY <1>1, <1>2 DEF Obeyed, Starts

(* A step leaves the messages to the vehicles alone, takes one, or sends one;  *)
(* only the planner starts a car, the one whose plan it has just stored.     *)
LEMMA PubQMoves ==
  ASSUME TypeInv, Next
  PROVE  /\ pubQ \in QueueOf(PubMsg, PubCap) /\ PubCap \in Nat
         /\ \/ pubQ' = pubQ
            \/ PublishOne /\ pubQ # <<>> /\ pubQ' = Tail(pubQ)
            \/ \E m \in PubMsg, prio \in {Normal, High} :
                 /\ pubQ' = Send(pubQ, PubCap, m, prio)
                 /\ Starts(m) => /\ PlannerSendAction /\ pPc = "action" /\ prio = High
                                 /\ m.car = pMsg.car /\ pMsg.imm # "normal"
<1>0. /\ pubQ \in QueueOf(PubMsg, PubCap) /\ PubCap \in Nat
      /\ High \in {Normal, High} /\ Normal \in {Normal, High}
  BY CapacitiesAssumption DEF TypeInv, PubQInv
<1>1. ASSUME NEW m \in PubMsg, NEW prio \in {Normal, High}, pubQ' = Send(pubQ, PubCap, m, prio),
             ~Starts(m)
      PROVE  \E n \in PubMsg, p \in {Normal, High} :
               /\ pubQ' = Send(pubQ, PubCap, n, p)
               /\ Starts(n) => /\ PlannerSendAction /\ pPc = "action" /\ p = High
                               /\ n.car = pMsg.car /\ pMsg.imm # "normal"
  BY <1>1
<1>2. CASE PlannerPause
  <2>1. pMsg.car \in Cars
    BY <1>2 DEF PlannerPause, TypeInv, PlannerInv, TaskMsg
  <2>2. Command(pMsg.car, "ACTION", "PAUSE") \in PubMsg
    BY <2>1, Commands
  <2>3. ~Starts(Command(pMsg.car, "ACTION", "PAUSE"))
    BY DEF Starts, Command
  <2> QED  BY <2>2, <2>3, <1>0, <1>1, <1>2 DEF PlannerPause
<1>3. CASE PlannerSendCount
  <2>1. pMsg.car \in Cars /\ Len(pCar.path) \in 0..NodeCount
    BY <1>3 DEF PlannerSendCount, TypeInv, PlannerInv, TaskMsg
  <2>2. CountCommand(pMsg.car, Len(pCar.path)) \in PubMsg
    BY <2>1, Commands
  <2>3. ~Starts(CountCommand(pMsg.car, Len(pCar.path)))
    BY DEF Starts, CountCommand
  <2> QED  BY <2>2, <2>3, <1>0, <1>1, <1>3 DEF PlannerSendCount
<1>4. CASE PlannerSendAction
  <2> DEFINE m == Command(pMsg.car, "ACTION", ActionFor(pMsg.imm))
  <2>1. pMsg.car \in Cars /\ pPc = "action"
    BY <1>4 DEF PlannerSendAction, TypeInv, PlannerInv, TaskMsg
  <2>2. m \in PubMsg
    BY <2>1, Commands DEF ActionFor
  <2>3. m.car = pMsg.car
    BY DEF Command
  <2>4. pubQ' = pubQ \/ (pMsg.imm # "normal" /\ pubQ' = Send(pubQ, PubCap, m, High))
    BY <1>4 DEF PlannerSendAction
  <2> HIDE DEF m
  <2> QED  BY <2>1, <2>2, <2>3, <2>4, <1>0, <1>4
<1>5. CASE RouterSendTurn
  <2>1. rId \in Cars /\ rTurn \in Turns
    BY <1>5 DEF RouterSendTurn, TypeInv, RouterInv
  <2>2. Command(rId, "ORIENT", rTurn) \in PubMsg
    BY <2>1, Commands
  <2>3. ~Starts(Command(rId, "ORIENT", rTurn))
    BY DEF Starts, Command
  <2> QED  BY <2>2, <2>3, <1>0, <1>1, <1>5 DEF RouterSendTurn
<1>6. CASE RouterSendArrived
  <2>1. rId \in Cars
    BY <1>6 DEF RouterSendArrived, TypeInv, RouterInv
  <2>2. Command(rId, "ORIENT", "ARRIVED") \in PubMsg
    BY <2>1, Commands
  <2>3. ~Starts(Command(rId, "ORIENT", "ARRIVED"))
    BY DEF Starts, Command
  <2> QED  BY <2>2, <2>3, <1>0, <1>1, <1>6 DEF RouterSendArrived
<1>7. CASE PublishOne
  BY <1>0, <1>7 DEF PublishOne
<1> QED  BY <1>0, <1>2, <1>3, <1>4, <1>5, <1>6, <1>7, Writers

(* So what is in the queue after a step was there before, starts nothing, or   *)
(* starts the car whose plan has just been stored.                           *)
LEMMA PubQSteps ==
  ASSUME TypeInv, Next, NEW i \in 1..Len(pubQ')
  PROVE  \/ \E j \in 1..Len(pubQ) : pubQ'[i] = pubQ[j]
         \/ ~Starts(pubQ'[i].msg)
         \/ pPc = "action" /\ pMsg.imm # "normal" /\ pubQ'[i].msg.car = pMsg.car
<1>0. pubQ \in QueueOf(PubMsg, PubCap) /\ PubCap \in Nat
  BY PubQMoves
<1>1. CASE pubQ' = pubQ
  BY <1>1
<1>2. CASE pubQ # <<>> /\ pubQ' = Tail(pubQ)
  <2>1. i + 1 \in 1..Len(pubQ) /\ pubQ'[i] = pubQ[i + 1]
    BY <1>0, <1>2, Received
  <2> QED  BY <2>1
<1>3. CASE \E m \in PubMsg, prio \in {Normal, High} :
              /\ pubQ' = Send(pubQ, PubCap, m, prio)
              /\ Starts(m) => pPc = "action" /\ m.car = pMsg.car /\ pMsg.imm # "normal"
  <2>1. PICK m \in PubMsg, prio \in {Normal, High} :
              /\ pubQ' = Send(pubQ, PubCap, m, prio)
              /\ Starts(m) => pPc = "action" /\ m.car = pMsg.car /\ pMsg.imm # "normal"
    BY <1>3
  <2>2. pubQ'[i].msg = m \/ \E j \in 1..Len(pubQ) : pubQ'[i] = pubQ[j]
    BY <1>0, <2>1, Sent
  <2> QED  BY <2>1, <2>2
<1> QED  BY <1>1, <1>2, <1>3, PubQMoves

(* Every step keeps the cars that have begun, and what is sent to them.      *)
LEMMA SendingStep ==
  ASSUME TypeInv, Held, OnlyEvents, Sending, "POSITION" \notin Events, Next
  PROVE  Sending'
<1>0. \A c \in Cars : /\ Begun(c) => Begun(c)'
                      /\ (Begun(c) => OnWay(cars[c]))'
  BY BegunStays DEF Sending
<1>1. \A c \in Cars : (Begun(c) => OnWay(cars[c]))'
  BY <1>0
<1>2. \A c \in Cars : (drive[c] # "idle" \/ tmp[c] => Begun(c))'
  <2> SUFFICES ASSUME NEW c \in Cars, drive'[c] # "idle" \/ tmp'[c]
               PROVE  Begun(c)'
    OBVIOUS
  <2> SUFFICES Begun(c)
    BY <1>0
  <2>1. CASE UNCHANGED <<drive, tmp>>
    BY <2>1 DEF Sending
  <2>2. CASE PublishOne
    <3> DEFINE cmd == First(pubQ)
    <3>1. /\ cmd \in PubMsg /\ 1 \in 1..Len(pubQ) /\ cmd = pubQ[1].msg
          /\ drive \in [Cars -> Places] /\ tmp' = tmp
      BY <2>2, Received, CapacitiesAssumption DEF PublishOne, TypeInv, PubQInv, OutsideInv
    <3>2. drive' = drive \/ \E d \in Obeyed(drive[cmd.car], cmd) : drive' = [drive EXCEPT ![cmd.car] = d]
      BY <2>2 DEF PublishOne, Delivered
    <3> HIDE DEF cmd
    <3>3. CASE drive[c] # "idle" \/ tmp[c]
      BY <3>3 DEF Sending
    <3>4. CASE drive[c] = "idle" /\ ~tmp[c]
      <4>1. cmd.car = c /\ \E d \in Obeyed("idle", cmd) : d # "idle"
        BY <3>1, <3>2, <3>4
      <4>2. Starts(cmd)
        BY <4>1, <3>1, StandingObeys
      <4> QED  BY <4>1, <4>2, <3>1 DEF Sending
    <3> QED  BY <3>3, <3>4
  <2>3. CASE Vehicles
    <3>1. drive[c] # "idle" \/ tmp[c]
      BY <2>3, VehicleReports
    <3> QED  BY <3>1 DEF Sending
  <2> QED  BY <2>1, <2>2, <2>3, Writers
<1>3. \A i \in 1..Len(inbox') : inbox'[i].type = "REPAIRED" => (cars'[inbox'[i].car].tgt # 0)
  <2> SUFFICES ASSUME NEW i \in 1..Len(inbox'), inbox'[i].type = "REPAIRED"
               PROVE  cars'[inbox'[i].car].tgt # 0
    OBVIOUS
  <2>1. CASE \E j \in 1..Len(inbox) : inbox'[i] = inbox[j]
    <3>1. PICK j \in 1..Len(inbox) : inbox'[i] = inbox[j]
      BY <2>1
    <3>2. inbox[j] \in Reports
      BY <3>1, InboxSteps
    <3>3. inbox[j].car \in Cars /\ Begun(inbox[j].car)
      BY <3>1, <3>2 DEF Sending, Reports
    <3> QED  BY <3>1, <3>3, <1>0 DEF Begun
  <2>2. CASE \E c \in Cars, type \in Kinds, past \in BOOLEAN :
               /\ inbox'[i] = Event(c, type, past)
               /\ type = "POSITION" \/ drive[c] # "idle" \/ tmp[c]
    <3>1. PICK c \in Cars, type \in Kinds, past \in BOOLEAN :
               /\ inbox'[i] = Event(c, type, past)
               /\ type = "POSITION" \/ drive[c] # "idle" \/ tmp[c]
      BY <2>2
    <3>2. inbox'[i].car = c /\ type = "REPAIRED"
      BY <3>1 DEF Event
    <3>3. Begun(c)
      BY <3>1, <3>2 DEF Sending
    <3> QED  BY <3>2, <3>3, <1>0 DEF Begun
  <2> QED  BY <2>1, <2>2, InboxSteps
<1>4. sPc' # "idle" /\ sEv'.type = "REPAIRED" => cars'[sEv'.car].tgt # 0
  <2> SUFFICES ASSUME sPc' # "idle", sEv'.type = "REPAIRED"
               PROVE  sEv'.car \in Cars /\ Begun(sEv'.car)
    BY <1>0 DEF Begun
  <2>1. CASE sPc # "idle" /\ sEv' = sEv
    BY <2>1 DEF Sending, TypeInv, SubInv, Reports
  <2>2. CASE SubReceive
    <3>1. inbox # <<>> /\ sEv' = Head(inbox)
      BY <2>2 DEF SubReceive
    <3>2. sEv' = inbox[1] /\ inbox[1] \in Reports /\ 1 \in 1..Len(inbox)
      BY <3>1, InboxSteps
    <3> QED  BY <3>2 DEF Sending, Reports
  <2>3. CASE Subscriber /\ ~SubReceive
    <3>1. sPc' = "idle" \/ (sPc # "idle" /\ sEv' = sEv)
      BY <2>3 DEF Subscriber, SubReceiveArrive, SubLocate, SubSetEdge, SubSetOther,
                  SubAfter, SubReadPlace, SubStorePlace, SubDone, subVars
    <3> QED  BY <3>1, <2>1
  <2> QED  BY <2>1, <2>2, <2>3, Writers
<1>5. \A i \in 1..Len(pubQ') : Starts(pubQ'[i].msg) => cars'[pubQ'[i].msg.car].tgt # 0
  <2> SUFFICES ASSUME NEW i \in 1..Len(pubQ'), Starts(pubQ'[i].msg)
               PROVE  pubQ'[i].msg.car \in Cars /\ Begun(pubQ'[i].msg.car)
    BY <1>0 DEF Begun
  <2>1. CASE \E j \in 1..Len(pubQ) : pubQ'[i] = pubQ[j]
    <3>1. PICK j \in 1..Len(pubQ) : pubQ'[i] = pubQ[j]
      BY <2>1
    <3>2. pubQ[j].msg \in PubMsg
      <4>1. pubQ \in Seq(Message(PubMsg))
        BY DEF TypeInv, PubQInv, QueueOf, Message
      <4>2. pubQ[j] \in Message(PubMsg)
        BY <4>1
      <4> QED  BY <4>2 DEF Message
    <3> QED  BY <3>1, <3>2 DEF Sending, PubMsg
  <2>2. CASE pPc = "action" /\ pubQ'[i].msg.car = pMsg.car
    BY <2>2 DEF Sending, TypeInv, PlannerInv, TaskMsg
  <2> QED  BY <2>1, <2>2, PubQSteps
<1>6. pPc' \in {"count", "action"} => cars'[pMsg'.car].tgt # 0
  <2> SUFFICES ASSUME pPc' \in {"count", "action"}
               PROVE  cars'[pMsg'.car].tgt # 0
    OBVIOUS
  <2>1. CASE pPc \in {"count", "action"} /\ pMsg' = pMsg
    BY <2>1, <1>0 DEF Sending, TypeInv, PlannerInv, TaskMsg, Begun
  <2>2. CASE PlannerCommit
    <3>1. cars' = [cars EXCEPT ![pMsg.car] = pCar] /\ pCar.tgt # 0 /\ pMsg' = pMsg /\ pMsg.car \in Cars
      BY <2>2 DEF PlannerCommit, Held, TypeInv, PlannerInv, TaskMsg
    <3>2. cars \in [Cars -> SoundCar]
      BY DEF TypeInv, CarsInv
    <3> QED  BY <3>1, <3>2
  <2>3. CASE (Planner \/ PlannerCrash) /\ ~PlannerCommit
    <3>1. pPc \in {"count", "action"} /\ pMsg' = pMsg
      BY <2>3 DEF Planner, PlannerReceive, PlannerReadMap, PlannerPlan, PlannerGiveUp, PlannerPause,
                  PlannerRequeue, PlannerSendCount, PlannerSendAction, PlannerCrash, PlannerDone
    <3> QED  BY <3>1, <2>1
  <2>4. CASE UNCHANGED <<pPc, pMsg, pCar>>
    BY <2>1, <2>4
  <2> QED  BY <2>2, <2>3, <2>4, Writers
<1> QED  BY <1>1, <1>2, <1>3, <1>4, <1>5, <1>6 DEF Sending, Begun, OnWay, LegsFrom

-----------------------------------------------------------------------------
(* When the host is at rest, the router can go on with the path of every      *)
(* moving car, whatever the interleaving, losses and restarts, unless a car   *)
(* is placed by hand (which empties its path) and the end of an obstacle then  *)
(* lets it move again (mqtt_subscriber.cpp, dispatch).                      *)
THEOREM RoutesGoOn ==
  ASSUME "REPAIRED" \notin Events \/ "POSITION" \notin Events
  PROVE  Spec => []OnRoute
<1> DEFINE Inv == /\ TypeInv /\ Held /\ OnlyEvents /\ Leading
                  /\ "POSITION" \notin Events => Sending
<1>1. Init => Inv
  <2> SUFFICES ASSUME Init PROVE Held /\ OnlyEvents /\ Leading /\ Sending
    BY TypeInit
  <2>1. Len(inbox) = 0 /\ Len(pubQ) = 0 /\ 1..0 = {}
    BY DEF Init
  <2>2. Held /\ OnlyEvents
    BY <2>1 DEF Init, Held, OnlyEvents
  <2>3. \A c \in Cars : cars[c].status = "IDLE" /\ cars[c].tgt = 0
    BY DEF Init, HomeCar
  <2>4. Leading
    BY <2>3 DEF Leading
  <2>5. Sending
    BY <2>1, <2>3 DEF Init, Sending, Begun
  <2> QED  BY <2>2, <2>4, <2>5
<1>2. Inv /\ [Next]_vars => Inv'
  <2> SUFFICES ASSUME Inv, [Next]_vars PROVE Inv'
    OBVIOUS
  <2>1. CASE Next
    <3>1. sPc = "after" /\ sEv.type = "REPAIRED" => OnWay(cars[sEv.car])
      <4> SUFFICES ASSUME sPc = "after", sEv.type = "REPAIRED" PROVE OnWay(cars[sEv.car])
        OBVIOUS
      <4>1. "REPAIRED" \in Events /\ sEv.car \in Cars
        BY DEF OnlyEvents, Kinds, TypeInv, SubInv, Reports
      <4>2. Sending
        BY <4>1
      <4> QED  BY <4>1, <4>2 DEF Sending
    <3> QED  BY <2>1, <3>1, TypeStep, HeldStep, OnlyEventsStep, LeadingStep, SendingStep
  <2>2. CASE UNCHANGED vars
    <3>1. TypeInv' /\ UNCHANGED <<cars, pubQ, pPc, pMsg, pCar, rPc, rCar, sPc, sEv, sCar, inbox, drive, tmp>>
      BY <2>2, TypeStep DEF vars, shm, queues, plannerVars, routerVars, subVars, outside
    <3> QED  BY <3>1 DEF Held, OnlyEvents, Leading, Sending, Begun, OnWay, LegsFrom
  <2> QED  BY <2>1, <2>2
<1>3. Inv => OnRoute
  BY DEF Leading, OnWay, OnRoute
<1> QED  BY <1>1, <1>2, <1>3, PTL DEF Spec

-----------------------------------------------------------------------------
(* Which car topo recalls next.                                              *)
LEMMA NextRecalled ==
  ASSUME TypeInv, TopoSend
  PROVE  \E c \in tTodo : /\ taskQ' = Send(taskQ, TaskCap, Replan(c, "normal"), High)
                          /\ Replan(c, "normal") \in TaskMsg /\ tTodo' = tTodo \ {c}
<1> DEFINE c == CHOOSE d \in tTodo : \A o \in tTodo : d <= o
<1>1. tTodo \in SUBSET Nat /\ tTodo # {} /\ tTodo \subseteq Cars
  BY CarsAssumption DEF TopoSend, TypeInv, TopoInv
<1>2. \E d \in tTodo : \A o \in tTodo : d <= o
  BY <1>1, Least
<1>3. c \in tTodo
  BY <1>2
<1>4. taskQ' = Send(taskQ, TaskCap, Replan(c, "normal"), High) /\ tTodo' = tTodo \ {c}
  BY DEF TopoSend
<1> HIDE DEF c
<1>5. Replan(c, "normal") \in TaskMsg
  BY <1>1, <1>3, TaskMessages DEF Strategies
<1> QED  BY <1>3, <1>4, <1>5

(* A step leaves the messages to the planner alone, takes one, or sends one;   *)
(* only a client asks for an assignment.                                     *)
LEMMA TaskQMoves ==
  ASSUME TypeInv, Next
  PROVE  /\ taskQ \in QueueOf(TaskMsg, TaskCap) /\ TaskCap \in Nat
         /\ \/ taskQ' = taskQ
            \/ PlannerReceive
            \/ \E m \in TaskMsg, prio \in {Normal, High} :
                 /\ taskQ' = Send(taskQ, TaskCap, m, prio)
                 /\ m.act = "assign" => \E t \in Targets : TaskAssign(m.car, t)
<1>0. /\ taskQ \in QueueOf(TaskMsg, TaskCap) /\ TaskCap \in Nat
      /\ High \in {Normal, High} /\ Normal \in {Normal, High}
  BY CapacitiesAssumption DEF TypeInv, TaskQInv
<1>1. ASSUME NEW m \in TaskMsg, NEW prio \in {Normal, High}, taskQ' = Send(taskQ, TaskCap, m, prio),
             m.act # "assign"
      PROVE  \E n \in TaskMsg, p \in {Normal, High} :
               /\ taskQ' = Send(taskQ, TaskCap, n, p)
               /\ n.act = "assign" => \E t \in Targets : TaskAssign(n.car, t)
  BY <1>1
<1>2. \A c, imm : Cancel(c, imm).act # "assign" /\ Replan(c, imm).act # "assign"
  BY DEF Cancel, Replan
<1>3. CASE PlannerRequeue
  <2>1. Cancel(pMsg.car, pMsg.imm) \in TaskMsg
    BY <1>3, TaskMessages DEF PlannerRequeue, TypeInv, PlannerInv, TaskMsg
  <2> QED  BY <2>1, <1>0, <1>1, <1>2, <1>3 DEF PlannerRequeue
<1>4. CASE TopoSend
  <2>1. PICK c \in tTodo : /\ taskQ' = Send(taskQ, TaskCap, Replan(c, "normal"), High)
                           /\ Replan(c, "normal") \in TaskMsg
    BY <1>4, NextRecalled
  <2> QED  BY <2>1, <1>0, <1>1, <1>2
<1>5. CASE SubAfter
  <2>1. sEv.type \in Troubles /\ sEv.car \in Cars
    BY <1>5 DEF SubAfter, TypeInv, SubInv, Reports
  <2>2. CASE sEv.type \in Lasting
    <3> DEFINE imm == IF sEv.past THEN "uturnNoCross" ELSE "uturn"
    <3>1. Replan(sEv.car, imm) \in TaskMsg
      BY <2>1, TaskMessages DEF Strategies
    <3>2. taskQ' = Send(taskQ, TaskCap, Replan(sEv.car, imm), Normal)
      BY <1>5, <2>2 DEF SubAfter, Lasting
    <3> QED  BY <3>1, <3>2, <1>0, <1>1, <1>2
  <2>3. CASE sEv.type \notin Lasting
    BY <1>0, <1>5, <2>1, <2>3 DEF SubAfter, Lasting, Troubles, Obstacles
  <2> QED  BY <2>2, <2>3
<1>6. CASE Client
  <2>1. ASSUME NEW c \in Cars, NEW t \in Targets, TaskAssign(c, t)
        PROVE  \E m \in TaskMsg, prio \in {Normal, High} :
                 /\ taskQ' = Send(taskQ, TaskCap, m, prio)
                 /\ m.act = "assign" => \E u \in Targets : TaskAssign(m.car, u)
    <3>1. Assign(c, t) \in TaskMsg /\ Assign(c, t).car = c
      BY TaskMessages DEF Assign
    <3>2. taskQ' = Send(taskQ, TaskCap, Assign(c, t), Normal)
      BY <2>1 DEF TaskAssign
    <3> QED  BY <3>1, <3>2, <2>1, <1>0
  <2>2. ASSUME NEW c \in Cars, TaskCancel(c)
        PROVE  \E m \in TaskMsg, prio \in {Normal, High} :
                 /\ taskQ' = Send(taskQ, TaskCap, m, prio)
                 /\ m.act = "assign" => \E u \in Targets : TaskAssign(m.car, u)
    <3>1. Cancel(c, "normal") \in TaskMsg
      BY TaskMessages DEF Strategies
    <3>2. taskQ' = Send(taskQ, TaskCap, Cancel(c, "normal"), High)
      BY <2>2 DEF TaskCancel
    <3> QED  BY <3>1, <3>2, <1>0, <1>1, <1>2
  <2>3. CASE \E req \in TopoRequests : TopoAccept(req)
    BY <2>3, <1>0 DEF TopoAccept
  <2> QED  BY <2>1, <2>2, <2>3, <1>0, <1>6, TargetsAssumption DEF Client
<1>7. CASE Subscriber /\ ~SubAfter
  BY <1>0, <1>7 DEF Subscriber, SubReceiveArrive, SubReceive, SubLocate, SubSetEdge, SubSetOther,
                    SubReadPlace, SubStorePlace
<1>8. CASE Vehicles
  BY <1>0, <1>8, VehicleFrame DEF queues
<1> QED  BY <1>0, <1>3, <1>4, <1>5, <1>6, <1>7, <1>8, Writers

-----------------------------------------------------------------------------
(* What becomes of the messages in a queue.                                  *)

(* Sending keeps what is in a queue, and adds the message if there is room.   *)
LEMMA SentKeeps ==
  ASSUME NEW M, NEW cap \in Nat, NEW q \in QueueOf(M, cap), NEW m \in M, NEW prio \in {Normal, High}
  PROVE  LET r == Send(q, cap, m, prio)
         IN /\ \A i \in 1..Len(q) : \E j \in 1..Len(r) : r[j] = q[i]
            /\ ~(Len(q) >= cap) => \E j \in 1..Len(r) : r[j] = Entry(m, prio)
<1>1. q \in Seq(Message(M)) /\ InOrder(q) /\ Len(q) \in Nat
  BY DEF QueueOf, Message
<1>2. CASE Len(q) >= cap
  BY <1>1, <1>2 DEF Send
<1>3. CASE ~(Len(q) >= cap)
  <2> DEFINE r == Insert(q, m, prio)
             k == Ahead(q, prio)
             e == Entry(m, prio)
  <2>1. Send(q, cap, m, prio) = r
    BY <1>3 DEF Send
  <2>2. Len(r) = Len(q) + 1 /\ PutBehind(q, r, e, k)
    BY <1>1, Inserted
  <2>3. k \in 0..Len(q)
    BY <1>1, AheadIsFirst
  <2> HIDE DEF r, k, e
  <2>4. k \in Nat /\ k + 1 \in 1..Len(r) /\ r[k + 1] = e
    BY <1>1, <2>2, <2>3 DEF PutBehind
  <2>5. ASSUME NEW i \in 1..Len(q) PROVE \E j \in 1..Len(r) : r[j] = q[i]
    <3>1. CASE i <= k
      <4>1. i \in 1..Len(r) /\ r[i] = q[i]
        BY <1>1, <2>2, <3>1 DEF PutBehind
      <4> QED  BY <4>1
    <3>2. CASE i > k
      <4>1. i + 1 \in 1..Len(r) /\ (i + 1) - 1 = i /\ r[i + 1] = q[(i + 1) - 1]
        BY <1>1, <2>2, <2>4, <3>2 DEF PutBehind
      <4> QED  BY <4>1
    <3> QED  BY <3>1, <3>2, <2>4
  <2> QED  BY <2>1, <2>4, <2>5 DEF e
<1> QED  BY <1>2, <1>3

(* Receiving takes the first message and keeps the others.                   *)
LEMMA ReceivedKeeps ==
  ASSUME NEW M, NEW cap \in Nat, NEW q \in QueueOf(M, cap), q # <<>>, NEW i \in 1..Len(q)
  PROVE  First(q) = q[i].msg \/ \E j \in 1..Len(Tail(q)) : Tail(q)[j] = q[i]
<1>1. q \in Seq(Message(M)) /\ Len(q) \in Nat
  BY DEF QueueOf, Message
<1> DEFINE u == Tail(q)
<1>2. First(q) = q[1].msg /\ \A j \in 1..Len(u) : u[j] = q[j + 1]
  BY Received
<1>3. Len(u) = Len(q) - 1
  BY <1>1, HeadTailProperties
<1> HIDE DEF u
<1>4. CASE i # 1
  <2>1. i - 1 \in 1..Len(u) /\ (i - 1) + 1 = i
    BY <1>4, <1>1, <1>3
  <2> QED  BY <2>1, <1>2 DEF u
<1> QED  BY <1>2, <1>4

(* Behind the k-th message nothing starts c.                                 *)
SilentBehind(q, c, k) ==
  \A j \in 1..Len(q) : j > k /\ q[j].msg.car = c => ~Starts(q[j].msg)

(* A message that does not start c leaves it so;                             *)
LEMMA SentSilent ==
  ASSUME NEW M, NEW cap \in Nat, NEW q \in QueueOf(M, cap), NEW m \in M, NEW prio \in {Normal, High},
         NEW c, m.car = c => ~Starts(m), NEW k \in 0..Len(q), SilentBehind(q, c, k)
  PROVE  LET r == Send(q, cap, m, prio)
         IN \E h \in 0..Len(r) : /\ SilentBehind(r, c, h)
                                 /\ k = 0 => h = 0
                                 /\ k # 0 => h # 0 /\ r[h] = q[k]
<1>1. q \in Seq(Message(M)) /\ InOrder(q) /\ Len(q) \in Nat
  BY DEF QueueOf, Message
<1>2. CASE Len(q) >= cap
  BY <1>1, <1>2 DEF Send
<1>3. CASE ~(Len(q) >= cap)
  <2> DEFINE r == Insert(q, m, prio)
             a == Ahead(q, prio)
             e == Entry(m, prio)
             h == IF k = 0 THEN 0 ELSE IF k <= a THEN k ELSE k + 1
  <2>1. Send(q, cap, m, prio) = r
    BY <1>3 DEF Send
  <2>2. Len(r) = Len(q) + 1 /\ PutBehind(q, r, e, a) /\ e.msg = m
    <3>1. Len(r) = Len(q) + 1 /\ PutBehind(q, r, e, a)
      BY <1>1, Inserted
    <3>2. e.msg = m
      BY DEF Entry
    <3> QED  BY <3>1, <3>2
  <2>3. a \in 0..Len(q)
    BY <1>1, AheadIsFirst
  <2> HIDE DEF r, a, e
  <2>4. h \in 0..Len(r) /\ (k = 0 => h = 0) /\ (k # 0 => h # 0)
    BY <1>1, <2>2, <2>3
  <2>5. k # 0 => r[h] = q[k]
    <3>1. CASE k # 0 /\ k <= a
      BY <1>1, <2>2, <2>3, <3>1 DEF PutBehind
    <3>2. CASE k # 0 /\ k > a
      <4>1. k + 1 \in 1..(Len(q) + 1) /\ k + 1 > a + 1 /\ (k + 1) - 1 = k /\ h = k + 1
        BY <1>1, <2>3, <3>2
      <4>2. r[k + 1] = q[(k + 1) - 1]
        BY <4>1, <2>2 DEF PutBehind
      <4> QED  BY <4>1, <4>2
    <3> QED  BY <3>1, <3>2, <2>3
  <2>6. SilentBehind(r, c, h)
    <3> SUFFICES ASSUME NEW j \in 1..Len(r), j > h, r[j].msg.car = c PROVE ~Starts(r[j].msg)
      BY DEF SilentBehind
    <3>1. CASE j = a + 1
      BY <1>1, <2>2, <3>1 DEF PutBehind
    <3>2. CASE j <= a
      <4>1. r[j] = q[j] /\ j \in 1..Len(q) /\ j > k
        BY <1>1, <2>2, <2>3, <3>2 DEF PutBehind
      <4> QED  BY <4>1 DEF SilentBehind
    <3>3. CASE j > a + 1
      <4>1. r[j] = q[j - 1] /\ j - 1 \in 1..Len(q) /\ j - 1 > k
        BY <1>1, <2>2, <2>3, <3>3 DEF PutBehind
      <4> QED  BY <4>1 DEF SilentBehind
    <3> QED  BY <3>1, <3>2, <3>3, <2>2, <2>3, <1>1
  <2> QED  BY <2>1, <2>4, <2>5, <2>6
<1> QED  BY <1>2, <1>3

(* All that start a car are urgent,                                          *)
UrgentStarts(q) == \A j \in 1..Len(q) : Starts(q[j].msg) => q[j].prio = High

(* so that another urgent one comes behind them.                             *)
LEMMA SentLast ==
  ASSUME NEW M, NEW cap \in Nat, NEW q \in QueueOf(M, cap), NEW m \in M, ~Starts(m), NEW c,
         UrgentStarts(q), ~(Len(q) >= cap)
  PROVE  LET r == Send(q, cap, m, High)
         IN \E h \in 1..Len(r) : r[h].msg = m /\ SilentBehind(r, c, h)
<1>1. q \in Seq(Message(M)) /\ InOrder(q) /\ Len(q) \in Nat /\ High \in {Normal, High}
  BY DEF QueueOf, Message
<1> DEFINE r == Insert(q, m, High)
           a == Ahead(q, High)
           e == Entry(m, High)
<1>2. Send(q, cap, m, High) = r
  BY DEF Send
<1>3. Len(r) = Len(q) + 1 /\ PutBehind(q, r, e, a) /\ e.msg = m
  BY <1>1, Inserted DEF Entry
<1>4. a \in 0..Len(q) /\ \A i \in 1..Len(q) : i <= a <=> q[i].prio >= High
  BY <1>1, AheadIsFirst
<1> HIDE DEF r, a, e
<1>5. a + 1 \in 1..Len(r) /\ r[a + 1].msg = m
  <2>1. a + 1 \in 1..(Len(q) + 1)
    BY <1>1, <1>4
  <2>2. r[a + 1] = e
    BY <2>1, <1>3 DEF PutBehind
  <2> QED  BY <2>1, <2>2, <1>3
<1>6. SilentBehind(r, c, a + 1)
  <2> SUFFICES ASSUME NEW j \in 1..Len(r), j > a + 1 PROVE ~Starts(r[j].msg)
    BY DEF SilentBehind
  <2>1. r[j] = q[j - 1] /\ j - 1 \in 1..Len(q) /\ ~(j - 1 <= a)
    BY <1>1, <1>3, <1>4 DEF PutBehind
  <2>2. ~(q[j - 1].prio >= High)
    BY <2>1, <1>4
  <2> QED  BY <2>1, <2>2 DEF UrgentStarts, High
<1> QED  BY <1>2, <1>5, <1>6

(* Commands that start a car stay urgent.                                    *)
LEMMA UrgentStep ==
  ASSUME TypeInv, Next, UrgentStarts(pubQ)
  PROVE  UrgentStarts(pubQ')
<1>0. pubQ \in QueueOf(PubMsg, PubCap) /\ PubCap \in Nat
  BY PubQMoves
<1>1. CASE pubQ' = pubQ
  BY <1>1
<1>2. CASE pubQ # <<>> /\ pubQ' = Tail(pubQ)
  <2>1. \A i \in 1..Len(pubQ') : i + 1 \in 1..Len(pubQ) /\ pubQ'[i] = pubQ[i + 1]
    BY <1>0, <1>2, Received
  <2> QED  BY <2>1 DEF UrgentStarts
<1>3. ASSUME NEW m \in PubMsg, NEW prio \in {Normal, High}, pubQ' = Send(pubQ, PubCap, m, prio),
             Starts(m) => prio = High
      PROVE  UrgentStarts(pubQ')
  <2>1. CASE Len(pubQ) >= PubCap
    BY <1>3, <2>1 DEF Send
  <2>2. CASE ~(Len(pubQ) >= PubCap)
    <3>1. pubQ' = Insert(pubQ, m, prio) /\ pubQ \in Seq(Message(PubMsg)) /\ InOrder(pubQ)
      BY <1>0, <1>3, <2>2 DEF Send, QueueOf, Message
    <3>2. \A i \in 1..Len(pubQ') : pubQ'[i] = Entry(m, prio) \/ \E j \in 1..Len(pubQ) : pubQ'[i] = pubQ[j]
      BY <3>1, Inserted
    <3>3. Entry(m, prio).msg = m /\ Entry(m, prio).prio = prio
      BY DEF Entry
    <3> HIDE DEF UrgentStarts
    <3> SUFFICES ASSUME NEW i \in 1..Len(pubQ'), Starts(pubQ'[i].msg) PROVE pubQ'[i].prio = High
      BY DEF UrgentStarts
    <3> QED  BY <3>2, <3>3, <1>3 DEF UrgentStarts
  <2> QED  BY <2>1, <2>2
<1> QED  BY <1>1, <1>2, <1>3, PubQMoves

-----------------------------------------------------------------------------
(* What a vehicle that stands does with a command.                           *)
LEMMA StandingStays ==
  ASSUME NEW cmd \in PubMsg, ~Starts(cmd), NEW d \in Still
  PROVE  Obeyed(d, cmd) = {d}
<1>1. cmd.kind \in {"CNT", "ACTION", "ORIENT"}
  BY DEF PubMsg
<1>2. Directed(d, cmd.arg) = {d} /\ Paused(d) = {d}
  BY DEF Directed, Paused, Still
<1> QED  BY <1>1, <1>2 DEF Obeyed, Starts, Still

(* By itself it stays unless what it waits for ends.                         *)
LEMMA StandingVehicle ==
  ASSUME TypeInv, Vehicles, NEW c \in Cars, drive[c] \in Still, ~SetsOff(c)
  PROVE  drive'[c] = drive[c]
<1>0. drive \in [Cars -> Places] /\ drive[c] \notin {"follow", "junction", "stopping"}
  BY DEF TypeInv, OutsideInv, Still
<1>1. PICK d \in Cars : \/ CarArrive(d) \/ CarGivesUp(d) \/ CarParks(d)
                        \/ \E type \in Events : CarSees(d, type)
  BY DEF Vehicles
<1>2. CASE CarArrive(d)
  BY <1>0, <1>2 DEF CarArrive, Announces
<1>3. CASE CarGivesUp(d) \/ CarParks(d)
  BY <1>0, <1>3 DEF CarGivesUp, CarParks, CarMoves
<1>4. ASSUME NEW type \in Events, CarSees(d, type) PROVE drive'[c] = drive[c]
  <2>1. \/ CarStops(d, type) \/ CarResumes(d) \/ CarIsPlaced(d) \/ CarRepeats(d) \/ CarHalts(d)
    BY <1>4, EventsAssumption DEF CarSees, Obstacles
  <2>2. CASE CarStops(d, type)
    BY <1>0, <2>2 DEF CarStops
  <2>3. CASE CarResumes(d)
    BY <1>0, <2>3 DEF CarResumes, SetsOff
  <2>4. CASE CarIsPlaced(d)
    BY <2>4 DEF CarIsPlaced
  <2>5. CASE CarRepeats(d)
    BY <1>0, <2>5 DEF CarRepeats, Announces
  <2>6. CASE CarHalts(d)
    BY <1>0, <2>6 DEF CarHalts
  <2> QED  BY <2>1, <2>2, <2>3, <2>4, <2>5, <2>6
<1> QED  BY <1>1, <1>2, <1>3, <1>4

(* A car stands and is not about to be started, or its pause is on the way    *)
(* and nothing behind it starts the car.                                   *)
Quieted(c) ==
  \E k \in 0..Len(pubQ) : /\ SilentBehind(pubQ, c, k)
                          /\ IF k = 0 THEN drive[c] \in Still ELSE pubQ[k].msg = Pause(c)

Restarts(c) == PlannerSendAction /\ pMsg.car = c /\ pMsg.imm # "normal"

(* It stays so unless the pause is lost, the vehicle drives on by itself, or  *)
(* the planner starts it.                                                  *)
LEMMA QuietedStep ==
  ASSUME TypeInv, Next, NEW c \in Cars, Quieted(c), ~PauseLost(c), ~SetsOff(c), ~Restarts(c)
  PROVE  Quieted(c)'
<1>0. /\ pubQ \in QueueOf(PubMsg, PubCap) /\ PubCap \in Nat
      /\ drive \in [Cars -> Places] /\ Len(pubQ) \in Nat
  <2>1. pubQ \in Seq(Message(PubMsg))
    BY DEF TypeInv, PubQInv, QueueOf, Message
  <2>2. Len(pubQ) \in Nat
    BY <2>1
  <2> QED  BY <2>2, PubQMoves DEF TypeInv, OutsideInv
<1>1. PICK k \in 0..Len(pubQ) :
             /\ SilentBehind(pubQ, c, k)
             /\ IF k = 0 THEN drive[c] \in Still ELSE pubQ[k].msg = Pause(c)
  BY DEF Quieted
<1>2. CASE PublishOne
  <2> DEFINE cmd == First(pubQ)
             q == Tail(pubQ)
  <2>1. /\ pubQ # <<>> /\ pubQ' = q
        /\ Delivered(cmd) \/ drive' = drive
    BY <1>2 DEF PublishOne
  <2>2. /\ cmd \in PubMsg /\ 1 \in 1..Len(pubQ) /\ cmd = pubQ[1].msg
        /\ \A i \in 1..Len(q) : i + 1 \in 1..Len(pubQ) /\ q[i] = pubQ[i + 1]
    BY <1>0, <2>1, Received
  <2>3. Len(q) = Len(pubQ) - 1
    <3>1. pubQ \in Seq(Message(PubMsg))
      BY <1>0 DEF QueueOf, Message
    <3> QED  BY <3>1, <2>1, HeadTailProperties
  <2> HIDE DEF cmd, q
  <2>4. CASE k \in {0, 1}
    <3>1. SilentBehind(q, c, 0)
      <4> SUFFICES ASSUME NEW j \in 1..Len(q), q[j].msg.car = c PROVE ~Starts(q[j].msg)
        BY DEF SilentBehind
      <4>1. j + 1 \in 1..Len(pubQ) /\ j + 1 > k /\ q[j] = pubQ[j + 1]
        BY <1>0, <2>2, <2>4
      <4> QED  BY <4>1, <1>1 DEF SilentBehind
    <3>2. drive'[c] \in Still
      <4>1. CASE k = 1
        <5>1. First(pubQ) = Pause(c)
          BY <1>1, <2>2, <4>1 DEF cmd
        <5> QED  BY <5>1, <1>2 DEF PauseLost
      <4>2. CASE k = 0
        <5>1. drive[c] \in Still
          BY <1>1, <4>2
        <5>2. CASE Delivered(cmd) /\ cmd.car = c
          <6>1. ~Starts(cmd)
            BY <1>1, <2>2, <4>2, <5>2 DEF SilentBehind
          <6>2. Obeyed(drive[c], cmd) = {drive[c]}
            BY <6>1, <5>1, <2>2, StandingStays
          <6>3. \E d \in Obeyed(drive[c], cmd) : drive' = [drive EXCEPT ![c] = d]
            BY <5>2 DEF Delivered
          <6> QED  BY <6>2, <6>3, <5>1, <1>0
        <5>3. CASE Delivered(cmd) /\ cmd.car # c
          <6>1. \E d \in Obeyed(drive[cmd.car], cmd) : drive' = [drive EXCEPT ![cmd.car] = d]
            BY <5>3 DEF Delivered
          <6> QED  BY <6>1, <5>1, <5>3, <1>0
        <5> QED  BY <5>1, <5>2, <5>3, <2>1
      <4> QED  BY <4>1, <4>2, <2>4
    <3>3. 0 \in 0..Len(q)
      BY <1>0, <2>2, <2>3
    <3> QED  BY <3>1, <3>2, <3>3, <2>1 DEF Quieted, SilentBehind
  <2>5. CASE k \notin {0, 1}
    <3>1. k - 1 \in 1..Len(q) /\ k - 1 \in 0..Len(q) /\ k - 1 # 0 /\ (k - 1) + 1 = k
      BY <1>0, <2>3, <2>5
    <3>2. q[k - 1] = pubQ[k] /\ pubQ[k].msg = Pause(c)
      BY <1>1, <2>2, <2>5, <3>1
    <3>3. SilentBehind(q, c, k - 1)
      <4> SUFFICES ASSUME NEW j \in 1..Len(q), j > k - 1, q[j].msg.car = c PROVE ~Starts(q[j].msg)
        BY DEF SilentBehind
      <4>1. j + 1 \in 1..Len(pubQ) /\ j + 1 > k /\ q[j] = pubQ[j + 1]
        BY <1>0, <2>2
      <4> QED  BY <4>1, <1>1 DEF SilentBehind
    <3> QED  BY <3>1, <3>2, <3>3, <2>1 DEF Quieted, SilentBehind, Pause
  <2> QED  BY <2>4, <2>5
<1>3. CASE ~PublishOne
  <2>1. drive[c] \in Still => drive'[c] \in Still
    BY <1>3, Writers, StandingVehicle
  <2>2. CASE pubQ' = pubQ
    BY <1>1, <2>1, <2>2 DEF Quieted, SilentBehind, Pause
  <2>3. CASE \E m \in PubMsg, prio \in {Normal, High} :
               /\ pubQ' = Send(pubQ, PubCap, m, prio)
               /\ Starts(m) => PlannerSendAction /\ m.car = pMsg.car /\ pMsg.imm # "normal"
    <3>1. PICK m \in PubMsg, prio \in {Normal, High} :
               /\ pubQ' = Send(pubQ, PubCap, m, prio)
               /\ Starts(m) => PlannerSendAction /\ m.car = pMsg.car /\ pMsg.imm # "normal"
      BY <2>3
    <3>2. m.car = c => ~Starts(m)
      BY <3>1 DEF Restarts
    <3>3. LET r == Send(pubQ, PubCap, m, prio)
          IN \E h \in 0..Len(r) : /\ SilentBehind(r, c, h)
                                  /\ k = 0 => h = 0
                                  /\ k # 0 => h # 0 /\ r[h] = pubQ[k]
      BY <1>0, <1>1, <3>2, SentSilent
    <3>4. PICK h \in 0..Len(pubQ') : /\ SilentBehind(pubQ', c, h)
                                     /\ k = 0 => h = 0
                                     /\ k # 0 => h # 0 /\ pubQ'[h] = pubQ[k]
      BY <3>1, <3>3
    <3>5. IF h = 0 THEN drive'[c] \in Still ELSE pubQ'[h].msg = Pause(c)
      BY <1>1, <2>1, <3>4
    <3> QED  BY <3>4, <3>5 DEF Quieted, SilentBehind, Pause
  <2> QED  BY <1>3, <2>2, <2>3, PubQMoves
<1> QED  BY <1>2, <1>3

(* The planner's pause brings it about.                                      *)
LEMMA PauseQuiets ==
  ASSUME TypeInv, UrgentStarts(pubQ), PlannerPause, NEW c \in Cars, pMsg.car = c, ~PauseLost(c)
  PROVE  Quieted(c)'
<1>1. ~(Len(pubQ) >= PubCap) /\ pubQ' = Send(pubQ, PubCap, Pause(c), High)
  BY DEF PauseLost, PlannerPause, Pause
<1>2. pubQ \in QueueOf(PubMsg, PubCap) /\ PubCap \in Nat
  BY CapacitiesAssumption DEF TypeInv, PubQInv
<1>3. Pause(c) \in PubMsg /\ ~Starts(Pause(c))
  BY Commands DEF Pause, Starts, Command
<1>4. LET r == Send(pubQ, PubCap, Pause(c), High)
      IN \E h \in 1..Len(r) : r[h].msg = Pause(c) /\ SilentBehind(r, c, h)
  BY <1>1, <1>2, <1>3, SentLast
<1>5. PICK h \in 1..Len(pubQ') : pubQ'[h].msg = Pause(c) /\ SilentBehind(pubQ', c, h)
  BY <1>1, <1>4
<1>6. h \in 0..Len(pubQ') /\ h # 0
  OBVIOUS
<1> QED  BY <1>5, <1>6 DEF Quieted, SilentBehind, Pause

(* When nothing is left to send, it stands.                                  *)
LEMMA QuietedStands ==
  ASSUME NEW c \in Cars, Quieted(c), Quiet
  PROVE  drive[c] \in Still
<1>1. Len(pubQ) = 0
  BY DEF Quiet
<1> QED  BY <1>1 DEF Quieted

-----------------------------------------------------------------------------
(* A car that is not on a task has no path.                                  *)
Emptied(car) == car.status = "IDLE" => car.path = <<>>
EmptyIdle ==
  /\ \A c \in Cars : Emptied(cars[c])
  /\ pPc = "commit" => Emptied(pCar)
  /\ rPc \in {"turn", "store"} => Emptied(rCar)
  /\ sPc = "store" => Emptied(sCar) /\ sCar.path = <<>>

(* Every step keeps it.                                                      *)
LEMMA EmptyIdleStep ==
  ASSUME TypeInv, EmptyIdle, Next
  PROVE  EmptyIdle'
<1>0. cars \in [Cars -> SoundCar] /\ (\A d \in Cars : cars[d] \in CarRecord)
  BY DEF TypeInv, CarsInv, SoundCar
<1>1. ASSUME NEW c \in Cars PROVE Emptied(cars'[c])
  <2>1. CASE cars' = cars
    BY <2>1 DEF EmptyIdle
  <2>2. CASE PlannerCommit
    BY <2>2, <1>0 DEF PlannerCommit, EmptyIdle
  <2>3. CASE RouterStore
    BY <2>3, <1>0 DEF RouterStore, EmptyIdle
  <2>4. CASE SubStorePlace
    BY <2>4, <1>0 DEF SubStorePlace, EmptyIdle
  <2>5. CASE SubAfter
    <3>1. ASSUME NEW s, s # "IDLE", cars' = [cars EXCEPT ![sEv.car].status = s]
          PROVE  Emptied(cars'[c])
      <4>1. cars'[c] = cars[c] \/ cars'[c] = [cars[c] EXCEPT !.status = s]
        BY <3>1, <1>0
      <4>2. [cars[c] EXCEPT !.status = s].status = s
        BY <1>0 DEF CarRecord
      <4> QED  BY <4>1, <4>2, <3>1 DEF EmptyIdle, Emptied
    <3> QED  BY <3>1, <2>1, <2>5, SubAfterCars
  <2> QED  BY <2>1, <2>2, <2>3, <2>4, <2>5, Writers
<1>2. pPc' = "commit" => Emptied(pCar')
  <2>1. CASE UNCHANGED <<pPc, pMsg, pCar>>
    BY <2>1 DEF EmptyIdle
  <2>2. CASE PlannerPlan
    <3>1. pMsg \in TaskMsg /\ cars[pMsg.car] \in SoundCar
      BY <2>2 DEF PlannerPlan, TypeInv, PlannerInv, CarsInv, TaskMsg
    <3>2. PICK p \in PlannerPaths(cars[pMsg.car]) : pCar' = Planned(cars[pMsg.car], p)
      BY <2>2 DEF PlannerPlan
    <3>3. pCar'.status = "MOVING"
      BY <2>2, <3>1, <3>2, PlannedSound DEF PlannerPlan
    <3> QED  BY <3>3 DEF Emptied
  <2>3. CASE (Planner \/ PlannerCrash) /\ ~PlannerPlan
    <3>1. pPc' # "commit"
      BY <2>3 DEF Planner, PlannerReceive, PlannerReadMap, PlannerGiveUp, PlannerPause, PlannerRequeue,
                  PlannerCommit, PlannerSendCount, PlannerSendAction, PlannerCrash, PlannerDone
    <3> QED  BY <3>1
  <2> QED  BY <2>1, <2>2, <2>3, Writers
<1>3. rPc' \in {"turn", "store"} => Emptied(rCar')
  <2>1. CASE UNCHANGED <<rPc, rId, rCar>>
    BY <2>1 DEF EmptyIdle
  <2>2. CASE RouterRead
    <3>1. rId \in Cars /\ cars[rId] \in SoundCar
      BY <2>2 DEF RouterRead, TypeInv, RouterInv, CarsInv
    <3>2. Emptied(cars[rId])
      BY <3>1 DEF EmptyIdle
    <3>3. Ended(cars[rId]).path = <<>>
      BY <3>1, EndedSound
    <3>4. LegsFrom(cars[rId]) # {} => /\ Advanced(cars[rId]).path = cars[rId].path
                                      /\ Advanced(cars[rId]).status = cars[rId].status
      BY <3>1, AdvancedSound
    <3> QED  BY <2>2, <3>2, <3>3, <3>4, RouterReads DEF RouterDone, Emptied
  <2>3. CASE RouterSendTurn
    BY <2>3 DEF RouterSendTurn, EmptyIdle
  <2>4. CASE (Router \/ RouterCrash) /\ ~RouterRead /\ ~RouterSendTurn
    <3>1. rPc' \notin {"turn", "store"}
      BY <2>4 DEF Router, RouterReceive, RouterStore, RouterSendArrived, RouterCrash, RouterDone
    <3> QED  BY <3>1
  <2> QED  BY <2>1, <2>2, <2>3, <2>4, Writers
<1>4. sPc' = "store" => Emptied(sCar') /\ sCar'.path = <<>>
  <2>1. CASE UNCHANGED <<sPc, sEv, sCar>>
    BY <2>1 DEF EmptyIdle
  <2>2. CASE SubReadPlace
    <3>1. cars[sEv.car] \in CarRecord
      BY <2>2, <1>0 DEF SubReadPlace, TypeInv, SubInv, Reports
    <3> DEFINE a == Home[sEv.car][1]
               b == Home[sEv.car][2]
    <3>2. sCar' = [cars[sEv.car] EXCEPT !.cur = b, !.last = a, !.path = <<>>, !.status = "IDLE"]
      BY <2>2 DEF SubReadPlace
    <3> HIDE DEF a, b
    <3>3. sCar'.path = <<>>
      BY <3>1, <3>2 DEF CarRecord
    <3> QED  BY <3>3 DEF Emptied
  <2>3. CASE Subscriber /\ ~SubReadPlace
    <3>1. sPc' # "store" \/ UNCHANGED <<sPc, sEv, sCar>>
      BY <2>3 DEF Subscriber, SubReceiveArrive, SubReceive, SubLocate, SubSetEdge, SubSetOther,
                  SubAfter, SubStorePlace, SubDone, subVars
    <3> QED  BY <3>1, <2>1
  <2> QED  BY <2>1, <2>2, <2>3, Writers
<1> QED  BY <1>1, <1>2, <1>3, <1>4 DEF EmptyIdle, Emptied

(* The planner's new record leads over roads that were open when it read the  *)
(* map.                                                                    *)
PlanFits ==
  pPc = "commit" =>
    /\ pCar.path \in Seq(Edges)
    /\ \A i \in 1..Len(pCar.path) : Usable(pMap.est, pMap.nst, pCar.path[i])

(* It is made of the map the planner has read last.                          *)
LEMMA PlanFitsStep ==
  ASSUME TypeInv, PlanFits, Next
  PROVE  PlanFits'
<1>1. CASE PlannerPlan
  <2>1. pMsg \in TaskMsg /\ cars[pMsg.car] \in SoundCar
    BY <1>1 DEF PlannerPlan, TypeInv, PlannerInv, CarsInv, TaskMsg
  <2>2. PICK p \in PlannerPaths(cars[pMsg.car]) : pCar' = Planned(cars[pMsg.car], p)
    BY <1>1 DEF PlannerPlan
  <2>3. CanStart(cars[pMsg.car]) /\ pMap' = pMap
    BY <1>1 DEF PlannerPlan
  <2>4. pCar'.path = p /\ \E s \in Nodes : IsWalk(pMap.est, pMap.nst, s, p)
    <3>1. pCar'.path = p /\ pCar' \in SoundCar /\ IsWalk(pMap.est, pMap.nst, pCar'.cur, p)
      BY <2>1, <2>2, <2>3, PlannedSound
    <3> QED  BY <3>1, SoundFields
  <2> QED  BY <2>3, <2>4 DEF PlanFits, IsWalk
<1>2. CASE UNCHANGED <<pPc, pMsg, pMap, pCar>>
  BY <1>2 DEF PlanFits
<1>3. CASE (Planner \/ PlannerCrash) /\ ~PlannerPlan
  <2>1. pPc' # "commit"
    BY <1>3 DEF Planner, PlannerReceive, PlannerReadMap, PlannerGiveUp, PlannerPause, PlannerRequeue,
                PlannerCommit, PlannerSendCount, PlannerSendAction, PlannerCrash, PlannerDone
  <2> QED  BY <2>1 DEF PlanFits
<1> QED  BY <1>1, <1>2, <1>3, Writers

Replanned(c) == PlannerCommit /\ pMsg.car = c

(* So on a map that has not changed since, the car has an open route.         *)
LEMMA FreshPlan ==
  ASSUME TypeInv, PlanFits, NEW c \in Cars, Replanned(c), ~OldMap(c)
  PROVE  OpenRoute(cars[c])'
<1>1. cars' = [cars EXCEPT ![c] = pCar] /\ cars \in [Cars -> SoundCar] /\ UNCHANGED <<est, nst>>
  BY DEF Replanned, PlannerCommit, PlannerRest, TypeInv, CarsInv
<1>2. cars'[c] = pCar
  BY <1>1
<1>3. pMap = [est |-> est, nst |-> nst]
  BY DEF Replanned, OldMap
<1>4. \A i \in 1..Len(pCar.path) : est[pCar.path[i]] \notin HardBlocked /\ nst[To(pCar.path[i])] # "FAULT"
  BY <1>3 DEF Replanned, PlannerCommit, PlanFits, Usable
<1> QED  BY <1>1, <1>2, <1>4 DEF OpenRoute

(* Unless it is planned anew, or by a router with an old record, a car keeps   *)
(* its path or loses it.                                                   *)
LEMMA PathSteps ==
  ASSUME TypeInv, EmptyIdle, Next, NEW c \in Cars, ~Replanned(c), ~OldPlan(c)
  PROVE  cars'[c].path = cars[c].path \/ cars'[c].path = <<>>
<1>0. cars \in [Cars -> SoundCar] /\ (\A d \in Cars : cars[d] \in CarRecord)
  BY DEF TypeInv, CarsInv, SoundCar
<1>1. CASE cars' = cars
  BY <1>1
<1>2. CASE PlannerCommit
  BY <1>0, <1>2 DEF PlannerCommit, Replanned
<1>3. CASE RouterStore
  BY <1>0, <1>3 DEF RouterStore, OldPlan
<1>4. CASE SubStorePlace
  BY <1>0, <1>4 DEF SubStorePlace, EmptyIdle
<1>5. CASE SubAfter
  <2>1. ASSUME NEW s, cars' = [cars EXCEPT ![sEv.car].status = s]
        PROVE  cars'[c].path = cars[c].path
    <3>1. cars'[c] = cars[c] \/ cars'[c] = [cars[c] EXCEPT !.status = s]
      BY <2>1, <1>0
    <3>2. [cars[c] EXCEPT !.status = s].path = cars[c].path
      BY <1>0 DEF CarRecord
    <3> QED  BY <3>1, <3>2
  <2> QED  BY <1>1, <1>5, <2>1, SubAfterCars
<1> QED  BY <1>1, <1>2, <1>3, <1>4, <1>5, Writers

(* A road or node is closed in this step.                                    *)
Closes == \/ \E e \in Edges : est'[e] \in HardBlocked /\ est[e] \notin HardBlocked
          \/ \E n \in Nodes : nst'[n] = "FAULT" /\ nst[n] # "FAULT"

(* Topo does so, and is then about to look for the cars concerned, or the      *)
(* subscriber for a lasting obstacle.                                       *)
LEMMA ClosingSteps ==
  ASSUME TypeInv, Next, Closes
  PROVE  \/ tPc' \in {"set", "other"}
         \/ /\ SubSetEdge \/ SubSetOther
            /\ sPc' \in {"other", "after"} /\ sEv' = sEv /\ sEv.type \in Lasting
<1>0. est \in [Edges -> EdgeStatuses] /\ nst \in [Nodes -> NodeStatuses]
  BY DEF TypeInv, MapInv
<1>1. CASE UNCHANGED <<est, nst>>
  BY <1>1 DEF Closes
<1>2. CASE Topo
  BY <1>1, <1>2 DEF Topo, TopoRest, TopoSetEdge, TopoSetOther, TopoSetNode, TopoReadCars, TopoSend,
                    TopoReply
<1>3. CASE SubSetEdge \/ SubSetOther
  <2>1. sEv.type \in Troubles /\ nst' = nst
    BY <1>3 DEF SubSetEdge, SubSetOther, SubRest, TypeInv, SubInv
  <2>2. sPc' \in {"other", "after"} /\ sEv' = sEv
        /\ \E x : est' = [est EXCEPT ![x] = EdgeStatusAfter(sEv.type)]
    BY <1>3 DEF SubSetEdge, SubSetOther
  <2>3. ASSUME sEv.type \notin Lasting PROVE FALSE
    <3>1. EdgeStatusAfter(sEv.type) \notin HardBlocked
      BY <2>1, <2>3 DEF Troubles, Obstacles, Lasting, EdgeStatusAfter, HardBlocked
    <3> QED  BY <3>1, <2>1, <2>2, <1>0 DEF Closes
  <2> QED  BY <1>3, <2>2, <2>3
<1>4. CASE Subscriber /\ ~SubSetEdge /\ ~SubSetOther
  BY <1>1, <1>4 DEF Subscriber, SubRest, SubReceiveArrive, SubReceive, SubLocate, SubAfter, SubReadPlace,
                    SubStorePlace
<1>5. CASE Planner \/ PlannerCrash \/ Router \/ RouterCrash
  BY <1>1, <1>5 DEF Planner, PlannerRest, PlannerReceive, PlannerReadMap, PlannerPlan, PlannerGiveUp,
              PlannerPause, PlannerRequeue, PlannerCommit, PlannerSendCount, PlannerSendAction,
              PlannerCrash, Router, RouterRest, RouterReceive, RouterRead, RouterSendTurn, RouterStore,
              RouterSendArrived, RouterCrash, shm
<1>6. CASE PublishOne \/ Client \/ Vehicles
  BY <1>1, <1>6, VehicleFrame DEF PublishOne, OutsideRest, shm, Client, TaskAssign, TaskCancel, TaskRest,
              TopoAccept
<1> QED  BY <1>2, <1>3, <1>4, <1>5, <1>6 DEF Next

-----------------------------------------------------------------------------
(* Somebody will see to it that c is planned anew: topo, the planner, which     *)
(* has a message about c or will get one, or the subscriber.                 *)
RecallSent(c) == \E i \in 1..Len(taskQ) : taskQ[i].msg.car = c /\ taskQ[i].msg.act # "assign"
Replanning(c) ==
  pPc \in {"map", "plan", "pause", "requeue", "commit"} /\ pMsg.car = c /\ pMsg.act # "assign"
Obstructed(c) == sPc \in {"other", "after"} /\ sEv.car = c /\ sEv.type \in Lasting
Recalled(c) ==
  \/ tPc \in {"set", "other"}
  \/ tPc = "send" /\ c \in tTodo
  \/ RecallSent(c) \/ Replanning(c) \/ Obstructed(c)

(* c has been paused, and it is not planned anew.                             *)
Halted(c) == Quieted(c) /\ ~(pPc \in {"count", "action"} /\ pMsg.car = c)

Seen(c) == c \in outdated \/ OpenRoute(cars[c]) \/ Recalled(c) \/ Halted(c)

(* Where a road is closed on an open route, the car is recalled.              *)
LEMMA OpenStep ==
  ASSUME TypeInv, EmptyIdle, PlanFits, Next, NEW c \in Cars, OpenRoute(cars[c]), ~Outdates(c)
  PROVE  OpenRoute(cars[c])' \/ Recalled(c)'
<1>0. ~OldMap(c) /\ ~OldPlan(c) /\ ~NotTold(c)
  BY DEF Outdates
<1>1. cars[c].path \in Seq(Edges)
  BY SoundFields DEF TypeInv, CarsInv
<1>2. CASE cars'[c].path = <<>>
  BY <1>2 DEF OpenRoute
<1>3. CASE cars'[c].path = cars[c].path /\ ~Closes
  <2> SUFFICES ASSUME NEW i \in 1..Len(cars[c].path)
               PROVE  est'[cars[c].path[i]] \notin HardBlocked /\ nst'[To(cars[c].path[i])] # "FAULT"
    BY <1>3 DEF OpenRoute
  <2>1. cars[c].path[i] \in Edges
    BY <1>1
  <2>2. To(cars[c].path[i]) \in Nodes
    BY <2>1, MapTypes
  <2>3. est[cars[c].path[i]] \notin HardBlocked /\ nst[To(cars[c].path[i])] # "FAULT"
    BY DEF OpenRoute
  <2> QED  BY <1>3, <2>1, <2>2, <2>3 DEF Closes
<1>4. CASE Closes
  <2>1. CASE tPc' \in {"set", "other"}
    BY <2>1 DEF Recalled
  <2>2. CASE /\ SubSetEdge \/ SubSetOther
             /\ sPc' \in {"other", "after"} /\ sEv' = sEv /\ sEv.type \in Lasting
    <3>1. sEv.car = c
      BY <1>0, <2>2 DEF NotTold
    <3> QED  BY <2>2, <3>1 DEF Recalled, Obstructed
  <2> QED  BY <1>4, <2>1, <2>2, ClosingSteps
<1>5. CASE Replanned(c)
  BY <1>0, <1>5, FreshPlan
<1> QED  BY <1>0, <1>2, <1>3, <1>4, <1>5, PathSteps

(* A message in the planner's queue stays there until the planner takes it.   *)
LEMMA TaskQKeeps ==
  ASSUME TypeInv, Next
  PROVE  \A i \in 1..Len(taskQ) :
           \/ PlannerReceive /\ pMsg' = taskQ[i].msg /\ pPc' = "map"
           \/ \E j \in 1..Len(taskQ') : taskQ'[j] = taskQ[i]
<1>0. taskQ \in QueueOf(TaskMsg, TaskCap) /\ TaskCap \in Nat
  BY TaskQMoves
<1>1. CASE taskQ' = taskQ
  BY <1>1
<1>2. CASE PlannerReceive
  <2>1. taskQ # <<>> /\ taskQ' = Tail(taskQ) /\ pMsg' = First(taskQ) /\ pPc' = "map"
    BY <1>2 DEF PlannerReceive
  <2>2. \A i \in 1..Len(taskQ) :
          First(taskQ) = taskQ[i].msg \/ \E j \in 1..Len(Tail(taskQ)) : Tail(taskQ)[j] = taskQ[i]
    BY <1>0, <2>1, ReceivedKeeps
  <2> QED  BY <1>2, <2>1, <2>2
<1>3. CASE \E m \in TaskMsg, prio \in {Normal, High} : taskQ' = Send(taskQ, TaskCap, m, prio)
  <2>1. PICK m \in TaskMsg, prio \in {Normal, High} : taskQ' = Send(taskQ, TaskCap, m, prio)
    BY <1>3
  <2>2. LET r == Send(taskQ, TaskCap, m, prio)
        IN \A h \in 1..Len(taskQ) : \E j \in 1..Len(r) : r[j] = taskQ[h]
    BY <1>0, SentKeeps
  <2> QED  BY <2>1, <2>2
<1> QED  BY <1>1, <1>2, <1>3, TaskQMoves

(* A message about c that the planner has to come is not lost.               *)
LEMMA RecallSentStep ==
  ASSUME TypeInv, Next, NEW c \in Cars, RecallSent(c)
  PROVE  RecallSent(c)' \/ Replanning(c)'
<1>1. PICK i \in 1..Len(taskQ) : taskQ[i].msg.car = c /\ taskQ[i].msg.act # "assign"
  BY DEF RecallSent
<1>2. CASE pMsg' = taskQ[i].msg /\ pPc' = "map"
  BY <1>1, <1>2 DEF Replanning
<1>3. CASE \E j \in 1..Len(taskQ') : taskQ'[j] = taskQ[i]
  BY <1>1, <1>3 DEF RecallSent
<1> QED  BY <1>2, <1>3, TaskQKeeps

(* One that is sent arrives in its queue if there is room.                    *)
LEMMA SendsRecall ==
  ASSUME TypeInv, NEW c, NEW m \in TaskMsg, NEW prio \in {Normal, High}, m.car = c, m.act # "assign",
         taskQ' = Send(taskQ, TaskCap, m, prio), ~(Len(taskQ) >= TaskCap)
  PROVE  RecallSent(c)'
<1>1. taskQ \in QueueOf(TaskMsg, TaskCap) /\ TaskCap \in Nat
  BY CapacitiesAssumption DEF TypeInv, TaskQInv
<1>2. LET r == Send(taskQ, TaskCap, m, prio) IN \E j \in 1..Len(r) : r[j] = Entry(m, prio)
  BY <1>1, SentKeeps
<1>3. \E j \in 1..Len(taskQ') : taskQ'[j] = Entry(m, prio)
  BY <1>2
<1>4. Entry(m, prio).msg = m
  BY DEF Entry
<1> QED  BY <1>3, <1>4 DEF RecallSent

(* Who writes the variables of topo.                                         *)
LEMMA TopoMoves ==
  ASSUME TypeInv, Next
  PROVE  UNCHANGED <<tPc, tTodo>> \/ Topo \/ tPc = "idle"
<1>1. CASE Planner \/ PlannerCrash
  BY <1>1 DEF Planner, PlannerRest, PlannerReceive, PlannerReadMap, PlannerPlan, PlannerGiveUp,
              PlannerPause, PlannerRequeue, PlannerCommit, PlannerSendCount, PlannerSendAction,
              PlannerCrash, topoVars
<1>2. CASE Router \/ RouterCrash
  BY <1>2 DEF Router, RouterRest, RouterReceive, RouterRead, RouterSendTurn, RouterStore,
              RouterSendArrived, RouterCrash, topoVars
<1>3. CASE Subscriber
  BY <1>3 DEF Subscriber, SubRest, SubReceiveArrive, SubReceive, SubLocate, SubSetEdge, SubSetOther,
              SubAfter, SubReadPlace, SubStorePlace, topoVars
<1>4. CASE PublishOne \/ Vehicles
  BY <1>4, VehicleFrame DEF PublishOne, OutsideRest, topoVars
<1>5. CASE Client
  BY <1>5 DEF Client, TaskAssign, TaskCancel, TaskRest, TopoAccept, topoVars
<1> QED  BY <1>1, <1>2, <1>3, <1>4, <1>5 DEF Next

(* Topo sends its message, unless the car has no task any more.               *)
LEMMA TopoRecalls ==
  ASSUME TypeInv, EmptyIdle, Next, NEW c \in Cars, ~Outdates(c),
         tPc \in {"set", "other"} \/ (tPc = "send" /\ c \in tTodo)
  PROVE  Recalled(c)' \/ OpenRoute(cars[c])'
<1>1. CASE UNCHANGED <<tPc, tTodo>>
  BY <1>1 DEF Recalled
<1>2. CASE TopoSetEdge \/ TopoSetOther \/ TopoSetNode
  BY <1>2 DEF TopoSetEdge, TopoSetOther, TopoSetNode, Recalled
<1>3. CASE TopoReadCars
  <2>1. /\ tPc' = "send" /\ cars' = cars
        /\ tTodo' = {d \in Cars : cars[d].status \in {"MOVING", "WAIT"}}
    BY <1>3 DEF TopoReadCars, TopoRest
  <2>2. CASE cars[c].status \in {"MOVING", "WAIT"}
    BY <2>1, <2>2 DEF Recalled
  <2>3. CASE cars[c].status \notin {"MOVING", "WAIT"}
    <3>1. cars[c].status \in Statuses
      BY SoundFields DEF TypeInv, CarsInv
    <3>2. cars[c].path = <<>>
      BY <2>3, <3>1 DEF Statuses, EmptyIdle, Emptied
    <3> QED  BY <2>1, <3>2 DEF OpenRoute
  <2> QED  BY <2>2, <2>3
<1>4. CASE TopoSend
  <2>1. tPc = "send" /\ c \in tTodo /\ tPc' = "send"
    BY <1>4 DEF TopoSend
  <2>2. PICK d \in tTodo : /\ taskQ' = Send(taskQ, TaskCap, Replan(d, "normal"), High)
                           /\ Replan(d, "normal") \in TaskMsg /\ tTodo' = tTodo \ {d}
    BY <1>4, NextRecalled
  <2>3. CASE d # c
    BY <2>1, <2>2, <2>3 DEF Recalled
  <2>4. CASE d = c
    <3>1. ~(Len(taskQ) >= TaskCap)
      BY <1>4, <2>1, <2>2, <2>4 DEF Outdates, Dropped
    <3>2. Replan(c, "normal").car = c /\ Replan(c, "normal").act # "assign" /\ High \in {Normal, High}
      BY DEF Replan
    <3> QED  BY <2>2, <2>4, <3>1, <3>2, SendsRecall DEF Recalled
  <2> QED  BY <2>3, <2>4
<1>5. CASE TopoReply
  BY <1>5 DEF TopoReply
<1> QED  BY <1>1, <1>2, <1>3, <1>4, <1>5, TopoMoves DEF Topo

(* The planner finishes what it has begun: it stores a new plan, asks for a    *)
(* cancel in its place, or pauses the car.                                  *)
LEMMA PlannerRecalls ==
  ASSUME TypeInv, PlanFits, UrgentStarts(pubQ), Next, NEW c \in Cars, ~Outdates(c), Replanning(c)
  PROVE  Recalled(c)' \/ OpenRoute(cars[c])' \/ Halted(c)'
<1>0. pMsg \in TaskMsg /\ pMsg.car = c /\ pMsg.act # "assign"
  BY DEF Replanning, TypeInv, PlannerInv
<1>1. CASE UNCHANGED <<pPc, pMsg>>
  BY <1>1 DEF Recalled, Replanning
<1>2. CASE PlannerReadMap \/ PlannerPlan
  BY <1>2 DEF PlannerReadMap, PlannerPlan, Recalled, Replanning
<1>3. CASE PlannerGiveUp
  BY <1>0, <1>3 DEF PlannerGiveUp, Outdates, NoWayBack, Recalled, Replanning
<1>4. CASE PlannerPause
  <2>1. Quieted(c)'
    BY <1>0, <1>4, PauseQuiets DEF Outdates
  <2>2. pPc' = "idle"
    BY <1>4 DEF PlannerPause, PlannerDone
  <2> QED  BY <2>1, <2>2 DEF Halted
<1>5. CASE PlannerRequeue
  <2> DEFINE m == Cancel(c, pMsg.imm)
  <2>1. m \in TaskMsg /\ m.car = c /\ m.act # "assign" /\ High \in {Normal, High}
    <3>1. pMsg.imm \in Strategies
      BY <1>0 DEF TaskMsg
    <3>2. m \in TaskMsg
      BY <3>1, TaskMessages
    <3> QED  BY <3>2 DEF Cancel
  <2>2. taskQ' = Send(taskQ, TaskCap, m, High) /\ ~(Len(taskQ) >= TaskCap)
    BY <1>0, <1>5 DEF PlannerRequeue, Outdates, Dropped
  <2> HIDE DEF m
  <2> QED  BY <2>1, <2>2, SendsRecall DEF Recalled
<1>6. CASE PlannerCommit
  BY <1>0, <1>6, FreshPlan DEF Outdates, Replanned
<1>7. CASE PlannerCrash
  BY <1>0, <1>7 DEF Outdates, Forgotten, Replanning
<1>8. CASE PlannerReceive \/ PlannerSendCount \/ PlannerSendAction
  BY <1>8 DEF PlannerReceive, PlannerSendCount, PlannerSendAction, Replanning
<1> QED  BY <1>1, <1>2, <1>3, <1>4, <1>5, <1>6, <1>7, <1>8, Writers DEF Planner

(* The subscriber asks for a new plan.                                       *)
LEMMA SubRecalls ==
  ASSUME TypeInv, Next, NEW c \in Cars, ~Outdates(c), Obstructed(c)
  PROVE  Recalled(c)'
<1>1. CASE UNCHANGED <<sPc, sEv>>
  BY <1>1 DEF Recalled, Obstructed
<1>2. CASE SubSetOther
  BY <1>2 DEF SubSetOther, Recalled, Obstructed
<1>3. CASE SubAfter
  <2>1. PICK imm \in {"uturn", "uturnNoCross"} :
             taskQ' = Send(taskQ, TaskCap, Replan(sEv.car, imm), Normal)
    BY <1>3 DEF SubAfter, Obstructed, Lasting
  <2> DEFINE m == Replan(c, imm)
  <2>2. m \in TaskMsg /\ m.car = c /\ m.act # "assign" /\ Normal \in {Normal, High}
    <3>1. m \in TaskMsg
      BY TaskMessages DEF Strategies
    <3> QED  BY <3>1 DEF Replan
  <2>3. taskQ' = Send(taskQ, TaskCap, m, Normal) /\ ~(Len(taskQ) >= TaskCap)
    BY <1>3, <2>1 DEF Obstructed, Outdates, Dropped
  <2> HIDE DEF m
  <2> QED  BY <2>2, <2>3, SendsRecall DEF Recalled
<1>4. CASE Subscriber /\ ~SubSetOther /\ ~SubAfter
  <2>1. UNCHANGED <<sPc, sEv>>
    BY <1>4 DEF Subscriber, SubReceiveArrive, SubReceive, SubLocate, SubSetEdge, SubReadPlace,
                SubStorePlace, subVars, Obstructed
  <2> QED  BY <2>1, <1>1
<1> QED  BY <1>1, <1>2, <1>3, <1>4, Writers

(* So a car that is recalled stays so until it is planned anew or halted.     *)
LEMMA RecalledStep ==
  ASSUME TypeInv, EmptyIdle, PlanFits, UrgentStarts(pubQ), Next, NEW c \in Cars, Recalled(c), ~Outdates(c)
  PROVE  Recalled(c)' \/ OpenRoute(cars[c])' \/ Halted(c)'
<1>1. CASE tPc \in {"set", "other"} \/ (tPc = "send" /\ c \in tTodo)
  BY <1>1, TopoRecalls
<1>2. CASE RecallSent(c)
  BY <1>2, RecallSentStep DEF Recalled
<1>3. CASE Replanning(c)
  BY <1>3, PlannerRecalls
<1>4. CASE Obstructed(c)
  BY <1>4, SubRecalls
<1> QED  BY <1>1, <1>2, <1>3, <1>4 DEF Recalled

(* A halted car stays so until it is planned anew.                            *)
LEMMA HaltedStep ==
  ASSUME TypeInv, PlanFits, Next, NEW c \in Cars, Halted(c), ~Outdates(c)
  PROVE  Halted(c)' \/ OpenRoute(cars[c])'
<1> SUFFICES ASSUME ~Replanned(c) PROVE Halted(c)'
  BY FreshPlan DEF Outdates
<1>1. ~PauseLost(c) /\ ~SetsOff(c)
  BY DEF Outdates
<1>2. ~Restarts(c)
  BY DEF Restarts, PlannerSendAction, Halted
<1>3. Quieted(c)'
  BY <1>1, <1>2, QuietedStep DEF Halted
<1>4. ~(pPc' \in {"count", "action"} /\ pMsg'.car = c)
  <2>1. CASE UNCHANGED <<pPc, pMsg>>
    BY <2>1 DEF Halted
  <2>2. CASE PlannerCommit
    BY <2>2 DEF PlannerCommit, Replanned
  <2>3. CASE PlannerSendCount
    BY <2>3 DEF PlannerSendCount, Halted
  <2>4. CASE (Planner \/ PlannerCrash) /\ ~PlannerCommit /\ ~PlannerSendCount
    <3>1. pPc' \notin {"count", "action"}
      BY <2>4 DEF Planner, PlannerReceive, PlannerReadMap, PlannerPlan, PlannerGiveUp, PlannerPause,
                  PlannerRequeue, PlannerSendAction, PlannerCrash, PlannerDone
    <3> QED  BY <3>1
  <2> QED  BY <2>1, <2>2, <2>3, <2>4, Writers
<1> QED  BY <1>3, <1>4 DEF Halted

-----------------------------------------------------------------------------
(* Every car that is not noted as outdated has an open route, will be planned *)
(* anew, or has been halted.                                               *)
SeenInv == TypeInv /\ EmptyIdle /\ PlanFits /\ UrgentStarts(pubQ) /\ \A c \in Cars : Seen(c)

(* It holds at first, when no car has a path,                                *)
LEMMA SeenInit == OverlapInit => SeenInv
<1> SUFFICES ASSUME OverlapInit PROVE SeenInv
  OBVIOUS
<1>1. TypeInv
  BY TypeInit DEF OverlapInit
<1>2. \A c \in Cars : cars[c] = HomeCar(c) /\ HomeCar(c).path = <<>>
  BY DEF OverlapInit, Init, HomeCar
<1>3. EmptyIdle
  BY <1>2 DEF EmptyIdle, Emptied, OverlapInit, Init
<1>4. pubQ = <<>> /\ Len(pubQ) = 0
  BY DEF OverlapInit, Init
<1>5. UrgentStarts(pubQ)
  BY <1>4 DEF UrgentStarts
<1>6. \A c \in Cars : OpenRoute(cars[c])
  BY <1>2 DEF OpenRoute
<1>7. PlanFits
  BY DEF PlanFits, OverlapInit, Init
<1> QED  BY <1>1, <1>3, <1>5, <1>6, <1>7 DEF SeenInv, Seen

(* and every step keeps it.                                                  *)
LEMMA SeenStep == SeenInv /\ [OverlapNext]_overlaps => SeenInv'
<1> SUFFICES ASSUME SeenInv, [OverlapNext]_overlaps PROVE SeenInv'
  OBVIOUS
<1>0. TypeInv /\ EmptyIdle /\ PlanFits /\ UrgentStarts(pubQ) /\ \A c \in Cars : Seen(c)
  BY DEF SeenInv
<1>1. CASE UNCHANGED overlaps
  <2>1. /\ UNCHANGED <<est, nst, cars, taskQ, pubQ, pPc, pMsg, pMap, pCar, rPc, rCar, sPc, sEv, sCar>>
        /\ UNCHANGED <<tPc, tTodo, drive, outdated>>
    BY <1>1 DEF overlaps, vars, shm, queues, plannerVars, routerVars, subVars, topoVars, outside
  <2>2. TypeInv'
    BY <1>0, <1>1, TypeStep DEF overlaps
  <2>3. EmptyIdle' /\ PlanFits' /\ UrgentStarts(pubQ)'
    BY <1>0, <2>1 DEF EmptyIdle, Emptied, PlanFits, UrgentStarts
  <2>4. ASSUME NEW c \in Cars PROVE Seen(c)'
    <3>1. Seen(c)
      BY <1>0
    <3>2. OpenRoute(cars[c]) => OpenRoute(cars[c])'
      BY <2>1 DEF OpenRoute
    <3>3. Recalled(c) => Recalled(c)'
      BY <2>1 DEF Recalled, RecallSent, Replanning, Obstructed
    <3>4. Halted(c) => Halted(c)'
      BY <2>1 DEF Halted, Quieted, SilentBehind, Pause
    <3> QED  BY <2>1, <3>1, <3>2, <3>3, <3>4 DEF Seen
  <2> QED  BY <2>2, <2>3, <2>4 DEF SeenInv
<1>2. CASE OverlapNext
  <2>0. Next /\ NoteOutdated
    BY <1>2 DEF OverlapNext
  <2>1. TypeInv' /\ EmptyIdle' /\ PlanFits' /\ UrgentStarts(pubQ)'
    BY <1>0, <2>0, TypeStep, EmptyIdleStep, PlanFitsStep, UrgentStep
  <2>2. ASSUME NEW c \in Cars PROVE Seen(c)'
    <3>1. CASE OpenRoute(cars[c])'
      BY <3>1 DEF Seen
    <3>2. CASE ~OpenRoute(cars[c])' /\ Outdates(c)
      BY <2>0, <3>2 DEF NoteOutdated, Seen
    <3>3. CASE ~OpenRoute(cars[c])' /\ c \in outdated /\ ~ToldOfAll(c)
      BY <2>0, <3>3 DEF NoteOutdated, Seen
    <3>4. CASE ToldOfAll(c)
      BY <3>4 DEF ToldOfAll, TopoReadCars, Recalled, Seen
    <3>5. CASE ~Outdates(c) /\ OpenRoute(cars[c])
      BY <1>0, <2>0, <3>5, OpenStep DEF Seen
    <3>6. CASE ~Outdates(c) /\ Recalled(c)
      BY <1>0, <2>0, <3>6, RecalledStep DEF Seen
    <3>7. CASE ~Outdates(c) /\ Halted(c)
      BY <1>0, <2>0, <3>7, HaltedStep DEF Seen
    <3> QED  BY <1>0, <3>1, <3>2, <3>3, <3>4, <3>5, <3>6, <3>7 DEF Seen
  <2> QED  BY <2>1, <2>2 DEF SeenInv
<1> QED  BY <1>1, <1>2

(* Overlapping requests and events, full queues, losses and restarts outdate  *)
(* the plan of a car only in the ways that HostOverlaps names; in any other   *)
(* case a ban or a lasting obstacle ends in a new plan or a pause (Topo.cpp    *)
(* trigger_replan_all, planner.h handle_task, mqtt_subscriber.cpp).         *)
THEOREM OnlyOverlapsOutdate == OverlapSpec => []ClosedRoadsNoted
<1>1. SeenInv => ClosedRoadsNoted
  <2> SUFFICES ASSUME SeenInv, Quiet, NEW c \in Cars \ outdated, UnderWay(c)
               PROVE  KeepsToOpenRoads(c)
    BY DEF ClosedRoadsNoted
  <2>1. c \in Cars /\ Seen(c)
    BY DEF SeenInv
  <2>2. ~Recalled(c)
    <3>1. Len(taskQ) = 0
      BY DEF Quiet
    <3> QED  BY <3>1 DEF Quiet, Recalled, RecallSent, Replanning, Obstructed
  <2>3. ~Halted(c)
    BY <2>1, QuietedStands DEF Halted, UnderWay, Still
  <2>4. OpenRoute(cars[c])
    BY <2>1, <2>2, <2>3 DEF Seen
  <2> QED  BY <2>4 DEF KeepsToOpenRoads, Remaining, OpenRoute
<1> QED  BY <1>1, SeenInit, SeenStep, PTL DEF OverlapSpec

-----------------------------------------------------------------------------
AskedType == asked \in [Cars -> {"none", "assign", "cancel"}]

(* The last request for a car is a cancel only if it was one before or is now.*)
LEMMA AskedSteps ==
  ASSUME TypeInv, AskedType, Next
  PROVE  /\ AskedType'
         /\ \A c \in Cars : asked'[c] = "cancel" =>
              /\ asked[c] = "cancel" \/ TaskCancel(c)
              /\ \A t \in Targets : ~TaskAssign(c, t)
<1>2. CASE Client
  <2>1. ASSUME NEW d \in Cars, NEW t \in Targets, TaskAssign(d, t)
        PROVE  /\ AskedType'
               /\ \A c \in Cars : asked'[c] = "cancel" => asked[c] = "cancel"
               /\ asked'[d] = "assign"
    BY <2>1 DEF TaskAssign, AskedType
  <2>2. ASSUME NEW d \in Cancels, TaskCancel(d)
        PROVE  /\ AskedType'
               /\ \A c \in Cars : asked'[c] = "cancel" => asked[c] = "cancel" \/ TaskCancel(c)
    <3>1. asked' = [asked EXCEPT ![d] = "cancel"] /\ d \in Cars
      BY <2>2, TargetsAssumption DEF TaskCancel
    <3>2. \A c \in Cars : asked'[c] = "cancel" => asked[c] = "cancel" \/ c = d
      BY <3>1 DEF AskedType
    <3>3. AskedType'
      BY <3>1 DEF AskedType
    <3> QED  BY <2>2, <3>2, <3>3 DEF TaskCancel
  <2>3. ASSUME NEW req \in TopoRequests, TopoAccept(req)
        PROVE  AskedType' /\ asked' = asked
    BY <2>3 DEF TopoAccept, TopoRest, AskedType
  <2>4. \A c \in Cars, t \in Targets : TaskAssign(c, t) => asked'[c] = "assign"
    BY DEF TaskAssign, AskedType
  <2> QED  BY <2>1, <2>2, <2>3, <2>4, <1>2 DEF Client
<1>4. \A c \in Cars, t \in Targets : TaskAssign(c, t) => asked'[c] = "assign"
  BY DEF TaskAssign, AskedType
<1>5. CASE asked' = asked
  BY <1>4, <1>5 DEF AskedType
<1> QED  BY <1>2, <1>5, Writers

-----------------------------------------------------------------------------
(* The plan for a cancel and the record of a task that has ended lead back to  *)
(* where the task began,                                                   *)
Homeward ==
  /\ pPc = "commit" /\ pMsg.act = "cancel" => Back(pCar)
  /\ rPc = "store" /\ rTurn = "ARRIVED" => Back(rCar)

(* since the planner makes that the target of a cancel.                      *)
LEMMA PlannedBack ==
  ASSUME NEW car \in CarRecord, NEW p, pMsg.act = "cancel"
  PROVE  Back(Planned(car, p))
<1> DEFINE s == PlannerStart(car)
           t == PlannerTarget(car)
           l == IF pMsg.imm = "uturnNoCross" THEN car.cur ELSE car.last
<1>1. Planned(car, p) = [car EXCEPT !.last = l, !.cur = s, !.tgt = t, !.path = p, !.status = "MOVING"]
  BY DEF Planned
<1>2. t = car.start
  BY DEF PlannerTarget
<1> HIDE DEF s, t, l
<1> QED  BY <1>1, <1>2 DEF CarRecord, Back

(* Every step keeps it.                                                      *)
LEMMA HomewardStep ==
  ASSUME TypeInv, Homeward, Next
  PROVE  Homeward'
<1>1. pPc' = "commit" /\ pMsg'.act = "cancel" => Back(pCar')
  <2>1. CASE UNCHANGED <<pPc, pMsg, pCar>>
    BY <2>1 DEF Homeward
  <2>2. CASE PlannerPlan
    <3>1. cars[pMsg.car] \in CarRecord
      BY <2>2, SoundFields DEF PlannerPlan, TypeInv, PlannerInv, CarsInv, TaskMsg
    <3>2. pMsg' = pMsg /\ \E p : pCar' = Planned(cars[pMsg.car], p)
      BY <2>2 DEF PlannerPlan
    <3> QED  BY <3>1, <3>2, PlannedBack
  <2>3. CASE (Planner \/ PlannerCrash) /\ ~PlannerPlan
    <3>1. pPc' # "commit"
      BY <2>3 DEF Planner, PlannerReceive, PlannerReadMap, PlannerGiveUp, PlannerPause, PlannerRequeue,
                  PlannerCommit, PlannerSendCount, PlannerSendAction, PlannerCrash, PlannerDone
    <3> QED  BY <3>1
  <2> QED  BY <2>1, <2>2, <2>3, Writers
<1>2. rPc' = "store" /\ rTurn' = "ARRIVED" => Back(rCar')
  <2>1. CASE UNCHANGED <<rPc, rTurn, rCar>>
    BY <2>1 DEF Homeward
  <2>2. CASE RouterRead
    <3>1. rId \in Cars /\ cars[rId] \in SoundCar
      BY <2>2 DEF RouterRead, TypeInv, RouterInv, CarsInv
    <3> DEFINE car == cars[rId]
    <3>2. CASE car.cur = car.tgt
      <4>1. rCar' = [car EXCEPT !.status = "IDLE", !.path = <<>>, !.start = car.cur]
        BY <2>2, <3>2 DEF RouterRead
      <4>2. car \in CarRecord
        BY <3>1, SoundFields
      <4> HIDE DEF car
      <4>3. rCar'.start = car.cur /\ rCar'.tgt = car.tgt
        BY <4>1, <4>2 DEF CarRecord
      <4> QED  BY <3>2, <4>3 DEF Back
    <3>3. CASE car.cur # car.tgt
      <4>1. rPc' # "store"
        BY <2>2, <3>3 DEF RouterRead, RouterDone
      <4> QED  BY <4>1
    <3> QED  BY <3>2, <3>3
  <2>3. CASE RouterSendTurn
    <3>1. rTurn' = rTurn /\ rTurn \in Turns
      BY <2>3 DEF RouterSendTurn, TypeInv, RouterInv
    <3> QED  BY <3>1 DEF Turns
  <2>4. CASE (Router \/ RouterCrash) /\ ~RouterRead /\ ~RouterSendTurn
    <3>1. rPc' # "store"
      BY <2>4 DEF Router, RouterReceive, RouterStore, RouterSendArrived, RouterCrash, RouterDone
    <3> QED  BY <3>1
  <2> QED  BY <2>1, <2>2, <2>3, <2>4, Writers
<1> QED  BY <1>1, <1>2 DEF Homeward

-----------------------------------------------------------------------------
(* Nothing will set c off on a task that its last cancel does not end: no      *)
(* assignment waits, and behind one in hand the cancel waits.                *)
CancelSent(c) == \E i \in 1..Len(taskQ) : taskQ[i].msg = Cancel(c, "normal")
Unclaimed(c) ==
  /\ \A i \in 1..Len(taskQ) : taskQ[i].msg.car = c => taskQ[i].msg.act # "assign"
  /\ pPc # "idle" /\ pMsg.car = c /\ pMsg.act = "assign" => CancelSent(c)

(* Only a client adds an assignment.                                         *)
LEMMA TaskQAdds ==
  ASSUME TypeInv, Next
  PROVE  \A i \in 1..Len(taskQ') :
           \/ \E j \in 1..Len(taskQ) : taskQ'[i] = taskQ[j]
           \/ taskQ'[i].msg.act = "assign" => \E t \in Targets : TaskAssign(taskQ'[i].msg.car, t)
<1>0. taskQ \in QueueOf(TaskMsg, TaskCap) /\ TaskCap \in Nat
  BY TaskQMoves
<1>1. CASE taskQ' = taskQ
  BY <1>1
<1>2. CASE PlannerReceive
  <2>1. taskQ # <<>> /\ taskQ' = Tail(taskQ)
    BY <1>2 DEF PlannerReceive
  <2>2. \A i \in 1..Len(Tail(taskQ)) : i + 1 \in 1..Len(taskQ) /\ Tail(taskQ)[i] = taskQ[i + 1]
    BY <1>0, <2>1, Received
  <2> QED  BY <2>1, <2>2
<1>3. ASSUME NEW m \in TaskMsg, NEW prio \in {Normal, High}, taskQ' = Send(taskQ, TaskCap, m, prio),
             m.act = "assign" => \E t \in Targets : TaskAssign(m.car, t)
      PROVE  \A i \in 1..Len(taskQ') :
               \/ \E j \in 1..Len(taskQ) : taskQ'[i] = taskQ[j]
               \/ taskQ'[i].msg.act = "assign"
                    => \E t \in Targets : TaskAssign(taskQ'[i].msg.car, t)
  <2>1. LET r == Send(taskQ, TaskCap, m, prio)
        IN \A i \in 1..Len(r) : r[i].msg = m \/ \E j \in 1..Len(taskQ) : r[i] = taskQ[j]
    BY <1>0, Sent
  <2>2. \A i \in 1..Len(taskQ') : taskQ'[i].msg = m \/ \E j \in 1..Len(taskQ) : taskQ'[i] = taskQ[j]
    BY <1>3, <2>1
  <2> QED  BY <1>3, <2>2
<1> QED  BY <1>1, <1>2, <1>3, TaskQMoves

(* What is not claimed stays so until a client asks for it.                   *)
LEMMA UnclaimedStep ==
  ASSUME TypeInv, Next, NEW c \in Cars, Unclaimed(c), \A t \in Targets : ~TaskAssign(c, t)
  PROVE  Unclaimed(c)'
<1>1. \A i \in 1..Len(taskQ') : taskQ'[i].msg.car = c => taskQ'[i].msg.act # "assign"
  <2> SUFFICES ASSUME NEW i \in 1..Len(taskQ'), taskQ'[i].msg.car = c
               PROVE  taskQ'[i].msg.act # "assign"
    OBVIOUS
  <2>1. CASE \E j \in 1..Len(taskQ) : taskQ'[i] = taskQ[j]
    BY <2>1 DEF Unclaimed
  <2>2. CASE taskQ'[i].msg.act = "assign" => \E t \in Targets : TaskAssign(taskQ'[i].msg.car, t)
    BY <2>2
  <2> QED  BY <2>1, <2>2, TaskQAdds
<1>2. ASSUME pPc' # "idle", pMsg'.car = c, pMsg'.act = "assign"
      PROVE  CancelSent(c)'
  <2>1. CASE PlannerReceive
    <3>1. taskQ # <<>> /\ pMsg' = First(taskQ)
      BY <2>1 DEF PlannerReceive
    <3>2. taskQ \in QueueOf(TaskMsg, TaskCap) /\ TaskCap \in Nat
      BY TaskQMoves
    <3>3. 1 \in 1..Len(taskQ) /\ First(taskQ) = taskQ[1].msg
      BY <3>1, <3>2, Received
    <3> QED  BY <1>2, <3>1, <3>3 DEF Unclaimed
  <2>2. CASE ~PlannerReceive
    <3>1. pPc # "idle" /\ pMsg' = pMsg
      <4>1. CASE Planner \/ PlannerCrash
        BY <1>2, <2>2, <4>1 DEF Planner, PlannerReadMap, PlannerPlan, PlannerGiveUp, PlannerPause,
              PlannerRequeue, PlannerCommit, PlannerSendCount, PlannerSendAction, PlannerCrash,
              PlannerDone
      <4>2. CASE UNCHANGED <<pPc, pMsg, pCar>>
        BY <1>2, <4>2
      <4> QED  BY <4>1, <4>2, Writers
    <3>2. PICK i \in 1..Len(taskQ) : taskQ[i].msg = Cancel(c, "normal")
      BY <1>2, <3>1 DEF Unclaimed, CancelSent
    <3>3. \E j \in 1..Len(taskQ') : taskQ'[j] = taskQ[i]
      BY <2>2, TaskQKeeps
    <3> QED  BY <3>2, <3>3 DEF CancelSent
  <2> QED  BY <2>1, <2>2
<1> QED  BY <1>1, <1>2 DEF Unclaimed

(* A cancel that finds room and no assignment before it ends every claim.      *)
LEMMA CancelClaims ==
  ASSUME TypeInv, Next, NEW c \in Cars, TaskCancel(c), ~Overtakes(c)
  PROVE  Unclaimed(c)' /\ CancelDue(c)'
<1>0. /\ taskQ \in QueueOf(TaskMsg, TaskCap) /\ TaskCap \in Nat
      /\ Cancel(c, "normal") \in TaskMsg /\ High \in {Normal, High}
  BY TaskQMoves, TaskMessages DEF Strategies
<1>1. /\ taskQ' = Send(taskQ, TaskCap, Cancel(c, "normal"), High) /\ ~(Len(taskQ) >= TaskCap)
      /\ \A i \in 1..Len(taskQ) : taskQ[i].msg.car = c => taskQ[i].msg.act # "assign"
  BY DEF TaskCancel, Overtakes
<1>2. Entry(Cancel(c, "normal"), High).msg = Cancel(c, "normal") /\ Cancel(c, "normal").act # "assign"
  BY DEF Entry, Cancel
<1> DEFINE m == Cancel(c, "normal")
<1> HIDE DEF m
<1>3. LET r == Send(taskQ, TaskCap, m, High)
      IN /\ \A h \in 1..Len(taskQ) : \E j \in 1..Len(r) : r[j] = taskQ[h]
         /\ ~(Len(taskQ) >= TaskCap) => \E j \in 1..Len(r) : r[j] = Entry(m, High)
  BY <1>0, SentKeeps DEF m
<1>4. LET r == Send(taskQ, TaskCap, m, High)
      IN \A i \in 1..Len(r) : r[i].msg = m \/ \E j \in 1..Len(taskQ) : r[i] = taskQ[j]
  BY <1>0, Sent DEF m
<1>5. CancelSent(c)'
  <2>1. \E j \in 1..Len(taskQ') : taskQ'[j] = Entry(m, High)
    BY <1>1, <1>3 DEF m
  <2> QED  BY <2>1, <1>2 DEF CancelSent, m
<1>6. \A i \in 1..Len(taskQ') : taskQ'[i].msg.car = c => taskQ'[i].msg.act # "assign"
  <2>1. \A i \in 1..Len(taskQ') : taskQ'[i].msg = m \/ \E j \in 1..Len(taskQ) : taskQ'[i] = taskQ[j]
    BY <1>1, <1>4 DEF m
  <2> QED  BY <2>1, <1>1, <1>2 DEF m
<1> QED  BY <1>5, <1>6 DEF Unclaimed, CancelDue, CancelSent

(* The planner deals with a cancel: it stores a plan that leads back, or       *)
(* pauses the car.                                                         *)
LEMMA CancelDueStep ==
  ASSUME TypeInv, Homeward, UrgentStarts(pubQ), Next, NEW c \in Cars, CancelDue(c),
         ~(Forgotten(c) /\ pMsg.act = "cancel"), ~(PauseLost(c) /\ ~Back(cars[c]))
  PROVE  CancelDue(c)' \/ Back(cars'[c]) \/ Quieted(c)'
<1>1. CASE CancelSent(c)
  <2>1. PICK i \in 1..Len(taskQ) : taskQ[i].msg = Cancel(c, "normal")
    BY <1>1 DEF CancelSent
  <2>2. CASE pMsg' = taskQ[i].msg /\ pPc' = "map"
    BY <2>1, <2>2 DEF CancelDue, Cancel
  <2>3. CASE \E j \in 1..Len(taskQ') : taskQ'[j] = taskQ[i]
    BY <2>1, <2>3 DEF CancelDue, Cancel
  <2> QED  BY <2>2, <2>3, TaskQKeeps
<1>2. CASE pPc \in {"map", "plan", "pause", "commit"} /\ pMsg = Cancel(c, "normal")
  <2>0. pMsg.act = "cancel" /\ pMsg.car = c /\ pMsg.imm = "normal"
    BY <1>2 DEF Cancel
  <2>1. CASE UNCHANGED <<pPc, pMsg>>
    BY <1>2, <2>1 DEF CancelDue, Cancel
  <2>2. CASE PlannerReadMap \/ PlannerPlan
    BY <1>2, <2>2 DEF PlannerReadMap, PlannerPlan, CancelDue, Cancel
  <2>3. CASE PlannerGiveUp
    BY <1>2, <2>0, <2>3 DEF PlannerGiveUp, CanStart, CancelDue, Cancel
  <2>4. CASE PlannerPause
    <3>1. CASE PauseLost(c)
      <4>1. cars' = cars
        BY <2>4 DEF PlannerPause
      <4> QED  BY <3>1, <4>1
    <3>2. CASE ~PauseLost(c)
      BY <2>0, <2>4, <3>2, PauseQuiets
    <3> QED  BY <3>1, <3>2
  <2>5. CASE PlannerCommit
    <3>1. cars' = [cars EXCEPT ![c] = pCar] /\ Back(pCar)
      BY <2>0, <2>5 DEF PlannerCommit, Homeward
    <3>2. cars'[c] = pCar
      BY <3>1 DEF TypeInv, CarsInv
    <3> QED  BY <3>1, <3>2
  <2>6. CASE PlannerCrash
    BY <1>2, <2>0, <2>6 DEF Forgotten
  <2>7. CASE PlannerReceive \/ PlannerRequeue \/ PlannerSendCount \/ PlannerSendAction
    BY <1>2, <2>7 DEF PlannerReceive, PlannerRequeue, PlannerSendCount, PlannerSendAction
  <2> QED  BY <2>1, <2>2, <2>3, <2>4, <2>5, <2>6, <2>7, Writers DEF Planner
<1> QED  BY <1>1, <1>2 DEF CancelDue, CancelSent

(* A record of another task is not stored, so a car on its way back stays so.  *)
LEMMA BackStep ==
  ASSUME TypeInv, Homeward, Next, NEW c \in Cars, Unclaimed(c), ~CancelDue(c), Back(cars[c]),
         ~OldTask(c)
  PROVE  Back(cars'[c])
<1>0. cars \in [Cars -> SoundCar] /\ (\A d \in Cars : cars[d] \in CarRecord)
  BY DEF TypeInv, CarsInv, SoundCar
<1>1. CASE cars'[c] = cars[c]
  BY <1>1
<1>2. ASSUME NEW car, cars'[c] = car, TaskOf(car) = TaskOf(cars[c]) PROVE Back(cars'[c])
  BY <1>2 DEF TaskOf, Back
<1>3. CASE PlannerCommit /\ pMsg.car = c
  <2>1. cars'[c] = pCar /\ pMsg.act \in {"assign", "cancel", "replan"} /\ pPc = "commit"
    BY <1>0, <1>3 DEF PlannerCommit, TypeInv, PlannerInv, TaskMsg
  <2>2. CASE pMsg.act = "assign"
    BY <1>3, <2>1, <2>2 DEF Unclaimed, CancelSent, CancelDue
  <2>3. CASE pMsg.act = "cancel"
    BY <2>1, <2>3 DEF Homeward
  <2>4. CASE pMsg.act = "replan"
    BY <1>2, <1>3, <2>1, <2>4 DEF OldTask
  <2> QED  BY <2>1, <2>2, <2>3, <2>4
<1>4. CASE RouterStore /\ rId = c
  <2>1. cars'[c] = rCar /\ rPc = "store"
    BY <1>0, <1>4 DEF RouterStore
  <2> QED  BY <1>2, <1>4, <2>1 DEF OldTask, Homeward
<1>5. CASE SubStorePlace /\ sEv.car = c
  <2>1. cars'[c] = sCar
    BY <1>0, <1>5 DEF SubStorePlace
  <2> QED  BY <1>2, <1>5, <2>1 DEF OldTask
<1>6. CASE SubAfter
  <2>1. ASSUME NEW s, cars' = [cars EXCEPT ![sEv.car].status = s]
        PROVE  Back(cars'[c])
    <3>1. cars'[c] = cars[c] \/ cars'[c] = [cars[c] EXCEPT !.status = s]
      BY <2>1, <1>0
    <3>2. Back([cars[c] EXCEPT !.status = s])
      BY <1>0 DEF CarRecord, Back
    <3> QED  BY <3>1, <3>2
  <2> QED  BY <1>6, <2>1, SubAfterCars
<1>7. CASE PlannerCommit /\ pMsg.car # c
  BY <1>0, <1>7, <1>1 DEF PlannerCommit
<1>8. CASE RouterStore /\ rId # c
  BY <1>0, <1>8, <1>1 DEF RouterStore
<1>9. CASE SubStorePlace /\ sEv.car # c
  BY <1>0, <1>9, <1>1 DEF SubStorePlace
<1> QED  BY <1>1, <1>3, <1>4, <1>5, <1>6, <1>7, <1>8, <1>9, Writers

-----------------------------------------------------------------------------
(* For every car whose last request is a cancel, and that is not noted as      *)
(* defying it, the planner has yet to deal with the cancel, or it goes back, *)
(* or it has been paused.                                                  *)
Honoured(c) ==
  asked[c] = "cancel" /\ c \notin defied =>
    Unclaimed(c) /\ (CancelDue(c) \/ Back(cars[c]) \/ Quieted(c))
HonouredInv ==
  /\ TypeInv /\ UrgentStarts(pubQ) /\ Homeward /\ AskedType
  /\ \A c \in Cars : Honoured(c)

(* It holds at first, when nothing is asked,                                 *)
LEMMA HonouredInit == OverlapInit => HonouredInv
<1> SUFFICES ASSUME OverlapInit PROVE HonouredInv
  OBVIOUS
<1>1. TypeInv
  BY TypeInit DEF OverlapInit
<1>2. Homeward /\ AskedType /\ \A c \in Cars : Honoured(c)
  BY DEF OverlapInit, Init, Homeward, AskedType, Honoured
<1>3. pubQ = <<>> /\ Len(pubQ) = 0
  BY DEF OverlapInit, Init
<1>4. UrgentStarts(pubQ)
  BY <1>3 DEF UrgentStarts
<1> QED  BY <1>1, <1>2, <1>4 DEF HonouredInv

(* and every step keeps it.                                                  *)
LEMMA HonouredStep == HonouredInv /\ [OverlapNext]_overlaps => HonouredInv'
<1> SUFFICES ASSUME HonouredInv, [OverlapNext]_overlaps PROVE HonouredInv'
  OBVIOUS
<1>0. TypeInv /\ UrgentStarts(pubQ) /\ Homeward /\ AskedType /\ \A c \in Cars : Honoured(c)
  BY DEF HonouredInv
<1>1. CASE UNCHANGED overlaps
  <2>1. /\ UNCHANGED <<cars, taskQ, pubQ, pPc, pMsg, pCar, rPc, rCar, rTurn>>
        /\ UNCHANGED <<drive, asked, defied>>
    BY <1>1 DEF overlaps, vars, shm, queues, plannerVars, routerVars, outside
  <2>2. TypeInv'
    BY <1>0, <1>1, TypeStep DEF overlaps
  <2>3. Homeward' /\ UrgentStarts(pubQ)' /\ AskedType'
    BY <1>0, <2>1 DEF Homeward, UrgentStarts, AskedType
  <2>4. ASSUME NEW c \in Cars PROVE Honoured(c)'
    <3>1. Honoured(c)
      BY <1>0
    <3>2. (Unclaimed(c) => Unclaimed(c)') /\ (CancelDue(c) => CancelDue(c)')
      BY <2>1 DEF Unclaimed, CancelSent, CancelDue, Cancel
    <3>3. Quieted(c) => Quieted(c)'
      BY <2>1 DEF Quieted, SilentBehind, Pause
    <3> QED  BY <2>1, <3>1, <3>2, <3>3 DEF Honoured
  <2> QED  BY <2>2, <2>3, <2>4 DEF HonouredInv
<1>2. CASE OverlapNext
  <2>0. Next /\ NoteDefied
    BY <1>2 DEF OverlapNext
  <2>1. TypeInv' /\ UrgentStarts(pubQ)' /\ Homeward' /\ AskedType'
    BY <1>0, <2>0, TypeStep, UrgentStep, HomewardStep, AskedSteps
  <2>2. ASSUME NEW c \in Cars, asked'[c] = "cancel", c \notin defied'
        PROVE  Unclaimed(c)' /\ (CancelDue(c)' \/ Back(cars'[c]) \/ Quieted(c)')
    <3>1. ~Defies(c) /\ (c \notin defied \/ TaskCancel(c))
      BY <2>0, <2>2 DEF NoteDefied
    <3>2. CASE TaskCancel(c)
      <4>1. ~Overtakes(c)
        BY <3>1 DEF Defies
      <4> QED  BY <1>0, <2>0, <3>2, <4>1, CancelClaims
    <3>3. CASE ~TaskCancel(c)
      <4>1. asked[c] = "cancel" /\ \A t \in Targets : ~TaskAssign(c, t)
        BY <1>0, <2>0, <2>2, <3>3, AskedSteps
      <4>2. Unclaimed(c) /\ (CancelDue(c) \/ Back(cars[c]) \/ Quieted(c))
        BY <1>0, <3>1, <3>3, <4>1 DEF Honoured
      <4>3. Unclaimed(c)'
        BY <1>0, <2>0, <4>1, <4>2, UnclaimedStep
      <4>4. CASE CancelDue(c)
        BY <1>0, <2>0, <3>1, <4>3, <4>4, CancelDueStep DEF Defies
      <4>5. CASE ~CancelDue(c) /\ Back(cars[c])
        BY <1>0, <2>0, <3>1, <4>2, <4>3, <4>5, BackStep DEF Defies
      <4>6. CASE ~CancelDue(c) /\ ~Back(cars[c]) /\ Quieted(c)
        <5>1. ~PauseLost(c) /\ ~SetsOff(c) /\ ~StartsAgain(c)
          BY <3>1, <4>6 DEF Defies
        <5>2. ~Restarts(c)
          BY <4>2, <4>6, <5>1 DEF Restarts, StartsAgain, PlannerSendAction, Unclaimed, CancelSent, CancelDue
        <5> QED  BY <1>0, <2>0, <4>3, <4>6, <5>1, <5>2, QuietedStep
      <4> QED  BY <4>2, <4>4, <4>5, <4>6
    <3> QED  BY <3>2, <3>3
  <2> QED  BY <2>1, <2>2 DEF HonouredInv, Honoured
<1> QED  BY <1>1, <1>2

(* A cancel stops a car or sends it back unless it overtakes the assignment,   *)
(* its messages are lost, another process stores the record of an older task, *)
(* or the car is set off again: HostOverlaps names each of these (Task.cpp,   *)
(* planner.h handle_task).                                                *)
THEOREM OnlyOverlapsDefy == OverlapSpec => []CancelsNoted
<1>1. HonouredInv => CancelsNoted
  <2> SUFFICES ASSUME HonouredInv, Quiet, NEW c \in Cars \ defied, asked[c] = "cancel"
               PROVE  CalledOff(c)
    BY DEF CancelsNoted
  <2>1. CancelDue(c) \/ Back(cars[c]) \/ Quieted(c)
    BY DEF HonouredInv, Honoured
  <2>2. ~CancelDue(c)
    <3>1. Len(taskQ) = 0
      BY DEF Quiet
    <3> QED  BY <3>1 DEF Quiet, CancelDue
  <2>3. Quieted(c) => ~UnderWay(c)
    BY QuietedStands DEF UnderWay, Still
  <2> QED  BY <2>1, <2>2, <2>3 DEF CalledOff
<1> QED  BY <1>1, HonouredInit, HonouredStep, PTL DEF OverlapSpec

=============================================================================
