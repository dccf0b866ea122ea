---------------------------- MODULE HostDispatch -----------------------------
(***************************************************************************)
(* How tasks, topology changes and car events travel through the host: the  *)
(* FastCGI programs task and topo, the planner, the router, the MQTT        *)
(* subscriber and the MQTT publisher, which share the map and the car       *)
(* records in shared memory and pass messages over three POSIX queues.      *)
(*                                                                         *)
(* Step size: one access to shared state.  Reading or writing the map or     *)
(* the car records under the seqlock is one step (Seqlock.tla), so is one   *)
(* mq_send or mq_receive; between two steps of a handler any other process  *)
(* may run.  A vehicle is what VehicleCommands makes of it, with the count of *)
(* junctions after which it stops.  Requests that name unknown cars, nodes  *)
(* or edges change nothing and are left out, and so are the statuses FAULT  *)
(* and OFFLINE, which no code assigns to a car.                             *)
(***************************************************************************)
EXTENDS AgvMap, MsgQueue, VehicleCommands

CONSTANTS
  Cars,          \* car ids
  Home,          \* Home[c] = <<back, facing>>: init_car, and the car's POSITION
  Targets,       \* nodes named in assign requests
  Cancels,       \* cars named in cancel requests
  TopoRequests,  \* the ban, access and repair requests
  Events,        \* which car events happen besides ARRIVE
  TaskCap, RouteCap, PubCap,   \* capacities of the three queues
  Calm,          \* does the outside world wait until the host has settled?
  MayLose,       \* may MQTT messages be lost, the publisher be disconnected?
  MaxRequests,   \* bound: HTTP requests in a behaviour
  MaxEvents,     \* bound: events other than ARRIVE in a behaviour
  MaxInbox,      \* bound: events on their way to the subscriber
  MaxCrashes     \* bound: planner and router restarts in a behaviour

ASSUME CarsAssumption == Cars \subseteq Nat \ {0}
ASSUME HomeAssumption ==
  /\ Home \in [Cars -> Nodes \X Nodes]
  /\ \A c \in Cars : EdgeBetween(Home[c][1], Home[c][2]) # {}
ASSUME TargetsAssumption == Targets \subseteq Nodes /\ Cancels \subseteq Cars
ASSUME EventsAssumption ==
  Events \subseteq {"FRUIT", "ANIMAL", "HOLE", "REPAIRED", "POSITION", "AGAIN", "SILENT"}
ASSUME CapacitiesAssumption == TaskCap \in Nat /\ RouteCap \in Nat /\ PubCap \in Nat

Requested == [act : {"ban", "access", "repair"}, edges : Seq(Edges), nodes : Seq(Nodes)]
ASSUME TopoAssumption == TopoRequests \subseteq Requested

VARIABLES
  (* shared memory *)
  est,     \* est[e]: Edge.status
  nst,     \* nst[n]: Node.status
  cars,    \* cars[c]: Car
  (* message queues *)
  taskQ, routeQ, pubQ,
  (* planner: place, message, map snapshot, record to store *)
  pPc, pMsg, pMap, pCar,
  (* router: place, car id, record to store, direction *)
  rPc, rId, rCar, rTurn,
  (* mqtt_subscriber: place, event, edge found, record to store *)
  sPc, sEv, sEdge, sCar,
  (* topo: place, request, what is left of it, cars that still get a replan *)
  tPc, tReq, tLeft, tTodo,
  (* broker and vehicles *)
  inbox,    \* events on their way to the subscriber, in order
  drive,    \* drive[c]: what car c does (VehicleCommands)
  num, count,   \* num[c], count[c]: its roadNum and roadCount
  tmp,      \* tmp[c]: its obs.tempStop
  (* bounds and history *)
  requests, events, crashes,
  asked     \* asked[c]: the last task request for c, as the client knows it

shm == <<est, nst, cars>>
queues == <<taskQ, routeQ, pubQ>>
plannerVars == <<pPc, pMsg, pMap, pCar>>
routerVars == <<rPc, rId, rCar, rTurn>>
subVars == <<sPc, sEv, sEdge, sCar>>
topoVars == <<tPc, tReq, tLeft, tTodo>>
outside == <<inbox, drive, num, count, tmp>>
bounds == <<requests, events, crashes>>
vars == <<shm, queues, plannerVars, routerVars, subVars, topoVars, outside,
          bounds, asked>>

-----------------------------------------------------------------------------
Strategies == {"normal", "imme", "uturn", "uturnNoCross"}

Assign(c, t) == [act |-> "assign", car |-> c, tgt |-> t, imm |-> "imme"]
Cancel(c, imm) == [act |-> "cancel", car |-> c, tgt |-> 0, imm |-> imm]
Replan(c, imm) == [act |-> "replan", car |-> c, tgt |-> 0, imm |-> imm]

(* kind: "CNT", "ACTION" or "ORIENT"; arg: the action or the direction; n:   *)
(* the number of roads.                                                    *)
Command(c, kind, arg) == [car |-> c, kind |-> kind, arg |-> arg, n |-> 0]
CountCommand(c, n) == [car |-> c, kind |-> "CNT", arg |-> "none", n |-> n]
Event(c, type, past) == [car |-> c, type |-> type, past |-> past]

(* init_car                                                                *)
HomeCar(c) == [status |-> "IDLE", cur |-> Home[c][2], last |-> Home[c][1],
               tgt |-> 0, start |-> Home[c][1], path |-> <<>>]

(* The locals of a process that waits for its next message.                 *)
NoMap == [est |-> <<>>, nst |-> <<>>]
NoMsg == [act |-> "none"]
NoEvent == [type |-> "none"]
NoCar == [status |-> "none"]
NothingLeft == [edges |-> <<>>, nodes |-> <<>>]

Init ==
  /\ est = [e \in Edges |-> "IDLE"]
  /\ nst = [n \in Nodes |-> "IDLE"]
  /\ cars = [c \in Cars |-> HomeCar(c)]
  /\ taskQ = <<>> /\ routeQ = <<>> /\ pubQ = <<>>
  /\ pPc = "idle" /\ pMsg = NoMsg /\ pMap = NoMap /\ pCar = NoCar
  /\ rPc = "idle" /\ rId = 0 /\ rCar = NoCar /\ rTurn = "none"
  /\ sPc = "idle" /\ sEv = NoEvent /\ sEdge = 0 /\ sCar = NoCar
  /\ tPc = "idle" /\ tReq = NoMsg /\ tLeft = NothingLeft /\ tTodo = {}
  /\ inbox = <<>>
  /\ drive = [c \in Cars |-> "idle"]
  /\ num = [c \in Cars |-> 0] /\ count = [c \in Cars |-> 0]
  /\ tmp = [c \in Cars |-> FALSE]
  /\ requests = 0 /\ events = 0 /\ crashes = 0
  /\ asked = [c \in Cars |-> "none"]

(* Nothing is left to do for the host.                                     *)
Quiet ==
  /\ taskQ = <<>> /\ routeQ = <<>> /\ pubQ = <<>> /\ inbox = <<>>
  /\ pPc = "idle" /\ rPc = "idle" /\ sPc = "idle" /\ tPc = "idle"

OutsideMayAct == Calm => Quiet

-----------------------------------------------------------------------------
(* task: POST /api/assign and /api/cancel.  The answer is "ok" whatever      *)
(* becomes of the message.                                                 *)
TaskRest == <<shm, routeQ, pubQ, plannerVars, routerVars, subVars, topoVars,
              outside, events, crashes>>

MayRequest == requests < MaxRequests /\ OutsideMayAct

TaskAssign(c, t) ==
  /\ MayRequest
  /\ requests' = requests + 1
  /\ taskQ' = Send(taskQ, TaskCap, Assign(c, t), Normal)
  /\ asked' = [asked EXCEPT ![c] = "assign"]
  /\ UNCHANGED TaskRest

TaskCancel(c) ==
  /\ MayRequest
  /\ requests' = requests + 1
  /\ taskQ' = Send(taskQ, TaskCap, Cancel(c, "normal"), High)
  /\ asked' = [asked EXCEPT ![c] = "cancel"]
  /\ UNCHANGED TaskRest

-----------------------------------------------------------------------------
(* topo: POST /api/ban, /api/access and /api/repair.                        *)
EdgeStatusFor(act) ==
  CASE act = "ban" -> "BLOCKED" [] act = "access" -> "IDLE"
    [] act = "repair" -> "FAULT_REPAIR"

TopoRest == <<cars, routeQ, pubQ, plannerVars, routerVars, subVars, outside,
              events, crashes, asked>>

TopoAccept(req) ==
  /\ tPc = "idle" /\ MayRequest
  /\ requests' = requests + 1
  /\ tReq' = req
  /\ tLeft' = [edges |-> req.edges,
               nodes |-> IF req.act = "repair" THEN <<>> ELSE req.nodes]
  /\ tPc' = "set"
  /\ UNCHANGED <<TopoRest, est, nst, taskQ, tTodo>>

(* The first direction.  The pairs are indexed with the edge id, so only an  *)
(* id up to the number of pairs leads to its reverse; repair never does.    *)
TopoSetEdge ==
  /\ tPc = "set" /\ tLeft.edges # <<>>
  /\ LET e == Head(tLeft.edges)
         both == tReq.act # "repair" /\ e <= Half
     IN /\ est' = [est EXCEPT ![e] = EdgeStatusFor(tReq.act)]
        /\ tPc' = IF both THEN "other" ELSE "set"
        /\ tLeft' = IF both THEN tLeft ELSE [tLeft EXCEPT !.edges = Tail(@)]
  /\ UNCHANGED <<TopoRest, nst, taskQ, tReq, tTodo, requests>>

TopoSetOther ==
  /\ tPc = "other"
  /\ est' = [est EXCEPT ![Other(Head(tLeft.edges))] = EdgeStatusFor(tReq.act)]
  /\ tPc' = "set"
  /\ tLeft' = [tLeft EXCEPT !.edges = Tail(@)]
  /\ UNCHANGED <<TopoRest, nst, taskQ, tReq, tTodo, requests>>

TopoSetNode ==
  /\ tPc = "set" /\ tLeft.edges = <<>> /\ tLeft.nodes # <<>>
  /\ nst' = [nst EXCEPT ![Head(tLeft.nodes)] =
                IF tReq.act = "ban" THEN "FAULT" ELSE "IDLE"]
  /\ tLeft' = [tLeft EXCEPT !.nodes = Tail(@)]
  /\ UNCHANGED <<TopoRest, est, taskQ, tPc, tReq, tTodo, requests>>

(* trigger_replan_all: one snapshot of the cars, then one message for each   *)
(* car under way, in the order of their ids.                               *)
MutTopoReadCars ==
  /\ tPc = "set" /\ tLeft = NothingLeft
  /\ tTodo' = {c \in Cars : cars[c].status = "WAIT"}
  /\ tPc' = "send"
  /\ UNCHANGED <<TopoRest, est, nst, taskQ, tReq, tLeft, requests>>

TopoReadCars ==
  /\ tPc = "set" /\ tLeft = NothingLeft
  /\ tTodo' = {c \in Cars : cars[c].status \in {"MOVING", "WAIT"}}
  /\ tPc' = "send"
  /\ UNCHANGED <<TopoRest, est, nst, taskQ, tReq, tLeft, requests>>

TopoSend ==
  /\ tPc = "send" /\ tTodo # {}
  /\ LET c == CHOOSE d \in tTodo : \A o \in tTodo : d <= o
     IN /\ taskQ' = Send(taskQ, TaskCap, Replan(c, "normal"), High)
        /\ tTodo' = tTodo \ {c}
  /\ UNCHANGED <<TopoRest, est, nst, tPc, tReq, tLeft, requests>>

TopoReply ==
  /\ tPc = "send" /\ tTodo = {}
  /\ tPc' = "idle" /\ tReq' = NoMsg
  /\ UNCHANGED <<TopoRest, est, nst, taskQ, tLeft, tTodo, requests>>

-----------------------------------------------------------------------------
(* planner: one message at a time, handle_task.                             *)
PlannerRest == <<est, nst, routeQ, routerVars, subVars, topoVars, outside,
                 bounds, asked>>

PlannerDone == pPc' = "idle" /\ pMsg' = NoMsg /\ pMap' = NoMap /\ pCar' = NoCar

PlannerReceive ==
  /\ pPc = "idle" /\ taskQ # <<>>
  /\ pMsg' = First(taskQ) /\ taskQ' = Tail(taskQ)
  /\ pPc' = "map"
  /\ UNCHANGED <<PlannerRest, cars, pubQ, pMap, pCar>>

PlannerReadMap ==
  /\ pPc = "map"
  /\ pMap' = [est |-> est, nst |-> nst]
  /\ pPc' = "plan"
  /\ UNCHANGED <<PlannerRest, cars, taskQ, pubQ, pMsg, pCar>>

(* A replan keeps the target, a cancel goes back to where the task began.    *)
MutPlannerTarget(car) == IF pMsg.act = "assign" THEN pMsg.tgt ELSE car.tgt

PlannerTarget(car) ==
  CASE pMsg.act = "assign" -> pMsg.tgt
    [] pMsg.act = "replan" -> car.tgt
    [] pMsg.act = "cancel" -> car.start

(* The roads out of the last node that lead away from the current one: a car *)
(* that turns around on its way drives through the last node into one.     *)
WaysBack(car) ==
  {e \in OutEdges(car.last) : /\ e < EdgeCount
                              /\ To(e) # car.cur
                              /\ pMap.est[e] = "IDLE"
                              /\ Reverses(car.last, car.cur, To(e))}
LatestOf(S) == CHOOSE e \in S : \A d \in S : d <= e

CanStart(car) == pMsg.imm = "uturn" => WaysBack(car) # {}
PlannerStart(car) ==
  CASE pMsg.imm = "uturnNoCross" -> car.last
    [] pMsg.imm = "uturn" -> To(LatestOf(WaysBack(car)))
    [] OTHER -> car.cur

MutPlannedForgetsTarget(car, p) ==
  [car EXCEPT !.last = IF pMsg.imm = "uturnNoCross" THEN car.cur ELSE car.last,
              !.cur = PlannerStart(car), !.tgt = pMsg.tgt,
              !.path = p, !.status = "MOVING"]

MutPlannedKeepsLast(car, p) ==
  [car EXCEPT !.cur = PlannerStart(car), !.tgt = PlannerTarget(car),
              !.path = p, !.status = "MOVING"]

MutPlannedKeepsCurrent(car, p) ==
  [car EXCEPT !.last = IF pMsg.imm = "uturnNoCross" THEN car.cur ELSE car.last,
              !.tgt = PlannerTarget(car), !.path = p, !.status = "MOVING"]

Planned(car, p) ==
  [car EXCEPT !.last = IF pMsg.imm = "uturnNoCross" THEN car.cur ELSE car.last,
              !.cur = PlannerStart(car), !.tgt = PlannerTarget(car),
              !.path = p, !.status = "MOVING"]

PlannerPaths(car) ==
  Routes(pMap.est, pMap.nst, PlannerStart(car), PlannerTarget(car))

PlannerPlan ==
  LET car == cars[pMsg.car]
  IN /\ pPc = "plan" /\ CanStart(car)
     /\ \E p \in PlannerPaths(car) : pCar' = Planned(car, p)
     /\ pPc' = "commit"
     /\ UNCHANGED <<PlannerRest, cars, taskQ, pubQ, pMsg, pMap>>

(* No way: an assignment is dropped, a cancel pauses the car, a replan       *)
(* becomes a cancel.                                                       *)
PlannerGiveUp ==
  LET car == cars[pMsg.car]
  IN /\ pPc = "plan"
     /\ CanStart(car) => PlannerPaths(car) = {}
     /\ IF ~CanStart(car) \/ pMsg.act = "assign"
        THEN PlannerDone
        ELSE /\ pPc' = IF pMsg.act = "cancel" THEN "pause" ELSE "requeue"
             /\ UNCHANGED <<pMsg, pMap, pCar>>
     /\ UNCHANGED <<PlannerRest, cars, taskQ, pubQ>>

PlannerPause ==
  /\ pPc = "pause"
  /\ pubQ' = Send(pubQ, PubCap, Command(pMsg.car, "ACTION", "PAUSE"), High)
  /\ PlannerDone
  /\ UNCHANGED <<PlannerRest, cars, taskQ>>

MutPlannerRequeue ==
  /\ pPc = "requeue"
  /\ taskQ' = Send(taskQ, TaskCap, Replan(pMsg.car, pMsg.imm), High)
  /\ PlannerDone
  /\ UNCHANGED <<PlannerRest, cars, pubQ>>

PlannerRequeue ==
  /\ pPc = "requeue"
  /\ taskQ' = Send(taskQ, TaskCap, Cancel(pMsg.car, pMsg.imm), High)
  /\ PlannerDone
  /\ UNCHANGED <<PlannerRest, cars, pubQ>>

(* The record read in PlannerPlan is stored whole.                          *)
PlannerCommit ==
  /\ pPc = "commit"
  /\ cars' = [cars EXCEPT ![pMsg.car] = pCar]
  /\ pPc' = "count"
  /\ UNCHANGED <<PlannerRest, taskQ, pubQ, pMsg, pMap, pCar>>

PlannerSendCount ==
  /\ pPc = "count"
  /\ pubQ' = Send(pubQ, PubCap, CountCommand(pMsg.car, Len(pCar.path)), High)
  /\ pPc' = "action"
  /\ UNCHANGED <<PlannerRest, cars, taskQ, pMsg, pMap, pCar>>

ActionFor(imm) == IF imm = "imme" THEN "PROCESS" ELSE "UTURN"

PlannerSendAction ==
  /\ pPc = "action"
  /\ pubQ' = IF pMsg.imm = "normal" THEN pubQ
             ELSE Send(pubQ, PubCap,
                       Command(pMsg.car, "ACTION", ActionFor(pMsg.imm)), High)
  /\ PlannerDone
  /\ UNCHANGED <<PlannerRest, cars, taskQ>>

(* The planner is restarted: what it had received is gone.                  *)
PlannerCrash ==
  /\ pPc # "idle" /\ crashes < MaxCrashes
  /\ crashes' = crashes + 1
  /\ PlannerDone
  /\ UNCHANGED <<shm, queues, routerVars, subVars, topoVars, outside, requests,
                 events, asked>>

-----------------------------------------------------------------------------
(* router: an arrival makes the next leg of the path current.               *)
RouterRest == <<est, nst, taskQ, plannerVars, subVars, topoVars, outside,
                bounds, asked>>

RouterDone == rPc' = "idle" /\ rId' = 0 /\ rCar' = NoCar /\ rTurn' = "none"

RouterReceive ==
  /\ rPc = "idle" /\ routeQ # <<>>
  /\ rId' = First(routeQ) /\ routeQ' = Tail(routeQ)
  /\ rPc' = "read"
  /\ UNCHANGED <<RouterRest, cars, pubQ, rCar, rTurn>>

LegsFrom(car) == {i \in 1..Len(car.path) : From(car.path[i]) = car.cur}

MutAdvanced(car) ==
  [car EXCEPT !.last = car.cur, !.cur = From(car.path[LatestOf(LegsFrom(car))])]

Advanced(car) ==
  [car EXCEPT !.last = car.cur, !.cur = To(car.path[LatestOf(LegsFrom(car))])]

RouterRead ==
  LET car == cars[rId]
  IN /\ rPc = "read"
     /\ \/ /\ car.cur = car.tgt
           /\ rCar' = [car EXCEPT !.status = "IDLE", !.path = <<>>, !.start = car.cur]
           /\ rTurn' = "ARRIVED" /\ rPc' = "store" /\ UNCHANGED rId
        \/ /\ car.cur # car.tgt /\ LegsFrom(car) # {}
           /\ rCar' = Advanced(car)
           /\ rTurn' = GenerateTurn(car.last, car.cur, Advanced(car).cur)
           /\ rPc' = "turn" /\ UNCHANGED rId
        \/ /\ car.cur # car.tgt /\ LegsFrom(car) = {}
           /\ RouterDone
     /\ UNCHANGED <<RouterRest, cars, routeQ, pubQ>>

(* The end of a task is stored before it is announced, a turn is announced   *)
(* before it is stored.                                                    *)
RouterSendTurn ==
  /\ rPc = "turn"
  /\ pubQ' = Send(pubQ, PubCap, Command(rId, "ORIENT", rTurn), High)
  /\ rPc' = "store"
  /\ UNCHANGED <<RouterRest, cars, routeQ, rId, rCar, rTurn>>

MutRouterStore ==
  /\ rPc = "store"
  /\ cars' = [cars EXCEPT ![rId] = [rCar EXCEPT !.path = <<>>]]
  /\ IF rTurn = "ARRIVED"
     THEN rPc' = "arrived" /\ UNCHANGED <<rId, rCar, rTurn>>
     ELSE RouterDone
  /\ UNCHANGED <<RouterRest, routeQ, pubQ>>

RouterStore ==
  /\ rPc = "store"
  /\ cars' = [cars EXCEPT ![rId] = rCar]
  /\ IF rTurn = "ARRIVED"
     THEN rPc' = "arrived" /\ UNCHANGED <<rId, rCar, rTurn>>
     ELSE RouterDone
  /\ UNCHANGED <<RouterRest, routeQ, pubQ>>

RouterSendArrived ==
  /\ rPc = "arrived"
  /\ pubQ' = Send(pubQ, PubCap, Command(rId, "ORIENT", "ARRIVED"), Normal)
  /\ RouterDone
  /\ UNCHANGED <<RouterRest, cars, routeQ>>

RouterCrash ==
  /\ rPc # "idle" /\ crashes < MaxCrashes
  /\ crashes' = crashes + 1
  /\ RouterDone
  /\ UNCHANGED <<shm, queues, plannerVars, subVars, topoVars, outside, requests,
                 events, asked>>

-----------------------------------------------------------------------------
(* mqtt_subscriber: on_message and dispatch.                                *)
SubRest == <<nst, pubQ, plannerVars, routerVars, topoVars, drive, num, count, tmp, bounds,
             asked>>

SubDone == sPc' = "idle" /\ sEv' = NoEvent /\ sEdge' = 0 /\ sCar' = NoCar

SubReceiveArrive ==
  /\ sPc = "idle" /\ inbox # <<>> /\ Head(inbox).type = "ARRIVE"
  /\ inbox' = Tail(inbox)
  /\ routeQ' = Send(routeQ, RouteCap, Head(inbox).car, Normal)
  /\ UNCHANGED <<SubRest, est, cars, taskQ, subVars>>

SubReceive ==
  /\ sPc = "idle" /\ inbox # <<>> /\ Head(inbox).type # "ARRIVE"
  /\ inbox' = Tail(inbox)
  /\ sEv' = Head(inbox)
  /\ sPc' = IF Head(inbox).type = "POSITION" THEN "place" ELSE "locate"
  /\ UNCHANGED <<SubRest, est, cars, taskQ, routeQ, sEdge, sCar>>

(* alter_edges_status: the edge the car is believed to be on, both ways.     *)
SubLocate ==
  LET e == EdgeBetween(cars[sEv.car].last, cars[sEv.car].cur)
  IN /\ sPc = "locate"
     /\ IF e = {} THEN sPc' = "after" /\ UNCHANGED sEdge
                  ELSE sPc' = "edge" /\ sEdge' = CHOOSE x \in e : \A y \in e : x <= y
     /\ UNCHANGED <<SubRest, est, cars, taskQ, routeQ, inbox, sEv, sCar>>

(* is_temp knows fruit.                                                     *)
Lasting == {"ANIMAL", "HOLE"}

EdgeStatusAfter(type) ==
  CASE type \in Lasting -> "FAULT_REPAIR" [] type = "FRUIT" -> "FAULT_TEMP"
    [] type = "REPAIRED" -> "IDLE"

SubSetEdge ==
  /\ sPc = "edge"
  /\ est' = [est EXCEPT ![sEdge] = EdgeStatusAfter(sEv.type)]
  /\ sPc' = "other"
  /\ UNCHANGED <<SubRest, cars, taskQ, routeQ, inbox, sEv, sEdge, sCar>>

SubSetOther ==
  /\ sPc = "other"
  /\ est' = [est EXCEPT ![Other(sEdge)] = EdgeStatusAfter(sEv.type)]
  /\ sPc' = "after"
  /\ UNCHANGED <<SubRest, cars, taskQ, routeQ, inbox, sEv, sEdge, sCar>>

(* A lasting obstacle asks for a new plan; a passing one and its end are     *)
(* noted in the car's status.                                              *)
SubAfter ==
  /\ sPc = "after"
  /\ CASE sEv.type \in Lasting ->
            /\ taskQ' = Send(taskQ, TaskCap,
                             Replan(sEv.car, IF sEv.past THEN "uturnNoCross" ELSE "uturn"),
                             Normal)
            /\ UNCHANGED cars
       [] sEv.type = "FRUIT" ->
            cars' = [cars EXCEPT ![sEv.car].status = "WAIT"] /\ UNCHANGED taskQ
       [] sEv.type = "REPAIRED" ->
            cars' = [cars EXCEPT ![sEv.car].status = "MOVING"] /\ UNCHANGED taskQ
  /\ SubDone
  /\ UNCHANGED <<SubRest, est, routeQ, inbox>>

SubReadPlace ==
  /\ sPc = "place"
  /\ sCar' = [cars[sEv.car] EXCEPT !.cur = Home[sEv.car][2], !.last = Home[sEv.car][1],
                                   !.path = <<>>, !.status = "IDLE"]
  /\ sPc' = "store"
  /\ UNCHANGED <<SubRest, est, cars, taskQ, routeQ, inbox, sEv, sEdge>>

SubStorePlace ==
  /\ sPc = "store"
  /\ cars' = [cars EXCEPT ![sEv.car] = sCar]
  /\ SubDone
  /\ UNCHANGED <<SubRest, est, taskQ, routeQ, inbox>>

-----------------------------------------------------------------------------
(* mqtt_publisher: a command reaches its car, or is dropped when the broker  *)
(* is away.                                                                *)
OutsideRest == <<shm, taskQ, routeQ, plannerVars, routerVars, subVars, topoVars,
                 requests, crashes, asked>>

Delivered(cmd) ==
  /\ \E d \in Obeyed(drive[cmd.car], cmd) : drive' = [drive EXCEPT ![cmd.car] = d]
  /\ num' = IF cmd.kind = "CNT" THEN [num EXCEPT ![cmd.car] = cmd.n] ELSE num
  /\ count' = IF cmd.kind = "CNT" THEN [count EXCEPT ![cmd.car] = 0] ELSE count

PublishOne ==
  /\ pubQ # <<>>
  /\ pubQ' = Tail(pubQ)
  /\ Delivered(First(pubQ)) \/ (MayLose /\ UNCHANGED <<drive, num, count>>)
  /\ UNCHANGED <<OutsideRest, inbox, tmp, events>>

-----------------------------------------------------------------------------
(* The vehicles.  Delivery keeps the order of their reports.                 *)
Report(c, type, past) ==
  /\ OutsideMayAct /\ Len(inbox) < MaxInbox
  /\ \/ inbox' = Append(inbox, Event(c, type, past))
     \/ MayLose /\ UNCHANGED inbox
  /\ UNCHANGED <<OutsideRest, pubQ>>

(* A junction is announced and counted; where the number of roads is used up *)
(* the car stops.                                                          *)
MutAnnounces(c) ==
  LET last == num[c] # 0 /\ count[c] + 1 >= num[c]
  IN /\ Report(c, "ARRIVE", FALSE)
     /\ drive' = [drive EXCEPT ![c] = IF last THEN "idle" ELSE "junction"]
     /\ count' = [count EXCEPT ![c] = IF last THEN 0 ELSE IF @ < NodeCount THEN @ + 1 ELSE @]
     /\ UNCHANGED <<num, tmp>>

Announces(c) ==
  LET last == num[c] # 0 /\ count[c] >= num[c]
  IN /\ Report(c, "ARRIVE", FALSE)
     /\ drive' = [drive EXCEPT ![c] = IF last THEN "idle" ELSE "junction"]
     /\ count' = [count EXCEPT ![c] = IF last THEN 0 ELSE IF @ < NodeCount THEN @ + 1 ELSE @]
     /\ UNCHANGED <<num, tmp>>

CarArrive(c) == drive[c] = "follow" /\ Announces(c) /\ UNCHANGED events

CarMoves(c, place) ==
  /\ drive' = [drive EXCEPT ![c] = place]
  /\ UNCHANGED <<OutsideRest, pubQ, inbox, num, count, tmp, events>>

(* Without a direction it gives up in the end; told that it is there, it     *)
(* stops in mid-junction.                                                  *)
CarGivesUp(c) == drive[c] = "junction" /\ OutsideMayAct /\ CarMoves(c, "idle")
CarParks(c) == drive[c] = "stopping" /\ CarMoves(c, "held")

(* An obstacle stops it.  What host and car take for passing differs: the    *)
(* host waits for fruit, the car for animals.                               *)
Obstacles == {"FRUIT", "ANIMAL", "HOLE"}

CarStops(c, type) ==
  /\ drive[c] \in {"follow", "junction", "stopping"}
  /\ \E past \in BOOLEAN : Report(c, type, past)
  /\ drive' = [drive EXCEPT ![c] = "idle"]
  /\ tmp' = [tmp EXCEPT ![c] = @ \/ type = "ANIMAL"]
  /\ UNCHANGED <<num, count>>

(* It stops and reports nothing: it has reported this obstacle before, or it *)
(* is the second vehicle and sees the first, which it will follow.           *)
CarHalts(c) ==
  /\ drive[c] \in {"follow", "junction", "stopping"} /\ OutsideMayAct
  /\ drive' = [drive EXCEPT ![c] = "idle"]
  /\ \E waits \in BOOLEAN : tmp' = [tmp EXCEPT ![c] = @ \/ waits]
  /\ UNCHANGED <<OutsideRest, pubQ, inbox, num, count>>

(* What it waited for has gone: it drives on, whatever the host has told it. *)
CarResumes(c) ==
  /\ tmp[c]
  /\ Report(c, "REPAIRED", FALSE)
  /\ \E d \in Resumed(drive[c]) : drive' = [drive EXCEPT ![c] = d]
  /\ tmp' = [tmp EXCEPT ![c] = FALSE]
  /\ UNCHANGED <<num, count>>

(* Its keys make a car report its home road, whatever it does; on its way     *)
(* back after a turn-around one may announce a junction once more (Vehicle, *)
(* ArriveBack).                                                            *)
CarIsPlaced(c) ==
  /\ Report(c, "POSITION", FALSE)
  /\ UNCHANGED <<drive, num, count, tmp>>

CarRepeats(c) == drive[c] \in {"junction", "stopping"} /\ Announces(c)

CarSees(c, type) ==
  /\ type \in Events /\ events < MaxEvents
  /\ events' = events + 1
  /\ CASE type \in Obstacles -> CarStops(c, type)
       [] type = "REPAIRED" -> CarResumes(c)
       [] type = "POSITION" -> CarIsPlaced(c)
       [] type = "AGAIN" -> CarRepeats(c)
       [] type = "SILENT" -> CarHalts(c)

-----------------------------------------------------------------------------
Planner ==
  \/ PlannerReceive \/ PlannerReadMap \/ PlannerPlan \/ PlannerGiveUp
  \/ PlannerPause \/ PlannerRequeue \/ PlannerCommit \/ PlannerSendCount
  \/ PlannerSendAction

Router ==
  RouterReceive \/ RouterRead \/ RouterSendTurn \/ RouterStore \/ RouterSendArrived

Subscriber ==
  \/ SubReceiveArrive \/ SubReceive \/ SubLocate \/ SubSetEdge \/ SubSetOther
  \/ SubAfter \/ SubReadPlace \/ SubStorePlace

Topo ==
  \/ TopoSetEdge \/ TopoSetOther \/ TopoSetNode \/ TopoReadCars \/ TopoSend
  \/ TopoReply

Client ==
  \/ \E c \in Cars, t \in Targets : TaskAssign(c, t)
  \/ \E c \in Cancels : TaskCancel(c)
  \/ \E req \in TopoRequests : TopoAccept(req)

Vehicles ==
  \E c \in Cars : \/ CarArrive(c) \/ CarGivesUp(c) \/ CarParks(c)
                 \/ \E type \in Events : CarSees(c, type)

Next ==
  \/ Planner \/ PlannerCrash \/ Router \/ RouterCrash \/ Subscriber \/ Topo
  \/ PublishOne \/ Client \/ Vehicles

Spec == Init /\ [][Next]_vars

(* Every host process is scheduled, and a car that follows the line comes to *)
(* the next junction in the end: strong, since one car's arrival suspends    *)
(* the others' while the host is not quiet (Calm).                         *)
FairSpec ==
  /\ Spec
  /\ WF_vars(Planner) /\ WF_vars(Router) /\ WF_vars(Subscriber) /\ WF_vars(Topo)
  /\ WF_vars(PublishOne)
  /\ \A c \in Cars : SF_vars(CarArrive(c)) /\ SF_vars(CarGivesUp(c)) /\ WF_vars(CarParks(c))

-----------------------------------------------------------------------------
CarRecord ==
  [status : {"IDLE", "MOVING", "WAIT"}, cur : Nodes, last : Nodes,
   tgt : 0..NodeCount, start : Nodes, path : Seq(Edges)]

TaskMsg == [act : {"assign", "cancel", "replan"}, car : Cars, tgt : 0..NodeCount,
            imm : Strategies]
PubMsg == [car : Cars, kind : {"CNT", "ACTION", "ORIENT"},
           arg : {"none", "PAUSE", "PROCESS", "UTURN", "ARRIVED", "STRAIGHT",
                  "LEFT", "RIGHT"}, n : 0..NodeCount]
Reports == [car : Cars, type : Obstacles \cup {"ARRIVE", "REPAIRED", "POSITION"},
            past : BOOLEAN]
QueueOf(M, cap) ==
  {q \in Seq([msg : M, prio : {Normal, High}]) : Len(q) <= cap /\ InOrder(q)}

(* Every variable has its type; every queue has at most its capacity and is   *)
(* in the order of the priorities.                                         *)
TypeOK ==
  /\ est \in [Edges -> {"IDLE", "FAULT_TEMP"} \cup HardBlocked]
  /\ nst \in [Nodes -> {"IDLE", "FAULT"}]
  /\ cars \in [Cars -> CarRecord]
  /\ taskQ \in QueueOf(TaskMsg, TaskCap)
  /\ routeQ \in QueueOf(Cars, RouteCap)
  /\ pubQ \in QueueOf(PubMsg, PubCap)
  /\ pPc \in {"idle", "map", "plan", "pause", "requeue", "commit", "count", "action"}
  /\ pPc # "idle" => pMsg \in TaskMsg
  /\ pPc \in {"commit", "count", "action"} => pCar \in CarRecord
  /\ rPc \in {"idle", "read", "turn", "store", "arrived"}
  /\ rPc # "idle" => rId \in Cars
  /\ rPc \in {"turn", "store", "arrived"} => rCar \in CarRecord
  /\ sPc \in {"idle", "locate", "edge", "other", "after", "place", "store"}
  /\ sPc # "idle" => sEv \in Reports
  /\ sPc \in {"edge", "other"} => sEdge \in Edges
  /\ sPc = "store" => sCar \in CarRecord
  /\ tPc \in {"idle", "set", "other", "send"}
  /\ tTodo \subseteq Cars
  /\ inbox \in Seq(Reports)
  /\ drive \in [Cars -> Places]
  /\ num \in [Cars -> 0..NodeCount] /\ count \in [Cars -> 0..NodeCount]
  /\ tmp \in [Cars -> BOOLEAN]

-----------------------------------------------------------------------------
(* Whatever the interleaving of planner, router and subscriber, a stored     *)
(* path is a connected sequence of roads that ends in the stored target and *)
(* leaves no node twice, so that the router's search for the leg out of the *)
(* current node has one answer (planner.h, router.h: whole-record writes).  *)
WholePlan(car) ==
  /\ IsChain(car.path)
  /\ car.path # <<>> => To(car.path[Len(car.path)]) = car.tgt
  /\ \A i, j \in 1..Len(car.path) : From(car.path[i]) = From(car.path[j]) => i = j
PlanIsWhole == \A c \in Cars : WholePlan(cars[c])

(* The last and the current node of a car are always joined by a road, so    *)
(* that alter_edges_status finds the edge an obstacle is on.               *)
OnARoad == \A c \in Cars : EdgeBetween(cars[c].last, cars[c].cur) # {}

(* Failed plans do not keep the host busy: a replan turns into a cancel, a   *)
(* cancel into a pause, so the host comes to rest again and again.          *)
Settles == []<>Quiet

-----------------------------------------------------------------------------
UnderWay(c) == cars[c].status = "MOVING" /\ drive[c] \notin {"idle", "held"}

(* What is left of the path of c, from its current node on.                  *)
Remaining(car) ==
  {car.path[i] : i \in {j \in 1..Len(car.path) : \E k \in LegsFrom(car) : j >= k}}

(* When the host is at rest, the router can go on with the path of every     *)
(* moving car: the car heads for its target or the path leads on.           *)
OnRoute ==
  Quiet => \A c \in Cars : cars[c].status = "MOVING" =>
             cars[c].cur = cars[c].tgt \/ LegsFrom(cars[c]) # {}

(* No closed road or node is ahead of the car on its path.                   *)
KeepsToOpenRoads(c) ==
  \A e \in Remaining(cars[c]) : est[e] \notin HardBlocked /\ nst[To(e)] # "FAULT"

(* The car stands still or goes back to where its task began.                *)
Back(car) == car.tgt = car.start
CalledOff(c) == Back(cars[c]) \/ ~UnderWay(c)

(* When the host is at rest, no car under way still has a blocked edge or a  *)
(* node out of order ahead of it on its path (Topo.cpp: the ban is in force *)
(* and every car under way has been planned anew).                         *)
BansHonoured == Quiet => \A c \in Cars : UnderWay(c) => KeepsToOpenRoads(c)

(* A cancel the client was told of holds once the host is at rest (Task.cpp).*)
CancelHolds == Quiet => \A c \in Cars : asked[c] = "cancel" => CalledOff(c)

(* What ends a journey before its target: a pause, or an obstacle that comes  *)
(* or goes.                                                                *)
Interrupted(c) ==
  \/ \E i \in DOMAIN pubQ : pubQ[i].msg = Command(c, "ACTION", "PAUSE")
  \/ \E i \in DOMAIN inbox : inbox[i].car = c /\ inbox[i].type \in Obstacles \cup {"REPAIRED"}

(* A car that drives ends its journey where the host says it ends, unless     *)
(* that is interrupted; it is never left at a junction without a direction, *)
(* nor stopped short by its count of junctions (planner.h 152, router.h 66).*)
TaskEnds ==
  \A c \in Cars : cars[c].status = "MOVING" /\ drive[c] = "follow"
                 ~> cars[c].status = "IDLE" \/ Interrupted(c)
=============================================================================
