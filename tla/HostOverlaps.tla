---------------------------- MODULE HostOverlaps -----------------------------
(***************************************************************************)
(* What overlapping requests, events, losses and restarts may spoil, and     *)
(* that nothing else does.  Nobody makes the clients of the host wait for    *)
(* each other, so a ban may meet a plan that was made before it and a cancel *)
(* may overtake the assignment it is about.  Every step here is a step of    *)
(* HostDispatch; two variables note in addition which cars drive on a plan   *)
(* that a closed road has outdated, and which cars defy a cancel, each set   *)
(* only by the overlaps named below.                                       *)
(***************************************************************************)
EXTENDS HostDispatch

VARIABLES
  outdated,  \* cars whose route was closed without their being planned anew
  defied     \* cars whose last cancel was overtaken or undone

overlaps == <<vars, outdated, defied>>

Still == {"idle", "held"}
Pause(c) == Command(c, "ACTION", "PAUSE")

OpenRoute(car) ==
  \A i \in 1..Len(car.path) : est[car.path[i]] \notin HardBlocked /\ nst[To(car.path[i])] # "FAULT"

-----------------------------------------------------------------------------
(* A message about c does not find room in the planner's queue, is lost with *)
(* the planner, or asks for a turn for which there is no road.              *)
Dropped(c) ==
  /\ Len(taskQ) >= TaskCap
  /\ \/ TopoSend /\ c \in tTodo \ tTodo'
     \/ PlannerRequeue /\ pMsg.car = c
     \/ SubAfter /\ sEv.car = c
Forgotten(c) ==
  PlannerCrash /\ pMsg.car = c /\ pMsg.act # "assign" /\ pPc \notin {"count", "action"}
NoWayBack(c) == pPc = "plan" /\ pMsg.car = c /\ ~CanStart(cars[c]) /\ PlannerGiveUp

(* The pause for c does not reach it, or c drives on by itself.              *)
PauseLost(c) ==
  \/ PlannerPause /\ pMsg.car = c /\ Len(pubQ) >= PubCap
  \/ PublishOne /\ First(pubQ) = Pause(c) /\ drive'[c] \notin Still
SetsOff(c) == drive[c] \in Still /\ CarResumes(c)

(* The record stored for c was read before another process stored one.       *)
OldPlan(c) == RouterStore /\ rId = c /\ rCar.path # cars[c].path

TaskOf(car) == <<car.tgt, car.start>>
OldTask(c) ==
  \/ RouterStore /\ rId = c /\ rTurn # "ARRIVED" /\ TaskOf(rCar) # TaskOf(cars[c])
  \/ SubStorePlace /\ sEv.car = c /\ TaskOf(sCar) # TaskOf(cars[c])
  \/ PlannerCommit /\ pMsg.car = c /\ pMsg.act = "replan" /\ TaskOf(pCar) # TaskOf(cars[c])

(* The map has changed since the planner read it; an obstacle that another   *)
(* car has met closes a road.                                              *)
OldMap(c) == PlannerCommit /\ pMsg.car = c /\ pMap # [est |-> est, nst |-> nst]
NotTold(c) == (SubSetEdge \/ SubSetOther) /\ sEv.car # c

-----------------------------------------------------------------------------
Outdates(c) ==
  \/ Dropped(c) \/ Forgotten(c) \/ NoWayBack(c) \/ PauseLost(c) \/ SetsOff(c)
  \/ OldPlan(c) \/ OldMap(c) \/ NotTold(c)

(* The next request to topo has every car under way planned anew.            *)
ToldOfAll(c) == TopoReadCars /\ c \in tTodo'

NoteOutdated ==
  outdated' = {c \in Cars : /\ Outdates(c) \/ (c \in outdated /\ ~ToldOfAll(c))
                            /\ ~OpenRoute(cars[c])'}

(* The planner has yet to deal with a cancel of c.                           *)
CancelDue(c) ==
  \/ \E i \in 1..Len(taskQ) : taskQ[i].msg = Cancel(c, "normal")
  \/ pPc \in {"map", "plan", "pause", "commit"} /\ pMsg = Cancel(c, "normal")

(* A cancel has priority over the assignment that waits before it.           *)
Overtakes(c) ==
  /\ TaskCancel(c)
  /\ \/ Len(taskQ) >= TaskCap
     \/ \E i \in 1..Len(taskQ) : taskQ[i].msg.act = "assign" /\ taskQ[i].msg.car = c

(* The planner starts a car that it plans anew although it stood.            *)
StartsAgain(c) ==
  PlannerSendAction /\ pMsg.car = c /\ pMsg.imm # "normal" /\ pMsg.act # "assign"

Defies(c) ==
  \/ Overtakes(c)
  \/ Forgotten(c) /\ pMsg.act = "cancel"
  \/ PauseLost(c) /\ ~Back(cars[c])
  \/ ~CancelDue(c) /\ OldTask(c)
  \/ ~CancelDue(c) /\ ~Back(cars[c]) /\ (SetsOff(c) \/ StartsAgain(c))

NoteDefied ==
  defied' = {c \in Cars : /\ asked'[c] = "cancel"
                          /\ Defies(c) \/ (c \in defied /\ ~TaskCancel(c))}

-----------------------------------------------------------------------------
OverlapInit == Init /\ outdated = {} /\ defied = {}
OverlapNext == Next /\ NoteOutdated /\ NoteDefied
OverlapSpec == OverlapInit /\ [][OverlapNext]_overlaps

-----------------------------------------------------------------------------
(* Whatever overlaps, is lost or restarted: when the host is at rest, a car  *)
(* under way with a closed road or node ahead of it is one of those noted -  *)
(* each other car was planned around the closed road or stopped.            *)
ClosedRoadsNoted ==
  Quiet => \A c \in Cars \ outdated : UnderWay(c) => KeepsToOpenRoads(c)

(* Likewise for the last cancel of a car: unless it was noted, the car stands *)
(* still or goes back to where its task began.                             *)
CancelsNoted ==
  Quiet => \A c \in Cars \ defied : asked[c] = "cancel" => CalledOff(c)
=============================================================================
