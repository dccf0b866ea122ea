---------------------------- MODULE ShmLifecycle -----------------------------
(***************************************************************************)
(* How the host comes up and recovers: model_manager creates the message     *)
(* queues and the shared memory segment, the other processes open them, and *)
(* systemd restarts whoever ends.  A name may be bound to a new object while *)
(* a process still holds the old one, so objects are numbered: 0 is no      *)
(* object.                                                                 *)
(*                                                                         *)
(* Step size: one system call on a queue or on the segment.  Connecting to   *)
(* the MQTT broker and to the web server is left out.                       *)
(***************************************************************************)
EXTENDS Naturals, Sequences, FiniteSets

CONSTANTS
  Clients,     \* which of the processes below take part
  MaxLives,    \* bound: starts of model_manager
  MaxDeaths    \* bound: how often a client ends although nothing was missing

Processes == {"planner", "router", "publisher", "subscriber", "topo", "task"}
ASSUME ClientsAssumption == Clients \subseteq Processes
ASSUME BoundsAssumption == MaxLives \in Nat \ {0} /\ MaxDeaths \in Nat

Queues == {"task", "publish", "route"}

(* What a process does before it serves, in order: receive and send open a    *)
(* queue, attach maps the segment and validates it.  A process without a    *)
(* part it must have exits.                                                *)
Must(op, q) == [op |-> op, queue |-> q, must |-> TRUE]
May(op, q) == [op |-> op, queue |-> q, must |-> FALSE]
PlannerScript == <<Must("receive", "task"), Must("attach", "shm"), Must("send", "task"),
                   Must("send", "publish"), Must("send", "route")>>
RouterScript == <<Must("receive", "route"), Must("attach", "shm"), Must("send", "publish")>>
PublisherScript == <<Must("receive", "publish")>>
SubscriberScript == <<May("send", "task"), May("send", "publish"), May("send", "route"),
                      Must("attach", "shm")>>
TopoScript == <<May("attach", "shm"), May("send", "task")>>
TaskScript == <<May("send", "task")>>

Script(p) ==
  CASE p = "planner" -> PlannerScript [] p = "router" -> RouterScript
    [] p = "publisher" -> PublisherScript [] p = "subscriber" -> SubscriberScript
    [] p = "topo" -> TopoScript [] p = "task" -> TaskScript

(* After= of the units (Type=simple): who must have been forked before p.     *)
After(p) ==
  CASE p = "publisher" -> {}
    [] p = "planner" -> {"model_manager", "router"}
    [] OTHER -> {"model_manager"}

(* The stages of a segment: opened but of no size, sized and zero, with a     *)
(* header that says initialized, with the map, with the cars.              *)
Stages == {"empty", "sized", "header", "map", "filled"}
Initialized == {"header", "map", "filled"}

(* What model_manager does before it polls.                                  *)
Creation == <<"task", "publish", "route", "segment", "ftruncate", "header", "init_map", "init_car">>
Polling == Len(Creation) + 1

VARIABLES
  owner,     \* where model_manager is in Creation; 0: it does not run
  unlinked,  \* has it unlinked the queue or segment it is to create next?
  life,      \* how often it has been started
  stage,     \* stage[i]: of the i-th segment
  shm,       \* the segment the name is bound to
  name,      \* name[q]: the queue object the name is bound to
  made,      \* made[q]: how many objects there have been
  pc,        \* pc[p]: where p is in its Script; 0: it does not run
  waits,     \* waits[p]: has p mapped the segment and is to validate it?
  seg,       \* seg[p]: the segment p has mapped
  recv,      \* recv[p]: the object it receives from
  send,      \* send[p][q]: the object it sends to
  born,      \* born[p]: the life of the polling model_manager at p's start, or 0
  forked,    \* who has been started at least once
  deaths

ownerVars == <<owner, unlinked, life, stage, shm>>
names == <<name, made>>
clientVars == <<pc, waits, seg, recv, send, born>>
vars == <<ownerVars, names, clientVars, forked, deaths>>

NoSenders == [q \in Queues |-> 0]

Init ==
  /\ owner = 0 /\ unlinked = FALSE /\ life = 0
  /\ stage = <<>> /\ shm = 0
  /\ name = [q \in Queues |-> 0] /\ made = [q \in Queues |-> 0]
  /\ pc = [p \in Clients |-> 0] /\ waits = [p \in Clients |-> FALSE]
  /\ seg = [p \in Clients |-> 0] /\ recv = [p \in Clients |-> 0]
  /\ send = [p \in Clients |-> NoSenders]
  /\ born = [p \in Clients |-> 0]
  /\ forked = {} /\ deaths = 0

-----------------------------------------------------------------------------
(* model_manager                                                            *)

OwnerStart ==
  /\ owner = 0 /\ life < MaxLives
  /\ owner' = 1 /\ unlinked' = FALSE /\ life' = life + 1
  /\ forked' = forked \cup {"model_manager"}
  /\ UNCHANGED <<stage, shm, names, clientVars, deaths>>

MutBind(q) == made' = [made EXCEPT ![q] = @ + 1] /\ name' = [name EXCEPT ![q] = made[q] + 1]

(* A new object takes the name, unless a receiver has been quicker.          *)
Bind(q) ==
  IF name[q] # 0 THEN UNCHANGED names
  ELSE made' = [made EXCEPT ![q] = @ + 1] /\ name' = [name EXCEPT ![q] = made[q] + 1]

(* MqOwner::create and the start of create_and_init: what an earlier run left *)
(* is unlinked first.                                                      *)
OwnerUnlinks ==
  /\ owner \in 1..4 /\ ~unlinked
  /\ unlinked' = TRUE
  /\ IF owner = 4 THEN shm' = 0 /\ UNCHANGED names
     ELSE name' = [name EXCEPT ![Creation[owner]] = 0] /\ UNCHANGED <<shm, made>>
  /\ UNCHANGED <<owner, life, stage, clientVars, forked, deaths>>

OwnerCreatesQueue ==
  /\ owner \in 1..3 /\ unlinked
  /\ Bind(Creation[owner])
  /\ owner' = owner + 1 /\ unlinked' = FALSE
  /\ UNCHANGED <<life, stage, shm, clientVars, forked, deaths>>

OwnerOpensSegment ==
  /\ owner = 4 /\ unlinked
  /\ stage' = Append(stage, "empty") /\ shm' = Len(stage) + 1
  /\ owner' = owner + 1 /\ unlinked' = FALSE
  /\ UNCHANGED <<life, names, clientVars, forked, deaths>>

Stage(k) ==
  CASE k = 5 -> "sized" [] k = 6 -> "header" [] k = 7 -> "map" [] k = 8 -> "filled"
OwnerFills ==
  /\ owner \in 5..8
  /\ stage' = [stage EXCEPT ![shm] = Stage(owner)]
  /\ owner' = owner + 1
  /\ UNCHANGED <<unlinked, life, shm, names, clientVars, forked, deaths>>

(* SIGTERM: the clean-up unlinks the queues; exit(0) ends the process before  *)
(* ~ShmOwner would unlink the segment.                                     *)
OwnerShutsDown ==
  /\ owner = Polling /\ life < MaxLives
  /\ owner' = 0
  /\ name' = [q \in Queues |-> 0]
  /\ UNCHANGED <<unlinked, life, stage, shm, made, clientVars, forked, deaths>>

OwnerDies ==
  /\ owner # 0 /\ life < MaxLives
  /\ owner' = 0
  /\ UNCHANGED <<unlinked, life, stage, shm, names, clientVars, forked, deaths>>

-----------------------------------------------------------------------------
(* The other processes                                                      *)

Serving(p) == pc[p] > Len(Script(p))
At(p, op) == ~Serving(p) /\ pc[p] > 0 /\ ~waits[p] /\ Script(p)[pc[p]].op = op
Step(p) == Script(p)[pc[p]]

(* systemd starts p, at boot in the order of the units.                      *)
Start(p) ==
  /\ pc[p] = 0
  /\ p \in forked \/ (After(p) \cap (Clients \cup {"model_manager"})) \subseteq forked
  /\ pc' = [pc EXCEPT ![p] = 1]
  /\ born' = [born EXCEPT ![p] = IF owner = Polling THEN life ELSE 0]
  /\ forked' = forked \cup {p}
  /\ UNCHANGED <<ownerVars, names, waits, seg, recv, send, deaths>>

Gone(p) ==
  /\ pc' = [pc EXCEPT ![p] = 0] /\ waits' = [waits EXCEPT ![p] = FALSE]
  /\ seg' = [seg EXCEPT ![p] = 0] /\ recv' = [recv EXCEPT ![p] = 0]
  /\ send' = [send EXCEPT ![p] = NoSenders] /\ born' = [born EXCEPT ![p] = 0]

MutExit(p) ==
  /\ Gone(p)
  /\ name' = [q \in Queues |-> IF recv[p] # 0 /\ recv[p] = name[q] THEN 0 ELSE name[q]]
  /\ UNCHANGED <<ownerVars, made, forked, deaths>>

(* What p holds is closed; nothing is unlinked.                              *)
Exit(p) == Gone(p) /\ UNCHANGED <<ownerVars, names, forked, deaths>>

Continue(p, next) == pc' = [pc EXCEPT ![p] = next]

(* MqReceiver::init creates a queue that is not there.                       *)
OpenReceiver(p) ==
  /\ At(p, "receive")
  /\ Bind(Step(p).queue)
  /\ recv' = [recv EXCEPT ![p] = name'[Step(p).queue]]
  /\ Continue(p, pc[p] + 1)
  /\ UNCHANGED <<ownerVars, waits, seg, send, born, forked, deaths>>

(* MqSender::init.                                                           *)
OpenSender(p) ==
  /\ At(p, "send") /\ name[Step(p).queue] # 0
  /\ send' = [send EXCEPT ![p][Step(p).queue] = name[Step(p).queue]]
  /\ Continue(p, pc[p] + 1)
  /\ UNCHANGED <<ownerVars, names, waits, seg, recv, born, forked, deaths>>

(* The first step behind the senders that one try block opens.               *)
BehindSenders(p) ==
  CHOOSE i \in pc[p]..(Len(Script(p)) + 1) :
    /\ i > Len(Script(p)) \/ Script(p)[i].op # "send"
    /\ \A j \in pc[p]..(i - 1) : Script(p)[j].op = "send"

(* The queue is not there: exit, or serve without queues.  The subscriber then *)
(* crashes on the first arrival (mqtt_subscriber.cpp 247, null sender) and is  *)
(* started again, which is Die and Start.                                    *)
NoSender(p) ==
  /\ At(p, "send") /\ name[Step(p).queue] = 0
  /\ IF Step(p).must THEN Exit(p)
     ELSE /\ send' = [send EXCEPT ![p] = NoSenders]
          /\ Continue(p, BehindSenders(p))
          /\ UNCHANGED <<ownerVars, names, waits, seg, recv, born, forked, deaths>>

(* ShmClient::attach: shm_open and mmap.                                     *)
MapSegment(p) ==
  /\ At(p, "attach") /\ shm # 0
  /\ seg' = [seg EXCEPT ![p] = shm]
  /\ waits' = [waits EXCEPT ![p] = TRUE]
  /\ UNCHANGED <<ownerVars, names, pc, recv, send, born, forked, deaths>>

(* Without a valid segment p exits, or serves without one.                   *)
GoWithout(p) ==
  IF Step(p).must THEN Exit(p)
  ELSE /\ Continue(p, pc[p] + 1)
       /\ seg' = [seg EXCEPT ![p] = 0] /\ waits' = [waits EXCEPT ![p] = FALSE]
       /\ UNCHANGED <<ownerVars, names, recv, send, born, forked, deaths>>

NoSegment(p) == At(p, "attach") /\ shm = 0 /\ GoWithout(p)

(* To read the header of a segment without a size is a SIGBUS.               *)
BusError(p) == waits[p] /\ stage[seg[p]] = "empty" /\ Exit(p)

MutValidated(p) == waits[p] /\ stage[seg[p]] # "empty"

(* validate_header passes.                                                   *)
Validated(p) == waits[p] /\ stage[seg[p]] \in Initialized

Attached(p) ==
  /\ Validated(p)
  /\ waits' = [waits EXCEPT ![p] = FALSE]
  /\ Continue(p, pc[p] + 1)
  /\ UNCHANGED <<ownerVars, names, seg, recv, send, born, forked, deaths>>

MutGiveUp(p) == FALSE /\ GoWithout(p)

(* initialized does not come within retry_ms.                                *)
GiveUp(p) == waits[p] /\ stage[seg[p]] = "sized" /\ GoWithout(p)

(* p is told to end, or crashes.                                             *)
Die(p) ==
  /\ pc[p] # 0 /\ deaths < MaxDeaths
  /\ Gone(p)
  /\ deaths' = deaths + 1
  /\ UNCHANGED <<ownerVars, names, forked>>

-----------------------------------------------------------------------------
OwnerStep ==
  OwnerStart \/ OwnerUnlinks \/ OwnerCreatesQueue \/ OwnerOpensSegment \/ OwnerFills
OwnerEnds == OwnerShutsDown \/ OwnerDies

ClientStep(p) ==
  \/ Start(p) \/ OpenReceiver(p) \/ OpenSender(p) \/ NoSender(p) \/ MapSegment(p)
  \/ NoSegment(p) \/ BusError(p) \/ Attached(p) \/ GiveUp(p)

Next == OwnerStep \/ OwnerEnds \/ \E p \in Clients : ClientStep(p) \/ Die(p)

Spec == Init /\ [][Next]_vars

(* Restart=always, and every process runs; nobody has to end.                *)
FairSpec == Spec /\ WF_vars(OwnerStep) /\ \A p \in Clients : WF_vars(ClientStep(p))

-----------------------------------------------------------------------------
(* Every variable has its type; a name is bound to the newest object, if any, *)
(* and there is a new one only after model_manager has unlinked the last.   *)
TypeOK ==
  /\ owner \in 0..Polling /\ unlinked \in BOOLEAN /\ life \in 0..MaxLives
  /\ stage \in Seq(Stages) /\ Len(stage) <= life /\ shm \in {0, Len(stage)}
  /\ \A q \in Queues : made[q] \in 0..(2 * life + 1) /\ name[q] \in {0, made[q]}
  /\ pc \in [Clients -> 0..6] /\ waits \in [Clients -> BOOLEAN]
  /\ seg \in [Clients -> 0..Len(stage)]
  /\ recv \in [Clients -> Nat] /\ send \in [Clients -> [Queues -> Nat]]
  /\ born \in [Clients -> 0..life]
  /\ forked \subseteq Processes \cup {"model_manager"} /\ deaths \in 0..MaxDeaths

(* Nobody works on a segment whose locks have not been set up (shm_manager.h, *)
(* validate_header).                                                       *)
LocksAreReady == \A p \in Clients : Serving(p) /\ seg[p] # 0 => stage[seg[p]] \in Initialized

(* The objects the system runs on now.                                       *)
Wants(p, op, q) == \E i \in 1..Len(Script(p)) : Script(p)[i].op = op /\ Script(p)[i].queue = q
Connected(p) ==
  /\ Wants(p, "attach", "shm") => seg[p] = shm /\ shm # 0 /\ stage[shm] = "filled"
  /\ \A q \in Queues :
       /\ Wants(p, "receive", q) => recv[p] = name[q] /\ name[q] # 0
       /\ Wants(p, "send", q) => send[p][q] = name[q] /\ name[q] # 0

(* A process that is started once model_manager polls is connected to what    *)
(* the others use, for as long as model_manager runs: restarting the rest   *)
(* after it heals the system.                                              *)
RestartHeals ==
  \A p \in Clients : Serving(p) /\ owner = Polling /\ born[p] = life => Connected(p)

(* Whatever was missing and whoever ended, in the end every process serves.  *)
AllServe == <>[](owner = Polling /\ \A p \in Clients : Serving(p))

(* "Guaranteed by the installation" (scripts/systemd/README.md): model_manager *)
(* has created everything before the others look for it.                    *)
StartsInOrder == owner = Polling => \A p \in Clients : Serving(p) => Connected(p)
=============================================================================
