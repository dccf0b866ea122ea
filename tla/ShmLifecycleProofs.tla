-------------------------- MODULE ShmLifecycleProofs --------------------------
(***************************************************************************)
(* What ShmLifecycle.tla promises for every choice of processes and every    *)
(* number of restarts, proved with TLAPS.                                   *)
(***************************************************************************)
EXTENDS ShmLifecycle, TLAPS

(* The place of a queue in Creation.                                         *)
Turn(q) == CASE q = "task" -> 1 [] q = "publish" -> 2 [] q = "route" -> 3

(* How far model_manager has brought the segment when it is at step k.       *)
Reached(k) ==
  CASE k = 5 -> "empty" [] k = 6 -> "sized" [] k = 7 -> "header" [] k = 8 -> "map"
    [] k = 9 -> "filled"

(* There is a segment for each time it was opened.  Whoever finds            *)
(* model_manager behind the opening finds the segment as far as it is.       *)
OwnerInv ==
  /\ owner \in 0..9 /\ life \in 0..MaxLives /\ (owner # 0 => life > 0)
  /\ stage \in Seq(Stages) /\ shm \in {0, Len(stage)}
  /\ Len(stage) + (IF owner \in 1..4 THEN 1 ELSE 0) <= life
  /\ owner > 4 => shm # 0 /\ stage[shm] = Reached(owner)

(* In each life a queue is unlinked at most twice: by the clean-up of the      *)
(* next start, and by the signal handler.  Between two new objects there is  *)
(* an unlink, so what is still to come bounds what there can be.             *)
Spare(q) ==
  IF owner = 0 THEN 0
  ELSE IF owner < Turn(q) \/ (owner = Turn(q) /\ ~unlinked) THEN 2 ELSE 1
Used(q) == made[q] + (IF name[q] = 0 THEN 1 ELSE 0)
NamesInv ==
  /\ made \in [Queues -> Nat] /\ name \in [Queues -> Nat]
  /\ \A q \in Queues : /\ name[q] \in {0, made[q]}
                       /\ Used(q) + Spare(q) <= 2 * life + 1
                       /\ owner > Turn(q) => name[q] # 0

(* A process is within its script, and waits for the header only where it     *)
(* attaches.                                                               *)
PcInv == pc \in [Clients -> Nat] /\ \A p \in Clients : pc[p] <= Len(Script(p)) + 1
WaitsInv ==
  /\ waits \in [Clients -> BOOLEAN]
  /\ \A p \in Clients :
       waits[p] => /\ pc[p] \in 1..Len(Script(p)) /\ Step(p).op = "attach"
                   /\ seg[p] # 0
HandlesInv ==
  /\ seg \in [Clients -> 0..Len(stage)] /\ recv \in [Clients -> Nat]
  /\ send \in [Clients -> [Queues -> Nat]] /\ born \in [Clients -> 0..life]
BoundsInv == forked \subseteq Processes \cup {"model_manager"} /\ deaths \in 0..MaxDeaths
ClientInv == PcInv /\ WaitsInv /\ HandlesInv /\ BoundsInv

(* A segment a process has validated stays initialized.                      *)
ReadyInv == \A p \in Clients : seg[p] # 0 /\ ~waits[p] => stage[seg[p]] \in Initialized

(* A process that was started under this life of model_manager was started    *)
(* when it polled, and holds what the names are bound to.                   *)
Holds(p, s) ==
  /\ s.op = "attach" => seg[p] = shm
  /\ s.op = "receive" => recv[p] = name[s.queue]
  /\ s.op = "send" => send[p][s.queue] = name[s.queue]
HealInv ==
  \A p \in Clients : born[p] = life /\ life # 0 =>
    /\ owner \in {0, 9}
    /\ owner = 9 /\ pc[p] # 0 =>
         /\ waits[p] => seg[p] = shm
         /\ \A i \in 1..Len(Script(p)) : i < pc[p] => Holds(p, Script(p)[i])

Inv == OwnerInv /\ unlinked \in BOOLEAN /\ NamesInv /\ ClientInv /\ ReadyInv /\ HealInv

-----------------------------------------------------------------------------
(* Creation: three queues, then the segment.                                 *)
LEMMA CreationShape ==
  /\ Polling = 9
  /\ Creation[1] = "task" /\ Creation[2] = "publish" /\ Creation[3] = "route"
BY DEF Polling, Creation

(* A queue has its place among the first three.                              *)
LEMMA TurnShape ==
  /\ \A q \in Queues : Turn(q) \in 1..3
  /\ \A k \in 1..3 : Creation[k] \in Queues /\ Turn(Creation[k]) = k
  /\ \A q, r \in Queues : Turn(q) = Turn(r) => q = r
<1>1. Turn("task") = 1 /\ Turn("publish") = 2 /\ Turn("route") = 3
  BY DEF Turn
<1>2. \A k \in 1..3 : k = 1 \/ k = 2 \/ k = 3
  OBVIOUS
<1> QED  BY <1>1, <1>2, CreationShape DEF Queues

(* What the scripts have in common: a receiver is only opened at the start,   *)
(* and a queue or the segment is what is opened.                           *)
LEMMA ScriptShape ==
  ASSUME NEW p \in Clients
  PROVE  /\ Len(Script(p)) \in 1..5
         /\ \A i \in 1..Len(Script(p)) :
              LET s == Script(p)[i]
              IN /\ s.op = "attach" \/ (s.op \in {"receive", "send"} /\ s.queue \in Queues)
                 /\ s.op = "attach" => s.queue = "shm"
                 /\ s.op = "receive" => i = 1
<1> USE DEF Must, May, Queues
<1>1. CASE p = "planner"
  BY <1>1 DEF Script, PlannerScript
<1>2. CASE p = "router"
  BY <1>2 DEF Script, RouterScript
<1>3. CASE p = "publisher"
  BY <1>3 DEF Script, PublisherScript
<1>4. CASE p = "subscriber"
  BY <1>4 DEF Script, SubscriberScript
<1>5. CASE p = "topo"
  BY <1>5 DEF Script, TopoScript
<1>6. CASE p = "task"
  BY <1>6 DEF Script, TaskScript
<1> QED  BY <1>1, <1>2, <1>3, <1>4, <1>5, <1>6, ClientsAssumption DEF Processes

(* A process that does not serve yet is at a step of its script.              *)
LEMMA StepShape ==
  ASSUME NEW p \in Clients, ClientInv, ~Serving(p), pc[p] > 0
  PROVE  /\ pc[p] \in 1..Len(Script(p)) /\ Step(p) = Script(p)[pc[p]]
         /\ Step(p).op \in {"receive", "send"} => Step(p).queue \in Queues
         /\ Step(p).op = "receive" => pc[p] = 1
<1>1. pc[p] \in 1..Len(Script(p))
  BY ScriptShape DEF ClientInv, PcInv, Serving
<1> QED  BY <1>1, ScriptShape DEF Step

(* Whoever may go on without a queue finds the step behind its senders.       *)
LEMMA BehindShape ==
  ASSUME NEW p \in Clients, pc[p] \in 1..Len(Script(p)),
         Step(p).op = "send", ~Step(p).must
  PROVE  BehindSenders(p) \in (pc[p] + 1)..(Len(Script(p)) + 1)
<1> DEFINE n == Len(Script(p))
           Ends(i) == /\ i > n \/ Script(p)[i].op # "send"
                      /\ \A j \in pc[p]..(i - 1) : Script(p)[j].op = "send"
<1>1. \E i \in pc[p]..(n + 1) : Ends(i)
  <2> USE DEF Must, May, Step
  <2>1. CASE p \in {"planner", "router", "publisher"}
    BY <2>1 DEF Script, PlannerScript, RouterScript, PublisherScript
  <2>2. CASE p = "subscriber"
    <3>1. Ends(4)
      BY <2>2 DEF Script, SubscriberScript
    <3> QED  BY <2>2, <3>1 DEF Script, SubscriberScript
  <2>3. CASE p = "topo"
    <3>1. pc[p] = 2 /\ Ends(3)
      BY <2>3 DEF Script, TopoScript
    <3> QED  BY <2>3, <3>1 DEF Script, TopoScript
  <2>4. CASE p = "task"
    <3>1. pc[p] = 1 /\ Ends(2)
      BY <2>4 DEF Script, TaskScript
    <3> QED  BY <2>4, <3>1 DEF Script, TaskScript
  <2> QED  BY <2>1, <2>2, <2>3, <2>4, ClientsAssumption DEF Processes
<1>2. BehindSenders(p) \in pc[p]..(n + 1) /\ Ends(BehindSenders(p))
  BY <1>1 DEF BehindSenders
<1>3. ~Ends(pc[p])
  BY ScriptShape DEF Step
<1> QED  BY <1>2, <1>3, ScriptShape

(* Nothing has been created at the start.                                    *)
LEMMA InvInit == Init => Inv
<1> SUFFICES ASSUME Init PROVE Inv
  OBVIOUS
<1> USE BoundsAssumption DEF Init
<1>1. OwnerInv
  BY DEF OwnerInv
<1>2. NamesInv /\ unlinked \in BOOLEAN
  <2>1. made \in [Queues -> Nat] /\ name \in [Queues -> Nat] /\ unlinked \in BOOLEAN
    OBVIOUS
  <2>2. \A q \in Queues : made[q] = 0 /\ name[q] = 0 /\ ~(owner > Turn(q))
    BY TurnShape
  <2>3. \A q \in Queues : Used(q) = 1 /\ Spare(q) = 0
    BY <2>2 DEF Used, Spare
  <2> HIDE DEF Init
  <2>4. life \in Nat
    BY DEF Init
  <2> QED  BY <2>1, <2>2, <2>3, <2>4 DEF NamesInv
<1>3. ClientInv
  <2>1. PcInv /\ BoundsInv
    BY ScriptShape DEF PcInv, BoundsInv
  <2>2. WaitsInv
    BY DEF WaitsInv
  <2>3. HandlesInv
    BY DEF HandlesInv, NoSenders
  <2> QED  BY <2>1, <2>2, <2>3 DEF ClientInv
<1>4. ReadyInv /\ HealInv
  BY DEF ReadyInv, HealInv
<1> QED  BY <1>1, <1>2, <1>3, <1>4 DEF Inv

-----------------------------------------------------------------------------
(* Only model_manager changes its own state.                                 *)
LEMMA ClientFrame ==
  ASSUME NEW p \in Clients, ClientStep(p) \/ Die(p)
  PROVE  UNCHANGED <<owner, unlinked, life, stage, shm>>
BY DEF ClientStep, Die, Start, OpenReceiver, OpenSender, NoSender, MapSegment, NoSegment,
       BusError, Attached, GiveUp, GoWithout, Exit, ownerVars

(* Of a client's steps only the opening of a receiver binds a name.           *)
LEMMA NamesFrame ==
  ASSUME NEW p \in Clients, ClientStep(p) \/ Die(p), ~OpenReceiver(p)
  PROVE  UNCHANGED <<made, name>>
BY DEF ClientStep, Die, Start, OpenSender, NoSender, MapSegment, NoSegment,
       BusError, Attached, GiveUp, GoWithout, Exit, names

(* Each step of model_manager takes the segment one stage further, or ends.   *)
LEMMA OwnerNext == Inv /\ [Next]_vars => OwnerInv'
<1> SUFFICES ASSUME OwnerInv, [Next]_vars PROVE OwnerInv'
  BY DEF Inv
<1> USE BoundsAssumption DEF OwnerInv
<1>1. CASE OwnerStart
  BY <1>1 DEF OwnerStart
<1>2. CASE OwnerUnlinks
  BY <1>2 DEF OwnerUnlinks
<1>3. CASE OwnerCreatesQueue
  BY <1>3 DEF OwnerCreatesQueue
<1>4. CASE OwnerOpensSegment
  <2>1. stage' \in Seq(Stages) /\ Len(stage') = Len(stage) + 1 /\ stage'[Len(stage')] = "empty"
    BY <1>4 DEF OwnerOpensSegment, Stages
  <2>2. shm' = Len(stage') /\ owner' = 5 /\ UNCHANGED life
    BY <1>4, <2>1 DEF OwnerOpensSegment
  <2> QED  BY <1>4, <2>1, <2>2 DEF OwnerOpensSegment, Reached
<1>5. CASE OwnerFills
  <2>1. owner \in 5..8 /\ Stage(owner) \in Stages /\ Stage(owner) = Reached(owner + 1)
    BY <1>5 DEF OwnerFills, Stage, Stages, Reached
  <2>2. stage' \in Seq(Stages) /\ Len(stage') = Len(stage) /\ stage'[shm] = Stage(owner)
    BY <1>5, <2>1 DEF OwnerFills
  <2>3. owner' = owner + 1 /\ UNCHANGED <<life, shm>>
    BY <1>5 DEF OwnerFills
  <2> QED  BY <2>1, <2>2, <2>3
<1>6. CASE OwnerShutsDown \/ OwnerDies
  BY <1>6 DEF OwnerShutsDown, OwnerDies
<1>7. ASSUME NEW p \in Clients, ClientStep(p) \/ Die(p) PROVE OwnerInv'
  BY <1>7, ClientFrame
<1>8. CASE UNCHANGED vars
  BY <1>8 DEF vars, ownerVars
<1> QED  BY <1>1, <1>2, <1>3, <1>4, <1>5, <1>6, <1>7, <1>8 DEF Next, OwnerStep, OwnerEnds

(* A name that is bound anew is bound to one object more than there were, and *)
(* one that is bound keeps its object.                                     *)
LEMMA BindShape ==
  ASSUME NamesInv, NEW q \in Queues, Bind(q)
  PROVE  /\ made' \in [Queues -> Nat] /\ name' \in [Queues -> Nat]
         /\ name'[q] = made'[q] /\ name'[q] # 0
         /\ name[q] # 0 => made'[q] = made[q] /\ name'[q] = name[q]
         /\ name[q] = 0 => made'[q] = made[q] + 1
         /\ \A r \in Queues \ {q} : made'[r] = made[r] /\ name'[r] = name[r]
BY DEF Bind, NamesInv, names

(* What a step does to the share of one queue.                               *)
LEMMA UsedShape ==
  /\ NamesInv => \A q \in Queues : Used(q) \in Nat
  /\ NamesInv => \A q \in Queues : name[q] # 0 => Used(q) = made[q]
  /\ \A q \in Queues : UNCHANGED <<made, name>> => Used(q)' = Used(q)
BY DEF NamesInv, Used

(* Binding takes nothing: an unbound name has its next object counted.        *)
LEMMA BindUses ==
  ASSUME NamesInv, NEW q \in Queues, Bind(q)
  PROVE  \A r \in Queues : Used(r)' = Used(r)
BY BindShape DEF NamesInv, Used

(* The numbers of the objects stay within two for each life.                 *)
LEMMA NamesNext == Inv /\ [Next]_vars => NamesInv'
<1> SUFFICES ASSUME OwnerInv, NamesInv, ClientInv, [Next]_vars PROVE NamesInv'
  BY DEF Inv
<1>0. owner \in 0..9 /\ life \in Nat /\ \A q \in Queues : Turn(q) \in 1..3 /\ Spare(q) \in 0..2
  BY TurnShape, BoundsAssumption DEF OwnerInv, Spare
<1>1. CASE OwnerStart
  <2>1. UNCHANGED <<made, name>> /\ owner = 0 /\ owner' = 1 /\ unlinked' = FALSE /\ life' = life + 1
    BY <1>1 DEF OwnerStart, names
  <2>2. \A q \in Queues : Spare(q) = 0 /\ Spare(q)' = 2
    BY <1>0, <2>1 DEF Spare
  <2>3. \A q \in Queues : ~(owner' > Turn(q))
    BY <1>0, <2>1
  <2> QED  BY <1>0, <2>1, <2>2, <2>3, UsedShape DEF NamesInv
<1>2. CASE OwnerUnlinks
  <2>1. /\ owner \in 1..4 /\ ~unlinked /\ unlinked' = TRUE
        /\ owner' = owner /\ life' = life /\ made' = made
    BY <1>2 DEF OwnerUnlinks, names
  <2>2. CASE owner = 4
    <3>1. name' = name
      BY <1>2, <2>2 DEF OwnerUnlinks, names
    <3>2. \A q \in Queues : Spare(q)' = Spare(q)
      BY <1>0, <2>1, <2>2 DEF Spare
    <3> QED  BY <2>1, <3>1, <3>2, UsedShape DEF NamesInv
  <2>3. CASE owner # 4
    <3>1. PICK q \in Queues : q = Creation[owner] /\ Turn(q) = owner
      BY <2>1, <2>3, TurnShape
    <3>2. name' = [name EXCEPT ![q] = 0]
      BY <1>2, <2>3, <3>1 DEF OwnerUnlinks
    <3>3. name' \in [Queues -> Nat] /\ name'[q] = 0 /\ \A r \in Queues \ {q} : name'[r] = name[r]
      BY <3>1, <3>2 DEF NamesInv
    <3>4. Used(q)' <= Used(q) + 1 /\ \A r \in Queues \ {q} : Used(r)' = Used(r)
      <4>1. Used(q)' = made[q] + 1 /\ Used(q) >= made[q]
        BY <2>1, <3>1, <3>3 DEF Used, NamesInv
      <4>2. \A r \in Queues \ {q} : Used(r)' = Used(r)
        BY <2>1, <3>3 DEF Used
      <4> QED  BY <4>1, <4>2, <3>1, UsedShape DEF NamesInv
    <3>5. Spare(q) = 2 /\ Spare(q)' = 1
      <4>1. Spare(q) = 2
        BY <2>1, <3>1 DEF Spare
      <4>2. Spare(q)' = 1
        BY <2>1, <3>1 DEF Spare
      <4> QED  BY <4>1, <4>2
    <3>6. \A r \in Queues \ {q} : Spare(r)' = Spare(r)
      BY <1>0, <2>1, <3>1, TurnShape DEF Spare
    <3>7. \A r \in Queues \ {q} : owner' > Turn(r) => name'[r] # 0
      BY <2>1, <3>3 DEF NamesInv
    <3>8. ~(owner' > Turn(q))
      BY <2>1, <3>1
    <3>9. \A r \in Queues : Used(r)' + Spare(r)' <= 2 * life' + 1
      <4>1. made' \in [Queues -> Nat]
        BY <2>1 DEF NamesInv
      <4>2. Used(q)' + Spare(q)' <= Used(q) + Spare(q)
        BY <3>1, <3>3, <3>4, <3>5, <4>1, UsedShape DEF NamesInv, Used
      <4> QED  BY <1>0, <2>1, <3>1, <3>3, <3>4, <3>5, <3>6, <4>1, <4>2 DEF NamesInv, Used
    <3> QED  BY <2>1, <3>1, <3>3, <3>7, <3>8, <3>9 DEF NamesInv
  <2> QED  BY <2>2, <2>3
<1>3. CASE OwnerCreatesQueue
  <2> DEFINE q == Creation[owner]
  <2>1. /\ owner \in 1..3 /\ unlinked = TRUE /\ unlinked' = FALSE /\ owner' = owner + 1
        /\ life' = life /\ Bind(q)
    BY <1>3 DEF OwnerCreatesQueue
  <2>2. q \in Queues /\ Turn(q) = owner
    BY <2>1, TurnShape
  <2> HIDE DEF q
  <2>3. \A r \in Queues : Spare(r)' = Spare(r)
    BY <1>0, <2>1, <2>2, TurnShape DEF Spare
  <2>4. \A r \in Queues : owner' > Turn(r) => r = q \/ owner > Turn(r)
    BY <1>0, <2>1, <2>2, TurnShape
  <2>5. \A r \in Queues : owner' > Turn(r) => name'[r] # 0
    BY <2>1, <2>2, <2>4, BindShape DEF NamesInv
  <2> QED  BY <2>1, <2>2, <2>3, <2>5, BindShape, BindUses DEF NamesInv
<1>4. CASE OwnerOpensSegment \/ OwnerFills
  <2>1. owner \in 4..8 /\ owner' = owner + 1 /\ UNCHANGED <<made, name, life>>
    BY <1>4 DEF OwnerOpensSegment, OwnerFills, names
  <2>2. \A q \in Queues : Spare(q) = 1 /\ Spare(q)' = 1 /\ owner > Turn(q)
    BY <1>0, <2>1 DEF Spare
  <2> QED  BY <2>1, <2>2, UsedShape DEF NamesInv
<1>5. CASE OwnerShutsDown
  <2>1. /\ owner = 9 /\ owner' = 0 /\ life' = life /\ made' = made
        /\ name' = [q \in Queues |-> 0]
    BY <1>5, CreationShape DEF OwnerShutsDown
  <2>2. \A q \in Queues : Spare(q) = 1 /\ Spare(q)' = 0 /\ ~(owner' > Turn(q))
    BY <1>0, <2>1 DEF Spare
  <2>3. \A q \in Queues : Used(q)' \in {Used(q), Used(q) + 1} /\ name'[q] = 0
    BY <2>1 DEF Used, NamesInv
  <2> QED  BY <1>0, <2>1, <2>2, <2>3, UsedShape DEF NamesInv
<1>6. CASE OwnerDies
  <2>1. owner # 0 /\ owner' = 0 /\ UNCHANGED <<life, made, name>>
    BY <1>6 DEF OwnerDies, names
  <2>2. \A q \in Queues : Spare(q)' = 0 /\ ~(owner' > Turn(q))
    BY <1>0, <2>1 DEF Spare
  <2> QED  BY <1>0, <2>1, <2>2, UsedShape DEF NamesInv
<1>7. ASSUME NEW p \in Clients, OpenReceiver(p) PROVE NamesInv'
  <2> DEFINE q == Step(p).queue
  <2>1. q \in Queues
    BY <1>7, StepShape DEF OpenReceiver, At
  <2>2. Bind(q) /\ UNCHANGED <<owner, unlinked, life>>
    BY <1>7 DEF OpenReceiver, ownerVars
  <2>3. \A r \in Queues : Spare(r)' = Spare(r)
    BY <2>2 DEF Spare
  <2> HIDE DEF q
  <2>4. \A r \in Queues : name[r] # 0 => name'[r] # 0
    BY <2>1, <2>2, BindShape
  <2> QED  BY <2>1, <2>2, <2>3, <2>4, BindShape, BindUses DEF NamesInv
<1>8. ASSUME UNCHANGED <<owner, unlinked, life, made, name>> PROVE NamesInv'
  <2>1. \A r \in Queues : Spare(r)' = Spare(r)
    BY <1>8 DEF Spare
  <2> QED  BY <1>8, <2>1, UsedShape DEF NamesInv
<1>9. CASE UNCHANGED vars
  BY <1>8, <1>9 DEF vars, ownerVars, names
<1>10. ASSUME NEW p \in Clients, ClientStep(p) \/ Die(p) PROVE NamesInv'
  BY <1>7, <1>8, <1>10, ClientFrame, NamesFrame
<1> QED  BY <1>1, <1>2, <1>3, <1>4, <1>5, <1>6, <1>9, <1>10 DEF Next, OwnerStep, OwnerEnds

-----------------------------------------------------------------------------
(* Lives and segments only get more, and a segment that is initialized stays  *)
(* so: nobody takes its header away.                                        *)
LEMMA StageGrows ==
  ASSUME OwnerInv, [Next]_vars
  PROVE  /\ life' \in Nat /\ life <= life' /\ Len(stage') \in Nat /\ Len(stage) <= Len(stage')
         /\ \A i \in 1..Len(stage) : stage[i] \in Initialized => stage'[i] \in Initialized
<1> USE BoundsAssumption DEF OwnerInv
<1>1. CASE OwnerStart
  BY <1>1 DEF OwnerStart
<1>2. CASE OwnerOpensSegment
  BY <1>2 DEF OwnerOpensSegment
<1>3. CASE OwnerFills
  <2>1. shm \in 1..Len(stage) /\ Len(stage') = Len(stage) /\ UNCHANGED life
    BY <1>3 DEF OwnerFills
  <2>2. stage' = [stage EXCEPT ![shm] = Stage(owner)] /\ DOMAIN stage = 1..Len(stage)
    BY <1>3 DEF OwnerFills
  <2>4. stage'[shm] = Stage(owner) /\ \A i \in 1..Len(stage) : i # shm => stage'[i] = stage[i]
    BY <2>1, <2>2
  <2>3. stage[shm] \in Initialized => Stage(owner) \in Initialized
    BY <1>3 DEF OwnerFills, Stage, Reached, Initialized
  <2>5. \A i \in 1..Len(stage) : stage[i] \in Initialized => stage'[i] \in Initialized
    BY <2>3, <2>4
  <2> QED  BY <2>1, <2>5
<1>4. ASSUME UNCHANGED <<life, stage>> PROVE Len(stage') \in Nat /\ life' = life /\ stage' = stage
  BY <1>4
<1>5. ASSUME NEW p \in Clients, ClientStep(p) \/ Die(p) PROVE UNCHANGED <<life, stage>>
  BY <1>5, ClientFrame
<1>6. CASE OwnerUnlinks \/ OwnerCreatesQueue \/ OwnerShutsDown \/ OwnerDies \/ UNCHANGED vars
  BY <1>6 DEF OwnerUnlinks, OwnerCreatesQueue, OwnerShutsDown, OwnerDies, vars, ownerVars
<1> QED  BY <1>1, <1>2, <1>3, <1>4, <1>5, <1>6 DEF Next, OwnerStep, OwnerEnds

(* What model_manager does leaves the other processes as they are.            *)
LEMMA OwnerFrame ==
  ASSUME OwnerStep \/ OwnerEnds \/ UNCHANGED vars
  PROVE  UNCHANGED <<pc, waits, seg, recv, send, born, deaths>>
BY DEF OwnerStep, OwnerEnds, OwnerStart, OwnerUnlinks, OwnerCreatesQueue, OwnerOpensSegment,
       OwnerFills, OwnerShutsDown, OwnerDies, vars, clientVars

(* A process takes one step of its script after the other.                   *)
LEMMA PcNext == Inv /\ [Next]_vars => PcInv'
<1> SUFFICES ASSUME ClientInv, [Next]_vars PROVE PcInv'
  BY DEF Inv
<1>0. PcInv /\ WaitsInv
  BY DEF ClientInv
<1>1. ASSUME NEW p \in Clients, NEW n \in 0..(Len(Script(p)) + 1), pc' = [pc EXCEPT ![p] = n]
      PROVE  PcInv'
  BY <1>0, <1>1, ScriptShape DEF PcInv
<1>2. ASSUME pc' = pc PROVE PcInv'
  BY <1>0, <1>2 DEF PcInv
<1>3. ASSUME NEW p \in Clients, Gone(p) PROVE PcInv'
  BY <1>0, <1>3, ScriptShape DEF Gone, PcInv
<1>4. ASSUME NEW p \in Clients, pc[p] \in 1..Len(Script(p)), Continue(p, pc[p] + 1) PROVE PcInv'
  BY <1>0, <1>4, ScriptShape DEF Continue, PcInv
<1>5. ASSUME NEW p \in Clients, pc[p] \in 1..Len(Script(p)), GoWithout(p) PROVE PcInv'
  BY <1>3, <1>4, <1>5 DEF GoWithout, Exit
<1>6. ASSUME NEW p \in Clients, Start(p) PROVE PcInv'
  BY <1>0, <1>6, ScriptShape DEF Start, PcInv
<1>7. ASSUME NEW p \in Clients, OpenReceiver(p) \/ OpenSender(p) PROVE PcInv'
  BY <1>4, <1>7, StepShape DEF OpenReceiver, OpenSender, At
<1>8. ASSUME NEW p \in Clients, NoSender(p) PROVE PcInv'
  <2>1. pc[p] \in 1..Len(Script(p)) /\ Step(p).op = "send"
    BY <1>8, StepShape DEF NoSender, At
  <2>2. CASE Step(p).must
    BY <1>3, <1>8, <2>2 DEF NoSender, Exit
  <2>3. CASE ~Step(p).must
    <3>1. BehindSenders(p) \in 0..(Len(Script(p)) + 1)
      BY <2>1, <2>3, BehindShape, ScriptShape
    <3> QED  BY <1>1, <1>8, <2>3, <3>1 DEF NoSender, Continue
  <2> QED  BY <2>2, <2>3
<1>9. ASSUME NEW p \in Clients, NoSegment(p) \/ Attached(p) \/ GiveUp(p) PROVE PcInv'
  <2>1. pc[p] \in 1..Len(Script(p))
    BY <1>0, <1>9, StepShape DEF NoSegment, At, Attached, Validated, GiveUp, WaitsInv
  <2> QED  BY <1>4, <1>5, <1>9, <2>1 DEF NoSegment, Attached, GiveUp
<1>10. ASSUME NEW p \in Clients, MapSegment(p) \/ BusError(p) \/ Die(p) PROVE PcInv'
  BY <1>2, <1>3, <1>10 DEF MapSegment, BusError, Die, Exit
<1> QED  BY <1>2, <1>6, <1>7, <1>8, <1>9, <1>10, OwnerFrame DEF Next, ClientStep

(* Only mapping the segment makes a process wait.                            *)
LEMMA WaitsNext == Inv /\ [Next]_vars => WaitsInv'
<1> SUFFICES ASSUME OwnerInv, ClientInv, [Next]_vars PROVE WaitsInv'
  BY DEF Inv
<1>0. PcInv /\ WaitsInv /\ HandlesInv
  BY DEF ClientInv
<1>1. ASSUME NEW p \in Clients, waits' = [waits EXCEPT ![p] = FALSE],
             \A o \in Clients \ {p} : pc'[o] = pc[o] /\ seg'[o] = seg[o]
      PROVE  WaitsInv'
  BY <1>0, <1>1 DEF WaitsInv, Step
<1>2. ASSUME UNCHANGED <<waits, pc, seg>> PROVE WaitsInv'
  BY <1>0, <1>2 DEF WaitsInv, Step
<1>3. ASSUME NEW p \in Clients, ~waits[p], waits' = waits,
             \A o \in Clients \ {p} : pc'[o] = pc[o] /\ seg'[o] = seg[o]
      PROVE  WaitsInv'
  BY <1>0, <1>3 DEF WaitsInv, Step
<1>4. ASSUME NEW p \in Clients, Gone(p) PROVE WaitsInv'
  BY <1>0, <1>1, <1>4 DEF Gone, PcInv, HandlesInv
<1>5. ASSUME NEW p \in Clients, GoWithout(p) PROVE WaitsInv'
  BY <1>0, <1>1, <1>4, <1>5 DEF GoWithout, Exit, Continue, PcInv, HandlesInv
<1>6. ASSUME NEW p \in Clients, Start(p) PROVE WaitsInv'
  <2>1. ~waits[p]
    BY <1>0, <1>6 DEF Start, WaitsInv
  <2> QED  BY <1>0, <1>3, <1>6, <2>1 DEF Start, PcInv
<1>7. ASSUME NEW p \in Clients, OpenReceiver(p) \/ OpenSender(p) \/ NoSender(p) PROVE WaitsInv'
  <2>1. CASE OpenReceiver(p) \/ OpenSender(p)
    BY <1>0, <1>3, <2>1 DEF OpenReceiver, OpenSender, At, Continue, PcInv
  <2>2. CASE NoSender(p)
    BY <1>0, <1>3, <1>4, <2>2 DEF NoSender, At, Exit, Continue, PcInv
  <2> QED  BY <1>7, <2>1, <2>2
<1>8. ASSUME NEW p \in Clients, MapSegment(p) PROVE WaitsInv'
  <2>1. /\ waits' \in [Clients -> BOOLEAN] /\ pc' = pc
        /\ \A o \in Clients \ {p} : waits'[o] = waits[o] /\ seg'[o] = seg[o]
    BY <1>0, <1>8 DEF MapSegment, WaitsInv, HandlesInv
  <2>2. pc[p] \in 1..Len(Script(p)) /\ Step(p).op = "attach" /\ seg'[p] # 0
    BY <1>0, <1>8, StepShape DEF MapSegment, At, Step, HandlesInv
  <2> QED  BY <1>0, <2>1, <2>2 DEF WaitsInv, Step
<1>9. ASSUME NEW p \in Clients, NoSegment(p) \/ GiveUp(p) \/ BusError(p) \/ Die(p) PROVE WaitsInv'
  BY <1>4, <1>5, <1>9 DEF NoSegment, GiveUp, BusError, Die, Exit
<1>10. ASSUME NEW p \in Clients, Attached(p) PROVE WaitsInv'
  BY <1>0, <1>1, <1>10 DEF Attached, Continue, PcInv
<1> QED  BY <1>2, <1>6, <1>7, <1>8, <1>9, <1>10, OwnerFrame DEF Next, ClientStep

(* What a process holds exists, or has existed.                              *)
LEMMA HandlesNext == Inv /\ [Next]_vars => HandlesInv'
<1> SUFFICES ASSUME OwnerInv, NamesInv, NamesInv', ClientInv, [Next]_vars PROVE HandlesInv'
  BY NamesNext DEF Inv
<1>0. HandlesInv /\ life \in Nat /\ shm \in 0..Len(stage) /\ Len(stage) \in Nat
  BY BoundsAssumption DEF ClientInv, OwnerInv
<1>1. ASSUME UNCHANGED <<seg, recv, send, born>> PROVE HandlesInv'
  BY <1>0, <1>1, StageGrows DEF HandlesInv
<1>2. ASSUME NEW p \in Clients, Gone(p), UNCHANGED <<life, stage>> PROVE HandlesInv'
  BY <1>0, <1>2 DEF Gone, HandlesInv, NoSenders
<1>3. ASSUME NEW p \in Clients, GoWithout(p) PROVE HandlesInv'
  <2>1. CASE Exit(p)
    BY <1>2, <2>1 DEF Exit, ownerVars
  <2>2. CASE ~Exit(p)
    <3>1. seg' = [seg EXCEPT ![p] = 0] /\ UNCHANGED <<life, stage, recv, send, born>>
      BY <1>3, <2>2 DEF GoWithout, ownerVars
    <3> QED  BY <1>0, <3>1 DEF HandlesInv
  <2> QED  BY <2>1, <2>2
<1>4. ASSUME NEW p \in Clients, Start(p) PROVE HandlesInv'
  BY <1>0, <1>4 DEF Start, HandlesInv, ownerVars
<1>5. ASSUME NEW p \in Clients, OpenReceiver(p) PROVE HandlesInv'
  <2>1. Step(p).queue \in Queues /\ name' \in [Queues -> Nat]
    BY <1>5, StepShape DEF OpenReceiver, At, NamesInv
  <2> QED  BY <1>0, <1>5, <2>1 DEF OpenReceiver, HandlesInv, ownerVars
<1>6. ASSUME NEW p \in Clients, OpenSender(p) PROVE HandlesInv'
  <2>1. Step(p).queue \in Queues /\ name \in [Queues -> Nat]
    BY <1>6, StepShape DEF OpenSender, At, NamesInv
  <2> QED  BY <1>0, <1>6, <2>1 DEF OpenSender, HandlesInv, ownerVars
<1>7. ASSUME NEW p \in Clients, NoSender(p) PROVE HandlesInv'
  <2>1. CASE Exit(p)
    BY <1>2, <2>1 DEF Exit, ownerVars
  <2>2. CASE ~Exit(p)
    <3>1. send' = [send EXCEPT ![p] = NoSenders] /\ UNCHANGED <<life, stage, seg, recv, born>>
      BY <1>7, <2>2 DEF NoSender, ownerVars
    <3>2. NoSenders \in [Queues -> Nat]
      BY DEF NoSenders
    <3> QED  BY <1>0, <3>1, <3>2 DEF HandlesInv
  <2> QED  BY <2>1, <2>2
<1>8. ASSUME NEW p \in Clients, MapSegment(p) PROVE HandlesInv'
  BY <1>0, <1>8 DEF MapSegment, HandlesInv, ownerVars
<1>9. ASSUME NEW p \in Clients, NoSegment(p) \/ GiveUp(p) \/ BusError(p) \/ Die(p) PROVE HandlesInv'
  BY <1>2, <1>3, <1>9 DEF NoSegment, GiveUp, BusError, Die, Exit, ownerVars
<1>10. ASSUME NEW p \in Clients, Attached(p) PROVE HandlesInv'
  BY <1>1, <1>10 DEF Attached
<1> QED  BY <1>1, <1>4, <1>5, <1>6, <1>7, <1>8, <1>9, <1>10, OwnerFrame DEF Next, ClientStep

(* The bounds of the model.                                                  *)
LEMMA BoundsNext == Inv /\ [Next]_vars => BoundsInv'
<1> SUFFICES ASSUME BoundsInv, [Next]_vars PROVE BoundsInv'
  BY DEF Inv, ClientInv
<1>1. deaths' \in 0..MaxDeaths
  <2>1. ASSUME NEW p \in Clients, Die(p) PROVE deaths' = deaths + 1 /\ deaths < MaxDeaths
    BY <2>1 DEF Die
  <2>2. ASSUME NEW p \in Clients, ClientStep(p) PROVE deaths' = deaths
    BY <2>2 DEF ClientStep, Start, OpenReceiver, OpenSender, NoSender, MapSegment, NoSegment,
                BusError, Attached, GiveUp, GoWithout, Exit
  <2> QED  BY <2>1, <2>2, OwnerFrame, BoundsAssumption DEF BoundsInv, Next
<1>2. forked' \subseteq Processes \cup {"model_manager"}
  <2>1. CASE OwnerStart
    BY <2>1 DEF OwnerStart, BoundsInv
  <2>2. ASSUME NEW p \in Clients, Start(p) PROVE forked' \subseteq Processes \cup {"model_manager"}
    BY <2>2, ClientsAssumption DEF Start, BoundsInv
  <2> QED  BY <2>1, <2>2 DEF BoundsInv, Next, OwnerStep, OwnerEnds, OwnerUnlinks,
             OwnerCreatesQueue, OwnerOpensSegment, OwnerFills, OwnerShutsDown, OwnerDies, vars,
             ClientStep, Die, OpenReceiver, OpenSender, NoSender, MapSegment, NoSegment,
             BusError, Attached, GiveUp, GoWithout, Exit
<1> QED  BY <1>1, <1>2 DEF BoundsInv

(* A process only stops waiting for a segment it keeps when the header says   *)
(* that the locks are set up, and no stage takes that back.                 *)
LEMMA ReadyNext == Inv /\ [Next]_vars => ReadyInv'
<1> SUFFICES ASSUME OwnerInv, ClientInv, ReadyInv, [Next]_vars PROVE ReadyInv'
  BY DEF Inv
<1>0. /\ seg \in [Clients -> 0..Len(stage)] /\ waits \in [Clients -> BOOLEAN]
      /\ Len(stage) \in Nat
  BY DEF ClientInv, HandlesInv, WaitsInv, OwnerInv
<1>1. ASSUME UNCHANGED <<waits, seg>> PROVE ReadyInv'
  BY <1>0, <1>1, StageGrows DEF ReadyInv
<1>2. ASSUME NEW p \in Clients, UNCHANGED stage,
             \A o \in Clients \ {p} : waits'[o] = waits[o] /\ seg'[o] = seg[o],
             waits'[p] \/ seg'[p] = 0 \/ stage[seg'[p]] \in Initialized
      PROVE  ReadyInv'
  BY <1>0, <1>2 DEF ReadyInv
<1>3. ASSUME NEW p \in Clients, Gone(p), UNCHANGED stage PROVE ReadyInv'
  BY <1>0, <1>2, <1>3 DEF Gone
<1>4. ASSUME NEW p \in Clients, GoWithout(p) PROVE ReadyInv'
  BY <1>0, <1>2, <1>3, <1>4 DEF GoWithout, Exit, ownerVars
<1>5. ASSUME NEW p \in Clients, MapSegment(p) PROVE ReadyInv'
  BY <1>0, <1>2, <1>5 DEF MapSegment, ownerVars
<1>6. ASSUME NEW p \in Clients, Attached(p) PROVE ReadyInv'
  BY <1>0, <1>2, <1>6 DEF Attached, Validated, ownerVars
<1>7. ASSUME NEW p \in Clients, NoSender(p) PROVE ReadyInv'
  BY <1>1, <1>3, <1>7 DEF NoSender, Exit, ownerVars
<1>8. ASSUME NEW p \in Clients, NoSegment(p) \/ GiveUp(p) \/ BusError(p) \/ Die(p) PROVE ReadyInv'
  BY <1>3, <1>4, <1>8 DEF NoSegment, GiveUp, BusError, Die, Exit, ownerVars
<1>9. ASSUME NEW p \in Clients, Start(p) \/ OpenReceiver(p) \/ OpenSender(p) PROVE ReadyInv'
  BY <1>1, <1>9 DEF Start, OpenReceiver, OpenSender
<1> QED  BY <1>1, <1>5, <1>6, <1>7, <1>8, <1>9, OwnerFrame DEF Next, ClientStep

(* A step of one process is none of another.                                 *)
LEMMA OtherFrame ==
  ASSUME ClientInv, NEW o \in Clients, ClientStep(o) \/ Die(o), NEW p \in Clients, p # o
  PROVE  /\ born'[p] = born[p] /\ pc'[p] = pc[p] /\ waits'[p] = waits[p]
         /\ seg'[p] = seg[p] /\ recv'[p] = recv[p] /\ send'[p] = send[p]
<1>0. /\ pc \in [Clients -> Nat] /\ waits \in [Clients -> BOOLEAN]
      /\ seg \in [Clients -> 0..Len(stage)] /\ recv \in [Clients -> Nat]
      /\ send \in [Clients -> [Queues -> Nat]] /\ born \in [Clients -> 0..life]
  BY DEF ClientInv, PcInv, WaitsInv, HandlesInv
<1>1. CASE Gone(o)
  BY <1>0, <1>1 DEF Gone
<1>2. CASE Start(o) \/ OpenReceiver(o)
  BY <1>0, <1>2 DEF Start, OpenReceiver, Continue
<1>3. CASE OpenSender(o) \/ (NoSender(o) /\ ~Gone(o))
  BY <1>0, <1>3 DEF OpenSender, NoSender, Exit, Continue
<1>4. CASE GoWithout(o) /\ ~Gone(o)
  BY <1>0, <1>4 DEF GoWithout, Exit, Continue
<1>5. CASE MapSegment(o) \/ Attached(o)
  BY <1>0, <1>5 DEF MapSegment, Attached, Continue
<1> QED  BY <1>1, <1>2, <1>3, <1>4, <1>5 DEF ClientStep, Die, BusError, NoSegment, GiveUp, Exit

(* What model_manager polls with: every name is bound, and the segment is    *)
(* filled.                                                                 *)
LEMMA PollingShape ==
  ASSUME OwnerInv, NamesInv, owner = 9
  PROVE  (\A q \in Queues : name[q] # 0) /\ shm # 0 /\ stage[shm] = "filled"
<1>1. \A q \in Queues : name[q] # 0
  BY TurnShape DEF NamesInv
<1> QED  BY <1>1 DEF OwnerInv, Reached

(* What a process that was started in this life holds.                       *)
Heals(p) ==
  born[p] = life /\ life # 0 =>
    /\ owner \in {0, 9}
    /\ owner = 9 /\ pc[p] # 0 =>
         /\ waits[p] => seg[p] = shm
         /\ \A i \in 1..Len(Script(p)) : i < pc[p] => Holds(p, Script(p)[i])

(* No name and no segment is taken away while model_manager polls, and what   *)
(* a process opens then is what the names are bound to.                     *)
LEMMA HealNext == Inv /\ [Next]_vars => HealInv'
<1> SUFFICES ASSUME OwnerInv, NamesInv, ClientInv, \A p \in Clients : Heals(p), [Next]_vars,
                    NEW p \in Clients
             PROVE  Heals(p)'
  BY DEF Inv, HealInv, Heals
<1>0. /\ owner \in 0..9 /\ life \in Nat /\ (owner # 0 => life # 0)
      /\ born[p] \in 0..life /\ Heals(p) /\ Len(Script(p)) \in 1..5
  BY BoundsAssumption, ScriptShape DEF OwnerInv, ClientInv, HandlesInv
<1>1. CASE OwnerStart
  <2>1. life' = life + 1 /\ born' = born
    BY <1>1 DEF OwnerStart, clientVars
  <2> QED  BY <1>0, <2>1 DEF Heals
<1>2. ASSUME owner \in 1..8, life' = life, born' = born PROVE Heals(p)'
  BY <1>0, <1>2 DEF Heals
<1>3. ASSUME owner' = 0, life' = life, born' = born PROVE Heals(p)'
  <2>1. 0 \in {0, 9} /\ ~(owner' = 9)
    BY <1>3
  <2> QED  BY <1>3, <2>1 DEF Heals
<1>4. CASE OwnerStep \/ OwnerEnds \/ UNCHANGED vars
  <2>1. CASE OwnerUnlinks \/ OwnerCreatesQueue \/ OwnerOpensSegment \/ OwnerFills
    BY <1>2, <2>1 DEF OwnerUnlinks, OwnerCreatesQueue, OwnerOpensSegment, OwnerFills, clientVars
  <2>2. CASE OwnerEnds
    BY <1>3, <2>2 DEF OwnerEnds, OwnerShutsDown, OwnerDies, clientVars
  <2>3. CASE UNCHANGED vars
    BY <1>0, <2>3 DEF vars, ownerVars, clientVars, names, Heals, Holds
  <2> QED  BY <1>1, <1>4, <2>1, <2>2, <2>3 DEF OwnerStep
<1>5. ASSUME NEW o \in Clients, ClientStep(o) \/ Die(o) PROVE Heals(p)'
  <2>1. UNCHANGED <<owner, life, shm, stage>>
    BY <1>5, ClientFrame
  <2>2. owner = 9 => UNCHANGED name
    <3>1. CASE OpenReceiver(o)
      <4>1. Step(o).queue \in Queues /\ Bind(Step(o).queue)
        BY <3>1, StepShape DEF OpenReceiver, At
      <4> QED  BY <4>1, PollingShape DEF Bind, names
    <3> QED  BY <1>5, <3>1, NamesFrame
  <2>3. CASE o # p
    <3>1. /\ born'[p] = born[p] /\ pc'[p] = pc[p] /\ waits'[p] = waits[p] /\ seg'[p] = seg[p]
          /\ recv'[p] = recv[p] /\ send'[p] = send[p]
      BY <1>5, <2>3, OtherFrame
    <3> QED  BY <1>0, <2>1, <2>2, <3>1 DEF Heals, Holds
  <2>4. CASE Gone(p)
    <3>1. born'[p] = 0
      BY <2>4 DEF Gone, ClientInv, HandlesInv
    <3> QED  BY <2>1, <3>1 DEF Heals
  <2>5. CASE o = p /\ Start(p)
    <3>1. pc'[p] = 1 /\ waits'[p] = waits[p] /\ born'[p] = (IF owner = 9 THEN life ELSE 0) /\ ~waits[p]
      BY <2>5, CreationShape DEF Start, ClientInv, HandlesInv, PcInv, WaitsInv
    <3> QED  BY <1>0, <2>1, <3>1 DEF Heals
  <2>6. ASSUME o = p, born'[p] = born[p], pc'[p] = pc[p] + 1, pc[p] \in 1..Len(Script(p)), ~waits'[p],
               owner = 9 => \A i \in 1..Len(Script(p)) :
                              i <= pc[p] /\ (i < pc[p] => Holds(p, Script(p)[i]))
                                         => Holds(p, Script(p)[i])'
        PROVE  Heals(p)'
    BY <1>0, <2>1, <2>6 DEF Heals
  <2>7. CASE o = p /\ OpenReceiver(p)
    <3>1. pc[p] = 1 /\ Step(p) = Script(p)[1] /\ Step(p).op = "receive" /\ pc[p] \in 1..Len(Script(p))
      BY <2>7, StepShape DEF OpenReceiver, At
    <3>2. recv'[p] = name'[Script(p)[1].queue] /\ pc'[p] = pc[p] + 1 /\ ~waits'[p] /\ born'[p] = born[p]
      BY <2>7, <3>1 DEF OpenReceiver, Continue, At, ClientInv, HandlesInv, PcInv
    <3>3. Holds(p, Script(p)[1])'
      BY <3>1, <3>2 DEF Holds
    <3> QED  BY <2>6, <2>7, <3>1, <3>2, <3>3
  <2>8. CASE o = p /\ OpenSender(p)
    <3> DEFINE k == pc[p]  n == Script(p)[k].queue
    <3>1. k \in 1..Len(Script(p)) /\ Step(p) = Script(p)[k] /\ Script(p)[k].op = "send" /\ n \in Queues
      BY <2>8, StepShape DEF OpenSender, At
    <3>2. /\ pc'[p] = k + 1 /\ ~waits'[p] /\ born'[p] = born[p] /\ name' = name
          /\ seg'[p] = seg[p] /\ recv'[p] = recv[p]
      BY <2>8 DEF OpenSender, Continue, At, ClientInv, PcInv, names
    <3>3. send'[p] = [send[p] EXCEPT ![n] = name[n]] /\ send[p] \in [Queues -> Nat]
      BY <2>8, <3>1 DEF OpenSender, ClientInv, HandlesInv
    <3>4. ASSUME NEW i \in 1..Len(Script(p)), i <= k, i < k => Holds(p, Script(p)[i])
          PROVE  Holds(p, Script(p)[i])'
      <4>1. CASE i = k
        BY <2>1, <3>1, <3>2, <3>3, <4>1 DEF Holds
      <4>2. CASE i < k
        <5>1. Script(p)[i].op = "send" => Script(p)[i].queue \in Queues
          BY ScriptShape
        <5> QED  BY <2>1, <3>1, <3>2, <3>3, <3>4, <4>2, <5>1 DEF Holds
      <4> QED  BY <3>1, <3>4, <4>1, <4>2
    <3> QED  BY <2>6, <2>8, <3>1, <3>2, <3>4
  <2>9. CASE o = p /\ NoSender(p) /\ ~Gone(p)
    <3>1. Step(p).queue \in Queues /\ name[Step(p).queue] = 0
      BY <2>9, StepShape DEF NoSender, At
    <3>2. owner # 9 /\ born'[p] = born[p]
      BY <2>9, <3>1, PollingShape DEF NoSender, Exit
    <3> QED  BY <1>0, <2>1, <3>2 DEF Heals
  <2>10. CASE o = p /\ MapSegment(p)
    <3>1. seg'[p] = shm /\ UNCHANGED <<born, pc, recv, send, name>>
      BY <2>10 DEF MapSegment, ClientInv, HandlesInv, names
    <3> QED  BY <1>0, <2>1, <3>1 DEF Heals, Holds
  <2>11. CASE o = p /\ (NoSegment(p) \/ GiveUp(p)) /\ ~Gone(p)
    <3>1. born'[p] = born[p] /\ (shm = 0 \/ (waits[p] /\ stage[seg[p]] = "sized"))
      BY <2>11 DEF NoSegment, GiveUp, GoWithout, Exit
    <3>2. ~(owner = 9 /\ born[p] = life)
      <4>1. waits[p] => pc[p] # 0
        BY <1>0 DEF ClientInv, WaitsInv
      <4> QED  BY <1>0, <3>1, <4>1, PollingShape DEF Heals
    <3> QED  BY <1>0, <2>1, <3>1, <3>2 DEF Heals
  <2>12. CASE o = p /\ Attached(p)
    <3>1. /\ pc[p] \in 1..Len(Script(p)) /\ waits[p] /\ Script(p)[pc[p]].op = "attach"
      BY <2>12 DEF Attached, Validated, ClientInv, WaitsInv, Step
    <3>2. pc'[p] = pc[p] + 1 /\ ~waits'[p] /\ UNCHANGED <<born, seg, recv, send, name>>
      BY <2>12 DEF Attached, Continue, ClientInv, PcInv, WaitsInv, names
    <3> QED  BY <1>0, <2>1, <3>1, <3>2 DEF Heals, Holds
  <2> QED  BY <1>5, <2>3, <2>4, <2>5, <2>7, <2>8, <2>9, <2>10, <2>11, <2>12
           DEF ClientStep, BusError, Die, Exit, GoWithout
<1> QED  BY <1>4, <1>5 DEF Next

-----------------------------------------------------------------------------
(* Whether the queue in front of model_manager has been unlinked is yes or no. *)
LEMMA UnlinkedNext == Inv /\ [Next]_vars => unlinked' \in BOOLEAN
<1> SUFFICES ASSUME unlinked \in BOOLEAN, [Next]_vars PROVE unlinked' \in BOOLEAN
  BY DEF Inv
<1>1. CASE OwnerStep \/ OwnerEnds
  BY <1>1 DEF OwnerStep, OwnerEnds, OwnerStart, OwnerUnlinks, OwnerCreatesQueue,
              OwnerOpensSegment, OwnerFills, OwnerShutsDown, OwnerDies
<1>2. CASE UNCHANGED vars
  BY <1>2 DEF vars, ownerVars
<1> QED  BY <1>1, <1>2, ClientFrame DEF Next

(* The inductive invariant: the stage of the segment follows the place of     *)
(* model_manager, no process drops or gains an object outside its script,   *)
(* and what it holds is what was bound when it looked.                      *)
THEOREM Invariance == Spec => []Inv
<1>1. Inv /\ [Next]_vars => Inv'
  BY OwnerNext, UnlinkedNext, NamesNext, PcNext, WaitsNext, HandlesNext, BoundsNext, ReadyNext,
     HealNext DEF Inv, ClientInv
<1> QED  BY InvInit, <1>1, PTL DEF Spec

(* Names are only bound to objects that exist, the newest if to any, and there *)
(* are no more objects than restarts account for.                          *)
THEOREM TypeCorrect == Spec => []TypeOK
<1>1. ASSUME Inv PROVE TypeOK
  <2>0. /\ OwnerInv /\ NamesInv /\ PcInv /\ WaitsInv /\ HandlesInv /\ BoundsInv
        /\ unlinked \in BOOLEAN
    BY <1>1 DEF Inv, ClientInv
  <2>1. /\ owner \in 0..Polling /\ life \in 0..MaxLives /\ stage \in Seq(Stages)
        /\ shm \in {0, Len(stage)} /\ Len(stage) <= life
    BY <2>0, CreationShape, BoundsAssumption DEF OwnerInv
  <2>2. \A q \in Queues : made[q] \in 0..(2 * life + 1) /\ name[q] \in {0, made[q]}
    <3>1. ASSUME NEW q \in Queues
          PROVE  made[q] \in Nat /\ Used(q) \in Nat /\ made[q] <= Used(q) /\ Spare(q) \in Nat
      BY <2>0 DEF NamesInv, Used, Spare
    <3>2. life \in Nat
      BY <2>1, BoundsAssumption
    <3> QED  BY <2>0, <3>1, <3>2 DEF NamesInv
  <2>3. pc \in [Clients -> 0..6]
    <3>1. ASSUME NEW p \in Clients PROVE pc[p] \in 0..6
      <4>1. PICK n \in 1..5 : n = Len(Script(p))
        BY ScriptShape
      <4>2. PICK k \in Nat : k = pc[p]
        BY <2>0 DEF PcInv
      <4>3. k <= n + 1
        BY <2>0, <4>1, <4>2 DEF PcInv
      <4>4. k \in 0..6
        BY <4>3
      <4> QED  BY <4>2, <4>4
    <3> QED  BY <2>0, <3>1 DEF PcInv
  <2> QED  BY <2>0, <2>1, <2>2, <2>3 DEF TypeOK, WaitsInv, HandlesInv, BoundsInv
<1> QED  BY Invariance, <1>1, PTL

(* Whatever dies or is restarted, and in whatever order: no process serves on  *)
(* a segment whose mutexes and sequence numbers have not been set up        *)
(* (validate_header, shm_manager.h).                                       *)
THEOREM LocksReady == Spec => []LocksAreReady
<1>1. Inv => LocksAreReady
  BY DEF Inv, ClientInv, WaitsInv, ReadyInv, LocksAreReady, Serving
<1> QED  BY Invariance, <1>1, PTL

(* A process that systemd starts once model_manager polls holds the segment   *)
(* and the queues that the others find, as long as model_manager runs.      *)
THEOREM RestartConnects == Spec => []RestartHeals
<1>1. ASSUME Inv PROVE RestartHeals
  <2> SUFFICES ASSUME NEW p \in Clients, Serving(p), owner = Polling, born[p] = life
               PROVE  Connected(p)
    BY DEF RestartHeals
  <2>1. /\ owner = 9 /\ life # 0 /\ pc[p] # 0
        /\ \A i \in 1..Len(Script(p)) : i < pc[p]
    BY <1>1, CreationShape, ScriptShape DEF Inv, OwnerInv, ClientInv, PcInv, Serving
  <2>2. \A i \in 1..Len(Script(p)) : Holds(p, Script(p)[i])
    BY <1>1, <2>1 DEF Inv, HealInv
  <2>3. (\A q \in Queues : name[q] # 0) /\ shm # 0 /\ stage[shm] = "filled"
    BY <1>1, <2>1, PollingShape DEF Inv
  <2> QED  BY <2>2, <2>3 DEF Connected, Wants, Holds
<1> QED  BY Invariance, <1>1, PTL
=============================================================================
