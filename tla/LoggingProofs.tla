---------------------------- MODULE LoggingProofs ----------------------------
(***************************************************************************)
(* What Logging.tla promises for every set of processes and every size of    *)
(* the queue and of the descriptor table, proved with TLAPS.                *)
(***************************************************************************)
EXTENDS Logging, TLAPS

(* A connection has a socket: the descriptor that Disconnect gives back.     *)
Connected == \A p \in Procs : link[p] => fds[p] > 0

(* The types, by the process whose state they are about.                     *)
SendersOK ==
  /\ waiting \in Seq(Procs)
  /\ \A i, j \in 1..Len(waiting) : waiting[i] = waiting[j] => i = j
QueueOK == lines \in 0..MaxMsgs /\ (waiting # <<>> => lines = MaxMsgs)
StopsOK == stops \in 0..MaxStops
FdsOK == fds \in [Procs -> 0..MaxFds]
FlagsOK ==
  /\ daemon \in BOOLEAN /\ runs \in [Procs -> BOOLEAN] /\ told \in [Procs -> BOOLEAN]
  /\ link \in [Procs -> BOOLEAN]
TypeInv == SendersOK /\ QueueOK /\ StopsOK /\ FdsOK /\ FlagsOK /\ Connected

(* The types hold at the start, where only the sockets are open.             *)
LEMMA TypeInit == Init => TypeInv
<1> SUFFICES ASSUME Init PROVE TypeInv
  OBVIOUS
<1>1. \A p \in Procs : link[p] <=> p \in Mqtt
  BY DEF Init
<1>2. link \in [Procs -> BOOLEAN]
  BY DEF Init
<1>3. FlagsOK
  BY <1>2 DEF Init, FlagsOK
<1>4. FdsOK /\ \A p \in Procs : p \in Mqtt => fds[p] = 1
  BY LimitsAssumption DEF Init, Sockets, FdsOK
<1>5. Connected
  BY <1>1, <1>4 DEF Connected
<1>6. SendersOK /\ QueueOK /\ StopsOK
  BY LimitsAssumption DEF Init, SendersOK, QueueOK, StopsOK
<1> QED  BY <1>3, <1>4, <1>5, <1>6 DEF TypeInv

(* Whoever does not wait yet may be put behind those who wait: nobody is in   *)
(* the queue of senders twice.                                             *)
LEMMA WaitsOnce ==
  ASSUME waiting \in Seq(Procs), NEW p \in Procs, ~Waits(p),
         \A i, j \in 1..Len(waiting) : waiting[i] = waiting[j] => i = j
  PROVE  LET w == Append(waiting, p)
         IN w \in Seq(Procs) /\ \A i, j \in 1..Len(w) : w[i] = w[j] => i = j
BY SMT DEF Waits

(* The first of those who wait is let in, the others stay in order.          *)
LEMMA LetIn ==
  ASSUME waiting \in Seq(Procs), waiting # <<>>,
         \A i, j \in 1..Len(waiting) : waiting[i] = waiting[j] => i = j
  PROVE  LET w == Tail(waiting)
         IN w \in Seq(Procs) /\ \A i, j \in 1..Len(w) : w[i] = w[j] => i = j
<1>1. Tail(waiting) \in Seq(Procs)
  OBVIOUS
<1> QED  BY <1>1

(* Only a line that is sent or taken concerns the queue: whoever waits is     *)
(* there once, and behind a full queue.                                    *)
LEMMA SendersNext == TypeInv /\ [Next]_vars => SendersOK' /\ QueueOK'
<1> SUFFICES ASSUME SendersOK, QueueOK, [Next]_vars PROVE SendersOK' /\ QueueOK'
  BY DEF TypeInv
<1> USE LimitsAssumption
<1>1. ASSUME UNCHANGED <<lines, waiting>> PROVE SendersOK' /\ QueueOK'
  BY <1>1 DEF SendersOK, QueueOK
<1>2. ASSUME NEW p \in Procs, Log(p) PROVE SendersOK' /\ QueueOK'
  <2>1. CASE Full
    <3>1. waiting' = Append(waiting, p) /\ lines = MaxMsgs /\ lines' = MaxMsgs
      BY <1>2, <2>1 DEF Log, Full, QueueOK
    <3> QED  BY <1>2, <3>1, WaitsOnce DEF Log, SendersOK, QueueOK
  <2>2. CASE ~Full
    BY <1>2, <2>2 DEF Log, Full, SendersOK, QueueOK
  <2> QED  BY <2>1, <2>2
<1>3. CASE Receive
  <2>1. CASE waiting = <<>>
    BY <1>3, <2>1 DEF Receive, SendersOK, QueueOK
  <2>2. CASE waiting # <<>>
    <3>1. waiting' = Tail(waiting) /\ lines' = MaxMsgs
      BY <1>3, <2>2 DEF Receive, QueueOK
    <3>2. SendersOK'
      BY <2>2, <3>1, LetIn DEF SendersOK
    <3> QED  BY <3>1, <3>2 DEF QueueOK
  <2> QED  BY <2>1, <2>2
<1> QED  BY <1>1, <1>2, <1>3 DEF Next, DaemonStops, DaemonStarts, Disconnect, Reconnect,
                               Terminate, Exit, Start, vars

(* Every step keeps the descriptors in range.                                *)
LEMMA DescriptorsNext == TypeInv /\ [Next]_vars => FdsOK' /\ FlagsOK' /\ Connected'
<1> SUFFICES ASSUME FdsOK, FlagsOK, Connected, [Next]_vars
             PROVE  FdsOK' /\ FlagsOK' /\ Connected'
  BY DEF TypeInv
<1> USE LimitsAssumption
<1>1. ASSUME UNCHANGED procVars PROVE FdsOK' /\ Connected'
  BY <1>1 DEF FdsOK, Connected, procVars
<1>2. ASSUME NEW p \in Procs, Log(p) PROVE FdsOK' /\ Connected'
  BY <1>2 DEF Log, FdsOK, Connected
<1>3. ASSUME NEW p \in Procs, Disconnect(p) PROVE FdsOK' /\ Connected'
  BY <1>3 DEF Disconnect, FdsOK, Connected, FlagsOK
<1>4. ASSUME NEW p \in Procs, Reconnect(p) PROVE FdsOK' /\ Connected'
  BY <1>4 DEF Reconnect, FdsOK, Connected, FlagsOK
<1>5. ASSUME NEW p \in Procs, Terminate(p) PROVE FdsOK' /\ Connected'
  BY <1>5 DEF Terminate, FdsOK, Connected
<1>6. ASSUME NEW p \in Procs, Exit(p) PROVE FdsOK' /\ Connected'
  BY <1>6 DEF Exit, FdsOK, Connected, FlagsOK
<1>7. ASSUME NEW p \in Procs, Start(p) PROVE FdsOK' /\ Connected'
  <2>1. FdsOK' /\ fds'[p] = Sockets(p) /\ \A o \in Procs \ {p} : fds'[o] = fds[o]
    BY <1>7 DEF Start, FdsOK, Sockets
  <2>2. (link'[p] <=> p \in Mqtt) /\ \A o \in Procs \ {p} : link'[o] = link[o]
    BY <1>7 DEF Start, FlagsOK
  <2> QED  BY <2>1, <2>2 DEF Connected, Sockets
<1>8. FlagsOK'
  <2>1. ASSUME NEW p \in Procs, Log(p) \/ Disconnect(p) \/ Reconnect(p) PROVE FlagsOK'
    BY <2>1 DEF Log, Disconnect, Reconnect, FlagsOK
  <2>2. ASSUME NEW p \in Procs, Terminate(p) \/ Exit(p) PROVE FlagsOK'
    BY <2>2 DEF Terminate, Exit, FlagsOK
  <2>3. ASSUME NEW p \in Procs, Start(p) PROVE FlagsOK'
    <3>1. link' \in [Procs -> BOOLEAN]
      BY <2>3 DEF Start, FlagsOK
    <3> QED  BY <2>3, <3>1 DEF Start, FlagsOK
  <2>4. CASE Receive \/ DaemonStops \/ DaemonStarts \/ UNCHANGED vars
    BY <2>4 DEF Receive, DaemonStops, DaemonStarts, FlagsOK, vars, procVars
  <2> QED  BY <2>1, <2>2, <2>3, <2>4 DEF Next
<1> QED  BY <1>1, <1>2, <1>3, <1>4, <1>5, <1>6, <1>7, <1>8
         DEF Next, Receive, DaemonStops, DaemonStarts, vars

(* The bound on the stops.                                                   *)
LEMMA StopsNext == TypeInv /\ [Next]_vars => StopsOK'
<1> SUFFICES ASSUME StopsOK, [Next]_vars PROVE StopsOK'
  BY DEF TypeInv
<1>1. CASE DaemonStops
  BY <1>1, LimitsAssumption DEF DaemonStops, StopsOK
<1> QED  BY <1>1 DEF Next, Receive, DaemonStarts, Log, Disconnect, Reconnect, Terminate,
                     Exit, Start, StopsOK, vars

(* Every step keeps the types.                                               *)
LEMMA TypeNext == TypeInv /\ [Next]_vars => TypeInv'
BY SendersNext, DescriptorsNext, StopsNext DEF TypeInv

(* The queue never holds more lines than it has room for, senders wait only   *)
(* for a full queue and each of them once, and no process ever has more or  *)
(* fewer descriptors than it can have, however often lines, connections and *)
(* restarts follow each other.                                             *)
THEOREM TypeCorrect == Spec => []TypeOK
<1>1. TypeInv => TypeOK
  BY DEF TypeInv, TypeOK, SendersOK, QueueOK, StopsOK, FdsOK, FlagsOK
<1> QED  BY TypeInit, TypeNext, <1>1, PTL DEF Spec
=============================================================================
