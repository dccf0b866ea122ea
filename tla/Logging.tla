------------------------------- MODULE Logging -------------------------------
(***************************************************************************)
(* The log queue between the processes of the host and log_daemon, and what  *)
(* a log line costs.  LOG_* opens the queue for every line and never closes  *)
(* it, and it sends blocking: a full queue stops the process, signals       *)
(* included, since they are only read from a descriptor in the poll loop.   *)
(***************************************************************************)
EXTENDS Naturals, Sequences

CONSTANTS
  Procs,      \* the processes that log
  Mqtt,       \* those with a connection to the MQTT broker
  Callbacks,  \* those that log in the thread of that connection
  MaxMsgs,    \* MQ_LOG_MAXMSG
  MaxFds,     \* descriptors a process may have (LimitNOFILE)
  MaxStops    \* bound: how often log_daemon is stopped

ASSUME ProcsAssumption == Callbacks \subseteq Mqtt /\ Mqtt \subseteq Procs
ASSUME LimitsAssumption ==
  MaxMsgs \in Nat \ {0} /\ MaxFds \in Nat \ {0} /\ MaxStops \in Nat

VARIABLES
  lines,    \* how many lines the queue holds
  waiting,  \* the processes blocked in mq_send, in the order they came
  daemon,   \* does log_daemon run?
  stops,
  runs,     \* runs[p]: does p run?
  told,     \* told[p]: has it been sent SIGTERM?
  fds,      \* fds[p]: its descriptors: leaked queue descriptors and the socket
  link      \* link[p]: is its connection up?

procVars == <<runs, told, fds, link>>
vars == <<lines, waiting, daemon, stops, procVars>>

Waits(p) == \E i \in 1..Len(waiting) : waiting[i] = p
Sockets(p) == IF p \in Mqtt THEN 1 ELSE 0

Init ==
  /\ lines = 0 /\ waiting = <<>>
  /\ daemon = TRUE /\ stops = 0
  /\ runs = [p \in Procs |-> TRUE] /\ told = [p \in Procs |-> FALSE]
  /\ fds = [p \in Procs |-> Sockets(p)] /\ link = [p \in Procs |-> p \in Mqtt]

-----------------------------------------------------------------------------
MutFull == lines + 1 >= MaxMsgs
Full == lines >= MaxMsgs

(* One LOG_*.  Without a descriptor left the line only goes to stderr.        *)
Log(p) ==
  /\ runs[p] /\ ~Waits(p) /\ fds[p] < MaxFds
  /\ fds' = [fds EXCEPT ![p] = @ + 1]
  /\ IF Full THEN waiting' = Append(waiting, p) /\ UNCHANGED lines
     ELSE lines' = lines + 1 /\ UNCHANGED waiting
  /\ UNCHANGED <<daemon, stops, runs, told, link>>

(* log_daemon takes a line; the kernel lets the first waiting sender have the *)
(* place.                                                                  *)
Receive ==
  /\ daemon /\ lines > 0
  /\ IF waiting = <<>> THEN lines' = lines - 1 /\ UNCHANGED waiting
     ELSE waiting' = Tail(waiting) /\ UNCHANGED lines
  /\ UNCHANGED <<daemon, stops, procVars>>

DaemonStops ==
  /\ daemon /\ stops < MaxStops
  /\ daemon' = FALSE /\ stops' = stops + 1
  /\ UNCHANGED <<lines, waiting, procVars>>

MutDaemonStarts == FALSE /\ UNCHANGED vars

(* Nobody unlinks the queue: the new log_daemon opens the one there is.       *)
DaemonStarts ==
  /\ ~daemon
  /\ daemon' = TRUE
  /\ UNCHANGED <<lines, waiting, stops, procVars>>

(* The socket is closed before the callback asks for a new one.              *)
Disconnect(p) ==
  /\ runs[p] /\ link[p]
  /\ link' = [link EXCEPT ![p] = FALSE]
  /\ fds' = [fds EXCEPT ![p] = @ - 1]
  /\ UNCHANGED <<lines, waiting, daemon, stops, runs, told>>

(* mosquitto_reconnect_async and the loop of the library.                    *)
Reconnect(p) ==
  /\ p \in Mqtt /\ runs[p] /\ ~link[p]
  /\ p \in Callbacks => ~Waits(p)
  /\ fds[p] < MaxFds
  /\ link' = [link EXCEPT ![p] = TRUE]
  /\ fds' = [fds EXCEPT ![p] = @ + 1]
  /\ UNCHANGED <<lines, waiting, daemon, stops, runs, told>>

(* SIGTERM, which waits in the signal descriptor.                            *)
Terminate(p) ==
  /\ runs[p] /\ ~told[p]
  /\ told' = [told EXCEPT ![p] = TRUE]
  /\ UNCHANGED <<lines, waiting, daemon, stops, runs, fds, link>>

(* The poll loop reads the signal and ends the process.                      *)
Exit(p) ==
  /\ runs[p] /\ told[p] /\ ~Waits(p)
  /\ runs' = [runs EXCEPT ![p] = FALSE] /\ told' = [told EXCEPT ![p] = FALSE]
  /\ fds' = [fds EXCEPT ![p] = 0] /\ link' = [link EXCEPT ![p] = FALSE]
  /\ UNCHANGED <<lines, waiting, daemon, stops>>

(* systemd starts it again; it connects before it logs about it.             *)
Start(p) ==
  /\ ~runs[p]
  /\ runs' = [runs EXCEPT ![p] = TRUE]
  /\ fds' = [fds EXCEPT ![p] = Sockets(p)] /\ link' = [link EXCEPT ![p] = p \in Mqtt]
  /\ UNCHANGED <<lines, waiting, daemon, stops, told>>

Next ==
  \/ Receive \/ DaemonStops \/ DaemonStarts
  \/ \E p \in Procs : Log(p) \/ Disconnect(p) \/ Reconnect(p)
                      \/ Terminate(p) \/ Exit(p) \/ Start(p)

Spec == Init /\ [][Next]_vars

(* log_daemon is restarted (Restart=always) and reads what is there, a poll   *)
(* loop looks at its signals first, and the library keeps trying to connect. *)
FairSpec ==
  /\ Spec
  /\ WF_vars(Receive) /\ WF_vars(DaemonStarts)
  /\ \A p \in Procs : SF_vars(Exit(p)) /\ WF_vars(Start(p)) /\ WF_vars(Reconnect(p))

-----------------------------------------------------------------------------
(* Every variable has its type; a process only waits for a full queue.       *)
TypeOK ==
  /\ lines \in 0..MaxMsgs /\ waiting \in Seq(Procs)
  /\ waiting # <<>> => lines = MaxMsgs
  /\ \A i, j \in 1..Len(waiting) : waiting[i] = waiting[j] => i = j
  /\ daemon \in BOOLEAN /\ stops \in 0..MaxStops
  /\ runs \in [Procs -> BOOLEAN] /\ told \in [Procs -> BOOLEAN]
  /\ fds \in [Procs -> 0..MaxFds] /\ link \in [Procs -> BOOLEAN]

(* No process is stuck in a log line for ever, also when log_daemon was not   *)
(* there for a while.                                                      *)
LineGetsOut == \A p \in Procs : Waits(p) ~> ~Waits(p)

(* A process that is told to end does so, though it may be blocked when the   *)
(* signal comes.                                                           *)
Ends == \A p \in Procs : told[p] ~> ~told[p]

(* "Reconnects by itself unless it disconnected on purpose" (mqtt_client.h):  *)
(* a lost connection comes back.                                           *)
Reconnects == \A p \in Mqtt : runs[p] /\ ~link[p] ~> link[p] \/ ~runs[p]
=============================================================================
