------------------------------ MODULE MsgQueue -------------------------------
(***************************************************************************)
(* A POSIX message queue as lib/ipc/mq_wrapper.h uses it: messages leave in  *)
(* the order of their priority, equal priorities in the order they came,    *)
(* and a full queue drops what is sent to it (O_NONBLOCK, EAGAIN).          *)
(***************************************************************************)
EXTENDS Naturals, Sequences

Normal == 1
High == 2

Entry(m, prio) == [msg |-> m, prio |-> prio]

(* mq_send: behind every message of its own or a higher priority.  These are *)
(* the first k, since the queue is in the order of the priorities.          *)
InOrder(q) == \A i, j \in 1..Len(q) : i < j => q[i].prio >= q[j].prio
Ahead(q, prio) ==
  CHOOSE k \in 0..Len(q) : \A i \in 1..Len(q) : i <= k <=> q[i].prio >= prio
Insert(q, m, prio) ==
  SubSeq(q, 1, Ahead(q, prio)) \o <<Entry(m, prio)>> \o SubSeq(q, Ahead(q, prio) + 1, Len(q))

MutSend(q, cap, m, prio) == Insert(q, m, prio)

(* MqSender::send with its result ignored, as every caller does.            *)
Send(q, cap, m, prio) == IF Len(q) >= cap THEN q ELSE Insert(q, m, prio)

First(q) == Head(q).msg
=============================================================================
