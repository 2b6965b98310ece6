---------------------------- MODULE DnScheduler ----------------------------
(***************************************************************************)
(* What dn_sched.h asks of a scheduler ("struct dn_alg"): the packets of   *)
(* a queue leave in the order they came, enqueue() drops the packet or     *)
(* keeps it, and dequeue() returns a packet whenever one is available.     *)
(* Which queue is served, and when, is left to the scheduler.              *)
(***************************************************************************)
EXTENDS Integers, Sequences

CONSTANTS
  Queues,   \* the queues
  Pkts,     \* the packets
  NULL      \* the result of dequeue() when there is nothing to send

VARIABLES
  mq,       \* the packets of each queue
  ret       \* what the last call of dequeue() returned

Init == mq = [q \in Queues |-> <<>>] /\ ret = NULL

Enqueue(q) == \E m \in Pkts : mq' = [mq EXCEPT ![q] = Append(@, m)] /\ UNCHANGED ret

Dequeue(q) ==
  /\ mq[q] # <<>>
  /\ ret' = Head(mq[q]) /\ mq' = [mq EXCEPT ![q] = Tail(@)]

DequeueNone ==
  /\ \A q \in Queues : mq[q] = <<>>
  /\ ret' = NULL /\ UNCHANGED mq

\* free_queue(): the packets of the queue go with it.
FreeQueue(q) == mq' = [mq EXCEPT ![q] = <<>>] /\ UNCHANGED ret

Next ==
  \/ \E q \in Queues : Enqueue(q) \/ Dequeue(q) \/ FreeQueue(q)
  \/ DequeueNone

Spec == Init /\ [][Next]_<<mq, ret>>
=============================================================================
