----------------------------- MODULE DnSchedRR -----------------------------
(***************************************************************************)
(* The deficit round robin scheduler (dn_sched_rr.c), one instance of it.  *)
(* Backlogged queues are in a circular list through qnext; head is the     *)
(* queue that is served, tail the one before it.  A queue leaves the list  *)
(* when rr_dequeue() finds it empty at the head.  rr_dequeue() takes one   *)
(* step per iteration of its loop; the other operations have no loop that  *)
(* changes state and are one step.  All run under the dummynet lock.       *)
(*                                                                         *)
(* As for the other schedulers, new_queue() sees empty queues only.        *)
(***************************************************************************)
EXTENDS Integers, Sequences, FiniteSets

CONSTANTS
  Queues,      \* the queues that may be attached to the instance
  QuantumOf,   \* fs.par[0] * fs.par[1] of each queue: the weighted quantum
  Lens,        \* packet lengths
  QSize,       \* fs.qsize of each queue, in slots
  RandomDrop,  \* the flowsets have plr or RED: dn_enqueue() may drop at random
  NULL,        \* no queue, or no packet
  MaxPkts      \* bound on the number of packets

ASSUME RRAssumption ==
  /\ QuantumOf \in [Queues -> Nat \ {0}]
  /\ Lens \subseteq Nat \ {0} /\ Lens # {}
  /\ IsFiniteSet(Queues) /\ IsFiniteSet(Lens)
  /\ QSize \in Nat \ {0} /\ MaxPkts \in Nat
  /\ RandomDrop \in BOOLEAN
  /\ NULL \notin Queues

VARIABLES
  alive,    \* the queues that exist
  mq,       \* q->mq of each queue: packets [id, len]
  status,   \* the queues whose status is 1: in the list
  credit,   \* bytes that each queue may send
  qnext,    \* the links of the list
  head, tail,
  pc,       \* "idle", or "dequeue" while rr_dequeue() runs
  ret,      \* what the last rr_dequeue() returned
  nextid,   \* identity of the next packet
  lead      \* ghost: how much more than its share a has sent, compared with b,
            \* since both are backlogged: (bytes of a) * (quantum of b) - (bytes
            \* of b) * (quantum of a)

vars == <<alive, mq, status, credit, qnext, head, tail, pc, ret, nextid, lead>>

Pkts == [id : 1..MaxPkts, len : Lens]

\* The list from head, as many steps as there may be queues: node[0] is head.
Walk == LET node[n \in 0..Cardinality(Queues)] ==
              IF n = 0 THEN head
              ELSE IF node[n - 1] = NULL THEN NULL ELSE qnext[node[n - 1]]
        IN  node

-----------------------------------------------------------------------------
\* q_new() and rr_new_queue()
NewQueue(q) ==
  /\ pc = "idle" /\ q \notin alive
  /\ alive' = alive \cup {q}
  /\ credit' = [credit EXCEPT ![q] = QuantumOf[q]]
  /\ status' = status \ {q}
  /\ qnext' = [qnext EXCEPT ![q] = NULL]
  /\ UNCHANGED <<mq, head, tail, pc, ret, nextid, lead>>

\* rr_append()
LinkLast(q) ==
  IF head = NULL THEN [qnext EXCEPT ![q] = q]
  ELSE [qnext EXCEPT ![tail] = q, ![q] = head]

RRAppend(q) ==
  /\ status' = status \cup {q}
  /\ credit' = [credit EXCEPT ![q] = QuantumOf[q]]
  /\ qnext' = LinkLast(q)
  /\ head' = IF head = NULL THEN q ELSE head
  /\ tail' = q

\* rr_enqueue(): the packet is kept; a queue that was empty joins the list,
\* unless it has not left it yet.
JoinsList_mutantSecond(q) == mq[q] # <<>> /\ q \notin status

JoinsList(q) == mq[q] = <<>> /\ q \notin status

Enqueue(q, len) ==
  /\ pc = "idle" /\ q \in alive /\ nextid <= MaxPkts
  /\ Len(mq[q]) < QSize
  /\ mq' = [mq EXCEPT ![q] = Append(@, [id |-> nextid, len |-> len])]
  /\ IF JoinsList(q) THEN RRAppend(q)
     ELSE UNCHANGED <<status, credit, qnext, head, tail>>
  /\ nextid' = nextid + 1
  /\ UNCHANGED <<alive, pc, ret, lead>>

\* rr_enqueue() when dn_enqueue() drops the packet.
EnqueueDrop(q) ==
  /\ pc = "idle" /\ q \in alive /\ nextid <= MaxPkts
  /\ RandomDrop \/ Len(mq[q]) >= QSize
  /\ nextid' = nextid + 1
  /\ UNCHANGED <<alive, mq, status, credit, qnext, head, tail, pc, ret, lead>>

-----------------------------------------------------------------------------
\* rr_remove_head()
RemoveHead ==
  /\ status' = status \ {head}
  /\ IF head = tail
     THEN head' = NULL /\ tail' = NULL /\ UNCHANGED qnext
     ELSE /\ head' = qnext[head]
          /\ qnext' = [qnext EXCEPT ![tail] = qnext[head]]
          /\ UNCHANGED tail

\* The packet at the head of the list does not exceed the credit of its queue.
Affords == Head(mq[head]).len <= credit[head]

\* rr_dequeue(), one iteration of its loop for each action.
DequeueStart ==
  /\ pc = "idle" /\ pc' = "dequeue"
  /\ UNCHANGED <<alive, mq, status, credit, qnext, head, tail, ret, nextid, lead>>

DequeueEmpty ==
  /\ pc = "dequeue" /\ head # NULL /\ mq[head] = <<>>
  /\ RemoveHead
  /\ UNCHANGED <<alive, mq, credit, pc, ret, nextid, lead>>

\* The packet is larger than the credit of its queue: next_pointer().
DequeueSkip_mutantStay ==
  /\ pc = "dequeue" /\ head # NULL /\ mq[head] # <<>>
  /\ ~Affords
  /\ credit' = [credit EXCEPT ![head] = @ + QuantumOf[head]]
  /\ UNCHANGED <<alive, mq, status, qnext, head, tail, pc, ret, nextid, lead>>

DequeueSkip_mutantNoCredit ==
  /\ pc = "dequeue" /\ head # NULL /\ mq[head] # <<>>
  /\ ~Affords
  /\ head' = qnext[head] /\ tail' = qnext[tail]
  /\ UNCHANGED <<alive, mq, status, credit, qnext, pc, ret, nextid, lead>>

DequeueSkip ==
  /\ pc = "dequeue" /\ head # NULL /\ mq[head] # <<>>
  /\ ~Affords
  /\ credit' = [credit EXCEPT ![head] = @ + QuantumOf[head]]
  /\ head' = qnext[head] /\ tail' = qnext[tail]
  /\ UNCHANGED <<alive, mq, status, qnext, pc, ret, nextid, lead>>

\* How lead changes when queue q sends len bytes and keeps the packets rest.
Leads(q, len, rest) ==
  [a \in Queues |-> [b \in Queues |->
     IF a = b \/ mq[a] = <<>> \/ mq[b] = <<>> \/ (q \in {a, b} /\ rest = <<>>) THEN 0
     ELSE IF a = q THEN lead[a][b] + len * QuantumOf[b]
     ELSE IF b = q THEN lead[a][b] - len * QuantumOf[a]
     ELSE lead[a][b]]]

DequeueTake ==
  /\ pc = "dequeue" /\ head # NULL /\ mq[head] # <<>> /\ Affords
  /\ LET m == Head(mq[head])
     IN  /\ credit' = [credit EXCEPT ![head] = @ - m.len]
         /\ ret' = m
         /\ mq' = [mq EXCEPT ![head] = Tail(@)]
         /\ lead' = Leads(head, m.len, Tail(mq[head]))
  /\ pc' = "idle"
  /\ UNCHANGED <<alive, status, qnext, head, tail, nextid>>

DequeueNone ==
  /\ pc = "dequeue" /\ head = NULL
  /\ ret' = NULL /\ pc' = "idle"
  /\ UNCHANGED <<alive, mq, status, credit, qnext, head, tail, nextid, lead>>

-----------------------------------------------------------------------------
\* The drain routine: rr_free_queue(q, 1) lets an idle queue go unless it is in
\* the list.
SafeToFree_mutantListed(q) == mq[q] = <<>>

SafeToFree(q) == mq[q] = <<>> /\ q \notin status

DrainQueue(q) ==
  /\ pc = "idle" /\ q \in alive /\ SafeToFree(q)
  /\ alive' = alive \ {q}
  /\ UNCHANGED <<mq, status, credit, qnext, head, tail, pc, ret, nextid, lead>>

\* remove_queue_q() of a queue that is not the head.
RemoveMiddle(q) ==
  LET n == CHOOSE n \in DOMAIN Walk : Walk[n] # NULL /\ qnext[Walk[n]] = q
      prev == Walk[n]
  IN  /\ qnext' = [qnext EXCEPT ![prev] = qnext[q]]
      /\ tail' = IF q = tail THEN prev ELSE tail
      /\ status' = status \ {q}
      /\ UNCHANGED head

\* rr_free_queue(q, 0), and the rest of dn_delete_queue(): the packets go too.
DeleteQueue(q) ==
  /\ pc = "idle" /\ q \in alive
  /\ IF q \notin status THEN UNCHANGED <<status, qnext, head, tail>>
     ELSE IF q = head THEN RemoveHead
     ELSE RemoveMiddle(q)
  /\ alive' = alive \ {q}
  /\ mq' = [mq EXCEPT ![q] = <<>>]
  /\ lead' = [a \in Queues |-> [b \in Queues |-> IF q \in {a, b} THEN 0 ELSE lead[a][b]]]
  /\ UNCHANGED <<credit, pc, ret, nextid>>

Init ==
  /\ alive = {} /\ status = {}
  /\ mq = [q \in Queues |-> <<>>]
  /\ credit = [q \in Queues |-> 0]
  /\ qnext = [q \in Queues |-> NULL]
  /\ head = NULL /\ tail = NULL
  /\ pc = "idle" /\ ret = NULL /\ nextid = 1
  /\ lead = [a \in Queues |-> [b \in Queues |-> 0]]

DequeueLoop == DequeueEmpty \/ DequeueSkip \/ DequeueTake \/ DequeueNone

Next ==
  \/ \E q \in Queues :
       \/ NewQueue(q) \/ EnqueueDrop(q) \/ DrainQueue(q) \/ DeleteQueue(q)
       \/ \E len \in Lens : Enqueue(q, len)
  \/ DequeueStart
  \/ DequeueLoop

Spec == Init /\ [][Next]_vars

FairSpec == Spec /\ WF_vars(DequeueLoop)

-----------------------------------------------------------------------------
TypeOK ==
  /\ alive \subseteq Queues /\ status \subseteq Queues
  /\ mq \in [Queues -> Seq(Pkts)]
  /\ credit \in [Queues -> Nat]
  /\ qnext \in [Queues -> Queues \cup {NULL}]
  /\ head \in Queues \cup {NULL} /\ tail \in Queues \cup {NULL}
  /\ pc \in {"idle", "dequeue"}
  /\ ret \in Pkts \cup {NULL}
  /\ nextid \in 1..(MaxPkts + 1)
  /\ lead \in [Queues -> [Queues -> Int]]

\* The list is a ring of exactly the queues whose status is 1, tail before head,
\* and all of them exist: qnext is never followed to a freed queue.  A queue with
\* packets is in the list, so rr_dequeue() will reach it.
RingOK ==
  LET n == Cardinality(status)
  IN  /\ TypeOK
      /\ status \subseteq alive
      /\ head = NULL <=> status = {}
      /\ tail = NULL <=> status = {}
      /\ n > 0 => /\ {Walk[k] : k \in 0..(n - 1)} = status
                  /\ Walk[n - 1] = tail /\ qnext[tail] = head
      /\ \A q \in Queues : mq[q] # <<>> => q \in status

\* The instance behaves as dn_sched.h asks: first in, first out in each queue, and
\* NULL only when nothing is available.
Sched == INSTANCE DnScheduler

SchedSpec == Sched!Spec

MaxOf(S) == CHOOSE x \in S : \A y \in S : y <= x

\* While two queues are backlogged they share the link by weight: one is ahead of
\* the other by one round at most, and by what a packet too large for the credit
\* that was left has moved from one round to another.
FairShare ==
  \A a, b \in Queues :
    lead[a][b] <= QuantumOf[a] * QuantumOf[b]
                  + (MaxOf(Lens) - 1) * (QuantumOf[a] + QuantumOf[b])

\* rr_dequeue() returns, even if several rounds are needed to have enough credit.
DequeueReturns == (pc = "dequeue") ~> (pc = "idle")
=============================================================================
