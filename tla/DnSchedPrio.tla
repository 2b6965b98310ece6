---------------------------- MODULE DnSchedPrio ----------------------------
(***************************************************************************)
(* The PRIO scheduler (dn_sched_prio.c), one instance of it.  For each     *)
(* priority the instance has a pointer to one queue, and a bit that says   *)
(* that this queue is backlogged; a packet of another queue of the same    *)
(* priority goes to the queue that is there already.  Every operation runs *)
(* under the dummynet lock and has no loop, so it is one step.             *)
(*                                                                         *)
(* A queue that is reconfigured loses its packets before it is attached    *)
(* again (ip_dummynet.c, "temporarily, kill queues"), so new_queue() sees  *)
(* empty queues only.                                                      *)
(***************************************************************************)
EXTENDS Integers, Sequences, FiniteSets

CONSTANTS
  Queues,      \* the queues that may be attached to the instance
  PrioOf,      \* q->fs->fs.par[0] of each queue
  MAXPRIO,     \* the number of priorities: the bits of BITMAP_T
  IntBits,     \* the bits of the argument of ffs()
  QSize,       \* fs.qsize of each queue, in slots
  RandomDrop,  \* the flowsets have plr or RED: dn_enqueue() may drop at random
  NULL,        \* no queue, or no packet
  MaxPkts      \* bound on the number of packets

ASSUME PrioAssumption ==
  /\ MAXPRIO \in Nat \ {0} /\ IntBits \in Nat
  /\ PrioOf \in [Queues -> 0..(MAXPRIO - 1)]
  /\ QSize \in Nat \ {0} /\ MaxPkts \in Nat
  /\ RandomDrop \in BOOLEAN
  /\ NULL \notin Queues /\ NULL \notin Nat

VARIABLES
  alive,     \* the queues that exist
  mq,        \* q->mq of each queue: the packets, by order of arrival
  bitmap,    \* si->bitmap, as the set of its bits
  q_array,   \* si->q_array
  ret,       \* what the last prio_dequeue() returned
  crashed,   \* a queue pointer that is not there was dereferenced
  nextid,    \* identity of the next packet
  prioOfPkt  \* ghost: the priority of each packet

prioVars == <<alive, mq, bitmap, q_array, ret, crashed, nextid, prioOfPkt>>

Prios == 0..(MAXPRIO - 1)
Pkts == 1..MaxPkts

\* dn_enqueue(): the packet is appended or dropped.
Accepts(q) == Len(mq[q]) < QSize
MayDrop(q) == RandomDrop \/ Len(mq[q]) >= QSize

-----------------------------------------------------------------------------
\* q_new() and prio_new_queue()
NewQueue(q) ==
  /\ q \notin alive /\ ~crashed
  /\ alive' = alive \cup {q}
  /\ UNCHANGED <<mq, bitmap, q_array, ret, crashed, nextid, prioOfPkt>>

\* prio_enqueue(): the bit is set before dn_enqueue() decides.
Target(q) == IF PrioOf[q] \in bitmap THEN q_array[PrioOf[q]] ELSE q

MarkBacklogged(q) ==
  /\ bitmap' = bitmap \cup {PrioOf[q]}
  /\ q_array' = [q_array EXCEPT ![PrioOf[q]] = Target(q)]

Enqueue(q) ==
  /\ q \in alive /\ ~crashed /\ nextid <= MaxPkts
  /\ MarkBacklogged(q)
  /\ \/ Accepts(Target(q)) /\ mq' = [mq EXCEPT ![Target(q)] = Append(@, nextid)]
     \/ MayDrop(Target(q)) /\ UNCHANGED mq
  /\ nextid' = nextid + 1
  /\ prioOfPkt' = [prioOfPkt EXCEPT ![nextid] = PrioOf[q]]
  /\ UNCHANGED <<alive, ret, crashed>>

\* ffs(si->bitmap) - 1: the argument of ffs() is an int.
Ffs_mutantLast(b) == CHOOSE n \in b : \A x \in b : x <= n

Ffs(b) ==
  LET low == {n \in b : n < IntBits}
  IN  IF low = {} THEN -1 ELSE CHOOSE n \in low : \A x \in low : n <= x

\* prio_dequeue() on an idle instance.
DequeueIdle ==
  /\ bitmap = {} /\ ~crashed
  /\ ret' = NULL
  /\ UNCHANGED <<alive, mq, bitmap, q_array, crashed, nextid, prioOfPkt>>

\* prio_dequeue(): dn_dequeue() of the queue with the highest priority, which
\* leaves the scheduler when it is empty.
LeaveIfEmpty_mutantStay(prio, rest) == UNCHANGED <<bitmap, q_array>>

LeaveIfEmpty(prio, rest) ==
  IF rest = <<>>
  THEN bitmap' = bitmap \ {prio} /\ q_array' = [q_array EXCEPT ![prio] = NULL]
  ELSE UNCHANGED <<bitmap, q_array>>

Dequeue ==
  /\ bitmap # {} /\ ~crashed
  /\ Ffs(bitmap) \in Prios /\ q_array[Ffs(bitmap)] # NULL
  /\ LET prio == Ffs(bitmap)
         q == q_array[prio]
         rest == IF mq[q] = <<>> THEN <<>> ELSE Tail(mq[q])
     IN  /\ ret' = IF mq[q] = <<>> THEN NULL ELSE Head(mq[q])
         /\ mq' = [mq EXCEPT ![q] = rest]
         /\ LeaveIfEmpty(prio, rest)
  /\ UNCHANGED <<alive, crashed, nextid, prioOfPkt>>

\* prio_dequeue() when si->q_array[prio] is not a queue.
DequeueCrash ==
  /\ bitmap # {} /\ ~crashed
  /\ Ffs(bitmap) \in Prios => q_array[Ffs(bitmap)] = NULL
  /\ crashed' = TRUE
  /\ UNCHANGED <<alive, mq, bitmap, q_array, ret, nextid, prioOfPkt>>

\* prio_free_queue() and the rest of dn_delete_queue(): the packets are freed.
ForgetQueue(q) ==
  IF q_array[PrioOf[q]] = q
  THEN /\ q_array' = [q_array EXCEPT ![PrioOf[q]] = NULL]
       /\ bitmap' = bitmap \ {PrioOf[q]}
  ELSE UNCHANGED <<bitmap, q_array>>

DeleteQueue(q) ==
  /\ q \in alive /\ ~crashed
  /\ ForgetQueue(q)
  /\ alive' = alive \ {q}
  /\ mq' = [mq EXCEPT ![q] = <<>>]
  /\ UNCHANGED <<ret, crashed, nextid, prioOfPkt>>

PrioInit ==
  /\ alive = {} /\ mq = [q \in Queues |-> <<>>]
  /\ bitmap = {} /\ q_array = [n \in Prios |-> NULL]
  /\ ret = NULL /\ crashed = FALSE
  /\ nextid = 1 /\ prioOfPkt = [m \in Pkts |-> 0]

PrioNext ==
  \/ \E q \in Queues : NewQueue(q) \/ Enqueue(q) \/ DeleteQueue(q)
  \/ DequeueIdle \/ Dequeue \/ DequeueCrash

PrioSpec == PrioInit /\ [][PrioNext]_prioVars

-----------------------------------------------------------------------------
PrioTypeOK ==
  /\ alive \subseteq Queues
  /\ mq \in [Queues -> Seq(Pkts)]
  /\ bitmap \subseteq Prios
  /\ q_array \in [Prios -> Queues \cup {NULL}]
  /\ ret \in Pkts \cup {NULL}
  /\ crashed \in BOOLEAN
  /\ nextid \in 1..(MaxPkts + 1)
  /\ prioOfPkt \in [Pkts -> Prios]

\* The bitmap and the pointers agree: a bit is set exactly when there is a queue,
\* which exists and has that priority.
ArrayMatches ==
  \A n \in Prios :
    /\ n \in bitmap <=> q_array[n] # NULL
    /\ n \in bitmap => q_array[n] \in alive /\ PrioOf[q_array[n]] = n

\* Every packet waits in a queue that the instance points to: the packets of
\* queues that share a priority meet in one queue, and none is left in another.
BacklogIsListed ==
  \A q \in Queues : mq[q] # <<>> => q \in alive /\ q_array[PrioOf[q]] = q

\* The inductive invariant.
PrioOK == PrioTypeOK /\ ArrayMatches /\ BacklogIsListed

Backlog == UNION {{mq[q][n] : n \in 1..Len(mq[q])} : q \in Queues}

\* prio_dequeue() takes a packet of the highest priority ("Packets are dequeued
\* only from the highest priority queue", dn_sched_prio.c:97), and of those the
\* first that came, whichever queue of that priority it was meant for.
StrictPriority ==
  [][\A m \in Backlog : mq' # mq /\ ret' = m /\ (Dequeue \/ DequeueIdle) =>
       \A x \in Backlog : /\ prioOfPkt[x] >= prioOfPkt[m]
                          /\ prioOfPkt[x] = prioOfPkt[m] => x >= m]_prioVars

\* prio_dequeue() returns no packet only if there is none (dn_sched.h:84-85: "Return
\* NULL if none are available").  serve_sched() stops on NULL, and the
\* instance is then idle with packets in its queues.
NullMeansEmpty ==
  [][(Dequeue \/ DequeueIdle) /\ ret' = NULL => Backlog = {}]_prioVars

\* The pointer that prio_dequeue() takes from the array is a queue
\* (dn_sched_prio.c:122: "assert(q)").
PointerIsQueue == ~crashed
=============================================================================
