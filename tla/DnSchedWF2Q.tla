---------------------------- MODULE DnSchedWF2Q ----------------------------
(***************************************************************************)
(* The WF2Q+ scheduler (dn_sched_wf2q.c), one instance of it.  Queues have *)
(* a start time S and a finish time F on the axis of the virtual time V.   *)
(* A backlogged queue is in sch_heap if it is eligible (S <= V) and in     *)
(* ne_heap if not; a queue that has become empty stays in idle_heap until  *)
(* V has passed it, since its weight counts as long as it is there.  The   *)
(* eligible queue with the smallest F is served.                           *)
(*                                                                         *)
(* A heap is a set of entries [key, object] from which a smallest one is   *)
(* taken; DnHeap shows that dn_heap.c provides this.  Every operation runs *)
(* under the dummynet lock, and its loops take entries whose order makes   *)
(* no difference, so it is one step.  Times are unsigned integers that     *)
(* wrap.  As for the other schedulers, new_queue() sees empty queues only. *)
(***************************************************************************)
EXTENDS Integers, Sequences, FiniteSetsExt, Functions

CONSTANTS
  Queues,      \* the queues that may be attached to the instance
  WeightOf,    \* fs.par[0] of each queue
  ONE_FP,      \* 1, in the fixed point arithmetic of the virtual time
  KeyMod,      \* times are integers modulo KeyMod (2^64 in the code)
  Lens,        \* packet lengths
  QSize,       \* fs.qsize of each queue, in slots
  RandomDrop,  \* the flowsets have plr or RED: dn_enqueue() may drop at random
  NULL,        \* the result of a dequeue that finds nothing
  MaxPkts      \* bound on the number of packets

ASSUME WF2QAssumption ==
  /\ WeightOf \in [Queues -> Nat \ {0}]
  /\ ONE_FP \in Nat \ {0} /\ \A q \in Queues : WeightOf[q] <= ONE_FP
  /\ KeyMod \in Nat \ {0}
  /\ IsFiniteSet(Queues) /\ IsFiniteSet(Lens)
  /\ Lens \subseteq Nat \ {0} /\ Lens # {}
  /\ \A q \in Queues, l \in Lens : 2 * l * ONE_FP < KeyMod
  /\ QSize \in Nat \ {0} /\ MaxPkts \in Nat
  /\ RandomDrop \in BOOLEAN

VARIABLES
  alive,      \* the queues that exist
  mq,         \* q->mq of each queue: packets [id, len]
  S, F,       \* start and finish time of each queue
  sch_heap,   \* eligible queues, by F
  ne_heap,    \* queues that are not eligible, by S
  idle_heap,  \* idle queues, by F
  V,          \* the virtual time
  wsum,       \* the sum of the weights of the queues in the heaps
  ret,        \* what the last dequeue returned
  nextid,     \* identity of the next packet
  lead,       \* ghost: how much more than its share a has sent, compared with b,
              \* since both are backlogged: (bytes of a) * (weight of b) - (bytes
              \* of b) * (weight of a)
  cut         \* ghost: a queue was deleted from a heap since the last call of
              \* wf2qp_dequeue() without backlog

heaps == <<sch_heap, ne_heap, idle_heap>>

vars == <<alive, mq, S, F, heaps, V, wsum, ret, nextid, lead, cut>>

Pkts == [id : 1..MaxPkts, len : Lens]
Times == 0..(KeyMod - 1)

-----------------------------------------------------------------------------
Plus(a, b) == (a + b) % KeyMod

\* DN_KEY_LT() and MAX64(): the sign of the difference.
DN_KEY_LT(a, b) == (a - b) % KeyMod >= KeyMod \div 2
MAX64(a, b) == IF DN_KEY_LT(a, b) THEN b ELSE a

Entry(k, q) == [key |-> k, object |-> q]
In(q, h) == \E e \in h : e.object = q
Without(h, q) == {e \in h : e.object # q}

\* HEAP_TOP(): one of the entries with the smallest key.
Tops(h) == {e \in h : \A x \in h : ~DN_KEY_LT(x.key, e.key)}

\* alg_fq->inv_w, and si->inv_wsum, which is computed whenever wsum changes and
\* a queue is left.
InvW_mutantSwapped(q) == WeightOf[q]
InvW(q) == ONE_FP \div WeightOf[q]
InvWsum(w) == ONE_FP \div w

\* The timestamps of q are marked as invalid: it is in no heap.
Invalid(q) == DN_KEY_LT(F[q], S[q])

-----------------------------------------------------------------------------
\* q_new() and wf2qp_new_queue()
NewQueue(q) ==
  /\ q \notin alive
  /\ alive' = alive \cup {q}
  /\ F' = [F EXCEPT ![q] = 0] /\ S' = [S EXCEPT ![q] = 1]
  /\ UNCHANGED <<mq, heaps, V, wsum, ret, nextid, lead, cut>>

\* wf2qp_enqueue() of a packet that finds the queue empty.
StartTime(q) == IF Invalid(q) THEN V ELSE MAX64(F[q], V)

BumpV(s) == IF ne_heap = {} /\ sch_heap = {} THEN MAX64(s, V) ELSE V

Backlogged(q, len) ==
  LET s == StartTime(q)
      f == Plus(s, len * InvW(q))
  IN  /\ S' = [S EXCEPT ![q] = s] /\ F' = [F EXCEPT ![q] = f]
      /\ wsum' = IF Invalid(q) THEN wsum + WeightOf[q] ELSE wsum
      /\ idle_heap' = IF Invalid(q) THEN idle_heap ELSE Without(idle_heap, q)
      /\ V' = BumpV(s)
      /\ IF DN_KEY_LT(BumpV(s), s)
         THEN ne_heap' = ne_heap \cup {Entry(s, q)} /\ UNCHANGED sch_heap
         ELSE sch_heap' = sch_heap \cup {Entry(f, q)} /\ UNCHANGED ne_heap

Enqueue(q, len) ==
  /\ q \in alive /\ nextid <= MaxPkts
  /\ Len(mq[q]) < QSize
  /\ mq' = [mq EXCEPT ![q] = Append(@, [id |-> nextid, len |-> len])]
  /\ IF mq[q] = <<>> THEN Backlogged(q, len) ELSE UNCHANGED <<S, F, heaps, V, wsum>>
  /\ nextid' = nextid + 1
  /\ UNCHANGED <<alive, ret, lead, cut>>

\* wf2qp_enqueue() when dn_enqueue() drops the packet.
EnqueueDrop(q) ==
  /\ q \in alive /\ nextid <= MaxPkts
  /\ RandomDrop \/ Len(mq[q]) >= QSize
  /\ nextid' = nextid + 1
  /\ UNCHANGED <<alive, mq, S, F, heaps, V, wsum, ret, lead, cut>>

-----------------------------------------------------------------------------
NothingBacklogged_mutantEligible == sch_heap = {}

NothingBacklogged == sch_heap = {} /\ ne_heap = {}

\* wf2qp_dequeue() on an instance without backlog: idle_check() of all entries.
DequeueIdle ==
  /\ NothingBacklogged
  /\ S' = [q \in Queues |-> IF In(q, idle_heap) THEN Plus(F[q], 1) ELSE S[q]]
  /\ idle_heap' = {}
  /\ V' = 0 /\ wsum' = 0
  /\ ret' = NULL /\ cut' = FALSE
  /\ UNCHANGED <<alive, mq, F, sch_heap, ne_heap, nextid, lead>>

\* idle_check(si, 1, 0): what it takes from the idle heap, at most one entry.
Expired == IF \E e \in Tops(idle_heap) : DN_KEY_LT(e.key, V)
           THEN {{e} : e \in Tops(idle_heap)} ELSE {{}}

\* The first part of the loop: V reaches the first start time if nothing is
\* eligible, and the entries of n that have become eligible go to s.
Advanced(s, n, v) ==
  IF s = {} /\ n # {} THEN MAX64(v, (CHOOSE e \in Tops(n) : TRUE).key) ELSE v

Eligible_mutantStrict(n, v) == {e \in n : DN_KEY_LT(e.key, v)}

Eligible(n, v) == {e \in n : ~DN_KEY_LT(v, e.key)}

Moved(E, f) == {Entry(f[e.object], e.object) : e \in E}

\* How lead changes when queue q sends len bytes and keeps the packets rest.
Leads(q, len, rest) ==
  [a \in Queues |-> [b \in Queues |->
     IF a = b \/ mq[a] = <<>> \/ mq[b] = <<>> \/ (q \in {a, b} /\ rest = <<>>) THEN 0
     ELSE IF a = q THEN lead[a][b] + len * WeightOf[b]
     ELSE IF b = q THEN lead[a][b] - len * WeightOf[a]
     ELSE lead[a][b]]]

\* The second part: queue q of the top of the heap s is served and goes to one of
\* the heaps, then the first part again.  v is the virtual time, w the sum of weights.
Served(q, s, n, v, w, idle) ==
  LET m == Head(mq[q])
      rest == Tail(mq[q])
      v1 == Plus(v, m.len * InvWsum(w))
      f == IF rest = <<>> THEN F[q] ELSE Plus(F[q], Head(rest).len * InvW(q))
      now == rest # <<>> /\ ~DN_KEY_LT(v1, F[q])
      later == rest # <<>> /\ DN_KEY_LT(v1, F[q])
      s1 == Without(s, q) \cup (IF now THEN {Entry(f, q)} ELSE {})
      n1 == n \cup (IF later THEN {Entry(F[q], q)} ELSE {})
      v2 == Advanced(s1, n1, v1)
      F1 == [F EXCEPT ![q] = f]
  IN  /\ ret' = m
      /\ mq' = [mq EXCEPT ![q] = rest]
      /\ F' = F1
      /\ V' = v2
      /\ sch_heap' = s1 \cup Moved(Eligible(n1, v2), F1)
      /\ ne_heap' = n1 \ Eligible(n1, v2)
      /\ idle_heap' = idle \cup (IF rest = <<>> THEN {Entry(F[q], q)} ELSE {})
      /\ lead' = Leads(q, m.len, rest)

Dequeue ==
  /\ ~NothingBacklogged
  /\ \E gone \in Expired :
       LET idle == idle_heap \ gone
           w == IF gone = {} THEN wsum
                ELSE wsum - WeightOf[(CHOOSE e \in gone : TRUE).object]
           v == Advanced(sch_heap, ne_heap, V)
           s == sch_heap \cup Moved(Eligible(ne_heap, v), F)
           n == ne_heap \ Eligible(ne_heap, v)
       IN  \E top \in Tops(s) :
             /\ Served(top.object, s, n, v, w, idle)
             /\ wsum' = w
             /\ S' = [q \in Queues |-> IF q = top.object THEN F[q]
                                       ELSE IF In(q, gone) THEN Plus(F[q], 1)
                                       ELSE S[q]]
  /\ UNCHANGED <<alive, nextid, cut>>

-----------------------------------------------------------------------------
\* wf2qp_free_queue(): "not in any heap".  The comparison is not DN_KEY_LT().
NotInAnyHeap(q) == S[q] >= Plus(F[q], 1)

\* The memory of q is freed; its timestamps are not read before NewQueue(q).
Freed(q) ==
  /\ alive' = alive \ {q}
  /\ mq' = [mq EXCEPT ![q] = <<>>]
  /\ F' = [F EXCEPT ![q] = 0] /\ S' = [S EXCEPT ![q] = 1]

\* The drain routine: wf2qp_free_queue(q, 1)
DrainQueue(q) ==
  /\ q \in alive /\ mq[q] = <<>> /\ NotInAnyHeap(q)
  /\ Freed(q)
  /\ UNCHANGED <<heaps, V, wsum, ret, nextid, lead, cut>>

\* wf2qp_free_queue(q, 0): the heap is found by the same tests that chose it.
LeaveHeaps(q) ==
  IF NotInAnyHeap(q) THEN UNCHANGED <<heaps, wsum>>
  ELSE /\ wsum' = wsum - WeightOf[q]
       /\ IF mq[q] = <<>>
          THEN idle_heap' = Without(idle_heap, q) /\ UNCHANGED <<sch_heap, ne_heap>>
          ELSE IF DN_KEY_LT(V, S[q])
          THEN ne_heap' = Without(ne_heap, q) /\ UNCHANGED <<sch_heap, idle_heap>>
          ELSE sch_heap' = Without(sch_heap, q) /\ UNCHANGED <<ne_heap, idle_heap>>

\* ... and the rest of dn_delete_queue(): the packets go too.
DeleteQueue(q) ==
  /\ q \in alive
  /\ LeaveHeaps(q)
  /\ Freed(q)
  /\ lead' = [a \in Queues |-> [b \in Queues |-> IF q \in {a, b} THEN 0 ELSE lead[a][b]]]
  /\ cut' = (cut \/ ~NotInAnyHeap(q))
  /\ UNCHANGED <<V, ret, nextid>>

\* wf2qp_new_sched()
Init ==
  /\ alive = {} /\ mq = [q \in Queues |-> <<>>]
  /\ S = [q \in Queues |-> 1] /\ F = [q \in Queues |-> 0]
  /\ sch_heap = {} /\ ne_heap = {} /\ idle_heap = {}
  /\ V = 0 /\ wsum = 0
  /\ ret = NULL /\ nextid = 1
  /\ lead = [a \in Queues |-> [b \in Queues |-> 0]] /\ cut = FALSE

Next ==
  \/ \E q \in Queues :
       \/ NewQueue(q) \/ EnqueueDrop(q) \/ DrainQueue(q) \/ DeleteQueue(q)
       \/ \E len \in Lens : Enqueue(q, len)
  \/ DequeueIdle
  \/ Dequeue

Spec == Init /\ [][Next]_vars

-----------------------------------------------------------------------------
Entries == [key : Times, object : Queues]

TypeOK ==
  /\ alive \subseteq Queues
  /\ mq \in [Queues -> Seq(Pkts)]
  /\ S \in [Queues -> Times] /\ F \in [Queues -> Times] /\ V \in Times
  /\ sch_heap \subseteq Entries /\ ne_heap \subseteq Entries /\ idle_heap \subseteq Entries
  /\ wsum \in Nat
  /\ ret \in Pkts \cup {NULL}
  /\ nextid \in 1..(MaxPkts + 1)
  /\ lead \in [Queues -> [Queues -> Int]] /\ cut \in BOOLEAN

\* "A flow is only in 1 of the three heaps" (dn_sched_wf2q.c:77), with the right
\* key: in none if it does not exist or its timestamps are invalid, in idle_heap if
\* it has no packets, and otherwise in ne_heap or sch_heap according to "S>V means
\* flow Not eligible", which is how wf2qp_free_queue() finds it.
InRightHeap ==
  \A q \in Queues :
    LET valid == q \in alive /\ ~Invalid(q)
        busy == mq[q] # <<>>
    IN  /\ busy => valid
        /\ {e \in sch_heap : e.object = q} =
             IF valid /\ busy /\ ~DN_KEY_LT(V, S[q]) THEN {Entry(F[q], q)} ELSE {}
        /\ {e \in ne_heap : e.object = q} =
             IF valid /\ busy /\ DN_KEY_LT(V, S[q]) THEN {Entry(S[q], q)} ELSE {}
        /\ {e \in idle_heap : e.object = q} =
             IF valid /\ ~busy THEN {Entry(F[q], q)} ELSE {}

\* wsum is the weight of the queues in the heaps: V advances by its inverse, so it
\* must not be 0, and V would otherwise run faster or slower than the queues.
WsumOK == wsum = SumFunctionOnSet(WeightOf, {q \in alive : ~Invalid(q)})

\* The state of the scheduler is consistent, as long as no time has wrapped.
WF2QOK == TypeOK /\ InRightHeap /\ WsumOK

\* The instance behaves as dn_sched.h asks: first in, first out in each queue, and
\* NULL only when nothing is available.
Sched == INSTANCE DnScheduler

SchedSpec == Sched!Spec

\* While two queues are backlogged they share the link by weight, whatever the others
\* do: one is ahead of the other by a packet of each and one of the lighter queue at
\* most.  V moves on by the weights in the heaps; when a queue that was served ahead of
\* V is deleted with its weight, V runs away from the queues that stay.
FairShare ==
  ~cut => \A a, b \in Queues :
            lead[a][b] <= Max(Lens) * (WeightOf[a] + WeightOf[b] + Max({WeightOf[a], WeightOf[b]}))
=============================================================================
