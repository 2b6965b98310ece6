----------------------------- MODULE DnSchedQFQ -----------------------------
(***************************************************************************)
(* The QFQ scheduler (dn_sched_qfq.c), one instance of it.  It serves      *)
(* queues (classes) in the order of their finish times as WF2Q+ does, but  *)
(* approximately and in constant time: classes with similar ratios of      *)
(* packet length to weight form a group, whose time slots have the size    *)
(* Sigma of the group; a group lists its classes by slot, and stands for   *)
(* them with the start time S of its first slot and F = S + 2 Sigma.  Each *)
(* group that has packets is in one of four sets: eligible (S <= V) or not *)
(* and ready or blocked, which it is when an eligible group of a larger    *)
(* index finishes earlier.  The first group of ER is served.               *)
(*                                                                         *)
(* A set of groups stands for a bitmap, and a time is an integer modulo    *)
(* KeyMod; as nothing resets V, they wrap in a long run.  An operation     *)
(* runs under the dummynet lock and is one step.  Packets obey the length  *)
(* that the flowset declares, which qfq_enqueue() leaves unchecked, and a  *)
(* queue that is deleted is empty.                                         *)
(***************************************************************************)
EXTENDS Integers, Sequences, FiniteSetsExt

CONSTANTS
  Queues,        \* the queues that may be attached to the instance
  WeightOf,      \* fs.par[0] of each queue
  MaxlenOf,      \* fs.par[1] of each queue
  ONE_FP,        \* 1, in the fixed point arithmetic of the virtual time
  MaxWsum,       \* QFQ_MAX_WSUM
  MaxIndex,      \* QFQ_MAX_INDEX
  MinSlotShift,  \* QFQ_MIN_SLOT_SHIFT
  MaxSlots,      \* QFQ_MAX_SLOTS
  KeyMod,        \* times are integers modulo KeyMod (2^64 in the code)
  QSize,         \* fs.qsize of each queue, in slots
  RandomDrop,    \* dn_enqueue() may drop at random
  NULL,          \* the result of a dequeue that finds nothing
  MaxV           \* bound: no packet is accepted once V has reached it

VARIABLES
  alive,  \* the queues that exist
  mq,     \* q->mq of each queue: the lengths of its packets
  S, F,   \* the exact timestamps of each class
  V,      \* the virtual time
  wsum,   \* the sum of the weights of the queues that exist
  bm,     \* bitmaps[]: the groups in each of the states ER, IR, EB and IB
  grp,    \* groups[]: [S, F, front, full_slots, slots]
  ret,    \* what the last dequeue returned
  lead    \* ghost: how much more service, in virtual time, a has had than b since
          \* both are backlogged

vars == <<alive, mq, S, F, V, wsum, bm, grp, ret, lead>>

Groups == 0..MaxIndex
Times == 0..(KeyMod - 1)
Slots == 0..(MaxSlots - 1)
States == {"ER", "IR", "EB", "IB"}

\* The weight sum that IWSUM assumes is never exceeded, whatever is configured.
IWSUM == ONE_FP \div MaxWsum
InvW == [q \in Queues |-> ONE_FP \div WeightOf[q]]

\* The weight that qfq_new_queue() accounts for.
Weight(q) == ONE_FP \div InvW[q]

Sigma == [i \in Groups |-> 2^(MinSlotShift + i)]

\* qfq_calc_index(): the first group whose slot holds the longest packet.
GroupOf == [q \in Queues |-> Min({i \in Groups : MaxlenOf[q] * InvW[q] <= Sigma[i]})]

ASSUME QFQAssumption ==
  /\ WeightOf \in [Queues -> Nat \ {0}] /\ MaxlenOf \in [Queues -> Nat \ {0}]
  /\ \A q \in Queues : /\ 2 * WeightOf[q] <= MaxWsum
                       /\ MaxlenOf[q] * InvW[q] <= Sigma[MaxIndex]
  /\ ONE_FP % MaxWsum = 0
  /\ KeyMod % (2 * Sigma[MaxIndex]) = 0
  /\ QSize \in Nat \ {0} /\ MaxSlots \in Nat \ {0}
  /\ RandomDrop \in BOOLEAN

-----------------------------------------------------------------------------
Plus(a, b) == (a + b) % KeyMod
Minus(a, b) == (a - b) % KeyMod

qfq_gt(a, b) == Minus(a, b) \in 1..(KeyMod \div 2 - 1)

qfq_round_down(t, i) == t - (t % Sigma[i])

mask_from(groups, i) == {j \in groups : j >= i}

\* qfq_calc_state() of group i with the timestamps s and f, at virtual time v.
qfq_calc_state(B, v, i, s, f) ==
  LET larger == mask_from(B["ER"], i)
      blocked == larger # {} /\ qfq_gt(f, grp[Min(larger)].F)
  IN  IF qfq_gt(s, v) THEN IF blocked THEN "IB" ELSE "IR"
      ELSE IF blocked THEN "EB" ELSE "ER"

qfq_move_groups(B, mask, src, dst) ==
  [B EXCEPT ![dst] = @ \cup (B[src] \cap mask), ![src] = @ \ mask]

Without(B, i) == [s \in States |-> B[s] \ {i}]

\* qfq_unblock_groups(), when group i no longer finishes at old.
qfq_unblock_groups(B, G, i, old) ==
  LET larger == mask_from(B["ER"], i + 1)
  IN  IF larger # {} /\ ~qfq_gt(G[Min(larger)].F, old) THEN B
      ELSE qfq_move_groups(qfq_move_groups(B, 0..(i - 1), "EB", "ER"), 0..(i - 1), "IB", "IR")

\* qfq_make_eligible(): the groups for which V has entered another slot; the code
\* finds them by the highest bit that differs.
qfq_make_eligible(B, old, v) ==
  LET moved == {i \in Groups : v \div Sigma[i] # old \div Sigma[i]}
  IN  qfq_move_groups(qfq_move_groups(B, moved, "IR", "ER"), moved, "IB", "EB")

\* qfq_update_eligible(): V jumps to the next start time if no group is eligible.
JumpedV_mutantStay(B, G, v) == v

JumpedV(B, G, v) ==
  LET ineligible == B["IR"] \cup B["IB"]
  IN  IF ineligible # {} /\ B["ER"] = {} /\ qfq_gt(G[Min(ineligible)].S, v)
      THEN G[Min(ineligible)].S ELSE v

-----------------------------------------------------------------------------
\* qfq_slot_insert() of class q, whose start time is s, in group i
qfq_slot_insert(g, i, q, s) ==
  LET slot == Minus(qfq_round_down(s, i), g.S) \div Sigma[i]
  IN  [g EXCEPT !.slots[(g.front + slot) % MaxSlots] = <<q>> \o @,
                !.full_slots = @ \cup {slot}]

qfq_front_slot_remove(g) ==
  LET rest == Tail(g.slots[g.front])
  IN  [g EXCEPT !.slots[g.front] = rest,
                !.full_slots = IF rest = <<>> THEN @ \ {0} ELSE @]

\* The side effect of qfq_slot_scan(): the first slot in use becomes the front.
qfq_slot_scan(g) ==
  IF g.full_slots = {} THEN g
  ELSE LET i == Min(g.full_slots)
       IN  [g EXCEPT !.front = (@ + i) % MaxSlots,
                     !.full_slots = {j - i : j \in @}]

FrontClass(g) == Head(g.slots[g.front])

\* qfq_slot_rotate() of group i, whose start time decreases to s
qfq_slot_rotate_mutantMask(g, i, s) ==
  [g EXCEPT !.front = (@ - Minus(g.S, s) \div Sigma[i]) % MaxSlots]

qfq_slot_rotate(g, i, s) ==
  LET n == Minus(g.S, s) \div Sigma[i]
  IN  [g EXCEPT !.full_slots = {j + n : j \in @}, !.front = (@ - n) % MaxSlots]

\* The timestamps of group i when its first class starts at s.
Stamped(g, i, s) ==
  [g EXCEPT !.S = qfq_round_down(s, i), !.F = Plus(qfq_round_down(s, i), 2 * Sigma[i])]

-----------------------------------------------------------------------------
\* q_new() and qfq_new_queue(), for the first packet of a flow: it refuses a queue
\* whose weight is too much.
Allowed(q) == q \in alive \/ wsum + Weight(q) <= MaxWsum

Found(q) ==
  /\ Allowed(q)
  /\ alive' = alive \cup {q}
  /\ wsum' = IF q \in alive THEN wsum ELSE wsum + Weight(q)

\* The finish time of a packet of queue q that starts at s.
Finish_mutantTruncated(s, len, q) == s

Finish(s, len, q) == Plus(s, len * InvW[q])

\* qfq_update_start(): the start time of a class that was idle.
qfq_update_start(q) ==
  LET i == GroupOf[q]
      roundedF == qfq_round_down(F[q], i)
      limit == Plus(qfq_round_down(V, i), Sigma[i])
      stale == ~qfq_gt(F[q], V) \/ qfq_gt(roundedF, limit)
      larger == mask_from(bm["ER"], i)
  IN  IF ~stale THEN F[q]
      ELSE IF larger # {} /\ qfq_gt(roundedF, grp[Min(larger)].F)
      THEN grp[Min(larger)].F
      ELSE V

\* The rest of qfq_enqueue() for a packet of an idle class: the group is given new
\* timestamps when it was empty or starts later than the class.
Activate(q, len) ==
  LET i == GroupOf[q]
      g == grp[i]
      s == qfq_update_start(q)
      roundedS == qfq_round_down(s, i)
      earlier == g.full_slots # {} /\ qfq_gt(g.S, s)
      v == IF g.full_slots = {} /\ bm["ER"] = {} /\ qfq_gt(roundedS, V) THEN roundedS ELSE V
      B == IF earlier THEN [bm EXCEPT !["IR"] = @ \ {i}, !["IB"] = @ \ {i}] ELSE bm
      g1 == Stamped(IF earlier THEN qfq_slot_rotate(g, i, roundedS) ELSE g, i, s)
  IN  /\ S' = [S EXCEPT ![q] = s] /\ F' = [F EXCEPT ![q] = Finish(s, len, q)]
      /\ IF g.full_slots # {} /\ ~earlier
         THEN grp' = [grp EXCEPT ![i] = qfq_slot_insert(g, i, q, s)] /\ UNCHANGED <<V, bm>>
         ELSE /\ V' = v
              /\ grp' = [grp EXCEPT ![i] = qfq_slot_insert(g1, i, q, s)]
              /\ bm' = [B EXCEPT ![qfq_calc_state(B, v, i, g1.S, g1.F)] = @ \cup {i}]

Enqueue(q, len) ==
  /\ Found(q)
  /\ Len(mq[q]) < QSize /\ V < MaxV
  /\ mq' = [mq EXCEPT ![q] = Append(@, len)]
  /\ IF mq[q] = <<>> THEN Activate(q, len) ELSE UNCHANGED <<S, F, V, bm, grp>>
  /\ UNCHANGED <<ret, lead>>

\* qfq_enqueue() when dn_enqueue() drops the packet.
EnqueueDrop(q) ==
  /\ Found(q)
  /\ RandomDrop \/ Len(mq[q]) >= QSize
  /\ UNCHANGED <<mq, S, F, V, bm, grp, ret, lead>>

\* A packet of a flow that gets no queue is dropped.
EnqueueRefused(q) == ~Allowed(q) /\ UNCHANGED vars

-----------------------------------------------------------------------------
DequeueNone ==
  /\ bm["ER"] = {}
  /\ ret' = NULL
  /\ UNCHANGED <<alive, mq, S, F, V, wsum, bm, grp, lead>>

\* How lead changes when queue q has sent len bytes and keeps the packets rest.
Leads(q, len, rest) ==
  [a \in Queues |-> [b \in Queues |->
     IF a = b \/ mq[a] = <<>> \/ mq[b] = <<>> \/ (q \in {a, b} /\ rest = <<>>) THEN 0
     ELSE IF a = q THEN lead[a][b] + len * InvW[q]
     ELSE IF b = q THEN lead[a][b] - len * InvW[q]
     ELSE lead[a][b]]]

\* qfq_update_class(): the group g of class q, which has been served, keeps the
\* packets rest and starts at s again.
qfq_update_class(g, i, q, rest, s) ==
  IF rest = <<>> THEN qfq_front_slot_remove(g)
  ELSE IF qfq_round_down(s, i) = g.S THEN g
  ELSE qfq_slot_insert(qfq_front_slot_remove(g), i, q, s)

\* What qfq_dequeue() does with group i, which g is after qfq_update_class(): the
\* group gets the timestamps of its new front class, or disappears.
UpdateGroup(G, B, v, i, s) ==
  LET g == qfq_slot_scan(G[i])
      g1 == IF g.full_slots = {} THEN g ELSE Stamped(g, i, s[FrontClass(g)])
      B1 == Without(B, i)
      B2 == IF g.full_slots = {} THEN B1
            ELSE [B1 EXCEPT ![qfq_calc_state(B1, v, i, g1.S, g1.F)] = @ \cup {i}]
      G1 == [G EXCEPT ![i] = g1]
  IN  IF g.full_slots # {} /\ g1.S = g.S THEN [bm |-> B, grp |-> G1]
      ELSE [bm |-> qfq_unblock_groups(B2, G1, i, g.F), grp |-> G1]

Dequeue ==
  /\ bm["ER"] # {}
  /\ LET i == Min(bm["ER"])
         q == FrontClass(grp[i])
         len == Head(mq[q])
         rest == Tail(mq[q])
         v == Plus(V, len * IWSUM)
         S1 == [S EXCEPT ![q] = F[q]]
         g == qfq_update_class(grp[i], i, q, rest, F[q])
         G == [grp EXCEPT ![i] = g]
         same == rest # <<>> /\ qfq_round_down(F[q], i) = grp[i].S
         u == IF same THEN [bm |-> bm, grp |-> G] ELSE UpdateGroup(G, bm, v, i, S1)
         v1 == JumpedV(u.bm, u.grp, v)
     IN  /\ ret' = len
         /\ mq' = [mq EXCEPT ![q] = rest]
         /\ S' = S1
         /\ F' = IF rest = <<>> THEN F
                 ELSE [F EXCEPT ![q] = Finish(F[q], Head(rest), q)]
         /\ V' = v1
         /\ bm' = IF u.bm["IR"] \cup u.bm["IB"] = {} THEN u.bm
                  ELSE qfq_make_eligible(u.bm, V, v1)
         /\ grp' = u.grp
         /\ lead' = Leads(q, len, rest)
  /\ UNCHANGED <<alive, wsum>>

-----------------------------------------------------------------------------
\* The drain routine: qfq_free_queue() of a queue without packets.
DrainQueue(q) ==
  /\ q \in alive /\ mq[q] = <<>>
  /\ alive' = alive \ {q}
  /\ wsum' = wsum - Weight(q)
  /\ S' = [S EXCEPT ![q] = 0] /\ F' = [F EXCEPT ![q] = 0]
  /\ UNCHANGED <<mq, V, bm, grp, ret, lead>>

\* qfq_new_sched(), on memory that is zeroed
Init ==
  /\ alive = {} /\ mq = [q \in Queues |-> <<>>]
  /\ S = [q \in Queues |-> 0] /\ F = [q \in Queues |-> 0]
  /\ V = 0 /\ wsum = 0
  /\ bm = [s \in States |-> {}]
  /\ grp = [i \in Groups |-> [S |-> 0, F |-> 0, front |-> 0, full_slots |-> {},
                              slots |-> [j \in Slots |-> <<>>]]]
  /\ ret = NULL
  /\ lead = [a \in Queues |-> [b \in Queues |-> 0]]

Next ==
  \/ \E q \in Queues :
       \/ EnqueueDrop(q) \/ EnqueueRefused(q) \/ DrainQueue(q)
       \/ \E len \in 1..MaxlenOf[q] : Enqueue(q, len)
  \/ DequeueNone
  \/ Dequeue

Spec == Init /\ [][Next]_vars

-----------------------------------------------------------------------------
TypeOK ==
  /\ alive \subseteq Queues /\ wsum \in 0..MaxWsum
  /\ \A q \in Queues : mq[q] \in Seq(1..MaxlenOf[q]) /\ {S[q], F[q]} \subseteq Times
  /\ V \in Times
  /\ \A s \in States : bm[s] \subseteq Groups
  /\ \A i \in Groups : {grp[i].S, grp[i].F} \subseteq Times /\ grp[i].front \in Slots

Active(i) == grp[i].full_slots # {}

\* The distance from b forward to a, or backward when it is negative.
Ahead(a, b) == IF qfq_gt(a, b) THEN Minus(a, b) ELSE -Minus(b, a)

\* Each group that has packets is in one set, the one that its timestamps say, so
\* that ER is sorted by finish time and its first group is the one to serve.
GroupsInRightSet ==
  \A i \in Groups :
    {s \in States : i \in bm[s]} =
      IF ~Active(i) THEN {}
      ELSE LET blocked == \E j \in bm["ER"] : j > i /\ qfq_gt(grp[i].F, grp[j].F)
           IN  {IF qfq_gt(grp[i].S, V) THEN IF blocked THEN "IB" ELSE "IR"
                ELSE IF blocked THEN "EB" ELSE "ER"}

\* The buckets of a group: full_slots says which are in use, the first one is the
\* front and starts with the group, a class that has packets is in the one bucket of
\* its start time, and the span of the buckets is less than the array, "we should
\* make sure that slot becomes less than 32" (dn_sched_qfq.c:418).
BucketsOK ==
  \A i \in Groups :
    LET g == grp[i]
        bucket == [j \in Slots |-> g.slots[(g.front + j) % MaxSlots]]
        busy == {q \in Queues : GroupOf[q] = i /\ mq[q] # <<>>}
        slot == [q \in busy |-> Minus(qfq_round_down(S[q], i), g.S) \div Sigma[i]]
    IN  /\ g.full_slots = {j \in Slots : bucket[j] # <<>>}
        /\ Active(i) => 0 \in g.full_slots
        /\ \A q \in busy : slot[q] \in Slots
        /\ \A j \in Slots : /\ IsInjective(bucket[j])
                            /\ Range(bucket[j]) = {q \in busy : slot[q] = j}

\* The times of the groups that have packets stay around V: a group starts at most
\* one slot after V and finishes at V or after it.  What the order of the sets, the
\* number of buckets and the wrap of the times rely on.
TimesBounded ==
  \A i \in Groups : Active(i) =>
    /\ Ahead(grp[i].S, V) <= Sigma[i]
    /\ Ahead(grp[i].F, V) >= 0

\* The state of the scheduler is consistent, while no time has wrapped.
QFQOK == /\ TypeOK /\ GroupsInRightSet /\ BucketsOK /\ TimesBounded
         /\ wsum = MapThenSumSet(Weight, alive)

\* The instance behaves as dn_sched.h asks: first in, first out in each queue, and
\* NULL only when no queue has a packet.
Sched == INSTANCE DnScheduler WITH Pkts <- 1..Max({MaxlenOf[q] : q \in Queues})

SchedSpec == Sched!Spec

\* While two queues are backlogged they share the link by weight, although the groups
\* are served by rounded times and V advances as if all weights were in use: in virtual
\* time one is ahead of the other by less than four slots of each.  A backlogged queue
\* starts at most two slots before V (TimesBounded) and less than two after it.
FairShare ==
  \A a, b \in Queues : lead[a][b] < 4 * (Sigma[GroupOf[a]] + Sigma[GroupOf[b]])
=============================================================================
