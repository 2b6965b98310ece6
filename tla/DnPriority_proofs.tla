--------------------------- MODULE DnPriority_proofs ---------------------------
(***************************************************************************)
(* Proofs about the two parts of dummynet that serve by priority, the      *)
(* event heap (DnHeap) and the PRIO scheduler (DnSchedPrio).               *)
(*                                                                         *)
(* For any number of objects and any keys that DN_KEY_LT() orders, the     *)
(* array is a heap between two calls, its top is the smallest entry, every *)
(* object knows its position, and the heap implements the priority queue   *)
(* of DnPriorityQueue.                                                     *)
(*                                                                         *)
(* For any set of queues and any priorities, the array and the bitmap of   *)
(* the scheduler agree and hold every backlogged queue; packets are served *)
(* by priority and order of arrival; without random loss no packet is      *)
(* forgotten; and the pointer that is followed is a queue when the bitmap  *)
(* fits the argument of ffs().                                             *)
(***************************************************************************)
EXTENDS DnHeap, DnSchedPrio, WellFoundedInduction, TLAPS

-----------------------------------------------------------------------------
(* The event heap.                                                         *)

\* The father of a position is above it, and it has at most two sons.
LEMMA FatherLemma ==
  ASSUME NEW n \in Nat, n > 0
  PROVE  /\ HEAP_FATHER(n) \in Nat
         /\ HEAP_FATHER(n) < n
         /\ n = 2 * HEAP_FATHER(n) + 1 \/ n = 2 * HEAP_FATHER(n) + 2
BY DEF HEAP_FATHER

\* The sons of a position.
LEMMA SonLemma ==
  ASSUME NEW n \in Nat, NEW f \in Nat, n > 0
  PROVE  HEAP_FATHER(n) = f <=> n = HEAP_LEFT(f) \/ n = HEAP_LEFT(f) + 1
BY FatherLemma DEF HEAP_FATHER, HEAP_LEFT

\* What the assumption on the keys says of three entries of the array.
LEMMA LeqTransitive ==
  ASSUME NEW a \in Keys, NEW b \in Keys, NEW c \in Keys,
         ~DN_KEY_LT(b, a), ~DN_KEY_LT(c, b)
  PROVE  ~DN_KEY_LT(c, a)
BY KeyAssumption

LEMMA LtAsymmetric ==
  ASSUME NEW a \in Keys, NEW b \in Keys, DN_KEY_LT(a, b)
  PROVE  ~DN_KEY_LT(b, a)
BY KeyAssumption

LEMMA LtIrreflexive ==
  ASSUME NEW a \in Keys
  PROVE  ~DN_KEY_LT(a, a)
BY KeyAssumption

\* Positions and keys of a well-typed array.
LEMMA EntryType ==
  ASSUME TypeOK, NEW n \in 0..(elements - 1)
  PROVE  n \in DOMAIN p /\ p[n] \in Entries /\ p[n].key \in Keys /\ p[n].object \in Objs
BY DEF TypeOK, Entries

-----------------------------------------------------------------------------
(* The calls that start when the heap is idle.                              *)

LEMMA InitOK == Init => HeapOK
<1> SUFFICES ASSUME Init PROVE HeapOK
  OBVIOUS
<1>1. p \in [0..(elements - 1) -> Entries] /\ DOMAIN p = {}
  <2>1. elements = 0 /\ p = [x \in {} |-> 0]
    BY DEF Init
  <2>2. 0..(elements - 1) = {}
    BY <2>1
  <2>3. p \in [{} -> Entries] /\ DOMAIN p = {}
    BY <2>1
  <2> QED BY <2>2, <2>3, Zenon
<1>2. TypeOK
  <2>1. /\ elements \in Nat /\ size \in Nat /\ elements <= size
        /\ pc \in {"idle", "up", "down", "scan"} /\ at \in Nat /\ i \in Int
    BY DEF Init
  <2>2. ofs \in BOOLEAN /\ found \in BOOLEAN
    BY Zenon DEF Init
  <2>3. idx \in [Objs -> Int]
    BY DEF Init
  <2> QED BY <1>1, <2>1, <2>2, <2>3, Zenon DEF TypeOK
<1>3. Loops /\ Order
  BY DEF Init, Loops, Order, Prefix
<1>4. Distinct /\ Positions
  BY <1>1 DEF Init, Distinct, Positions, Live
<1> QED BY <1>2, <1>3, <1>4 DEF HeapOK

LEMMA SizeLemma ==
  ASSUME NEW n \in Nat, NEW m \in Rounded(n)
  PROVE  m \in Nat /\ m >= n
BY DEF Rounded

\* A heap that becomes empty, in heap_init() and heap_free().
LEMMA EmptyOK ==
  ASSUME HeapOK, pc = "idle", elements' = 0, p' = Truncate(p, 0),
         ofs' \in BOOLEAN, size' \in Nat, UNCHANGED <<idx, pc, at, i, found>>
  PROVE  HeapOK'
<1>1. TypeOK'
  BY DEF HeapOK, TypeOK, Truncate
<1>2. Loops'
  BY DEF HeapOK, TypeOK, Loops, Prefix
<1>3. Distinct' /\ Positions'
  BY DEF HeapOK, TypeOK, Distinct, Positions, Live, Truncate
<1>4. Order'
  BY DEF HeapOK, TypeOK, Loops, Order, Prefix
<1> QED BY <1>1, <1>2, <1>3, <1>4 DEF HeapOK

LEMMA HeapInitOK ==
  ASSUME HeapOK, NEW n \in Nat, NEW o \in BOOLEAN, HeapInit(n, o)
  PROVE  HeapOK'
<1>1. size' \in Nat
  BY SizeLemma DEF HeapInit, HeapOK, TypeOK
<1> QED BY <1>1, EmptyOK DEF HeapInit

LEMMA HeapFreeOK ==
  ASSUME HeapOK, HeapFree
  PROVE  HeapOK'
BY EmptyOK DEF HeapFree

LEMMA HeapInsertOK ==
  ASSUME HeapOK, NEW o \in Objs, NEW k \in Keys, HeapInsert(o, k)
  PROVE  HeapOK'
<1> USE DEF HeapInsert
<1>a. /\ elements \in Nat /\ size \in Nat /\ elements <= size /\ i = -1 /\ ~found
      /\ p \in [0..(elements - 1) -> Entries]
  BY DEF HeapOK, TypeOK, Loops
<1>b. p' \in [0..elements -> Entries]
  <2> DEFINE e == [key |-> k, object |-> o]
  <2>1. e \in Entries
    BY DEF Entries
  <2> HIDE DEF e
  <2> QED BY <2>1, <1>a DEF e
<1>c. size' \in Nat /\ elements + 1 <= size'
  <2>1. CASE elements = size
    BY <2>1, <1>a, SizeLemma
  <2>2. CASE elements # size
    BY <2>2, <1>a
  <2> QED BY <2>1, <2>2
<1>1. TypeOK'
  BY <1>a, <1>b, <1>c DEF HeapOK, TypeOK
<1>2. Loops'
  BY <1>a DEF HeapOK, Loops, Prefix
<1>3. /\ p'[elements].object = o
      /\ \A n \in 0..(elements - 1) : p'[n] = p[n]
  BY <1>a
<1>4. Distinct'
  BY <1>a, <1>b, <1>3 DEF HeapOK, Distinct, Live, InHeap
<1>5. Order'
  BY <1>a, <1>3, FatherLemma, SonLemma DEF HeapOK, Order, Leq, Prefix, HEAP_LEFT
<1>6. Positions'
  BY <1>a, <1>b, <1>3 DEF HeapOK, Positions, Live, Prefix
<1> QED BY <1>1, <1>2, <1>4, <1>5, <1>6 DEF HeapOK

-----------------------------------------------------------------------------
(* The loop of heap_insert().                                               *)

LEMMA UpSwapOK ==
  ASSUME HeapOK, UpSwap
  PROVE  HeapOK'
<1> DEFINE f == HEAP_FATHER(at)
<1>a. /\ elements \in Nat /\ i \in Int /\ i < elements /\ at \in Nat /\ at < Prefix
      /\ Prefix \in Nat /\ Prefix <= elements /\ pc = "up" /\ ~found /\ Prefix' = Prefix
      /\ p \in [0..(elements - 1) -> Entries] /\ idx \in [Objs -> Int]
      /\ elements' = elements /\ pc' = "up" /\ found' = found /\ ofs' = ofs /\ i' = i
  BY DEF HeapOK, TypeOK, Loops, Prefix, UpSwap
<1>b. at > 0 /\ ~DN_KEY_LT(p[f].key, p[at].key)
  BY <1>a DEF UpSwap, InPlace
<1>c. f \in Nat /\ f < at /\ at' = f
  BY <1>a, <1>b, FatherLemma DEF UpSwap
<1>d. /\ p' \in [0..(elements - 1) -> Entries]
      /\ p'[at] = p[f] /\ p'[f] = p[at]
      /\ \A n \in 0..(elements - 1) : n # at /\ n # f => p'[n] = p[n]
  BY <1>a, <1>c DEF UpSwap
<1>k. \A n \in 0..(elements - 1) : p[n].key \in Keys /\ p[n].object \in Objs
  BY <1>a DEF Entries
<1>e. \A n \in 1..(Prefix - 1) :
        /\ n # at => ~DN_KEY_LT(p[n].key, p[HEAP_FATHER(n)].key)
        /\ HEAP_FATHER(n) = at => ~DN_KEY_LT(p[n].key, p[f].key)
  BY <1>a, <1>b DEF HeapOK, Order, Leq
<1>1. TypeOK'
  <2>1. idx' \in [Objs -> Int]
    BY <1>a, <1>c, <1>k DEF UpSwap, SetOffset
  <2> QED BY <2>1, <1>a, <1>c, <1>d DEF HeapOK, TypeOK, UpSwap
<1>2. Loops'
  BY <1>a, <1>c DEF HeapOK, Loops, UpSwap
<1>3. Distinct'
  BY <1>a, <1>c, <1>d DEF HeapOK, Distinct, Live
<1>4. Order'
  <2>1. SUFFICES ASSUME NEW n \in 1..(Prefix - 1)
                 PROVE  /\ n # f => ~DN_KEY_LT(p'[n].key, p'[HEAP_FATHER(n)].key)
                        /\ HEAP_FATHER(n) = f /\ f > 0 =>
                             ~DN_KEY_LT(p'[n].key, p'[HEAP_FATHER(f)].key)
    BY <1>a, <1>c DEF Order, Leq
  <2>2. /\ HEAP_FATHER(n) \in Nat /\ HEAP_FATHER(n) < n
        /\ f > 0 => HEAP_FATHER(f) \in Nat /\ HEAP_FATHER(f) < f
    BY <1>c, FatherLemma
  <2> DEFINE g == HEAP_FATHER(n)
             ff == HEAP_FATHER(f)
  <2>3. n \in 0..(elements - 1) /\ g \in 0..(elements - 1) /\ f \in 0..(elements - 1)
        /\ at \in 0..(elements - 1) /\ (f > 0 => ff \in 0..(elements - 1))
    BY <1>a, <1>c, <2>2
  <2>4. f > 0 => ~DN_KEY_LT(p[f].key, p[ff].key)
    BY <1>a, <1>c, <1>e
  <2>5. ASSUME n # f
        PROVE  ~DN_KEY_LT(p'[n].key, p'[g].key)
    <3>1. CASE n = at
      BY <3>1, <1>b, <1>d
    <3>2. CASE n # at /\ g = at
      BY <3>2, <2>5, <1>c, <1>d, <1>e, <2>3
    <3>3. CASE n # at /\ g = f
      <4>1. ~DN_KEY_LT(p[n].key, p[f].key)
        BY <3>3, <1>e
      <4>2. ~DN_KEY_LT(p[n].key, p[at].key)
        BY <4>1, <1>b, <1>k, <2>3, LeqTransitive
      <4> QED BY <4>2, <3>3, <2>5, <1>d, <2>3
    <3>4. CASE n # at /\ g # at /\ g # f
      BY <3>4, <2>5, <1>d, <1>e, <2>3
    <3> QED BY <3>1, <3>2, <3>3, <3>4
  <2>6. ASSUME g = f, f > 0
        PROVE  ~DN_KEY_LT(p'[n].key, p'[ff].key)
    <3>1. ff # f /\ ff # at /\ n # f
      BY <2>2, <2>6, <1>c
    <3>2. p'[ff] = p[ff]
      BY <3>1, <2>3, <2>6, <1>d
    <3>3. CASE n = at
      BY <3>2, <3>3, <2>4, <2>6, <1>d
    <3>4. CASE n # at
      <4>1. ~DN_KEY_LT(p[n].key, p[f].key)
        BY <3>4, <2>6, <1>e
      <4>2. ~DN_KEY_LT(p[n].key, p[ff].key)
        BY <4>1, <2>4, <2>6, <1>k, <2>3, LeqTransitive
      <4> QED BY <4>2, <3>1, <3>2, <3>4, <1>d, <2>3
    <3> QED BY <3>3, <3>4
  <2> QED BY <2>5, <2>6
<1>5. Positions'
  <2>1. SUFFICES ASSUME ofs, NEW n \in 0..(elements - 1), n < Prefix, n # f
                 PROVE  idx'[p'[n].object] = n
    BY <1>a, <1>c, <1>d DEF Positions, Live
  <2>2. idx' = [idx EXCEPT ![p[f].object] = at]
    BY <2>1 DEF UpSwap, SetOffset
  <2>3. f \in 0..(elements - 1) /\ at \in 0..(elements - 1)
    BY <1>a, <1>c
  <2>4. CASE n = at
    BY <2>2, <2>3, <2>4, <1>a, <1>d, <1>k
  <2>5. CASE n # at
    <3>1. idx[p[n].object] = n
      BY <2>1, <2>5, <1>a DEF HeapOK, Positions, Live
    <3>2. p[n].object # p[f].object
      BY <2>1, <2>3, <1>a DEF HeapOK, Distinct, Live
    <3> QED BY <3>1, <3>2, <2>1, <2>2, <2>5, <1>a, <1>d, <1>k
  <2> QED BY <2>4, <2>5
<1> QED BY <1>1, <1>2, <1>3, <1>4, <1>5 DEF HeapOK

LEMMA UpDoneOK ==
  ASSUME HeapOK, UpDone
  PROVE  HeapOK'
<1>a. /\ elements \in Nat /\ i \in Int /\ i < elements /\ i >= -1 /\ at \in Nat
      /\ at < Prefix /\ Prefix \in Nat /\ Prefix <= elements /\ pc = "up" /\ ~found
      /\ p \in [0..(elements - 1) -> Entries] /\ idx \in [Objs -> Int]
      /\ elements' = elements /\ found' = found /\ ofs' = ofs /\ p' = p
      /\ ofs \in BOOLEAN /\ size \in Nat /\ size' = size
  BY DEF HeapOK, TypeOK, Loops, Prefix, UpDone
<1>b. \/ /\ i >= 0 /\ i + 1 < elements
         /\ i' = i + 1 /\ at' = i + 1 /\ pc' = "up" /\ Prefix = i + 1 /\ Prefix' = i + 2
      \/ /\ i' = -1 /\ at' = 0 /\ pc' = "idle" /\ Prefix = elements /\ Prefix' = elements
  BY <1>a DEF UpDone, Prefix
<1>c. \A n \in 0..(elements - 1) : p[n].key \in Keys /\ p[n].object \in Objs
  BY <1>a DEF Entries
<1>1. TypeOK'
  <2>1. idx' \in [Objs -> Int]
    BY <1>a, <1>c DEF UpDone, SetOffset
  <2> QED BY <2>1, <1>a, <1>b DEF HeapOK, TypeOK
<1>2. Loops'
  BY <1>a, <1>b DEF Loops
<1>3. Distinct'
  BY <1>a, <1>b DEF HeapOK, Distinct, Live
<1>4. \A n \in 1..(Prefix - 1) : ~DN_KEY_LT(p[n].key, p[HEAP_FATHER(n)].key)
  <2>1. TAKE n \in 1..(Prefix - 1)
  <2>2. CASE n # at
    BY <2>2, <1>a DEF HeapOK, Order, Leq
  <2>3. CASE n = at
    <3>1. DN_KEY_LT(p[HEAP_FATHER(n)].key, p[n].key)
      BY <2>3, <1>a DEF UpDone, InPlace
    <3> QED BY <3>1, <1>a, <1>c, LtAsymmetric, FatherLemma
  <2> QED BY <2>2, <2>3
<1>5. Order'
  <2>1. CASE pc' = "idle"
    BY <2>1, <1>a, <1>b, <1>4 DEF Order, Leq
  <2>2. CASE pc' = "up"
    <3>1. \A n \in 1..(Prefix' - 1) : HEAP_FATHER(n) # at'
      BY <2>2, <1>a, <1>b, FatherLemma
    <3> QED BY <3>1, <2>2, <1>a, <1>b, <1>4 DEF Order, Leq
  <2> QED BY <2>1, <2>2, <1>b
<1>6. Positions'
  <2>1. SUFFICES ASSUME ofs, NEW n \in 0..(elements - 1), n < Prefix
                 PROVE  idx'[p[n].object] = n
    BY <1>a, <1>b DEF Positions, Live
  <2>2. idx' = [idx EXCEPT ![p[at].object] = at]
    BY <2>1 DEF UpDone, SetOffset
  <2>3. CASE n = at
    BY <2>1, <2>2, <2>3, <1>a, <1>c
  <2>4. CASE n # at
    <3>1. idx[p[n].object] = n
      BY <2>1, <2>4, <1>a DEF HeapOK, Positions, Live
    <3>2. at \in 0..(elements - 1) /\ Live = 0..(elements - 1)
      BY <1>a DEF Live
    <3>3. p[n].object # p[at].object
      BY <3>2, <2>4 DEF HeapOK, Distinct
    <3> QED BY <3>1, <3>3, <2>1, <2>2, <1>a, <1>c
  <2> QED BY <2>3, <2>4
<1> QED BY <1>1, <1>2, <1>3, <1>5, <1>6 DEF HeapOK

-----------------------------------------------------------------------------
(* heap_extract().                                                          *)

LEMMA StartExtractOK ==
  ASSUME HeapOK, NEW father \in 0..(elements - 1), pc = "idle", StartExtract(father)
  PROVE  HeapOK'
<1>a. /\ elements \in Nat /\ i = -1 /\ ~found /\ Prefix = elements /\ Prefix' = elements
      /\ p \in [0..(elements - 1) -> Entries] /\ idx \in [Objs -> Int] /\ size \in Nat
      /\ elements' = elements /\ found' = found /\ ofs' = ofs /\ p' = p /\ i' = i
      /\ pc' = "down" /\ at' = father /\ size' = size /\ ofs \in BOOLEAN
  BY DEF HeapOK, TypeOK, Loops, Prefix, StartExtract
<1>b. \A n \in 0..(elements - 1) : p[n].key \in Keys /\ p[n].object \in Objs
  BY <1>a DEF Entries
<1>1. TypeOK'
  <2>1. idx' \in [Objs -> Int]
    BY <1>a, <1>b DEF StartExtract, SetOffset, Invalid
  <2> QED BY <2>1, <1>a DEF HeapOK, TypeOK
<1>2. Loops'
  BY <1>a DEF Loops
<1>3. Distinct'
  BY <1>a DEF HeapOK, Distinct, Live
<1>4. \A n \in 1..(elements - 1) : ~DN_KEY_LT(p[n].key, p[HEAP_FATHER(n)].key)
  BY <1>a DEF HeapOK, Order, Leq
<1>5. Order'
  <2>1. ASSUME NEW n \in 1..(elements - 1), HEAP_FATHER(n) = father, father > 0
        PROVE  ~DN_KEY_LT(p[n].key, p[HEAP_FATHER(father)].key)
    <3>1. ~DN_KEY_LT(p[n].key, p[father].key)
      BY <2>1, <1>4
    <3>2. ~DN_KEY_LT(p[father].key, p[HEAP_FATHER(father)].key)
      BY <2>1, <1>4
    <3>3. HEAP_FATHER(father) \in 0..(elements - 1)
      BY <2>1, <1>a, FatherLemma
    <3> QED BY <3>1, <3>2, <3>3, <1>b, LeqTransitive
  <2> QED BY <2>1, <1>4, <1>a DEF Order, Leq
<1>6. Positions'
  <2>1. SUFFICES ASSUME ofs, NEW n \in 0..(elements - 1), n # father
                 PROVE  idx'[p[n].object] = n
    BY <1>a DEF Positions, Live
  <2>2. idx' = [idx EXCEPT ![p[father].object] = Invalid]
    BY <2>1 DEF StartExtract, SetOffset
  <2>3. idx[p[n].object] = n /\ p[n].object # p[father].object
    BY <2>1, <1>a DEF HeapOK, Positions, Distinct, Live
  <2> QED BY <2>1, <2>2, <2>3, <1>a, <1>b
<1> QED BY <1>1, <1>2, <1>3, <1>5, <1>6 DEF HeapOK

LEMMA HeapExtractTopOK ==
  ASSUME HeapOK, HeapExtractTop
  PROVE  HeapOK'
BY StartExtractOK DEF HeapExtractTop, HeapOK, TypeOK

LEMMA HeapExtractOK ==
  ASSUME HeapOK, NEW o \in Objs, HeapExtract(o)
  PROVE  HeapOK'
<1>1. idx[o] \in 0..(elements - 1)
  BY DEF HeapExtract, HeapOK, TypeOK
<1> QED BY <1>1, StartExtractOK DEF HeapExtract

LEMMA DownMoveOK ==
  ASSUME HeapOK, DownMove
  PROVE  HeapOK'
<1> DEFINE child == SmallestChild(at)
<1>a. /\ elements \in Nat /\ i = -1 /\ ~found /\ Prefix = elements /\ Prefix' = elements
      /\ p \in [0..(elements - 1) -> Entries] /\ idx \in [Objs -> Int] /\ size \in Nat
      /\ elements' = elements /\ found' = found /\ ofs' = ofs /\ i' = i /\ size' = size
      /\ pc = "down" /\ pc' = "down" /\ ofs \in BOOLEAN /\ at \in Nat /\ at < elements
  BY DEF HeapOK, TypeOK, Loops, Prefix, DownMove
<1>b. \A n \in 0..(elements - 1) : p[n].key \in Keys /\ p[n].object \in Objs
  BY <1>a DEF Entries
<1>c. /\ child \in Nat /\ child < elements /\ child > at /\ HEAP_FATHER(child) = at
      /\ \A n \in 1..(elements - 1) :
           HEAP_FATHER(n) = at => ~DN_KEY_LT(p[n].key, p[child].key)
  <2> DEFINE left == HEAP_LEFT(at)
  <2>1. left \in Nat /\ left > at /\ left <= elements - 1
    BY <1>a DEF DownMove, HEAP_LEFT
  <2>2. CASE left # elements - 1 /\ DN_KEY_LT(p[left + 1].key, p[left].key)
    <3>1. child = left + 1 /\ left + 1 <= elements - 1
      BY <2>1, <2>2, <1>a DEF SmallestChild, HEAP_LEFT
    <3>2. ~DN_KEY_LT(p[left].key, p[left + 1].key)
      BY <2>1, <2>2, <3>1, <1>a, <1>b, LtAsymmetric
    <3>3. ~DN_KEY_LT(p[left + 1].key, p[left + 1].key)
      BY <2>1, <3>1, <1>a, <1>b, LtIrreflexive
    <3>4. HEAP_FATHER(child) = at
      BY <2>1, <3>1, <1>a, SonLemma
    <3> QED BY <2>1, <3>1, <3>2, <3>3, <3>4, <1>a, SonLemma
  <2>3. CASE ~(left # elements - 1 /\ DN_KEY_LT(p[left + 1].key, p[left].key))
    <3>1. child = left
      BY <2>3 DEF SmallestChild
    <3>2. left + 1 <= elements - 1 => ~DN_KEY_LT(p[left + 1].key, p[left].key)
      BY <2>1, <2>3, <1>a
    <3>3. ~DN_KEY_LT(p[left].key, p[left].key)
      BY <2>1, <1>a, <1>b, LtIrreflexive
    <3>4. HEAP_FATHER(child) = at
      BY <2>1, <3>1, <1>a, SonLemma
    <3> QED BY <2>1, <3>1, <3>2, <3>3, <3>4, <1>a, SonLemma
  <2> QED BY <2>2, <2>3
<1>d. /\ at' = child /\ p' = [p EXCEPT ![at] = p[child]]
      /\ idx' = SetOffset(idx, p[child].object, at)
  BY DEF DownMove
<1> HIDE DEF child
<1>e. /\ p' \in [0..(elements - 1) -> Entries]
      /\ p'[at] = p[child]
      /\ \A n \in 0..(elements - 1) : n # at => p'[n] = p[n]
  BY <1>a, <1>c, <1>d
<1>f. \A n \in 1..(elements - 1) :
        /\ n # at /\ HEAP_FATHER(n) # at => ~DN_KEY_LT(p[n].key, p[HEAP_FATHER(n)].key)
        /\ HEAP_FATHER(n) = at /\ at > 0 => ~DN_KEY_LT(p[n].key, p[HEAP_FATHER(at)].key)
  BY <1>a DEF HeapOK, Order, Leq
<1>1. TypeOK'
  <2>1. idx' \in [Objs -> Int]
    BY <1>a, <1>b, <1>c, <1>d DEF SetOffset
  <2> QED BY <2>1, <1>a, <1>c, <1>d, <1>e DEF HeapOK, TypeOK
<1>2. Loops'
  BY <1>a, <1>c, <1>d DEF Loops
<1>3. Distinct'
  <2>1. Live = (0..(elements - 1)) \ {at} /\ Live' = (0..(elements - 1)) \ {child}
    BY <1>a, <1>d, <1>e DEF Live
  <2>2. child \in Live
    BY <2>1, <1>a, <1>c
  <2> QED BY <2>1, <2>2, <1>e DEF HeapOK, Distinct
<1>4. Order'
  <2>1. SUFFICES ASSUME NEW n \in 1..(elements - 1)
                 PROVE  /\ n # child /\ HEAP_FATHER(n) # child =>
                             ~DN_KEY_LT(p'[n].key, p'[HEAP_FATHER(n)].key)
                        /\ HEAP_FATHER(n) = child =>
                             ~DN_KEY_LT(p'[n].key, p'[HEAP_FATHER(child)].key)
    BY <1>a, <1>c, <1>d DEF Order, Leq
  <2> DEFINE g == HEAP_FATHER(n)
  <2>2. g \in 0..(elements - 1) /\ g < n
    BY <1>a, FatherLemma
  <2>3. ASSUME n # child, g # child
        PROVE  ~DN_KEY_LT(p'[n].key, p'[g].key)
    <3>1. CASE n = at
      <4>1. g # at /\ p'[g] = p[g] /\ p'[n] = p[child]
        BY <3>1, <2>2, <1>a, <1>e
      <4>2. child \in 1..(elements - 1) /\ at > 0
        BY <3>1, <1>a, <1>c
      <4>3. ~DN_KEY_LT(p[child].key, p[HEAP_FATHER(at)].key)
        BY <4>2, <1>c, <1>f
      <4> QED BY <4>1, <4>3, <3>1
    <3>2. CASE n # at /\ g = at
      BY <3>2, <1>a, <1>c, <1>e
    <3>3. CASE n # at /\ g # at
      BY <3>3, <2>2, <1>a, <1>e, <1>f
    <3> QED BY <3>1, <3>2, <3>3
  <2>4. ASSUME g = child
        PROVE  ~DN_KEY_LT(p'[n].key, p'[HEAP_FATHER(child)].key)
    <3>1. n # at /\ g # at
      BY <2>2, <2>4, <1>a, <1>c
    <3>2. ~DN_KEY_LT(p[n].key, p[child].key)
      BY <3>1, <2>4, <1>f
    <3> QED BY <3>1, <3>2, <1>a, <1>c, <1>e
  <2> QED BY <2>3, <2>4
<1>5. Positions'
  <2>1. SUFFICES ASSUME ofs, NEW n \in 0..(elements - 1), n # child
                 PROVE  idx'[p'[n].object] = n
    BY <1>a, <1>d, <1>e DEF Positions, Live
  <2>2. idx' = [idx EXCEPT ![p[child].object] = at]
    BY <2>1, <1>d DEF SetOffset
  <2>3. Live = (0..(elements - 1)) \ {at} /\ child \in Live
    BY <1>a, <1>c DEF Live
  <2>4. CASE n = at
    BY <2>2, <2>3, <2>4, <1>a, <1>b, <1>e
  <2>5. CASE n # at
    <3>1. idx[p[n].object] = n
      BY <2>1, <2>3, <2>5, <1>a DEF HeapOK, Positions
    <3>2. p[n].object # p[child].object
      BY <2>1, <2>3, <2>5 DEF HeapOK, Distinct
    <3> QED BY <3>1, <3>2, <2>1, <2>2, <2>3, <2>5, <1>a, <1>b, <1>e
  <2> QED BY <2>4, <2>5
<1> QED BY <1>1, <1>2, <1>3, <1>4, <1>5 DEF HeapOK

LEMMA DownDoneOK ==
  ASSUME HeapOK, DownDone
  PROVE  HeapOK'
<1> DEFINE last == elements - 1
<1>a. /\ elements \in Nat /\ i = -1 /\ ~found /\ Prefix = elements /\ Prefix' = last
      /\ p \in [0..last -> Entries] /\ idx \in [Objs -> Int] /\ size \in Nat
      /\ elements' = last /\ found' = found /\ ofs' = ofs /\ i' = i /\ size' = size
      /\ pc = "down" /\ ofs \in BOOLEAN /\ at \in Nat /\ at <= last /\ last \in Nat
      /\ idx' = idx /\ elements <= size
  BY DEF HeapOK, TypeOK, Loops, Prefix, DownDone
<1>b. \/ at # last /\ pc' = "up" /\ at' = at
      \/ at = last /\ pc' = "idle" /\ at' = 0
  BY DEF DownDone, AfterFill
<1>c. /\ p' \in [0..(last - 1) -> Entries]
      /\ \A n \in 0..(last - 1) : p'[n] = IF n = at THEN p[last] ELSE p[n]
  BY <1>a DEF DownDone, Truncate
<1>d. \A n \in 1..last : HEAP_FATHER(n) # at
  BY <1>a, SonLemma DEF DownDone, HEAP_LEFT
<1>1. TypeOK'
  <2>1. p' \in [0..(elements' - 1) -> Entries] /\ elements' \in Nat /\ elements' <= size'
    BY <1>a, <1>c
  <2>2. /\ size' \in Nat /\ idx' \in [Objs -> Int]
        /\ pc' \in {"idle", "up", "down", "scan"} /\ at' \in Nat /\ i' \in Int
    BY <1>a, <1>b
  <2>3. ofs' \in BOOLEAN /\ found' \in BOOLEAN
    BY <1>a, Zenon DEF HeapOK, TypeOK
  <2> QED BY <2>1, <2>2, <2>3, Zenon DEF TypeOK
<1>2. Loops'
  BY <1>a, <1>b DEF Loops
<1>3. Distinct'
  BY <1>a, <1>b, <1>c DEF HeapOK, Distinct, Live
<1>4. Order'
  <2>1. SUFFICES ASSUME NEW n \in 1..(last - 1)
                 PROVE  n # at => ~DN_KEY_LT(p'[n].key, p'[HEAP_FATHER(n)].key)
    BY <1>a, <1>b, <1>d DEF Order, Leq
  <2>2. HEAP_FATHER(n) \in 0..(last - 1) /\ HEAP_FATHER(n) # at
    BY <1>a, <1>d, FatherLemma
  <2> QED BY <2>2, <1>a, <1>c DEF HeapOK, Order, Leq
<1>5. Positions'
  BY <1>a, <1>b, <1>c DEF HeapOK, Positions, Live
<1> QED BY <1>1, <1>2, <1>3, <1>4, <1>5 DEF HeapOK

-----------------------------------------------------------------------------
(* heap_scan().                                                             *)

LEMMA ScanStartOK ==
  ASSUME HeapOK, ScanStart
  PROVE  HeapOK'
<1> USE DEF ScanStart
<1>1. TypeOK'
  BY DEF HeapOK, TypeOK
<1>2. Loops'
  BY DEF HeapOK, TypeOK, Loops
<1>3. Distinct' /\ Order' /\ Positions'
  BY DEF HeapOK, Distinct, Order, Positions, Live, Prefix, Leq
<1> QED BY <1>1, <1>2, <1>3 DEF HeapOK

LEMMA ScanKeepOK ==
  ASSUME HeapOK, ScanKeep
  PROVE  HeapOK'
<1> USE DEF ScanKeep
<1>1. TypeOK'
  BY DEF HeapOK, TypeOK
<1>2. Loops'
  BY DEF HeapOK, TypeOK, Loops
<1>3. Distinct' /\ Order' /\ Positions'
  BY DEF HeapOK, Distinct, Order, Positions, Live, Prefix, Leq
<1> QED BY <1>1, <1>2, <1>3 DEF HeapOK

LEMMA ScanDeleteOK ==
  ASSUME HeapOK, ScanDelete
  PROVE  HeapOK'
<1> DEFINE last == elements - 1
<1>a. /\ elements \in Nat /\ last \in Nat /\ i = -1 /\ at \in 0..last /\ elements <= size
      /\ p \in [0..last -> Entries] /\ size \in Nat /\ elements' = last
      /\ pc = "scan" /\ pc' = "scan" /\ found' = TRUE /\ UNCHANGED <<size, ofs, idx, at, i>>
  BY DEF HeapOK, TypeOK, Loops, ScanDelete
<1>b. /\ p' \in [0..(last - 1) -> Entries]
      /\ \A n \in 0..(last - 1) : p'[n] = IF n = at THEN p[last] ELSE p[n]
  BY <1>a DEF ScanDelete, Truncate
<1>1. TypeOK'
  <2>1. /\ p' \in [0..(elements' - 1) -> Entries] /\ elements' \in Nat
        /\ elements' <= size' /\ at' \in Nat /\ i' \in Int
    BY <1>a, <1>b
  <2> QED BY <2>1, <1>a, Zenon DEF HeapOK, TypeOK
<1>2. Loops'
  BY <1>a DEF Loops
<1>3. Distinct'
  BY <1>a, <1>b DEF HeapOK, Distinct, Live
<1>4. Order' /\ Positions'
  BY <1>a DEF Order, Positions
<1> QED BY <1>1, <1>2, <1>3, <1>4 DEF HeapOK

LEMMA ScanEndOK ==
  ASSUME HeapOK, ScanEnd
  PROVE  HeapOK'
<1>a. /\ elements \in Nat /\ i = -1 /\ pc = "scan" /\ at' = 0 /\ found' = FALSE
      /\ UNCHANGED <<p, elements, size, ofs, idx>>
      /\ p \in [0..(elements - 1) -> Entries]
  BY DEF HeapOK, TypeOK, Loops, ScanEnd
<1>b. \/ found /\ elements > 0 /\ pc' = "up" /\ i' = 0
      \/ ~found /\ pc' = "idle" /\ i' = -1
      \/ elements = 0 /\ pc' = "idle" /\ i' = -1
  BY <1>a DEF ScanEnd
<1>1. TypeOK'
  <2>1. at' \in Nat /\ i' \in Int
    BY <1>a, <1>b
  <2>2. pc' \in {"idle", "up", "down", "scan"}
    BY <1>b
  <2> QED BY <2>1, <2>2, <1>a, Zenon DEF HeapOK, TypeOK
<1>2. Loops'
  BY <1>a, <1>b DEF Loops, Prefix
<1>3. Distinct'
  BY <1>a, <1>b DEF HeapOK, Distinct, Live
<1>4. Order'
  BY <1>a, <1>b DEF HeapOK, Order, Prefix, Leq
<1>5. Positions'
  BY <1>a, <1>b DEF HeapOK, Positions, Live, Prefix
<1> QED BY <1>1, <1>2, <1>3, <1>4, <1>5 DEF HeapOK

-----------------------------------------------------------------------------
LEMMA NextOK == HeapOK /\ [Next]_vars => HeapOK'
<1> SUFFICES ASSUME HeapOK, [Next]_vars PROVE HeapOK'
  OBVIOUS
<1>1. ASSUME NEW o \in BOOLEAN, HeapInit(16, o) PROVE HeapOK'
  BY <1>1, HeapInitOK
<1>2. CASE HeapFree
  BY <1>2, HeapFreeOK
<1>3. ASSUME NEW o \in Objs, NEW k \in Keys, HeapInsert(o, k) PROVE HeapOK'
  BY <1>3, HeapInsertOK
<1>4. CASE HeapExtractTop
  BY <1>4, HeapExtractTopOK
<1>5. ASSUME NEW o \in Objs, HeapExtract(o) PROVE HeapOK'
  BY <1>5, HeapExtractOK
<1>6. CASE UNCHANGED vars
  BY <1>6 DEF vars, HeapOK, TypeOK, Loops, Distinct, Order, Positions, Live, Prefix, Leq
<1>7. CASE AllocFails \/ HeapExtractEmpty
  BY <1>6, <1>7 DEF AllocFails, HeapExtractEmpty
<1>8. CASE ScanStart
  BY <1>8, ScanStartOK
<1>9. CASE Loop
  BY <1>9, UpSwapOK, UpDoneOK, DownMoveOK, DownDoneOK, ScanKeepOK, ScanDeleteOK, ScanEndOK
  DEF Loop
<1> QED BY <1>1, <1>2, <1>3, <1>4, <1>5, <1>6, <1>7, <1>8, <1>9 DEF Next

\* dn_heap.c keeps its invariant: the array is a heap, except where the loop that
\* runs is at work, no object has two entries and the stored positions are right.
THEOREM HeapCorrect == Spec => []HeapOK
<1>1. Init => HeapOK
  BY InitOK
<1>2. HeapOK /\ [Next]_vars => HeapOK'
  BY NextOK
<1> QED BY <1>1, <1>2, PTL DEF Spec

\* Between two calls every object of the heap knows its position: heap_extract()
\* of an object in the heap finds it (dn_heap.c:197-203).
THEOREM PositionsCorrect == Spec => []IndexRight
<1>1. HeapOK => IndexRight
  BY DEF HeapOK, TypeOK, Loops, Positions, IndexRight, Live, Prefix
<1> QED BY <1>1, HeapCorrect, PTL

\* An ordered array has its smallest entry at the top: of the positions with an
\* entry smaller than the top, the first one would have a father that is not
\* smaller than the top and yet not greater than its son.
LEMMA TopLemma ==
  ASSUME HeapOK, pc = "idle"
  PROVE  \A n \in 1..(elements - 1) : Leq(0, n)
<1> DEFINE T == {n \in Nat : n \in 1..(elements - 1) /\ ~Leq(0, n)}
<1>a. /\ elements \in Nat
      /\ \A n \in 1..(elements - 1) : Leq(HEAP_FATHER(n), n)
  BY DEF HeapOK, TypeOK, Loops, Order, Prefix
<1>b. \A n \in 0..(elements - 1) : p[n].key \in Keys
  BY DEF HeapOK, TypeOK, Entries
<1>1. SUFFICES ASSUME T # {} PROVE FALSE
  BY <1>a
<1>2. PICK x \in T : \A y \in T : ~(<<y, x>> \in OpToRel(<, Nat))
  <2>1. T \subseteq Nat
    OBVIOUS
  <2> QED BY <1>1, <2>1, WFMin, NatLessThanWellFounded
<1>3. \A y \in T : ~(y < x)
  BY <1>2 DEF OpToRel
<1>4. HEAP_FATHER(x) \in Nat /\ HEAP_FATHER(x) < x /\ HEAP_FATHER(x) \notin T
  BY <1>3, FatherLemma
<1>5. Leq(0, HEAP_FATHER(x))
  <2>1. CASE HEAP_FATHER(x) = 0
    <3>1. p[0].key \in Keys
      BY <1>a, <1>b
    <3> QED BY <3>1, <2>1, LtIrreflexive DEF Leq
  <2>2. CASE HEAP_FATHER(x) # 0
    BY <2>2, <1>a, <1>4
  <2> QED BY <2>1, <2>2
<1>6. Leq(HEAP_FATHER(x), x)
  BY <1>a
<1>7. p[0].key \in Keys /\ p[x].key \in Keys /\ p[HEAP_FATHER(x)].key \in Keys
  BY <1>a, <1>b, <1>4
<1>8. Leq(0, x)
  BY <1>5, <1>6, <1>7, LeqTransitive DEF Leq
<1> QED BY <1>8

\* The top of the heap has the smallest key.
THEOREM TopCorrect == Spec => []TopIsSmallest
<1>1. HeapOK => TopIsSmallest
  BY TopLemma DEF TopIsSmallest
<1> QED BY <1>1, HeapCorrect, PTL

-----------------------------------------------------------------------------
(* Refinement of the priority queue.                                        *)

\* No two of the positions S hold the same object.
Unique(f, S) == \A m, n \in S : f[m].object = f[n].object => m = n

\* C gives each object at one of the positions S of f its key.
IsContent(C, f, S) ==
  /\ \A x : x \in DOMAIN C <=> \E n \in S : x = f[n].object
  /\ \A n \in S : C[f[n].object] = f[n].key

LEMMA ContentLemma ==
  ASSUME NEW f, NEW S, Unique(f, S)
  PROVE  IsContent(ContentOf(f, S), f, S)
<1>1. \A x : x \in DOMAIN ContentOf(f, S) <=> \E n \in S : x = f[n].object
  BY DEF ContentOf
<1>2. ASSUME NEW n \in S
      PROVE  ContentOf(f, S)[f[n].object] = f[n].key
  <2>1. (CHOOSE m \in S : f[m].object = f[n].object) = n
    BY DEF Unique
  <2> QED BY <2>1 DEF ContentOf
<1> QED BY <1>1, <1>2 DEF IsContent

\* g at T has the entries that f at S has for the objects R.
Keeps(f, S, g, T, R) ==
  /\ \A n \in T : \E m \in S : g[n] = f[m] /\ f[m].object \in R
  /\ \A m \in S : f[m].object \in R => \E n \in T : g[n] = f[m]

LEMMA ContentEqual ==
  ASSUME NEW f, NEW S, NEW g, NEW T, NEW R,
         Unique(f, S), Unique(g, T), R \subseteq DOMAIN ContentOf(f, S),
         Keeps(f, S, g, T, R)
  PROVE  ContentOf(g, T) = [x \in R |-> ContentOf(f, S)[x]]
<1> DEFINE C == ContentOf(f, S)
           D == ContentOf(g, T)
<1>1. IsContent(C, f, S)
  BY ContentLemma
<1>2. IsContent(D, g, T)
  BY ContentLemma
<1>3. D = [x \in DOMAIN D |-> D[x]]
  BY DEF ContentOf
<1> HIDE DEF C, D
<1>4. DOMAIN D = R
  <2>1. ASSUME NEW x \in R PROVE x \in DOMAIN D
    <3>1. PICK m \in S : f[m].object = x
      BY <1>1 DEF C, IsContent
    <3>2. PICK n \in T : g[n] = f[m]
      BY <3>1 DEF Keeps
    <3> QED BY <3>1, <3>2, <1>2 DEF IsContent
  <2> QED BY <2>1, <1>2 DEF IsContent, Keeps
<1>5. ASSUME NEW x \in R PROVE D[x] = C[x]
  <2>1. PICK m \in S : f[m].object = x
    BY <1>1 DEF C, IsContent
  <2>2. PICK n \in T : g[n] = f[m]
    BY <2>1 DEF Keeps
  <2> QED BY <2>1, <2>2, <1>1, <1>2 DEF IsContent
<1>6. D = [x \in R |-> C[x]]
  BY <1>3, <1>4, <1>5
<1> QED BY <1>6 DEF C, D

\* A step that only moves entries.
LEMMA ContentSame ==
  ASSUME NEW f, NEW S, NEW g, NEW T, Unique(f, S), Unique(g, T),
         \A n \in T : \E m \in S : g[n] = f[m],
         \A m \in S : \E n \in T : g[n] = f[m]
  PROVE  ContentOf(g, T) = ContentOf(f, S)
<1> DEFINE C == ContentOf(f, S)
<1>1. \A m \in S : f[m].object \in DOMAIN C
  BY ContentLemma DEF IsContent
<1>2. ContentOf(g, T) = [x \in DOMAIN C |-> C[x]]
  <2>1. Keeps(f, S, g, T, DOMAIN C)
    BY <1>1 DEF Keeps
  <2>2. DOMAIN C \subseteq DOMAIN ContentOf(f, S)
    OBVIOUS
  <2> QED BY <2>1, <2>2, ContentEqual
<1>3. C = [x \in DOMAIN C |-> C[x]]
  BY DEF ContentOf
<1> QED BY <1>2, <1>3

\* The queue as the abstract specification sees it, in each state.
LEMMA UniqueLive == HeapOK => Unique(p, Live)
BY DEF HeapOK, Distinct, Unique

LEMMA UniqueLivePrime == HeapOK' => Unique(p', Live')
BY DEF HeapOK, Distinct, Unique

\* The loops only move entries, except the one of heap_scan() that deletes.
LEMMA LoopMoves ==
  ASSUME HeapOK, HeapOK', UpSwap \/ UpDone \/ DownMove \/ DownDone \/ ScanKeep \/ ScanEnd
  PROVE  Content' = Content
<1> SUFFICES /\ \A n \in Live' : \E m \in Live : p'[n] = p[m]
             /\ \A m \in Live : \E n \in Live' : p'[n] = p[m]
  BY UniqueLive, UniqueLivePrime, ContentSame DEF Content
<1>a. elements \in Nat /\ p \in [0..(elements - 1) -> Entries] /\ at \in Nat
  BY DEF HeapOK, TypeOK
<1>1. CASE UpDone \/ ScanKeep \/ ScanEnd
  BY <1>1 DEF UpDone, ScanKeep, ScanEnd, Live
<1>2. CASE UpSwap
  <2>1. at > 0 /\ at < elements /\ pc = "up" /\ pc' = "up"
    BY <1>2 DEF UpSwap, InPlace, HeapOK, TypeOK, Loops, Prefix
  <2>2. HEAP_FATHER(at) \in 0..(elements - 1) /\ at \in 0..(elements - 1)
    BY <2>1, <1>a, FatherLemma
  <2>3. Live = 0..(elements - 1) /\ Live' = 0..(elements - 1)
    BY <1>2, <2>1, <1>a DEF UpSwap, Live
  <2>4. p' = [p EXCEPT ![at] = p[HEAP_FATHER(at)], ![HEAP_FATHER(at)] = p[at]]
    BY <1>2 DEF UpSwap
  <2> QED BY <2>2, <2>3, <2>4, <1>a
<1>3. CASE DownMove
  <2> DEFINE child == SmallestChild(at)
  <2>1. /\ at \in 0..(elements - 1) /\ child \in 0..(elements - 1) /\ child # at
        /\ pc = "down" /\ pc' = "down" /\ at' = child /\ p' = [p EXCEPT ![at] = p[child]]
    BY <1>3, <1>a DEF DownMove, SmallestChild, HEAP_LEFT, HeapOK, TypeOK, Loops, Prefix
  <2> HIDE DEF child
  <2>2. /\ Live = (0..(elements - 1)) \ {at}
        /\ Live' = (0..(elements - 1)) \ {child}
    BY <2>1, <1>a DEF Live
  <2> QED BY <2>1, <2>2, <1>a
<1>4. CASE DownDone
  <2> DEFINE last == elements - 1
  <2>1. /\ at \in 0..last /\ pc = "down" /\ pc' # "down" /\ last \in Nat
    BY <1>4, <1>a DEF DownDone, AfterFill, HeapOK, TypeOK, Loops, Prefix
  <2>2. /\ p' \in [0..(last - 1) -> Entries]
        /\ \A n \in 0..(last - 1) : p'[n] = IF n = at THEN p[last] ELSE p[n]
    BY <1>4, <1>a, <2>1 DEF DownDone, Truncate
  <2>3. Live = (0..last) \ {at} /\ Live' = 0..(last - 1)
    BY <2>1, <2>2, <1>a DEF Live
  <2> QED BY <2>1, <2>2, <2>3, <1>a
<1> QED BY <1>1, <1>2, <1>3, <1>4

\* g at T has the entries of f at S, except the one at position l.
Removed(f, S, g, T, l) ==
  /\ \A n \in T : \E m \in S \ {l} : g[n] = f[m]
  /\ \A m \in S \ {l} : \E n \in T : g[n] = f[m]

\* The function C without the object o.
WithoutObject(C, o) == [x \in DOMAIN C \ {o} |-> C[x]]

LEMMA ContentRemoved ==
  ASSUME NEW f, NEW S, NEW g, NEW T, NEW l \in S, Unique(f, S), Unique(g, T),
         Removed(f, S, g, T, l)
  PROVE  /\ f[l].object \in DOMAIN ContentOf(f, S)
         /\ ContentOf(g, T) = WithoutObject(ContentOf(f, S), f[l].object)
<1> DEFINE C == ContentOf(f, S)
           R == DOMAIN C \ {f[l].object}
<1>1. \A m \in S : f[m].object \in DOMAIN C
  BY ContentLemma DEF IsContent
<1>2. Keeps(f, S, g, T, R)
  BY <1>1 DEF Keeps, Unique, Removed
<1>3. R \subseteq DOMAIN ContentOf(f, S)
  OBVIOUS
<1> HIDE DEF R
<1>4. ContentOf(g, T) = [x \in R |-> ContentOf(f, S)[x]]
  BY <1>2, <1>3, ContentEqual
<1> QED BY <1>1, <1>4 DEF R, WithoutObject

LEMMA StartExtractRemoves ==
  ASSUME HeapOK, HeapOK', NEW father \in 0..(elements - 1), pc = "idle",
         StartExtract(father)
  PROVE  /\ p[father].object \in DOMAIN Content
         /\ Content' = WithoutObject(Content, p[father].object)
<1>1. DOMAIN p = 0..(elements - 1)
  BY DEF HeapOK, TypeOK
<1>2. Live = 0..(elements - 1) /\ Live' = Live \ {father} /\ p' = p
  BY <1>1 DEF StartExtract, Live
<1>3. Removed(p, Live, p', Live', father)
  BY <1>2 DEF Removed
<1>4. father \in Live
  BY <1>2
<1> QED BY <1>3, <1>4, UniqueLive, UniqueLivePrime, ContentRemoved DEF Content

LEMMA ScanDeleteRemoves ==
  ASSUME HeapOK, HeapOK', ScanDelete
  PROVE  /\ p[at].object \in DOMAIN Content
         /\ Content' = WithoutObject(Content, p[at].object)
<1> DEFINE last == elements - 1
<1>1. /\ elements \in Nat /\ last \in Nat /\ at \in 0..last
      /\ p \in [0..last -> Entries] /\ pc = "scan" /\ pc' = "scan"
  BY DEF HeapOK, TypeOK, ScanDelete
<1>2. /\ p' \in [0..(last - 1) -> Entries]
      /\ \A n \in 0..(last - 1) : p'[n] = IF n = at THEN p[last] ELSE p[n]
  BY <1>1 DEF ScanDelete, Truncate
<1>3. Live = 0..last /\ Live' = 0..(last - 1)
  BY <1>1, <1>2 DEF Live
<1>4. \A n \in Live' : \E m \in Live \ {at} : p'[n] = p[m]
  BY <1>1, <1>2, <1>3
<1>5. \A m \in Live \ {at} : \E n \in Live' : p'[n] = p[m]
  BY <1>1, <1>2, <1>3
<1>6. Removed(p, Live, p', Live', at)
  BY <1>4, <1>5 DEF Removed
<1> QED BY <1>1, <1>3, <1>6, UniqueLive, UniqueLivePrime, ContentRemoved DEF Content

LEMMA InsertAdds ==
  ASSUME HeapOK, HeapOK', NEW o \in Objs, NEW k \in Keys, HeapInsert(o, k)
  PROVE  /\ o \notin DOMAIN Content
         /\ Content' = [x \in DOMAIN Content \cup {o} |-> IF x = o THEN k ELSE Content[x]]
<1>1. elements \in Nat /\ p \in [0..(elements - 1) -> Entries]
  BY DEF HeapOK, TypeOK
<1>2. /\ p'[elements].object = o /\ p'[elements].key = k
      /\ \A n \in 0..(elements - 1) : p'[n] = p[n]
      /\ DOMAIN p' = 0..elements
  BY <1>1 DEF HeapInsert
<1>3. Live = 0..(elements - 1) /\ Live' = 0..elements
  BY <1>1, <1>2 DEF Live, HeapInsert
<1>4. IsContent(Content, p, Live)
  BY UniqueLive, ContentLemma DEF Content
<1>5. IsContent(Content', p', Live')
  BY UniqueLivePrime, ContentLemma DEF Content
<1>6. o \notin DOMAIN Content
  BY <1>3, <1>4, <1>1 DEF IsContent, HeapInsert, InHeap
<1>7. DOMAIN Content' = DOMAIN Content \cup {o}
  <2>1. ASSUME NEW x PROVE x \in DOMAIN Content' <=> x \in DOMAIN Content \cup {o}
    BY <1>1, <1>2, <1>3, <1>4, <1>5 DEF IsContent
  <2> QED BY <2>1
<1>8. ASSUME NEW x \in DOMAIN Content \cup {o}
      PROVE  Content'[x] = IF x = o THEN k ELSE Content[x]
  <2>1. CASE x = o
    BY <2>1, <1>1, <1>2, <1>3, <1>5 DEF IsContent
  <2>2. CASE x # o
    <3>1. PICK n \in Live : x = p[n].object
      BY <2>2, <1>4 DEF IsContent
    <3> QED BY <3>1, <2>2, <1>1, <1>2, <1>3, <1>4, <1>5 DEF IsContent
  <2> QED BY <2>1, <2>2
<1>9. Content' = [x \in DOMAIN Content' |-> Content'[x]]
  BY DEF Content, ContentOf
<1> QED BY <1>6, <1>7, <1>8, <1>9

LEMMA EmptyClears ==
  ASSUME HeapOK, pc = "idle", pc' = "idle", p' = Truncate(p, 0)
  PROVE  Content' = [x \in DOMAIN Content \ DOMAIN Content |-> Content[x]]
<1>1. Live' = {}
  BY DEF Live, Truncate
<1>2. DOMAIN Content \ DOMAIN Content = {}
  OBVIOUS
<1> QED BY <1>1, <1>2 DEF Content, ContentOf

\* heap_extract(h, obj) removes obj and nothing else (dn_heap.c:179-224).
THEOREM ExtractCorrect == Spec => RemovesObject
<1>1. HeapOK /\ HeapOK' /\ [Next]_vars =>
        [\A o \in Objs : HeapExtract(o) =>
           /\ o \in DOMAIN Content
           /\ DOMAIN Content' = DOMAIN Content \ {o}]_vars
  <2> SUFFICES ASSUME HeapOK, HeapOK', NEW o \in Objs, HeapExtract(o)
               PROVE  o \in DOMAIN Content /\ DOMAIN Content' = DOMAIN Content \ {o}
    OBVIOUS
  <2>1. idx[o] \in 0..(elements - 1) /\ pc = "idle" /\ StartExtract(idx[o])
    BY DEF HeapExtract, HeapOK, TypeOK
  <2>2. p[idx[o]].object = o
    <3>1. PICK n \in 0..(elements - 1) : p[n].object = o
      BY DEF HeapExtract, InHeap, HeapOK, TypeOK
    <3>2. ofs /\ ~found /\ n \in Live /\ n < Prefix /\ pc = "idle"
      BY DEF HeapExtract, HeapOK, TypeOK, Loops, Live, Prefix
    <3>3. idx[o] = n
      BY <3>1, <3>2 DEF HeapOK, Positions
    <3> QED BY <3>1, <3>3
  <2>3. Content' = WithoutObject(Content, o) /\ o \in DOMAIN Content
    BY <2>1, <2>2, StartExtractRemoves
  <2> QED BY <2>3 DEF WithoutObject
<1>2. Spec => [][Next]_vars
  BY PTL DEF Spec
<1> QED BY <1>1, <1>2, HeapCorrect, PTL DEF RemovesObject

\* Between two calls the top entry is that of a smallest object.
LEMMA TopIsSmallestObject ==
  ASSUME HeapOK PROVE PQ!TopIsRight
<1> SUFFICES ASSUME pc = "idle", elements > 0 PROVE PQ!Smallest(p[0].object)
  BY DEF PQ!TopIsRight, Top
<1>1. 0 \in 0..(elements - 1)
  BY DEF HeapOK, TypeOK
<1>2. IsContent(Content, p, Live) /\ Live = 0..(elements - 1)
  BY UniqueLive, ContentLemma DEF Content, Live, HeapOK, TypeOK
<1>3. \A n \in 0..(elements - 1) : ~DN_KEY_LT(p[n].key, p[0].key)
  <2>1. \A n \in 1..(elements - 1) : ~DN_KEY_LT(p[n].key, p[0].key)
    BY TopLemma DEF Leq
  <2>2. ~DN_KEY_LT(p[0].key, p[0].key)
    BY <1>1, EntryType, LtIrreflexive DEF HeapOK
  <2> QED BY <2>1, <2>2
<1>4. p[0].object \in DOMAIN Content
  BY <1>1, <1>2 DEF IsContent
<1>5. ASSUME NEW x \in DOMAIN Content
      PROVE  ~DN_KEY_LT(Content[x], Content[p[0].object])
  BY <1>1, <1>2, <1>3 DEF IsContent
<1> QED BY <1>4, <1>5 DEF PQ!Smallest

\* The heap implements the priority queue that dn_heap.h describes.
THEOREM Refinement == Spec => PQSpec
<1>1. Init => PQ!Init
  <2> SUFFICES ASSUME Init PROVE Content = [x \in {} |-> 0] /\ Top = "none"
    BY DEF PQ!Init
  <2>1. Live = {}
    BY DEF Init, Live
  <2> QED BY <2>1 DEF Content, ContentOf, Top, Init
<1>2. HeapOK => PQ!TopIsRight
  BY TopIsSmallestObject
<1>3. HeapOK /\ HeapOK' /\ PQ!TopIsRight' /\ [Next]_vars => [PQ!Next]_<<Content, Top>>
  <2> SUFFICES ASSUME HeapOK, HeapOK', PQ!TopIsRight', [Next]_vars
               PROVE  PQ!Insert \/ PQ!Extract \/ PQ!Clear \/ PQ!Settle
    BY DEF PQ!Next
  <2>1. ASSUME NEW o \in BOOLEAN, HeapInit(16, o) PROVE PQ!Clear
    BY <2>1, EmptyClears DEF HeapInit, PQ!Clear, PQ!Without
  <2>2. CASE HeapFree
    BY <2>2, EmptyClears DEF HeapFree, PQ!Clear, PQ!Without
  <2>3. ASSUME NEW o \in Objs, NEW k \in Keys, HeapInsert(o, k) PROVE PQ!Insert
    <3>1. /\ o \in Objs \ DOMAIN Content
          /\ Content' = [x \in DOMAIN Content \cup {o} |->
                           IF x = o THEN k ELSE Content[x]]
      BY <2>3, InsertAdds
    <3> QED BY <3>1, Zenon DEF PQ!Insert
  <2>4. CASE HeapExtractTop
    <3>1. 0 \in 0..(elements - 1) /\ pc = "idle" /\ StartExtract(0)
      BY <2>4 DEF HeapExtractTop, HeapOK, TypeOK
    <3> QED BY <3>1, StartExtractRemoves DEF PQ!Extract, PQ!Without, WithoutObject
  <2>5. ASSUME NEW o \in Objs, HeapExtract(o) PROVE PQ!Extract
    <3>1. idx[o] \in 0..(elements - 1) /\ pc = "idle" /\ StartExtract(idx[o])
      BY <2>5 DEF HeapExtract, HeapOK, TypeOK
    <3> QED BY <3>1, StartExtractRemoves DEF PQ!Extract, PQ!Without, WithoutObject
  <2>6. CASE UNCHANGED vars
    BY <2>6 DEF vars, Content, Live, PQ!Settle
  <2>7. CASE AllocFails \/ HeapExtractEmpty
    BY <2>6, <2>7 DEF AllocFails, HeapExtractEmpty
  <2>8. CASE ScanStart
    BY <2>8 DEF ScanStart, Content, Live, PQ!Settle
  <2>9. CASE ScanDelete
    BY <2>9, ScanDeleteRemoves DEF PQ!Extract, PQ!Without, WithoutObject
  <2>10. CASE Loop /\ ~ScanDelete
    BY <2>10, LoopMoves DEF Loop, PQ!Settle
  <2> QED BY <2>1, <2>2, <2>3, <2>4, <2>5, <2>6, <2>7, <2>8, <2>9, <2>10
             DEF Next, Loop
<1>4. Spec => [][Next]_vars
  BY PTL DEF Spec
<1>5. Spec => Init
  BY PTL DEF Spec
<1> QED BY <1>1, <1>2, <1>3, <1>4, <1>5, HeapCorrect, PTL DEF PQSpec, PQ!Spec

-----------------------------------------------------------------------------
(* The PRIO scheduler.                                                     *)

LEMMA PrioInitOK == PrioInit => PrioOK
<1> SUFFICES ASSUME PrioInit PROVE PrioOK
  OBVIOUS
<1>1. PrioTypeOK
  <2>1. nextid \in 1..(MaxPkts + 1)
    BY PrioAssumption DEF PrioInit
  <2>2. prioOfPkt \in [Pkts -> Prios]
    BY PrioAssumption DEF PrioInit, Prios
  <2>3. mq \in [Queues -> Seq(Pkts)]
    BY DEF PrioInit
  <2>4. q_array \in [Prios -> Queues \cup {NULL}]
    BY DEF PrioInit
  <2> QED BY <2>1, <2>2, <2>3, <2>4 DEF PrioInit, PrioTypeOK
<1>2. ArrayMatches
  BY DEF PrioInit, ArrayMatches
<1>3. BacklogIsListed
  BY DEF PrioInit, BacklogIsListed
<1> QED BY <1>1, <1>2, <1>3 DEF PrioOK

\* The priority of a queue is a position of the array.
LEMMA PrioType == \A q \in Queues : PrioOf[q] \in Prios
BY PrioAssumption DEF Prios

LEMMA NewQueueOK ==
  ASSUME PrioOK, NEW q \in Queues, NewQueue(q)
  PROVE  PrioOK'
<1> USE DEF NewQueue
<1>1. PrioTypeOK'
  BY DEF PrioOK, PrioTypeOK
<1>2. ArrayMatches' /\ BacklogIsListed'
  BY DEF PrioOK, ArrayMatches, BacklogIsListed
<1> QED BY <1>1, <1>2 DEF PrioOK

LEMMA EnqueueOK ==
  ASSUME PrioOK, NEW q \in Queues, Enqueue(q)
  PROVE  PrioOK'
<1> DEFINE n == PrioOf[q]
           t == Target(q)
<1>a. n \in Prios /\ t \in Queues /\ t \in alive /\ PrioOf[t] = n
  BY PrioType DEF PrioOK, PrioTypeOK, ArrayMatches, Target, Enqueue
<1>b. q_array[n] # NULL => t = q_array[n]
  BY <1>a DEF PrioOK, ArrayMatches, Target
<1>c. bitmap' = bitmap \cup {n} /\ q_array' = [q_array EXCEPT ![n] = t] /\ alive' = alive
  BY DEF Enqueue, MarkBacklogged
<1>d. nextid \in Pkts
  BY PrioAssumption DEF Enqueue, PrioOK, PrioTypeOK, Pkts
<1>e. mq' = mq \/ mq' = [mq EXCEPT ![t] = Append(@, nextid)]
  BY DEF Enqueue
<1> HIDE DEF n, t
<1>1. PrioTypeOK'
  <2>1. nextid' \in 1..(MaxPkts + 1)
    BY <1>d, PrioAssumption DEF Enqueue, Pkts
  <2>2. mq' \in [Queues -> Seq(Pkts)]
    <3>1. Append(mq[t], nextid) \in Seq(Pkts)
      BY <1>a, <1>d DEF PrioOK, PrioTypeOK
    <3> QED BY <3>1, <1>a, <1>e DEF PrioOK, PrioTypeOK
  <2>3. prioOfPkt' \in [Pkts -> Prios]
    BY <1>a, <1>d DEF PrioOK, PrioTypeOK, Enqueue, n
  <2>4. q_array' \in [Prios -> Queues \cup {NULL}] /\ bitmap' \subseteq Prios
    BY <1>a, <1>c DEF PrioOK, PrioTypeOK
  <2> QED BY <2>1, <2>2, <2>3, <2>4 DEF PrioOK, PrioTypeOK, Enqueue
<1>2. ArrayMatches'
  BY <1>a, <1>c, PrioAssumption DEF PrioOK, PrioTypeOK, ArrayMatches
<1>3. BacklogIsListed'
  <2> SUFFICES ASSUME NEW x \in Queues, mq'[x] # <<>>
               PROVE  x \in alive /\ q_array'[PrioOf[x]] = x
    BY <1>c DEF BacklogIsListed
  <2>1. CASE x = t
    BY <2>1, <1>a, <1>c DEF PrioOK, PrioTypeOK
  <2>2. CASE x # t
    <3>1. mq'[x] = mq[x]
      BY <2>2, <1>a, <1>e DEF PrioOK, PrioTypeOK
    <3>2. x \in alive /\ q_array[PrioOf[x]] = x
      BY <3>1 DEF PrioOK, BacklogIsListed
    <3>3. PrioOf[x] # n
      BY <3>2, <2>2, <1>b, PrioAssumption
    <3> QED BY <3>2, <3>3, <1>a, <1>c, PrioType DEF PrioOK, PrioTypeOK
  <2> QED BY <2>1, <2>2
<1> QED BY <1>1, <1>2, <1>3 DEF PrioOK

LEMMA DequeueOK ==
  ASSUME PrioOK, Dequeue
  PROVE  PrioOK'
<1> DEFINE n == Ffs(bitmap)
           q == q_array[n]
           rest == IF mq[q] = <<>> THEN <<>> ELSE Tail(mq[q])
<1>a. /\ n \in Prios /\ q # NULL /\ q \in Queues /\ q \in alive /\ n \in bitmap
      /\ PrioOf[q] = n /\ alive' = alive /\ nextid' = nextid /\ prioOfPkt' = prioOfPkt
      /\ crashed' = crashed /\ mq' = [mq EXCEPT ![q] = rest]
      /\ ret' = (IF mq[q] = <<>> THEN NULL ELSE Head(mq[q]))
      /\ LeaveIfEmpty(n, rest)
  BY DEF PrioOK, PrioTypeOK, ArrayMatches, Dequeue
<1>b. mq[q] \in Seq(Pkts) /\ rest \in Seq(Pkts)
  BY <1>a DEF PrioOK, PrioTypeOK
<1>c. \/ rest = <<>> /\ bitmap' = bitmap \ {n} /\ q_array' = [q_array EXCEPT ![n] = NULL]
      \/ rest # <<>> /\ UNCHANGED <<bitmap, q_array>>
  BY <1>a DEF LeaveIfEmpty
<1>d. rest # <<>> => mq[q] # <<>>
  OBVIOUS
<1>e. ret' \in Pkts \cup {NULL}
  BY <1>a, <1>b
<1> HIDE DEF n, q, rest
<1>1. PrioTypeOK'
  <2>1. mq' \in [Queues -> Seq(Pkts)]
    BY <1>a, <1>b DEF PrioOK, PrioTypeOK
  <2>2. q_array' \in [Prios -> Queues \cup {NULL}] /\ bitmap' \subseteq Prios
    BY <1>a, <1>c DEF PrioOK, PrioTypeOK
  <2> QED BY <2>1, <2>2, <1>a, <1>e DEF PrioOK, PrioTypeOK
<1>2. ArrayMatches'
  BY <1>a, <1>c DEF PrioOK, PrioTypeOK, ArrayMatches
<1>3. BacklogIsListed'
  <2> SUFFICES ASSUME NEW x \in Queues, mq'[x] # <<>>
               PROVE  x \in alive /\ q_array'[PrioOf[x]] = x
    BY <1>a DEF BacklogIsListed
  <2>1. CASE x = q
    <3>1. rest # <<>>
      BY <2>1, <1>a DEF PrioOK, PrioTypeOK
    <3> QED BY <3>1, <2>1, <1>a, <1>c DEF q
  <2>2. CASE x # q
    <3>1. x \in alive /\ q_array[PrioOf[x]] = x
      BY <2>2, <1>a DEF PrioOK, PrioTypeOK, BacklogIsListed
    <3>2. PrioOf[x] # n
      BY <3>1, <2>2 DEF q
    <3> QED BY <3>1, <3>2, <1>a, <1>c, PrioType DEF PrioOK, PrioTypeOK
  <2> QED BY <2>1, <2>2
<1> QED BY <1>1, <1>2, <1>3 DEF PrioOK

LEMMA DeleteQueueOK ==
  ASSUME PrioOK, NEW q \in Queues, DeleteQueue(q)
  PROVE  PrioOK'
<1> DEFINE n == PrioOf[q]
<1>a. n \in Prios
  BY PrioType
<1>b. \/ /\ q_array[n] = q /\ q_array' = [q_array EXCEPT ![n] = NULL]
         /\ bitmap' = bitmap \ {n}
      \/ q_array[n] # q /\ UNCHANGED <<bitmap, q_array>>
  BY DEF DeleteQueue, ForgetQueue
<1>c. alive' = alive \ {q} /\ mq' = [mq EXCEPT ![q] = <<>>]
  BY DEF DeleteQueue
<1>1. PrioTypeOK'
  <2>1. mq' \in [Queues -> Seq(Pkts)] /\ alive' \subseteq Queues
    BY <1>c DEF PrioOK, PrioTypeOK
  <2>2. q_array' \in [Prios -> Queues \cup {NULL}] /\ bitmap' \subseteq Prios
    BY <1>a, <1>b DEF PrioOK, PrioTypeOK
  <2> QED BY <2>1, <2>2 DEF PrioOK, PrioTypeOK, DeleteQueue
<1>2. ArrayMatches'
  BY <1>a, <1>b, <1>c DEF PrioOK, PrioTypeOK, ArrayMatches
<1>3. BacklogIsListed'
  <2> SUFFICES ASSUME NEW x \in Queues, mq'[x] # <<>>
               PROVE  x \in alive' /\ q_array'[PrioOf[x]] = x
    BY DEF BacklogIsListed
  <2>1. x # q /\ mq'[x] = mq[x]
    BY <1>c DEF PrioOK, PrioTypeOK
  <2>2. x \in alive /\ q_array[PrioOf[x]] = x
    BY <2>1 DEF PrioOK, BacklogIsListed
  <2> QED BY <2>1, <2>2, <1>a, <1>b, <1>c, PrioType DEF PrioOK, PrioTypeOK
<1> QED BY <1>1, <1>2, <1>3 DEF PrioOK

LEMMA OtherOK ==
  ASSUME PrioOK, DequeueIdle \/ DequeueCrash \/ UNCHANGED prioVars
  PROVE  PrioOK'
<1>1. PrioTypeOK'
  BY DEF PrioOK, PrioTypeOK, DequeueIdle, DequeueCrash, prioVars
<1>2. ArrayMatches' /\ BacklogIsListed'
  BY DEF PrioOK, ArrayMatches, BacklogIsListed, DequeueIdle, DequeueCrash, prioVars
<1> QED BY <1>1, <1>2 DEF PrioOK

LEMMA PrioNextOK == PrioOK /\ [PrioNext]_prioVars => PrioOK'
BY NewQueueOK, EnqueueOK, DequeueOK, DeleteQueueOK, OtherOK DEF PrioNext

\* Every backlogged queue is the one that the array of the instance has for its
\* priority, and the bitmap says so.
THEOREM PrioCorrect == PrioSpec => []PrioOK
<1>1. PrioInit => PrioOK
  BY PrioInitOK
<1>2. PrioOK /\ [PrioNext]_prioVars => PrioOK'
  BY PrioNextOK
<1> QED BY <1>1, <1>2, PTL DEF PrioSpec

-----------------------------------------------------------------------------
\* ffs() of a bitmap that fits its argument finds the lowest bit.
LEMMA FfsLemma ==
  ASSUME IntBits >= MAXPRIO, NEW b \in SUBSET Prios, b # {}
  PROVE  Ffs(b) \in b /\ \A x \in b : Ffs(b) <= x
<1>0. \A n \in b : n \in Nat /\ n < IntBits
  BY PrioAssumption DEF Prios
<1>1. b \subseteq Nat /\ {n \in b : n < IntBits} = b
  BY <1>0, Zenon
<1>2. PICK m \in b : \A y \in b : ~(<<y, m>> \in OpToRel(<, Nat))
  BY <1>1, WFMin, NatLessThanWellFounded
<1>3. \A y \in b : m <= y
  <2>1. ASSUME NEW y \in b PROVE ~(y < m)
    BY <2>1, <1>0, <1>2 DEF OpToRel
  <2> QED BY <2>1, <1>0
<1>4. Ffs(b) = CHOOSE n \in b : \A x \in b : n <= x
  BY <1>1 DEF Ffs
<1> QED BY <1>3, <1>4

\* On a build whose int has a bit for each priority, prio_dequeue() follows a
\* pointer to a queue.
THEOREM NoNullPointer == IntBits >= MAXPRIO => (PrioSpec => []PointerIsQueue)
<1> SUFFICES ASSUME IntBits >= MAXPRIO PROVE PrioSpec => []PointerIsQueue
  OBVIOUS
<1>1. PrioInit => PointerIsQueue
  BY DEF PrioInit, PointerIsQueue
<1>2. PrioOK /\ PointerIsQueue /\ [PrioNext]_prioVars => PointerIsQueue'
  <2> SUFFICES ASSUME PrioOK, PointerIsQueue, [PrioNext]_prioVars PROVE PointerIsQueue'
    OBVIOUS
  <2>1. ~DequeueCrash
    <3> SUFFICES ASSUME bitmap # {} PROVE Ffs(bitmap) \in Prios /\ q_array[Ffs(bitmap)] # NULL
      BY DEF DequeueCrash
    <3>1. Ffs(bitmap) \in bitmap
      BY FfsLemma DEF PrioOK, PrioTypeOK
    <3> QED BY <3>1 DEF PrioOK, PrioTypeOK, ArrayMatches
  <2> QED BY <2>1 DEF PrioNext, NewQueue, Enqueue, DeleteQueue, DequeueIdle, Dequeue, prioVars,
                      PointerIsQueue
<1> QED BY <1>1, <1>2, PrioCorrect, PTL DEF PrioSpec

\* The head of a queue is one of its packets.
LEMMA HeadIsElement ==
  ASSUME NEW S, NEW s \in Seq(S), s # <<>>
  PROVE  Head(s) \in S
BY SMT

\* A queue that a packet was appended to is not empty.
LEMMA AppendNotEmpty ==
  ASSUME NEW S, NEW s \in Seq(S), NEW e \in S
  PROVE  Append(s, e) # <<>>
<1>1. Len(Append(s, e)) = Len(s) + 1 /\ Len(s) \in Nat
  OBVIOUS
<1>2. Len(<<>>) = 0
  OBVIOUS
<1> QED BY <1>1, <1>2

\* Without random loss the queue of a bit that is set is not empty.
BitsAreBacklogged == \A n \in bitmap : mq[q_array[n]] # <<>>

LEMMA BitsInvariant == ~RandomDrop => (PrioSpec => []BitsAreBacklogged)
<1> SUFFICES ASSUME ~RandomDrop PROVE PrioSpec => []BitsAreBacklogged
  OBVIOUS
<1>1. PrioInit => BitsAreBacklogged
  BY DEF PrioInit, BitsAreBacklogged
<1>2. PrioOK /\ BitsAreBacklogged /\ [PrioNext]_prioVars => BitsAreBacklogged'
  <2> SUFFICES ASSUME PrioOK, BitsAreBacklogged, [PrioNext]_prioVars PROVE BitsAreBacklogged'
    OBVIOUS
  <2>a. \A n \in bitmap : n \in Prios /\ q_array[n] \in Queues /\ PrioOf[q_array[n]] = n
    BY PrioAssumption DEF PrioOK, PrioTypeOK, ArrayMatches
  <2>1. ASSUME NEW q \in Queues, Enqueue(q) PROVE BitsAreBacklogged'
    <3> DEFINE t == Target(q)
    <3>1. t \in Queues /\ PrioOf[q] \in Prios /\ PrioOf[t] = PrioOf[q]
      BY <2>a, PrioType DEF Target
    <3>2. /\ bitmap' = bitmap \cup {PrioOf[q]}
          /\ q_array' = [q_array EXCEPT ![PrioOf[q]] = t]
      BY <2>1 DEF Enqueue, MarkBacklogged
    <3>3. \/ mq' = [mq EXCEPT ![t] = Append(@, nextid)]
          \/ mq' = mq /\ Len(mq[t]) >= QSize
      BY <2>1 DEF Enqueue, MayDrop
    <3>4. mq[t] \in Seq(Pkts) /\ nextid \in Pkts
      BY <3>1, <2>1, PrioAssumption DEF PrioOK, PrioTypeOK, Enqueue, Pkts
    <3> HIDE DEF t
    <3>5. mq'[t] # <<>>
      <4>1. Append(mq[t], nextid) # <<>>
        BY <3>4, AppendNotEmpty
      <4>2. Len(mq[t]) >= QSize => mq[t] # <<>>
        BY <3>4, PrioAssumption
      <4> QED BY <4>1, <4>2, <3>1, <3>3 DEF PrioOK, PrioTypeOK
    <3>6. ASSUME NEW n \in bitmap', n # PrioOf[q] PROVE mq'[q_array'[n]] # <<>>
      <4>1. n \in bitmap /\ n \in Prios /\ q_array'[n] = q_array[n] /\ q_array[n] # t
        BY <3>1, <3>2, <3>6, <2>a DEF PrioOK, PrioTypeOK
      <4>2. q_array[n] \in Queues /\ mq[q_array[n]] # <<>>
        BY <4>1, <2>a DEF BitsAreBacklogged
      <4>a. mq \in [Queues -> Seq(Pkts)]
        BY DEF PrioOK, PrioTypeOK
      <4>b. ASSUME mq' = [mq EXCEPT ![t] = Append(@, nextid)]
            PROVE  mq'[q_array[n]] = mq[q_array[n]]
        BY <4>1, <4>2, <4>a, <4>b, Zenon
      <4>3. mq'[q_array[n]] = mq[q_array[n]]
        BY <4>b, <3>3
      <4> QED BY <4>1, <4>2, <4>3
    <3>7. q_array'[PrioOf[q]] = t
      BY <3>1, <3>2 DEF PrioOK, PrioTypeOK
    <3> QED BY <3>5, <3>6, <3>7 DEF BitsAreBacklogged
  <2>2. CASE Dequeue
    <3> DEFINE n == Ffs(bitmap)
               q == q_array[n]
               rest == IF mq[q] = <<>> THEN <<>> ELSE Tail(mq[q])
    <3>1. n \in Prios /\ q \in Queues /\ mq' = [mq EXCEPT ![q] = rest] /\ LeaveIfEmpty(n, rest)
      BY <2>2 DEF Dequeue, PrioOK, PrioTypeOK
    <3> HIDE DEF n, rest
    <3>2. ASSUME NEW x \in bitmap' PROVE mq'[q_array'[x]] # <<>>
      <4>1. x \in bitmap /\ (x # n => q_array'[x] = q_array[x])
        BY <3>1, <2>a DEF LeaveIfEmpty, PrioOK, PrioTypeOK
      <4>2. CASE x = n
        BY <4>1, <4>2, <3>1, <3>2 DEF LeaveIfEmpty, PrioOK, PrioTypeOK
      <4>3. CASE x # n
        <5>1. n \in bitmap => q_array[x] # q
          BY <4>1, <4>3, <2>a
        <5>2. n \in bitmap
          BY <3>1, <2>2 DEF PrioOK, ArrayMatches, Dequeue, n
        <5> QED BY <5>1, <5>2, <4>1, <4>3, <3>1, <2>a DEF BitsAreBacklogged, PrioOK, PrioTypeOK
      <4> QED BY <4>2, <4>3
    <3> QED BY <3>2 DEF BitsAreBacklogged
  <2>3. ASSUME NEW q \in Queues, DeleteQueue(q) PROVE BitsAreBacklogged'
    <3>1. /\ mq' = [mq EXCEPT ![q] = <<>>]
          /\ \/ /\ q_array' = [q_array EXCEPT ![PrioOf[q]] = NULL]
                /\ bitmap' = bitmap \ {PrioOf[q]}
             \/ q_array[PrioOf[q]] # q /\ UNCHANGED <<bitmap, q_array>>
      BY <2>3 DEF DeleteQueue, ForgetQueue
    <3>2. ASSUME NEW n \in bitmap' PROVE mq'[q_array'[n]] # <<>>
      <4>1. n \in bitmap /\ q_array'[n] = q_array[n] /\ q_array[n] # q
        BY <3>1, <2>a DEF PrioOK, PrioTypeOK
      <4> QED BY <4>1, <3>1, <2>a DEF BitsAreBacklogged, PrioOK, PrioTypeOK
    <3> QED BY <3>2 DEF BitsAreBacklogged
  <2>4. CASE (\E q \in Queues : NewQueue(q)) \/ DequeueIdle \/ DequeueCrash \/ UNCHANGED prioVars
    BY <2>4 DEF NewQueue, DequeueIdle, DequeueCrash, prioVars, BitsAreBacklogged
  <2> QED BY <2>1, <2>2, <2>3, <2>4 DEF PrioNext
<1> QED BY <1>1, <1>2, PrioCorrect, PTL DEF PrioSpec

\* Without random loss prio_dequeue() returns NULL only when no packet waits.
THEOREM NothingForgotten == ~RandomDrop => (PrioSpec => NullMeansEmpty)
<1> SUFFICES ASSUME ~RandomDrop PROVE PrioSpec => NullMeansEmpty
  OBVIOUS
<1>1. PrioOK /\ BitsAreBacklogged /\ [PrioNext]_prioVars =>
        [(Dequeue \/ DequeueIdle) /\ ret' = NULL => Backlog = {}]_prioVars
  <2> SUFFICES ASSUME PrioOK, BitsAreBacklogged, Dequeue \/ DequeueIdle, ret' = NULL
               PROVE  Backlog = {}
    OBVIOUS
  <2>1. CASE DequeueIdle
    <3>1. \A q \in Queues : mq[q] = <<>>
      BY <2>1, PrioType, PrioAssumption
         DEF DequeueIdle, PrioOK, ArrayMatches, BacklogIsListed
    <3> QED BY <3>1 DEF Backlog
  <2>2. CASE Dequeue
    <3> DEFINE q == q_array[Ffs(bitmap)]
    <3>1. q \in Queues /\ Ffs(bitmap) \in bitmap
      BY <2>2 DEF Dequeue, PrioOK, PrioTypeOK, ArrayMatches
    <3>2. mq[q] # <<>> /\ mq[q] \in Seq(1..MaxPkts)
      BY <3>1 DEF BitsAreBacklogged, PrioOK, PrioTypeOK, Pkts
    <3>3. ret' = Head(mq[q])
      BY <2>2, <3>2 DEF Dequeue
    <3>4. Head(mq[q]) \in 1..MaxPkts
      BY <3>2, HeadIsElement
    <3> QED BY <3>3, <3>4, PrioAssumption
  <2> QED BY <2>1, <2>2
<1>2. PrioSpec => [][PrioNext]_prioVars
  BY PTL DEF PrioSpec
<1> QED BY <1>1, <1>2, PrioCorrect, BitsInvariant, PTL DEF NullMeansEmpty


-----------------------------------------------------------------------------
(***************************************************************************)
(* Strict priority.  What a queue holds has its priority, whichever queue  *)
(* it was meant for, and came in the order in which it stands; since a     *)
(* backlogged queue is the one of its priority (PrioOK), the head of the   *)
(* queue that prio_dequeue() takes is before everything else.              *)
(***************************************************************************)
\* Sequence s holds packets of priority pr, by order of arrival, all before packet n;
\* f is the priority of each packet.
InLine(s, pr, f, n) ==
  \A j \in 1..Len(s) :
    /\ s[j] < n /\ f[s[j]] = pr
    /\ \A k \in 1..Len(s) : j < k => s[j] < s[k]

ArrivalOrder == \A q \in Queues : InLine(mq[q], PrioOf[q], prioOfPkt, nextid)

\* Packet n arrives, somewhere else or at the end of the line.
LEMMA ArriveInLine ==
  ASSUME NEW s \in Seq(Pkts), NEW pr \in Prios, NEW f \in [Pkts -> Prios], NEW n \in Pkts,
         NEW x \in Prios, InLine(s, pr, f, n)
  PROVE  /\ InLine(s, pr, [f EXCEPT ![n] = x], n + 1)
         /\ InLine(Append(s, n), pr, [f EXCEPT ![n] = pr], n + 1)
<1>1. Pkts \subseteq Nat /\ n \in Nat /\ Len(s) \in Nat /\ \A j \in 1..Len(s) : s[j] \in Pkts
  BY PrioAssumption DEF Pkts
<1>2. \A j \in 1..Len(s) : /\ s[j] < n /\ s[j] # n /\ f[s[j]] = pr
                           /\ \A k \in 1..Len(s) : j < k => s[j] < s[k]
  BY <1>1 DEF InLine
<1>3. InLine(s, pr, [f EXCEPT ![n] = x], n + 1)
  <2>1. ASSUME NEW j \in 1..Len(s)
        PROVE  s[j] < n + 1 /\ [f EXCEPT ![n] = x][s[j]] = pr
    <3>1. s[j] \in Pkts /\ s[j] \in Nat /\ s[j] < n /\ s[j] # n /\ f[s[j]] = pr
      BY <1>1, <1>2
    <3>2. s[j] < n + 1
      BY <1>1, <3>1
    <3>3. QED
      BY <3>1, <3>2
  <2>2. QED
    BY <1>2, <2>1 DEF InLine
<1>4. PICK t : t = Append(s, n)
  OBVIOUS
<1>5. /\ Len(t) = Len(s) + 1 /\ t[Len(s) + 1] = n
      /\ \A j \in 1..Len(s) : t[j] = s[j]
  BY <1>4
<1>6. ASSUME NEW j \in 1..Len(t)
      PROVE  /\ t[j] < n + 1 /\ [f EXCEPT ![n] = pr][t[j]] = pr
             /\ \A k \in 1..Len(t) : j < k => t[j] < t[k]
  <2>1. CASE j = Len(s) + 1
    <3>1. t[j] = n /\ \A k \in 1..Len(t) : ~(j < k)
      BY <1>1, <1>5, <2>1
    <3>2. QED
      BY <1>1, <3>1
  <2>2. CASE j \in 1..Len(s)
    <3>1. t[j] = s[j] /\ s[j] \in Pkts /\ s[j] \in Nat /\ s[j] < n /\ s[j] # n /\ f[s[j]] = pr
      BY <1>1, <1>2, <1>5, <2>2
    <3>2. \A k \in 1..Len(t) : k \in 1..Len(s) \/ k = Len(s) + 1
      BY <1>1, <1>5
    <3>3. ASSUME NEW k \in 1..Len(t), j < k PROVE t[j] < t[k]
      BY <1>2, <1>5, <2>2, <3>1, <3>2, <3>3
    <3>4. t[j] < n + 1
      BY <1>1, <3>1
    <3>5. QED
      BY <3>1, <3>3, <3>4
  <2>3. QED
    BY <1>1, <1>5, <2>1, <2>2
<1>7. QED
  BY <1>3, <1>4, <1>6 DEF InLine

\* The head leaves.
LEMMA TailInLine ==
  ASSUME NEW s \in Seq(Pkts), s # <<>>, NEW pr \in Prios, NEW f, NEW n \in Nat, InLine(s, pr, f, n)
  PROVE  InLine(Tail(s), pr, f, n)
<1>1. PICK t : t = Tail(s)
  OBVIOUS
<1>2. /\ Len(s) \in Nat \ {0} /\ Len(t) = Len(s) - 1
      /\ \A j \in 1..Len(t) : j + 1 \in 1..Len(s) /\ t[j] = s[j + 1]
  BY <1>1
<1>3. ASSUME NEW j \in 1..Len(t)
      PROVE  /\ t[j] < n /\ f[t[j]] = pr
             /\ \A k \in 1..Len(t) : j < k => t[j] < t[k]
  <2>1. \A k \in 1..Len(t) : j < k => j + 1 < k + 1
    BY <1>2
  <2>2. QED
    BY <1>2, <2>1 DEF InLine
<1>4. QED
  BY <1>1, <1>3 DEF InLine

LEMMA InLineEnqueue ==
  ASSUME PrioOK, ArrivalOrder, NEW q \in Queues, Enqueue(q)
  PROVE  ArrivalOrder'
<1>1. PICK t \in Queues : t = Target(q) /\ PrioOf[t] = PrioOf[q]
  BY DEF PrioOK, PrioTypeOK, ArrayMatches, Target, Enqueue
<1>2. PICK n \in Pkts : n = nextid
  BY PrioAssumption DEF PrioOK, PrioTypeOK, Enqueue, Pkts
<1>3. /\ mq \in [Queues -> Seq(Pkts)] /\ prioOfPkt \in [Pkts -> Prios]
      /\ mq' = mq \/ mq' = [mq EXCEPT ![t] = Append(mq[t], n)]
      /\ nextid' = n + 1 /\ prioOfPkt' = [prioOfPkt EXCEPT ![n] = PrioOf[q]]
  BY <1>1, <1>2 DEF PrioOK, PrioTypeOK, Enqueue
<1>4. ASSUME NEW x \in Queues
      PROVE  InLine(mq'[x], PrioOf[x], [prioOfPkt EXCEPT ![n] = PrioOf[q]], n + 1)
  <2>1. /\ InLine(mq[x], PrioOf[x], [prioOfPkt EXCEPT ![n] = PrioOf[q]], n + 1)
        /\ InLine(Append(mq[x], n), PrioOf[x], [prioOfPkt EXCEPT ![n] = PrioOf[x]], n + 1)
    <3>1. InLine(mq[x], PrioOf[x], prioOfPkt, n) /\ mq[x] \in Seq(Pkts)
      BY <1>2, <1>3 DEF ArrivalOrder
    <3>2. QED
      BY <1>3, <3>1, PrioType, ArriveInLine
  <2>2. mq'[x] = mq[x] \/ (x = t /\ mq'[x] = Append(mq[x], n))
    BY <1>3
  <2>3. QED
    BY <1>1, <2>1, <2>2
<1>5. QED
  BY <1>3, <1>4 DEF ArrivalOrder

LEMMA InLineDequeue ==
  ASSUME PrioOK, ArrivalOrder, Dequeue
  PROVE  ArrivalOrder'
<1>1. PICK h \in Queues : h = q_array[Ffs(bitmap)]
  BY DEF Dequeue, PrioOK, PrioTypeOK
<1>2. /\ mq \in [Queues -> Seq(Pkts)] /\ nextid \in Nat
      /\ mq' = [mq EXCEPT ![h] = IF mq[h] = <<>> THEN <<>> ELSE Tail(mq[h])]
      /\ UNCHANGED <<nextid, prioOfPkt>>
  BY <1>1 DEF Dequeue, PrioOK, PrioTypeOK
<1>3. ASSUME NEW x \in Queues PROVE InLine(mq'[x], PrioOf[x], prioOfPkt, nextid)
  <2>1. mq[x] \in Seq(Pkts) /\ InLine(mq[x], PrioOf[x], prioOfPkt, nextid)
    BY <1>2 DEF ArrivalOrder
  <2>2. mq'[x] = mq[x] \/ (mq[x] # <<>> /\ mq'[x] = Tail(mq[x]))
    BY <1>2
  <2>3. QED
    BY <1>2, <2>1, <2>2, PrioType, TailInLine
<1>4. QED
  BY <1>2, <1>3 DEF ArrivalOrder

LEMMA InLineDelete ==
  ASSUME PrioOK, ArrivalOrder, NEW q \in Queues, DeleteQueue(q)
  PROVE  ArrivalOrder'
<1>1. /\ mq \in [Queues -> Seq(Pkts)] /\ mq' = [mq EXCEPT ![q] = <<>>]
      /\ UNCHANGED <<nextid, prioOfPkt>>
  BY DEF DeleteQueue, PrioOK, PrioTypeOK
<1>2. ASSUME NEW x \in Queues PROVE InLine(mq'[x], PrioOf[x], prioOfPkt, nextid)
  <2>1. InLine(mq[x], PrioOf[x], prioOfPkt, nextid)
    BY DEF ArrivalOrder
  <2>2. InLine(<<>>, PrioOf[x], prioOfPkt, nextid)
    BY DEF InLine
  <2>3. mq'[x] = mq[x] \/ mq'[x] = <<>>
    BY <1>1
  <2>4. QED
    BY <2>1, <2>2, <2>3
<1>3. QED
  BY <1>1, <1>2 DEF ArrivalOrder

LEMMA InLineInvariant == PrioSpec => []ArrivalOrder
<1>1. PrioInit => ArrivalOrder
  BY DEF PrioInit, ArrivalOrder, InLine
<1>2. PrioOK /\ ArrivalOrder /\ [PrioNext]_prioVars => ArrivalOrder'
  <2> SUFFICES ASSUME PrioOK, ArrivalOrder, [PrioNext]_prioVars PROVE ArrivalOrder'
    OBVIOUS
  <2>1. CASE (\E q \in Queues : NewQueue(q)) \/ DequeueIdle \/ DequeueCrash \/ UNCHANGED prioVars
    BY <2>1 DEF NewQueue, DequeueIdle, DequeueCrash, prioVars, ArrivalOrder
  <2>2. QED
    BY <2>1, InLineEnqueue, InLineDequeue, InLineDelete DEF PrioNext
<1>3. QED
  BY <1>1, <1>2, PrioCorrect, PTL DEF PrioSpec

\* What ffs() finds is the lowest bit, when it finds one, also in a bitmap that is
\* wider than its argument.
LEMMA FfsLowest ==
  ASSUME NEW b \in SUBSET Prios, Ffs(b) \in Prios, NEW n \in b
  PROVE  Ffs(b) <= n
<1> DEFINE low == {k \in b : k < IntBits}
<1>1. \A k \in Prios : k \in Nat
  BY PrioAssumption DEF Prios
<1>2. low # {} /\ low \subseteq Nat
  BY <1>1 DEF Ffs
<1> HIDE DEF low
<1>3. PICK m \in low : \A y \in low : ~(<<y, m>> \in OpToRel(<, Nat))
  BY <1>2, WFMin, NatLessThanWellFounded
<1>4. \A y \in low : m <= y
  <2>1. ASSUME NEW y \in low PROVE ~(y < m)
    BY <1>2, <1>3, <2>1 DEF OpToRel
  <2>2. QED
    BY <1>2, <2>1
<1>5. Ffs(b) = CHOOSE k \in low : \A y \in low : k <= y
  BY <1>2 DEF Ffs, low
<1>6. Ffs(b) \in low /\ \A y \in low : Ffs(b) <= y
  BY <1>4, <1>5
<1>7. CASE n < IntBits
  BY <1>6, <1>7 DEF low
<1>8. CASE ~(n < IntBits)
  BY <1>1, <1>2, <1>6, <1>8, PrioAssumption DEF low
<1>9. QED
  BY <1>7, <1>8

\* prio_dequeue() returns a packet of the highest priority of those that wait, and of
\* these the one that came first, whatever the width of the bitmap and the losses.
THEOREM HighestFirst == PrioSpec => StrictPriority
<1>1. PrioOK /\ ArrivalOrder /\ [PrioNext]_prioVars =>
        [\A m \in Backlog : mq' # mq /\ ret' = m /\ (Dequeue \/ DequeueIdle) =>
           \A x \in Backlog : /\ prioOfPkt[x] >= prioOfPkt[m]
                              /\ prioOfPkt[x] = prioOfPkt[m] => x >= m]_prioVars
  <2> SUFFICES ASSUME PrioOK, ArrivalOrder, NEW m \in Backlog, mq' # mq, ret' = m,
                      Dequeue \/ DequeueIdle, NEW x \in Backlog
               PROVE  /\ prioOfPkt[x] >= prioOfPkt[m]
                      /\ prioOfPkt[x] = prioOfPkt[m] => x >= m
    OBVIOUS
  <2>1. Dequeue
    BY DEF DequeueIdle
  <2>2. PICK h \in Queues : h = q_array[Ffs(bitmap)]
    BY <2>1 DEF Dequeue, PrioOK, PrioTypeOK
  <2>3. mq \in [Queues -> Seq(Pkts)] /\ mq[h] \in Seq(Pkts)
    BY DEF PrioOK, PrioTypeOK
  <2>4. mq[h] # <<>>
    <3>1. mq' = [mq EXCEPT ![h] = IF mq[h] = <<>> THEN <<>> ELSE Tail(mq[h])]
      BY <2>1, <2>2 DEF Dequeue
    <3>2. mq[h] = <<>> => mq' = mq
      BY <2>3, <3>1
    <3>3. QED
      BY <3>2
  <2>5. m = mq[h][1] /\ 1 \in 1..Len(mq[h])
    BY <2>1, <2>2, <2>3, <2>4 DEF Dequeue
  <2>5b. PICK q \in Queues : \E k \in 1..Len(mq[q]) : x = mq[q][k]
    BY DEF Backlog
  <2>6. PICK k \in 1..Len(mq[q]) : x = mq[q][k]
    BY <2>5b
  <2>7. q_array[PrioOf[q]] = q /\ PrioOf[q] \in bitmap /\ bitmap \in SUBSET Prios
    <3>1. mq[q] # <<>>
      BY <2>3, <2>6
    <3>2. q_array[PrioOf[q]] = q /\ PrioOf[q] \in Prios /\ q # NULL
      BY <3>1, PrioType, PrioAssumption DEF PrioOK, BacklogIsListed
    <3>3. QED
      BY <3>2 DEF PrioOK, PrioTypeOK, ArrayMatches
  <2>8. Ffs(bitmap) \in Prios /\ PrioOf[h] = Ffs(bitmap)
    <3>1. Ffs(bitmap) \in Prios /\ h # NULL
      BY <2>1, <2>2, PrioAssumption DEF Dequeue
    <3>2. QED
      BY <2>2, <3>1 DEF PrioOK, ArrayMatches
  <2>9. PrioOf[h] <= PrioOf[q]
    BY <2>7, <2>8, FfsLowest
  <2>10. prioOfPkt[m] = PrioOf[h] /\ prioOfPkt[x] = PrioOf[q]
    BY <2>5, <2>6 DEF ArrivalOrder, InLine
  <2>11. PrioOf[h] \in Nat /\ PrioOf[q] \in Nat
    BY PrioAssumption
  <2>12. ASSUME PrioOf[q] = PrioOf[h] PROVE x >= m
    <3>1. q = h
      BY <2>2, <2>7, <2>8, <2>12
    <3>2. k \in 1..Len(mq[h]) /\ x = mq[h][k] /\ x \in Nat
      <4>1. k \in 1..Len(mq[h]) /\ x = mq[h][k]
        BY <2>6, <3>1
      <4>2. mq[h][k] \in Pkts
        BY <2>3, <4>1
      <4>3. QED
        BY <4>1, <4>2 DEF Pkts
    <3>3. k = 1 \/ 1 < k
      BY <2>6
    <3>4. 1 < k => mq[h][1] < mq[h][k]
      BY <2>5, <3>2 DEF ArrivalOrder, InLine
    <3>5. QED
      BY <2>5, <3>2, <3>3, <3>4
  <2>13. QED
    BY <2>9, <2>10, <2>11, <2>12
<1>2. PrioSpec => [][PrioNext]_prioVars
  BY PTL DEF PrioSpec
<1>3. QED
  BY <1>1, <1>2, PrioCorrect, InLineInvariant, PTL DEF StrictPriority

=============================================================================
