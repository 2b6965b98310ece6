------------------------------- MODULE DnHeap -------------------------------
(***************************************************************************)
(* The binary heap of dn_heap.c: an array of entries [key, object] whose   *)
(* first "elements" slots are in use, and, when ofs > 0, the position of   *)
(* every object stored in the object itself, so that heap_extract() can    *)
(* remove an object from the middle.                                       *)
(*                                                                         *)
(* A call of the module starts when pc is "idle" and takes one step per    *)
(* iteration of its loops: "up" is the loop of heap_insert(), "down" the   *)
(* one of heap_extract(), "scan" the one of heap_scan(); heapify() is a    *)
(* sequence of "up" loops that start at 0, 1, ... (i is its counter).      *)
(* The users (dn_cfg.evheap, the heaps of WF2Q+) insert an object that is  *)
(* not in the heap and extract one that is.                                *)
(***************************************************************************)
EXTENDS Integers, FiniteSets

CONSTANTS
  Objs,         \* objects that may be in the heap
  KeyMod,       \* keys are unsigned integers modulo KeyMod (2^64 in the code)
  Keys,         \* the keys in use
  AllocMayFail  \* malloc(M_NOWAIT) may return NULL

\* DN_KEY_LT(): the difference, as a signed integer, is negative.
DN_KEY_LT(a, b) == (a - b) % KeyMod >= KeyMod \div 2

\* The keys in use at the same time span less than half of the range, so that
\* DN_KEY_LT() orders them: it is asymmetric and its negation is transitive.
ASSUME KeyAssumption ==
  /\ KeyMod \in Nat \ {0}
  /\ Keys \subseteq 0..(KeyMod - 1)
  /\ \A a, b \in Keys : DN_KEY_LT(a, b) => ~DN_KEY_LT(b, a)
  /\ \A a, b, c \in Keys : ~DN_KEY_LT(b, a) /\ ~DN_KEY_LT(c, b) => ~DN_KEY_LT(c, a)

ASSUME FailAssumption == AllocMayFail \in BOOLEAN

VARIABLES
  p,         \* h->p[0 .. elements - 1]
  elements,  \* h->elements
  size,      \* h->size
  ofs,       \* h->ofs > 0: positions are stored in the objects
  idx,       \* the int32_t at h->ofs in each object
  pc,        \* the loop that runs: "idle", "up", "down" or "scan"
  at,        \* son, father or i of that loop
  i,         \* the counter of heapify(), -1 outside of it
  found      \* heap_scan() has deleted entries

vars == <<p, elements, size, ofs, idx, pc, at, i, found>>

Entries == [key : Keys, object : Objs]

HEAP_FATHER(x) == (x - 1) \div 2
HEAP_LEFT(x) == x + x + 1

InHeap == {p[n].object : n \in DOMAIN p}

\* RESET_OFFSET() stores this.
Invalid == -16

\* heap_resize(): a new size is rounded up to 2^k - 1.
Rounded(n) == {m \in n..(2 * n) : \E k \in 0..30 : m = 2^k - 1}

Truncate(f, n) == [x \in 0..(n - 1) |-> f[x]]

\* SET_OFFSET() and RESET_OFFSET()
SetOffset(f, o, n) == IF ofs THEN [f EXCEPT ![o] = n] ELSE f

-----------------------------------------------------------------------------
\* heap_init(): after malloc(M_ZERO) or heap_free(), or on a heap in use, whose
\* entries are forgotten (dummynet_flush()).
HeapInit(n, o) ==
  /\ pc = "idle"
  /\ elements' = 0 /\ p' = Truncate(p, 0)
  /\ ofs' = o
  /\ IF size >= n THEN size' = size ELSE size' \in Rounded(n)
  /\ UNCHANGED <<idx, pc, at, i, found>>

\* heap_free()
HeapFree ==
  /\ pc = "idle"
  /\ p' = Truncate(p, 0) /\ elements' = 0 /\ size' = 0 /\ ofs' = FALSE
  /\ UNCHANGED <<idx, pc, at, i, found>>

\* heap_insert(h, k, o): the new entry goes at the end, then bubbles up.
HeapInsert(o, k) ==
  /\ pc = "idle" /\ o \notin InHeap
  /\ IF elements = size THEN size' \in Rounded(elements + 16) ELSE size' = size
  /\ p' = [x \in 0..elements |-> IF x = elements THEN [key |-> k, object |-> o] ELSE p[x]]
  /\ elements' = elements + 1
  /\ pc' = "up" /\ at' = elements
  /\ UNCHANGED <<ofs, idx, i, found>>

\* heap_init() or heap_insert() when heap_resize() fails.
AllocFails ==
  /\ pc = "idle"
  /\ AllocMayFail /\ (size < 16 \/ elements = size)
  /\ UNCHANGED vars

\* The test of heap_insert() that ends the loop.
InPlace_mutantReversed(son) ==
  son > 0 => DN_KEY_LT(p[son].key, p[HEAP_FATHER(son)].key)

InPlace(son) ==
  son > 0 => DN_KEY_LT(p[HEAP_FATHER(son)].key, p[son].key)

\* An iteration of the loop of heap_insert().
UpSwap ==
  /\ pc = "up" /\ ~InPlace(at)
  /\ p' = [p EXCEPT ![at] = p[HEAP_FATHER(at)], ![HEAP_FATHER(at)] = p[at]]
  /\ idx' = SetOffset(idx, p[HEAP_FATHER(at)].object, at)
  /\ at' = HEAP_FATHER(at)
  /\ UNCHANGED <<elements, size, ofs, pc, i, found>>

\* The end of heap_insert(), which returns to its caller or to heapify().
UpDone ==
  /\ pc = "up" /\ InPlace(at)
  /\ idx' = SetOffset(idx, p[at].object, at)
  /\ IF i >= 0 /\ i + 1 < elements
     THEN i' = i + 1 /\ at' = i + 1 /\ pc' = "up"
     ELSE i' = -1 /\ at' = 0 /\ pc' = "idle"
  /\ UNCHANGED <<p, elements, size, ofs, found>>

-----------------------------------------------------------------------------
\* heap_extract(h, NULL) removes the top, heap_extract(h, o) the object o, which
\* is looked for at its stored position.
StartExtract(father) ==
  /\ idx' = SetOffset(idx, p[father].object, Invalid)
  /\ pc' = "down" /\ at' = father
  /\ UNCHANGED <<p, elements, size, ofs, i, found>>

HeapExtractTop ==
  /\ pc = "idle" /\ elements > 0
  /\ StartExtract(0)

HeapExtract(o) ==
  /\ pc = "idle" /\ ofs /\ o \in InHeap
  /\ idx[o] >= 0 /\ idx[o] < elements
  /\ StartExtract(idx[o])

\* heap_extract(h, NULL) on an empty heap prints a message.
HeapExtractEmpty == pc = "idle" /\ elements = 0 /\ UNCHANGED vars

\* The child that moves up to fill the hole at father.
SmallestChild_mutantLeft(father) == HEAP_LEFT(father)

SmallestChild(father) ==
  LET left == HEAP_LEFT(father)
  IN  IF left # elements - 1 /\ DN_KEY_LT(p[left + 1].key, p[left].key)
      THEN left + 1 ELSE left

\* An iteration of the loop of heap_extract().
DownMove ==
  /\ pc = "down" /\ HEAP_LEFT(at) <= elements - 1
  /\ LET child == SmallestChild(at)
     IN  /\ p' = [p EXCEPT ![at] = p[child]]
         /\ idx' = SetOffset(idx, p[child].object, at)
         /\ at' = child
  /\ UNCHANGED <<elements, size, ofs, pc, i, found>>

\* The hole is at the bottom: the last entry goes there and bubbles up.
AfterFill(father) ==
  IF father # elements - 1
  THEN pc' = "up" /\ at' = father
  ELSE pc' = "idle" /\ at' = 0

DownDone ==
  /\ pc = "down" /\ HEAP_LEFT(at) > elements - 1
  /\ elements' = elements - 1
  /\ p' = Truncate([p EXCEPT ![at] = p[elements - 1]], elements - 1)
  /\ AfterFill(at)
  /\ UNCHANGED <<size, ofs, idx, i, found>>

-----------------------------------------------------------------------------
\* heap_scan(): the callback keeps or deletes (HEAP_SCAN_DEL) the entry and may
\* end the scan (HEAP_SCAN_END).
ScanStart ==
  /\ pc = "idle"
  /\ pc' = "scan" /\ at' = 0
  /\ UNCHANGED <<p, elements, size, ofs, idx, i, found>>

ScanKeep ==
  /\ pc = "scan" /\ at < elements
  /\ at' = at + 1
  /\ UNCHANGED <<p, elements, size, ofs, idx, pc, i, found>>

ScanDelete ==
  /\ pc = "scan" /\ at < elements
  /\ elements' = elements - 1
  /\ p' = Truncate([p EXCEPT ![at] = p[elements - 1]], elements - 1)
  /\ found' = TRUE
  /\ UNCHANGED <<size, ofs, idx, pc, at, i>>

\* The scan ends after the last entry, or earlier by HEAP_SCAN_END; then
\* heapify(), if something was deleted.
ScanEnd ==
  /\ pc = "scan" /\ (at > 0 \/ found \/ elements = 0)
  /\ found' = FALSE /\ at' = 0
  /\ IF found /\ elements > 0
     THEN pc' = "up" /\ i' = 0
     ELSE pc' = "idle" /\ i' = -1
  /\ UNCHANGED <<p, elements, size, ofs, idx>>

-----------------------------------------------------------------------------
Init ==
  /\ p = [x \in {} |-> 0] /\ elements = 0 /\ size = 0 /\ ofs = FALSE
  /\ idx = [o \in Objs |-> 0]
  /\ pc = "idle" /\ at = 0 /\ i = -1 /\ found = FALSE

Loop == UpSwap \/ UpDone \/ DownMove \/ DownDone \/ ScanKeep \/ ScanDelete \/ ScanEnd

Next ==
  \/ \E o \in BOOLEAN : HeapInit(16, o)
  \/ HeapFree
  \/ \E o \in Objs, k \in Keys : HeapInsert(o, k)
  \/ AllocFails
  \/ HeapExtractTop
  \/ \E o \in Objs : HeapExtract(o)
  \/ HeapExtractEmpty
  \/ ScanStart
  \/ Loop

Spec == Init /\ [][Next]_vars

-----------------------------------------------------------------------------
\* The positions that hold an entry: during heap_extract() there is a hole.
Live == IF pc = "down" THEN DOMAIN p \ {at} ELSE DOMAIN p

\* How many entries, from the first, the running call has in order: heapify()
\* has reached entry i.
Prefix == IF i >= 0 THEN i + 1 ELSE elements

Leq(m, n) == ~DN_KEY_LT(p[n].key, p[m].key)

\* The part of the invariant that types the state of the heap and its loops.
TypeOK ==
  /\ elements \in Nat /\ size \in Nat /\ elements <= size
  /\ p \in [0..(elements - 1) -> Entries]
  /\ ofs \in BOOLEAN /\ found \in BOOLEAN
  /\ idx \in [Objs -> Int]
  /\ pc \in {"idle", "up", "down", "scan"}
  /\ at \in Nat /\ i \in Int

\* The loops stay inside the array, and their counters are used by them only.
Loops ==
  /\ pc \in {"up", "down"} => at < Prefix
  /\ pc = "idle" => at = 0
  /\ pc # "up" => i = -1
  /\ i >= -1 /\ i < elements
  /\ found => pc = "scan"
  /\ pc = "scan" => at <= elements

\* No object has two entries.
Distinct == \A m, n \in Live : p[m].object = p[n].object => m = n

\* The order of the heap, and what is left of it while a loop runs: the entry
\* that bubbles up may be smaller than its father, the hole has no entry, and
\* in both cases the entries below it are not smaller than the one above.
Order ==
  LET exempt == pc \in {"up", "down"}
  IN  ~found =>
        \A n \in 1..(Prefix - 1) :
          /\ ~(exempt /\ n = at) /\ ~(pc = "down" /\ HEAP_FATHER(n) = at)
               => Leq(HEAP_FATHER(n), n)
          /\ exempt /\ HEAP_FATHER(n) = at /\ at > 0 => Leq(HEAP_FATHER(at), n)

\* The stored positions are right, except that of the entry that bubbles up.
Positions ==
  ofs /\ ~found =>
    \A n \in Live : n < Prefix /\ ~(pc = "up" /\ n = at) => idx[p[n].object] = n

\* The inductive invariant.
HeapOK == TypeOK /\ Loops /\ Distinct /\ Order /\ Positions

\* Between two calls the top of the heap has the smallest key (dn_heap.h: "The
\* topmost element has the smallest key"), whatever was inserted, extracted from
\* the middle or deleted by a scan before.
TopIsSmallest == pc = "idle" => \A n \in 1..(elements - 1) : Leq(0, n)

\* Between two calls every object of the heap knows its position, so that
\* heap_extract(h, obj) removes obj: it neither panics nor takes another object.
IndexRight ==
  pc = "idle" /\ ofs => \A n \in DOMAIN p : idx[p[n].object] = n

\* The key of each object that has an entry of array f at one of the positions S.
ContentOf(f, S) ==
  [o \in {f[n].object : n \in S} |-> f[CHOOSE n \in S : f[n].object = o].key]

\* The key of each object in the heap.
Content == ContentOf(p, Live)

\* heap_extract(h, obj) removes obj and nothing else.
RemovesObject ==
  [][\A o \in Objs : HeapExtract(o) =>
       /\ o \in DOMAIN Content
       /\ DOMAIN Content' = DOMAIN Content \ {o}]_vars

\* What HEAP_TOP() finds between two calls.
Top == IF pc = "idle" /\ elements > 0 THEN p[0].object ELSE "none"

\* The heap implements the priority queue: each call changes the set of keys and
\* objects at most once, when it starts, and when it returns HEAP_TOP() is an
\* object with the smallest key (dn_heap.c:142-224, dn_heap.h:76-99).
PQ == INSTANCE DnPriorityQueue
        WITH Lt <- DN_KEY_LT, None <- "none", content <- Content, top <- Top

PQSpec == PQ!Spec
=============================================================================
