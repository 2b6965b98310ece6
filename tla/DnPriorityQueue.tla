-------------------------- MODULE DnPriorityQueue --------------------------
(***************************************************************************)
(* What the header dn_heap.h promises its users: a set of objects, each    *)
(* with a key; between two calls HEAP_TOP() is an object with the smallest *)
(* key, and a call adds one object, removes one or removes them all.       *)
(* Nothing is said of arrays or positions.                                 *)
(***************************************************************************)
EXTENDS Integers

CONSTANTS
  Objs,      \* the objects that may be put in the queue
  Keys,      \* the keys
  None,      \* not an object
  Lt(_, _)   \* the order of the keys

VARIABLES
  content,   \* the key of each object in the queue
  top        \* what HEAP_TOP() finds; None during a call and in an empty queue

Smallest(o) ==
  o \in DOMAIN content /\ \A x \in DOMAIN content : ~Lt(content[x], content[o])

TopIsRight == top = None \/ Smallest(top)

Without(S) == [x \in DOMAIN content \ S |-> content[x]]

Init == content = [x \in {} |-> 0] /\ top = None

Insert ==
  \E o \in Objs \ DOMAIN content, k \in Keys :
    content' = [x \in DOMAIN content \cup {o} |-> IF x = o THEN k ELSE content[x]]

\* The top, or the object the caller names.
Extract == \E o \in DOMAIN content : content' = Without({o})

Clear == content' = Without(DOMAIN content)

\* A call goes on, or ends.
Settle == content' = content

Next == (Insert \/ Extract \/ Clear \/ Settle) /\ TopIsRight'

Spec == Init /\ [][Next]_<<content, top>>
=============================================================================
