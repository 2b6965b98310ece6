------------------------------ MODULE MCDnHeap ------------------------------
(* Instances of DnHeap for TLC. *)
EXTENDS DnHeap, TLC

\* Keys modulo 8; the ones in use span the point where they wrap.
MCKeyMod == 8
MCKeys == {6, 7, 0, 1}

\* The objects are only compared with each other.
Symmetry == Permutations(Objs)
=============================================================================
