------------------------------ MODULE MCDnPipe ------------------------------
(***************************************************************************)
(* Small instances of DnPipe for TLC.                                      *)
(***************************************************************************)
EXTENDS DnPipe, TLC

Link(bw, delay, burst) == [bandwidth |-> bw, delay |-> delay, burst |-> burst]

Symm == Permutations(Insts) \cup Permutations(Threads)

\* Slow and fast, with and without delay and burst, and without a limit.
LinksMixed == {Link(2, 1, 0), Link(1, 0, 2), Link(0, 2, 0)}
LinksTwo == {Link(2, 1, 0), Link(0, 2, 0)}

SomeSamples == {[bits |-> 0, loss |-> FALSE], [bits |-> 2, loss |-> TRUE]}

=============================================================================
