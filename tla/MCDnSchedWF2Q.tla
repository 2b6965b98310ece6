--------------------------- MODULE MCDnSchedWF2Q ---------------------------
(* Instances of DnSchedWF2Q for TLC. *)
EXTENDS DnSchedWF2Q, TLC

CONSTANTS q1, q2, q3

\* Queues of weight 1, and one of four times that weight.
MCWeight == [q \in Queues |-> IF q = q3 THEN 4 ELSE 1]

\* The queues of the same weight.
Symmetry == Permutations({q1, q2})
=============================================================================
