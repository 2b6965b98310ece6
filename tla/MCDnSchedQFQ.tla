---------------------------- MODULE MCDnSchedQFQ ----------------------------
(* Instances of DnSchedQFQ for TLC. *)
EXTENDS DnSchedQFQ, TLC

CONSTANTS q1, q2, q3, q4

\* Two queues of weight 4, which are in group 0, and two of weight 2, in group 1.
MCWeight == [q \in Queues |-> IF q \in {q1, q2} THEN 4 ELSE 2]
MCMaxlen == [q \in Queues |-> 1]

MCSymmetry == Permutations({q1, q2}) \cup Permutations({q3, q4})
=============================================================================
