---------------------------- MODULE MCDnSchedRR ----------------------------
(* An instance of DnSchedRR for TLC. *)
EXTENDS DnSchedRR, TLC

CONSTANTS q1, q2, q3

\* Weights 1 and 2, and quanta smaller than the largest packet: a packet may
\* need the credit of several rounds.
MCQuantum == q1 :> 1 @@ q2 :> 1 @@ q3 :> 2
=============================================================================
