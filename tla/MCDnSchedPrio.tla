--------------------------- MODULE MCDnSchedPrio ---------------------------
(* An instance of DnSchedPrio for TLC. *)
EXTENDS DnSchedPrio, TLC

CONSTANTS q1, q2, q3, q4

\* Two queues share the first priority.
MCPrioOf == q1 :> 0 @@ q2 :> 0 @@ q3 :> 1 @@ q4 :> 2
=============================================================================
