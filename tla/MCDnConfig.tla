----------------------------- MODULE MCDnConfig -----------------------------
(* Instances of DnConfig for TLC. *)
EXTENDS DnConfig
=============================================================================
