----------------------------- MODULE MCFwChain -----------------------------
(* An instance of FwChain for TLC. *)
EXTENDS FwChain, TLC

CONSTANTS p1, p2, p3, p4, p5, t1, t2, c1, c2, x

Rule(state, act, arg) == [state |-> state, flows |-> {x}, act |-> act, arg |-> arg]

New == {Rule("none", "skipto", 3)}
Load(body, num) == [num |-> num, set |-> 1, body |-> body]
Starts ==
  {<<Load(Rule("check", "count", 0), 1), Load(Rule("keep", "tee", 0), 2)>>,
   <<Load(Rule("none", "skipto", 3), 1), Load(Rule("none", "pipe", 0), 2)>>}
Symmetry == Permutations({t1, t2}) \cup Permutations({c1, c2})
=============================================================================
