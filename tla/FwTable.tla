------------------------------ MODULE FwTable ------------------------------
(***************************************************************************)
(* What ipfw.8 promises of a lookup table: a set of entries, address       *)
(* prefixes that are added and removed one by one or all at once, and      *)
(* looked up by address, where the entry with the longest prefix decides.  *)
(***************************************************************************)
EXTENDS Naturals

CONSTANTS
  TablePrefixes,  \* the prefixes <<address, length>> that may be in the table
  Covers(_, _)    \* Covers(p, a): prefix p covers address a

VARIABLES
  entries,        \* the prefixes in the table
  res             \* the result of the last command

Init == entries = {} /\ res = "OK"

Add(p) ==
  /\ p \notin entries
  /\ entries' = entries \cup {p} /\ res' = "OK"

AddExisting(p) == p \in entries /\ res' = "EEXIST" /\ UNCHANGED entries

Del(p) ==
  /\ p \in entries
  /\ entries' = entries \ {p} /\ res' = "OK"

DelMissing(p) == p \notin entries /\ res' = "ESRCH" /\ UNCHANGED entries

Flush == entries' = {} /\ res' = "OK"

Next ==
  \/ \E p \in TablePrefixes : Add(p) \/ AddExisting(p) \/ Del(p) \/ DelMissing(p)
  \/ Flush

Spec == Init /\ [][Next]_<<entries, res>>

\* The entries that answer a lookup of address a: one or none.
Answers(a) ==
  {p \in entries : Covers(p, a) /\ \A q \in entries : Covers(q, a) => q[2] <= p[2]}
=============================================================================
