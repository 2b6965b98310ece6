----------------------------- MODULE MCFwRadix -----------------------------
(* Instances of FwRadix for TLC. *)
EXTENDS FwRadix

\* Of addresses of 4 bits: the whole space, prefixes that end in the first and in the
\* second byte, nested, adjacent and at both ends.
MCPrefixes == {<<0, 0>>, <<0, 1>>, <<0, 4>>, <<4, 2>>, <<8, 1>>, <<8, 2>>, <<8, 3>>,
               <<10, 3>>, <<10, 4>>, <<12, 2>>, <<14, 3>>, <<14, 4>>}
=============================================================================
