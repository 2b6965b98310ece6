------------------------------ MODULE MCFwDyn ------------------------------
(* An instance of FwDyn for TLC. *)
EXTENDS FwDyn, TLC

Flow(proto, s, d) ==
  [proto |-> proto, v6 |-> FALSE, src |-> s, sport |-> 1, dst |-> d, dport |-> 2]

Out == Flow("tcp", 1, 2)
Other == Flow("tcp", 1, 3)
Pkt(id, flags, seq) == [id |-> id, flags |-> flags, seq |-> seq]

\* A TCP session from host 1 to host 2, opened from both sides, with acks out of
\* order, that host 2 may reset, and a session from host 1 to host 3 whose
\* opening was not seen; a UDP session from host 2 to host 3 fills the table.
Open == Pkt(Out, {"SYN"}, "new")
OpenBack == Pkt(Reversed(Out), {"SYN"}, "new")
OtherPkt == Pkt(Other, {}, "new")
ThirdPkt == Pkt(Flow("udp", 2, 3), {}, "none")

MCPkts ==
  {Open, OpenBack, OtherPkt, ThirdPkt, Pkt(Reversed(Out), {"RST"}, "new")}
  \cup {Pkt(Reversed(Out), {}, seq) : seq \in {"new", "late"}}

MCCmd == [keep  |-> [type |-> "keep", mask |-> {}, n |-> 0],
          limit |-> [type |-> "limit", mask |-> {"src-addr"}, n |-> 1]]

MCMatching == [keep |-> {OpenBack, ThirdPkt}, limit |-> {Open, OtherPkt}]
=============================================================================
