------------------------------- MODULE FwRule -------------------------------
(***************************************************************************)
(* What one rule of ipfw does to a packet: the parser of headers and the   *)
(* interpreter of instructions of ipfw_chk(), and the check that the       *)
(* kernel makes of a rule before it takes it (check_ipfw_struct()).        *)
(*                                                                         *)
(* A rule is [cmd, act, pad]: the instructions, how many of them come      *)
(* before the action part, and the mark of a rule without a body.  An      *)
(* instruction is [op, arg, len, key, not, or]; key is the field that a    *)
(* generic lookup looks up, and empty for every other instruction.         *)
(*                                                                         *)
(* A packet is what its headers say: [ver, eth, proto, exts, frag, short,  *)
(* out, src, dst, yes].  The comparison of a field with an argument, other *)
(* than an address, is data: yes has the opcodes for which it holds.  What *)
(* the interpreter looks at before it compares is control, and kept.       *)
(***************************************************************************)
EXTENDS Integers, Sequences, FiniteSets, SequencesExt

CONSTANTS
  Mine,      \* the addresses of this host
  Nets,      \* for a mask, a set or a table, its addresses
  DenyUnknownExt,  \* fw_deny_unknown_exthdrs
  Attached   \* modules that are loaded: "divert", "netgraph", "nat", "forward"

ASSUME RuleAssumption == DenyUnknownExt \in BOOLEAN /\ Attached \subseteq STRING

-----------------------------------------------------------------------------
\* The opcodes by the part of a packet that they look at.
PortOps == {"O_IP_SRCPORT", "O_IP_DSTPORT"}
TcpOps == {"O_TCPFLAGS", "O_TCPOPTS", "O_TCPSEQ", "O_TCPACK", "O_TCPWIN", "O_ESTAB",
           "O_TCPDATALEN"}
SrcOps == {"O_IP_SRC", "O_IP_SRC_MASK", "O_IP_SRC_SET", "O_IP_SRC_LOOKUP", "O_IP_SRC_ME"}
DstOps == {"O_IP_DST", "O_IP_DST_MASK", "O_IP_DST_SET", "O_IP_DST_LOOKUP", "O_IP_DST_ME"}
Src6Ops == {"O_IP6_SRC", "O_IP6_SRC_MASK", "O_IP6_SRC_ME"}
Dst6Ops == {"O_IP6_DST", "O_IP6_DST_MASK", "O_IP6_DST_ME"}
MeOps == {"O_IP_SRC_ME", "O_IP_DST_ME"}
V4Ops == ((SrcOps \cup DstOps) \ MeOps) \cup
         {"O_IPOPT", "O_IPVER", "O_IPID", "O_IPLEN", "O_IPTTL", "O_IPPRECEDENCE", "O_IPTOS"}
V6Ops == Src6Ops \cup Dst6Ops \cup {"O_FLOW6ID", "O_EXT_HDR"}
EthOps == {"O_MACADDR2", "O_MAC_TYPE"}
UidOps == {"O_UID", "O_GID", "O_JAIL"}
\* The keys of a generic lookup that are read from the header of the upper protocol
\* or found by it, and with them all that are no address.
SessionKeys == {"dst-port", "src-port", "uid", "jail"}
FieldKeys == SessionKeys \cup {"dscp"}

\* The search for the header of the upper protocol.  ulp is what the pointer of
\* the interpreter points to, off that its offset is not 0.
ExtHeader(h, e) ==
  IF h.drop \/ h.ulp # "none" THEN h
  ELSE CASE e = "rt?" -> [h EXCEPT !.drop = DenyUnknownExt]
         [] e = "frag0" -> IF DenyUnknownExt THEN [h EXCEPT !.drop = TRUE]
                           ELSE [h EXCEPT !.ulp = "frag"]
         [] e = "frag" -> [h EXCEPT !.off = TRUE]
         [] e = "esp" -> [h EXCEPT !.ulp = "esp", !.proto = "esp"]
         [] e = "other" -> h

\* ospf stands for the protocols that are known and not looked into.
Known6 == {"tcp", "udp", "sctp", "icmp6", "ospf"}

Upper(h, p) ==
  IF h.drop \/ h.ulp # "none" THEN h
  ELSE CASE p.proto \in Known6 -> [h EXCEPT !.ulp = IF p.frag = "later" THEN "data" ELSE p.proto]
         [] p.proto \notin Known6 ->
              IF DenyUnknownExt THEN [h EXCEPT !.drop = TRUE] ELSE [h EXCEPT !.ulp = "ext"]

Parse(p) ==
  LET none == [drop |-> FALSE, v4 |-> FALSE, v6 |-> FALSE, proto |-> "none", off |-> FALSE,
               ulp |-> "none", eth |-> p.eth, out |-> p.out]
      four == [none EXCEPT !.v4 = TRUE, !.proto = p.proto, !.off = p.frag = "later"]
      six == [none EXCEPT !.v6 = TRUE, !.proto = p.proto]
      after[i \in 0..Len(p.exts)] == IF i = 0 THEN six ELSE ExtHeader(after[i - 1], p.exts[i])
      seen == IF p.ver = 6 THEN Upper(after[Len(p.exts)], p)
              ELSE IF four.off \/ p.proto \notin {"tcp", "udp", "icmp"} THEN four
              ELSE [four EXCEPT !.ulp = p.proto]
  IN  IF p.ver = 0 THEN none
      ELSE [seen EXCEPT !.drop = @ \/ (seen.ulp # "none" /\ p.short)]

HasPorts(h) == h.proto \in {"tcp", "udp"}

Guard_mutantNoOffset(c, h) ==
  CASE c.op \in PortOps -> HasPorts(h)
    [] c.op \in V4Ops -> h.v4
    [] OTHER -> TRUE

\* What must hold of the headers before an instruction compares; if it does not,
\* there is no match.
Guard(c, h) ==
  CASE c.op \in V4Ops \/ c.op = "O_IP4" -> h.v4 /\ (c.key \in SessionKeys => HasPorts(h) /\ ~h.off)
    [] c.op \in V6Ops \/ c.op = "O_IP6" -> h.v6
    [] c.op \in MeOps \/ c.op = "O_VERSRCREACH" -> h.v4 \/ h.v6
    [] c.op \in PortOps -> HasPorts(h) /\ ~h.off
    [] c.op \in TcpOps -> h.proto = "tcp" /\ ~h.off
    [] c.op = "O_ICMPTYPE" -> h.proto = "icmp" /\ ~h.off
    [] c.op = "O_ICMP6TYPE" -> h.v6 /\ h.proto = "icmp6" /\ ~h.off
    [] c.op \in UidOps -> ~h.off /\ ~h.v6 /\ HasPorts(h)
    [] c.op \in EthOps -> h.eth
    [] OTHER -> TRUE

FromOps == SrcOps \cup Src6Ops
HostOps == {"O_IP_SRC", "O_IP_DST", "O_IP6_SRC", "O_IP6_DST"}
AnyMeOps == MeOps \cup {"O_IP6_SRC_ME", "O_IP6_DST_ME"}
NetOps == (FromOps \cup DstOps \cup Dst6Ops) \ (HostOps \cup AnyMeOps)
Address(c, p) == IF c.op \in FromOps \/ c.key = "src-ip" THEN p.src ELSE p.dst

\* The comparisons of icmptype_match(), flags_match(), ipopts_match(), tcpopts_match(),
\* iface_match(), verify_path(), check_uidgid() and of numbers with ranges.
Tested(op, p) == op \in p.yes

\* What O_TCPDATALEN computes from the header of another packet than one of IPv4 is
\* not a length.
NoLength == "not a length"

\* The cases of the first switch.  The test for an outgoing packet in O_VERSRCREACH only
\* chooses which verify_path() is called.
Compare(c, h, p) ==
  CASE c.key \in FieldKeys -> Tested(c.key, p)
    [] c.op \in HostOps -> Address(c, p) = c.arg
    [] c.op \in AnyMeOps -> Address(c, p) \in Mine
    [] c.op \in NetOps /\ c.key \notin FieldKeys -> Address(c, p) \in Nets[c.arg]
    [] c.op = "O_PROTO" -> h.proto = c.arg
    [] c.op = "O_FRAG" -> h.off
    [] c.op = "O_IN" -> ~p.out
    [] c.op = "O_LAYER2" -> p.eth
    [] c.op = "O_VERREVPATH" -> p.out \/ Tested(c.op, p)
    [] c.op = "O_ANTISPOOF" -> p.out \/ (~h.v4 /\ ~h.v6) \/ Tested(c.op, p)
    [] c.op = "O_TCPDATALEN" -> Tested(IF h.v4 THEN c.op ELSE NoLength, p)
    [] c.op \in {"O_NOP", "O_IP4", "O_IP6"} -> TRUE
    [] OTHER -> Tested(c.op, p)

Matches(c, h, p) == Guard(c, h) /\ Compare(c, h, p)

-----------------------------------------------------------------------------
\* The actions that end the search here, and those that go to the next rule.  Some
\* do not apply to a packet of layer 2.
Layer3 == {"O_DIVERT", "O_TEE", "O_FORWARD_IP"}
Final == {"O_ACCEPT", "O_DENY", "O_REJECT", "O_UNREACH6", "O_PIPE", "O_QUEUE", "O_NETGRAPH",
          "O_NGTEE", "O_NAT", "O_SKIPTO"} \cup Layer3
Onward == {"O_COUNT", "O_SETFIB", "O_CHECK_STATE"}
Actions == Final \cup Onward \cup {"O_REASS"}

\* The end of the inner loop: F_NOT, F_OR and the skip of the rest of a block.
Combine(s, c, hit) ==
  LET m == hit # c.not
  IN  IF m THEN [s EXCEPT !.skip = c.or]
      ELSE IF c.or THEN s ELSE [s EXCEPT !.mode = "next"]

\* One instruction, for a packet without a session.  did collects the effects.
\* What O_REASS takes for the fragment offset is one only in IPv4.  A packet for which
\* O_TAG "compares" has the tag already, and no match.
Instr(s, c, h, p) ==
  IF s.mode # "run" THEN s
  ELSE IF s.skip THEN [s EXCEPT !.skip = c.or]
  ELSE CASE c.op \in Final ->
              IF c.op \in Layer3 /\ h.eth THEN Combine(s, c, FALSE) ELSE [s EXCEPT !.mode = c.op]
         [] c.op \in Onward -> [s EXCEPT !.mode = "next", !.did = @ \cup {c.op}]
         [] c.op = "O_REASS" ->
              IF (h.v4 /\ p.frag # "no") \/ (~h.v4 /\ "O_REASS" \in p.yes)
              THEN [s EXCEPT !.mode = "O_REASS"] ELSE [s EXCEPT !.mode = "next"]
         [] c.op \in {"O_LOG", "O_ALTQ", "O_KEEP_STATE", "O_LIMIT"} ->
              Combine([s EXCEPT !.did = @ \cup {c.op}], c, TRUE)
         [] c.op = "O_TAG" ->
              IF ~c.not /\ Tested(c.op, p) THEN Combine(s, c, FALSE)
              ELSE Combine([s EXCEPT !.did = @ \cup {IF c.not THEN "untag" ELSE "tag"}], c, ~c.not)
         [] c.op = "O_PROBE_STATE" -> Combine(s, c, TRUE)
         [] OTHER -> Combine(s, c, Matches(c, h, p))

\* ipfw_chk() on one rule, for a packet with headers h.  A packet that cannot be
\* parsed is dropped before.
Run(rule, h, p) ==
  LET after[i \in 0..Len(rule.cmd)] ==
        IF i = 0 THEN [mode |-> "run", skip |-> FALSE, did |-> {}]
        ELSE Instr(after[i - 1], rule.cmd[i], h, p)
      end == after[Len(rule.cmd)]
  IN  IF h.drop THEN [mode |-> "O_DENY", did |-> {}]
      ELSE [mode |-> IF end.mode = "run" THEN "next" ELSE end.mode, did |-> end.did]

-----------------------------------------------------------------------------
\* check_ipfw_struct(): the length of every instruction, one action at the end,
\* modules that are not loaded.
ListOps == {"O_IPID", "O_IPTTL", "O_IPLEN", "O_TCPDATALEN", "O_TAGGED", "O_NOP"}
TwoWords == {"O_UID", "O_GID", "O_JAIL", "O_IP_SRC", "O_IP_DST", "O_TCPSEQ", "O_TCPACK",
             "O_PROB", "O_ICMPTYPE"}
Odd(n) == n % 2 = 1

GoodSize_mutantShort(c) == c.len <= 8

GoodSize(c) ==
  CASE c.op \in TwoWords \cup {"O_LIMIT"} -> c.len = 2
    [] c.op = "O_NAT" -> c.len = 4
    [] c.op \in {"O_IP_SRC_LOOKUP", "O_IP_DST_LOOKUP"} -> c.len \in 1..3
    [] c.op \in {"O_IP_SRC_MASK", "O_IP_DST_MASK"} -> Odd(c.len) /\ c.len <= 31
    [] c.op \in {"O_IP_SRC_SET", "O_IP_DST_SET"} -> c.len \in 3..10
    [] c.op \in ListOps -> c.len \in 1..31
    [] c.op \in PortOps \cup {"O_MAC_TYPE"} -> c.len \in 2..31
    [] c.op = "O_MACADDR2" -> c.len = 7
    [] c.op \in {"O_RECV", "O_XMIT", "O_VIA"} -> c.len = 6
    [] c.op \in {"O_LOG", "O_ALTQ"} -> c.len = IF c.op = "O_LOG" THEN 3 ELSE 2
    [] c.op = "O_FORWARD_IP" -> c.len = 5
    [] c.op \in {"O_IP6_SRC", "O_IP6_DST"} -> c.len = 5
    [] c.op \in {"O_IP6_SRC_MASK", "O_IP6_DST_MASK"} -> Odd(c.len) /\ c.len <= 127
    [] c.op = "O_FLOW6ID" -> c.len >= 3
    [] c.op = "O_ICMP6TYPE" -> c.len = 8
    [] OTHER -> c.len = 1

Unloaded == {"divert", "netgraph", "nat", "forward"} \ Attached
Unsupported ==
  {"O_SOCKARG", "O_CALLRETURN"}
    \cup (IF "divert" \in Unloaded THEN {"O_DIVERT", "O_TEE"} ELSE {})
    \cup (IF "netgraph" \in Unloaded THEN {"O_NETGRAPH", "O_NGTEE"} ELSE {})
    \cup (IF "nat" \in Unloaded THEN {"O_NAT"} ELSE {})
    \cup (IF "forward" \in Unloaded THEN {"O_FORWARD_IP"} ELSE {})

Accepted(rule) ==
  /\ rule.act < Len(rule.cmd)
  /\ \A i \in DOMAIN rule.cmd :
       /\ GoodSize(rule.cmd[i]) /\ rule.cmd[i].op \notin Unsupported
       /\ rule.cmd[i].op \in Actions <=> i = Len(rule.cmd)
=============================================================================
