----------------------------- MODULE FwCompile -----------------------------
(***************************************************************************)
(* ipfw_add() of the program ipfw: from the words of a rule to its         *)
(* instructions.  A text is [prob, act, params, body]; its words are       *)
(* [w, v, n], a word, its argument and the length of a list.               *)
(*                                                                         *)
(* The compiler writes the next instruction in place: a "not" sets a flag  *)
(* of the instruction that comes next, an "or" sets one of the last.       *)
(***************************************************************************)
EXTENDS Integers, Sequences, FiniteSets, SequencesExt, TLC

Word(w) == [w |-> w, v |-> "", n |-> 1]
Cmd(op, arg, len) == [op |-> op, arg |-> arg, len |-> len, key |-> "", not |-> FALSE, or |-> FALSE]

-----------------------------------------------------------------------------
\* The compiler: the section of the rule, where in it, the instructions so far,
\* the flag F_NOT of the next, the last one that may get F_OR, an open brace, the
\* protocol, whether it has a state instruction, and whether it has given up.
Compiler == [sec |-> "proto", at |-> "start", cmd |-> << >>, not |-> FALSE, prev |-> 0,
             open |-> FALSE, six |-> FALSE, state |-> FALSE, pad |-> FALSE, err |-> FALSE]

Fail(s) == [s EXCEPT !.err = TRUE]

\* next_cmd() after an instruction that keeps the flags it finds (fill_cmd()).
Emit(s, op, arg, len) ==
  [s EXCEPT !.cmd = Append(@, [Cmd(op, arg, len) EXCEPT !.not = s.not]), !.not = FALSE,
            !.prev = Len(s.cmd) + 1]

\* Some options store their length over the flags, or clear the instruction first.
EmitPlain(s, op, arg, len) == Emit([s EXCEPT !.not = FALSE], op, arg, len)

\* NOT_BLOCK
Negate(s) == IF s.not THEN Fail(s) ELSE [s EXCEPT !.not = TRUE]

\* OR_BLOCK: another alternative ...
Alternative(s) ==
  IF ~s.open \/ s.prev = 0 THEN Fail(s)
  ELSE [s EXCEPT !.cmd[s.prev].or = TRUE, !.at = "item"]

\* ... or CLOSE_PAR.
Close(s) == [s EXCEPT !.open = FALSE, !.prev = 0]

\* add_proto_compat(): "ip" is no instruction.
AddProto(s, v) ==
  CASE v = "ip" -> [s EXCEPT !.six = FALSE]
    [] v = "ip4" -> [Emit(s, "O_IP4", "", 1) EXCEPT !.six = FALSE]
    [] v = "ip6" -> [Emit(s, "O_IP6", "", 1) EXCEPT !.six = TRUE]
    [] v \notin {"ip", "ip4", "ip6"} -> [Emit(s, "O_PROTO", v, 1) EXCEPT !.six = FALSE]

\* fill_ip() and add_srcip(): "any" leaves the flags where they are.
AddIp(s, side, t) ==
  LET op == "O_IP_" \o side
  IN  CASE t.w = "any" -> s
        [] t.w = "me" -> Emit(s, op \o "_ME", "", 1)
        [] t.w = "table" -> Emit(s, op \o "_LOOKUP", t.v, 1)
        [] t.w = "set" -> Emit(s, op \o "_SET", t.v, 2 + t.n)
        [] t.w = "host" -> Emit(s, op, t.v, 2)
        [] t.w = "net" -> IF 2 * t.n + 1 > 63 THEN Fail(s) ELSE Emit(s, op \o "_MASK", t.v, 2 * t.n + 1)
        [] OTHER -> Fail(s)

\* fill_ip6() and add_srcip6(): a list of which nothing is left has the length of
\* "me".
AddIp6(s, side, t) ==
  LET op == "O_IP6_" \o side
  IN  CASE t.w = "any" -> s
        [] t.w \in {"me", "me6"} -> Emit(s, op \o "_ME", "", 1)
        [] t.w = "all6" -> IF s.not THEN Fail(s) ELSE Emit(s, op \o "_ME", "", 1)
        [] t.w = "host6" -> Emit(s, op, t.v, 5)
        [] t.w = "net6" -> IF 8 * t.n + 1 > 63 THEN Fail(s) ELSE Emit(s, op \o "_MASK", t.v, 8 * t.n + 1)
        [] OTHER -> Fail(s)

\* add_src(), add_dst(): the family by the protocol and the address.
AddAddr(s, side, t) ==
  IF s.six \/ t.w \in {"me6", "host6", "net6", "all6"}
  THEN AddIp6(s, side, t) ELSE AddIp(s, side, t)

Addresses == {"any", "me", "me6", "host", "net", "set", "table", "host6", "net6", "all6"}

\* add_ports(), fill_newports()
AddPorts(s, side, t) ==
  CASE t.w = "any" -> s
    [] t.w = "ports" -> IF t.n + 1 > 63 THEN Fail(s)
                        ELSE Emit(s, "O_IP_" \o side \o "PORT", t.v, t.n + 1)

\* The options with a word each: their opcodes ...
PacketOptions ==
  "in" :> "O_IN" @@ "out" :> "O_IN" @@ "diverted" :> "O_DIVERTED" @@
  "frag" :> "O_FRAG" @@ "layer2" :> "O_LAYER2" @@ "xmit" :> "O_XMIT" @@
  "recv" :> "O_RECV" @@ "via" :> "O_VIA" @@ "icmptypes" :> "O_ICMPTYPE" @@
  "icmp6types" :> "O_ICMP6TYPE" @@ "ipttl" :> "O_IPTTL" @@
  "ipid" :> "O_IPID" @@ "iplen" :> "O_IPLEN" @@ "ipver" :> "O_IPVER" @@
  "ipprecedence" :> "O_IPPRECEDENCE" @@ "ipoptions" :> "O_IPOPT" @@
  "iptos" :> "O_IPTOS"

SessionOptions ==
  "uid" :> "O_UID" @@ "gid" :> "O_GID" @@ "jail" :> "O_JAIL" @@
  "established" :> "O_ESTAB" @@ "setup" :> "O_TCPFLAGS" @@
  "tcpdatalen" :> "O_TCPDATALEN" @@ "tcpoptions" :> "O_TCPOPTS" @@
  "tcpseq" :> "O_TCPSEQ" @@ "tcpack" :> "O_TCPACK" @@
  "tcpwin" :> "O_TCPWIN" @@ "tcpflags" :> "O_TCPFLAGS" @@
  "keep-state" :> "O_KEEP_STATE" @@ "limit" :> "O_LIMIT"

LateOptions ==
  "mac" :> "O_MACADDR2" @@ "mac-type" :> "O_MAC_TYPE" @@
  "verrevpath" :> "O_VERREVPATH" @@ "versrcreach" :> "O_VERSRCREACH" @@
  "antispoof" :> "O_ANTISPOOF" @@ "ipsec" :> "O_IPSEC" @@ "ip6" :> "O_IP6" @@
  "ip4" :> "O_IP4" @@ "ext6hdr" :> "O_EXT_HDR" @@ "flow-id" :> "O_FLOW6ID" @@
  "//" :> "O_NOP" @@ "tagged" :> "O_TAGGED" @@ "fib" :> "O_FIB" @@
  "sockarg" :> "O_SOCKARG"

\* lookup_key[]: "lookup" and the name of a field are one word here.
lookup_key == {"dst-ip", "src-ip", "dst-port", "src-port", "uid", "jail", "dscp"}
LookupWord(k) == "lookup " \o k
Lookups == {LookupWord(k) : k \in lookup_key}
KeyOf == [w \in Lookups |-> CHOOSE k \in lookup_key : LookupWord(k) = w]

OptionOp == PacketOptions @@ SessionOptions @@ LateOptions @@ [w \in Lookups |-> "O_IP_DST_LOOKUP"]

\* ... and the lengths they fill in; of a list of one value only the value.
RangeWords == {"ipttl", "ipid", "iplen", "tcpdatalen", "tagged"}
OptionLen(w, n) ==
  CASE w \in RangeWords -> IF n = 1 THEN 1 ELSE n + 1
    [] w \in {"icmptypes", "uid", "gid", "jail", "tcpseq", "tcpack", "limit", "//"} -> 2
    [] w \in {"xmit", "recv", "via"} -> 6
    [] w = "icmp6types" -> 8
    [] w = "mac" -> 7
    [] w = "mac-type" -> n + 1
    [] w = "flow-id" -> n + 2
    [] w \in Lookups -> 3
    [] OTHER -> 1

\* The options that take an address, a protocol or ports.
Introducers == {"proto", "src-ip", "dst-ip", "src-ip6", "dst-ip6", "src-port", "dst-port"}

Argument(s, t) ==
  CASE s.at = "proto" -> AddProto(s, t.v)
    [] s.at = "src-ip" -> AddIp(s, "SRC", t)
    [] s.at = "dst-ip" -> AddIp(s, "DST", t)
    [] s.at = "src-ip6" -> AddIp6(s, "SRC", t)
    [] s.at = "dst-ip6" -> AddIp6(s, "DST", t)
    [] s.at \in {"src-port", "dst-port"} -> AddPorts(s, IF s.at = "src-port" THEN "SRC" ELSE "DST", t)

\* The cases of TOK_LOOKUP and TOK_FLOWID: the last protocol that was read must be ip6.
Lookup(s, t) ==
  LET e == Emit(s, "O_IP_DST_LOOKUP", t.v, OptionLen(t.w, 1))
  IN  [e EXCEPT !.cmd[Len(e.cmd)].key = KeyOf[t.w]]

FlowId(s, t) ==
  IF ~s.six THEN Fail(s) ELSE Emit(s, "O_FLOW6ID", t.v, OptionLen("flow-id", t.n))

\* The loop over the options.
Forgetful == {"tcpseq", "tcpack", "limit", "icmp6types"}

States == {"keep-state", "limit"}

Options(s, t) ==
  LET toggled == IF t.w = "out" THEN [s EXCEPT !.not = ~@] ELSE s
      len == OptionLen(t.w, t.n)
      plain == IF t.w \notin DOMAIN OptionOp THEN Fail(s)
               ELSE IF t.w \in Lookups THEN Lookup(s, t)
               ELSE IF t.w = "flow-id" THEN FlowId(s, t)
               ELSE IF t.w \in Forgetful THEN EmitPlain(s, OptionOp[t.w], t.v, len)
               ELSE Emit(toggled, OptionOp[t.w], t.v, len)
  IN  CASE s.at \in Introducers -> [Argument(s, t) EXCEPT !.at = "item"]
        [] s.at \notin Introducers /\ t.w \in Introducers -> [s EXCEPT !.at = t.w]
        [] s.at \notin Introducers /\ t.w = "not" -> Negate(s)
        [] s.at \notin Introducers /\ t.w = "or" -> Alternative(s)
        [] s.at \notin Introducers /\ t.w = "{" -> IF s.open THEN Fail(s) ELSE [s EXCEPT !.open = TRUE]
        [] s.at \notin Introducers /\ t.w = "}" -> IF s.open THEN Close(s) ELSE Fail(s)
        [] s.at \notin Introducers /\ t.w \in States ->
             IF s.open \/ s.state THEN Fail(s) ELSE [plain EXCEPT !.state = TRUE]
        [] OTHER -> plain

-----------------------------------------------------------------------------
\* One word of proto, from or to, with OR_START before and OR_BLOCK after an item.
Items(s, t, isitem, added, after) ==
  CASE t.w = "{" /\ s.at = "start" /\ ~s.open -> [s EXCEPT !.open = TRUE, !.prev = 0, !.at = "item"]
    [] t.w = "not" /\ s.at # "after" -> [Negate(s) EXCEPT !.at = "item"]
    [] isitem /\ s.at # "after" -> [added EXCEPT !.at = "after"]
    [] t.w = "or" /\ s.at = "after" -> Alternative(s)
    [] t.w = "}" /\ s.at = "after" /\ s.open -> [Close(s) EXCEPT !.sec = after, !.at = "start"]
    [] OTHER -> Fail(s)

Enough(s, word) == s.at = "after" /\ ~s.open /\ word \notin {"or", "}"}

\* read_options:
ReadOptions(s, t) ==
  Options([s EXCEPT !.sec = "opt", !.at = "item", !.pad = s.cmd = << >>, !.prev = 0], t)

\* The words of options that get_proto takes for a protocol.
ProtoWords == {"protocol", "ip4", "ip6"}

\* The section "read" is after the ports of the destination: the next word, if there
\* is one, comes to read_options.
Parsed(s, t) ==
  LET proto == Items(s, t, t.w \in ProtoWords, AddProto(s, IF t.w = "protocol" THEN t.v ELSE t.w), "from")
      src == Items(s, t, t.w \in Addresses, AddAddr(s, "SRC", t), "sport")
      dst == Items(s, t, t.w \in Addresses, AddAddr(s, "DST", t), "dport")
      ports(side, next) ==
        IF t.w = "not" THEN Negate(s)
        ELSE [AddPorts(s, side, t) EXCEPT !.sec = next]
  IN  CASE s.err -> s
        [] ~s.err /\ s.sec = "proto" ->
             IF t.w = "from" /\ Enough(s, t.w) THEN [s EXCEPT !.sec = "src", !.at = "start"]
             ELSE IF t.w \in ProtoWords \cup {"not", "{", "or", "}"} THEN proto
             ELSE IF s.cmd = << >> /\ s.at # "after" THEN ReadOptions(s, t) ELSE Fail(s)
        [] ~s.err /\ s.sec = "from" ->
             IF t.w = "from" THEN [s EXCEPT !.sec = "src", !.at = "start"] ELSE Fail(s)
        [] ~s.err /\ s.sec \in {"src", "sport"} /\ t.w = "to" /\ (s.sec = "sport" \/ Enough(s, t.w)) ->
             [s EXCEPT !.sec = "dst", !.at = "start"]
        [] ~s.err /\ s.sec \in {"src", "sport"} /\ t.w # "to" ->
             IF s.sec = "src" /\ ~Enough(s, t.w) THEN src
             ELSE IF t.w \in {"not", "any", "ports"} THEN ports("SRC", "to") ELSE Fail(s)
        [] ~s.err /\ s.sec = "to" ->
             IF t.w = "to" THEN [s EXCEPT !.sec = "dst", !.at = "start"] ELSE Fail(s)
        [] ~s.err /\ s.sec \in {"dst", "dport"} ->
             IF s.sec = "dst" /\ ~Enough(s, t.w) THEN dst
             ELSE IF t.w = "not" /\ ~s.not THEN [Negate(s) EXCEPT !.sec = "dport"]
             ELSE IF t.w \in {"any", "ports"} THEN ports("DST", "read")
             ELSE ReadOptions(s, t)
        [] ~s.err /\ s.sec = "read" -> ReadOptions(s, t)
        [] OTHER -> Options(s, t)

\* The instructions in their order: probability, probe, patterns, state, log, altq
\* and tag, action.
StateOps == {"O_KEEP_STATE", "O_LIMIT"}

Patterns_mutantInPlace(c) == c.cmd

Patterns(c) == SelectSeq(c.cmd, LAMBDA i : i.op \notin StateOps)
                 \o SelectSeq(c.cmd, LAMBDA i : i.op \in StateOps)

Params(t) ==
  (IF "log" \in t.params THEN <<Cmd("O_LOG", "", 3)>> ELSE << >>)
    \o (IF "altq" \in t.params THEN <<Cmd("O_ALTQ", "", 2)>> ELSE << >>)
    \o (IF "tag" \in t.params THEN <<Cmd("O_TAG", "", 1)>>
        ELSE IF "untag" \in t.params THEN <<[Cmd("O_TAG", "", 1) EXCEPT !.not = TRUE]>> ELSE << >>)

ActionOf ==
  [allow |-> Cmd("O_ACCEPT", "", 1), deny |-> Cmd("O_DENY", "", 1),
   reject |-> Cmd("O_REJECT", "host", 1), reset |-> Cmd("O_REJECT", "rst", 1),
   reset6 |-> Cmd("O_UNREACH6", "rst", 1), count |-> Cmd("O_COUNT", "", 1),
   nat |-> Cmd("O_NAT", "", 4), queue |-> Cmd("O_QUEUE", "", 1), pipe |-> Cmd("O_PIPE", "", 1),
   skipto |-> Cmd("O_SKIPTO", "", 1), netgraph |-> Cmd("O_NETGRAPH", "", 1),
   ngtee |-> Cmd("O_NGTEE", "", 1), divert |-> Cmd("O_DIVERT", "", 1), tee |-> Cmd("O_TEE", "", 1),
   call |-> Cmd("O_CALLRETURN", "", 1), fwd |-> Cmd("O_FORWARD_IP", "", 5),
   setfib |-> Cmd("O_SETFIB", "", 1), reass |-> Cmd("O_REASS", "", 1),
   checkstate |-> Cmd("O_CHECK_STATE", "", 1)]

\* ipfw_add().  After check-state nothing is read.
Compile(t) ==
  LET after[i \in 0..Len(t.body)] ==
        IF i = 0 \/ t.act = "checkstate" THEN Compiler ELSE Parsed(after[i - 1], t.body[i])
      c == after[Len(t.body)]
      \* a not before words that are not there ends up nowhere
      before == (IF t.prob THEN <<Cmd("O_PROB", "", 2)>> ELSE << >>)
                  \o (IF c.state THEN <<Cmd("O_PROBE_STATE", "", 1)>> ELSE << >>)
                  \o Patterns(c)
  IN  [cmd |-> before \o Params(t) \o <<ActionOf[t.act]>>, act |-> Len(before), pad |-> c.pad,
       err |-> c.err \/ c.at \in Introducers
                 \/ (t.act # "checkstate" /\ c.sec \notin {"dport", "read", "opt"}
                       /\ ~(c.sec = "dst" /\ Enough(c, "")))]
=============================================================================
