------------------------------- MODULE FwShow -------------------------------
(***************************************************************************)
(* show_ipfw(): the words that "ipfw list" prints for a rule.  They are    *)
(* chosen by what has been printed so far, the flags HAVE_*: as long as    *)
(* there is no option, an address, a port or a protocol stands where the   *)
(* old form of a rule has it, and what is missing is printed as "any".     *)
(***************************************************************************)
EXTENDS FwCompile

HAVE_ALL == {"PROTO", "SRCIP", "DSTIP", "IP"}
Token(w, v, n) == [w |-> w, v |-> v, n |-> n]
Say(s, ws) == [s EXCEPT !.words = @ \o ws]

show_prerequisites(s, want) ==
  LET have == s.have \cup (IF "IP" \in s.have THEN {"OPTIONS"} ELSE {})
      missing(x) == "OPTIONS" \notin have /\ x \in want \ have
      family == IF "PROTO4" \in have THEN "ip4" ELSE IF "PROTO6" \in have THEN "ip6" ELSE "ip"
  IN  [s EXCEPT
        !.words = @ \o (IF missing("PROTO") THEN <<Token("protocol", family, 1)>> ELSE << >>)
                    \o (IF missing("SRCIP") THEN <<Word("from"), Word("any")>> ELSE << >>)
                    \o (IF missing("DSTIP") THEN <<Word("to"), Word("any")>> ELSE << >>),
        !.have = have \cup want]

Brace_mutantEach(s, c) == IF c.or THEN <<Word("{")>> ELSE << >>

Brace(s, c) == IF c.or /\ ~s.block THEN <<Word("{")>> ELSE << >>
NotWord(c) == IF c.not THEN <<Word("not")>> ELSE << >>
Named(s, w) == IF "OPTIONS" \in s.have THEN <<Word(w)>> ELSE << >>

\* print_ip(), print_ip6()
Ends == {"SRC", "DST"}
AddressWord(c, side) ==
  LET op == "O_IP_" \o side
      six == "O_IP6_" \o side
  IN  CASE c.op = op -> Token("host", c.arg, 1)
        [] c.op = op \o "_MASK" -> Token("net", c.arg, (c.len - 1) \div 2)
        [] c.op = op \o "_SET" -> Token("set", c.arg, c.len - 2)
        [] c.op = op \o "_LOOKUP" -> Token(IF c.len = 3 THEN LookupWord(c.key) ELSE "table", c.arg, 1)
        [] c.op = op \o "_ME" -> Word("me")
        [] c.op = six -> Token("host6", c.arg, 1)
        [] c.op = six \o "_MASK" -> Token("net6", c.arg, (c.len - 1) \div 8)
        [] c.op = six \o "_ME" -> Word("me6")

Family(side) ==
  {"O_IP_" \o side \o x : x \in {"", "_MASK", "_SET", "_LOOKUP", "_ME"}}
Family6(side) == {"O_IP6_" \o side \o x : x \in {"", "_MASK", "_ME"}}

ShowAddress(s, c, side) ==
  LET want == IF side = "SRC" THEN {"PROTO"} ELSE {"PROTO", "SRCIP"}
      have == side \o "IP"
      e == show_prerequisites(s, want)
      from == IF have \in e.have THEN << >>
              ELSE <<Word(IF side = "SRC" THEN "from" ELSE "to")>>
      name == (IF side = "SRC" THEN "src-ip" ELSE "dst-ip") \o IF c.op \in Family6(side) THEN "6" ELSE ""
      a == AddressWord(c, side)
  IN  [Say(e, from \o Brace(s, c) \o NotWord(c)
              \o (IF a.w \in Lookups THEN << >> ELSE Named(e, name)) \o <<a>>) EXCEPT !.have = @ \cup {have}]

ShowPorts(s, c, side) ==
  LET d == IF side = "DST" THEN show_prerequisites(s, HAVE_ALL) ELSE s
      e == show_prerequisites([d EXCEPT !.have = @ \cup IF "DSTIP" \in @ THEN {"IP"} ELSE {}],
                              {"PROTO", "SRCIP"})
  IN  Say(e, Brace(s, c) \o NotWord(c) \o Named(e, IF side = "SRC" THEN "src-port" ELSE "dst-port")
             \o <<Token("ports", c.arg, c.len - 1)>>)

\* The brace and the "not" come before the words that are missing.
ShowProto(s, c) ==
  LET b == Say(s, Brace(s, c) \o NotWord(c))
      e == IF {"PROTO4", "PROTO6"} \cap s.have # {} /\ "PROTO" \notin s.have
           THEN show_prerequisites(b, HAVE_ALL \cup {"OPTIONS"}) ELSE b
  IN  [Say(e, Named(e, "proto") \o <<Token("protocol", c.arg, 1)>>) EXCEPT !.have = @ \cup {"PROTO"}]

\* The words of an option are the one that is read for it, but for two: "icmp6types"
\* is printed with its family, and an extension header in words that ipfw does not
\* read (print_ext6hdr()).
OptionWords(c) ==
  LET w == CHOOSE w \in DOMAIN OptionOp \ {"setup", "out"} : OptionOp[w] = c.op
      lists == {"O_IPTTL", "O_IPID", "O_IPLEN", "O_TCPDATALEN", "O_TAGGED", "O_MAC_TYPE"}
      length == CASE c.op \in lists -> IF c.len = 1 THEN 1 ELSE c.len - 1
                  [] c.op = "O_FLOW6ID" -> c.len - 2
                  [] OTHER -> 1
  IN  CASE c.op = "O_IN" -> <<Word(IF c.not THEN "out" ELSE "in")>>
        [] c.op = "O_ICMP6TYPE" -> <<Word("ip6"), Token(w, c.arg, length)>>
        [] c.op = "O_EXT_HDR" -> <<Token("extension header:", c.arg, length)>>
        [] OTHER -> <<Token(w, c.arg, length)>>

ShowOption(s, c) ==
  IF ~c.or /\ ~c.not /\ ((c.op = "O_IP6" /\ "PROTO6" \in s.have) \/ (c.op = "O_IP4" /\ "PROTO4" \in s.have))
  THEN s
  ELSE LET e == show_prerequisites(s, HAVE_ALL \cup {"OPTIONS"})
           head == Brace(s, c) \o (IF c.op = "O_IN" THEN << >> ELSE NotWord(c))
       IN  IF c.op = "O_NOP" THEN [Say(e, head) EXCEPT !.comment = OptionWords(c)]
           ELSE Say(e, head \o OptionWords(c))

\* A flow label has a case of its own, without what is missing, brace and "not".
ShowFlowId(s, c) == [Say(s, OptionWords(c)) EXCEPT !.have = @ \cup {"OPTIONS"}]

\* One instruction of the body, and the end of a block.
ShowInsn(s, c) ==
  LET e == show_prerequisites(s, {})
      shown == CASE c.op \in {"O_PROB", "O_PROBE_STATE"} -> e
                 [] c.op \in Family("SRC") \cup Family6("SRC") -> ShowAddress(e, c, "SRC")
                 [] c.op \in Family("DST") \cup Family6("DST") -> ShowAddress(e, c, "DST")
                 [] c.op = "O_IP_SRCPORT" -> ShowPorts(e, c, "SRC")
                 [] c.op = "O_IP_DSTPORT" -> ShowPorts(e, c, "DST")
                 [] c.op = "O_PROTO" -> ShowProto(e, c)
                 [] c.op = "O_FLOW6ID" -> ShowFlowId(e, c)
                 [] OTHER -> ShowOption(e, c)
  IN  IF c.or THEN [Say(shown, <<Word("or")>>) EXCEPT !.block = TRUE]
      ELSE IF s.block THEN [Say(shown, <<Word("}")>>) EXCEPT !.block = FALSE]
      ELSE shown

\* The first family that stands alone is printed as the protocol.
FamilyOf(body) ==
  LET alone == SelectSeq(body, LAMBDA c : ~c.or /\ ~c.not /\ c.op \in {"O_IP4", "O_IP6"})
  IN  IF alone = << >> THEN {} ELSE {IF alone[1].op = "O_IP4" THEN "PROTO4" ELSE "PROTO6"}

Show(rule) ==
  LET body == SubSeq(rule.cmd, 1, rule.act)
      tail == SubSeq(rule.cmd, rule.act + 1, Len(rule.cmd))
      op(i) == i.op
      acts == {a \in DOMAIN ActionOf : \E i \in DOMAIN tail :
                 ActionOf[a].op = tail[i].op /\ ActionOf[a].arg = tail[i].arg}
      act == CHOOSE a \in acts : TRUE
      params == {CASE c.op = "O_LOG" -> "log" [] c.op = "O_ALTQ" -> "altq"
                   [] c.op = "O_TAG" -> IF c.not THEN "untag" ELSE "tag"
                   : c \in {c \in Range(tail) : c.op \in {"O_LOG", "O_ALTQ", "O_TAG"}}}
      start == [have |-> (IF act = "checkstate" THEN HAVE_ALL ELSE {}) \cup FamilyOf(body),
                words |-> << >>, block |-> FALSE, comment |-> << >>]
      pad == IF ~rule.pad THEN start
             ELSE [Say(show_prerequisites(start, {"PROTO"}),
                       <<Word("from"), Word("any"), Word("to"), Word("any")>>)
                     EXCEPT !.have = @ \cup HAVE_ALL \cup {"OPTIONS"}]
      after[i \in 0..Len(body)] == IF i = 0 THEN pad ELSE ShowInsn(after[i - 1], body[i])
      shown == show_prerequisites(after[Len(body)], HAVE_ALL)
  IN  [prob |-> body # << >> /\ body[1].op = "O_PROB", act |-> act, params |-> params,
       body |-> shown.words \o shown.comment]
=============================================================================
