------------------------------- MODULE FwLang -------------------------------
(***************************************************************************)
(* The life of a rule: a text is written, ipfw compiles it and sends it,   *)
(* the kernel takes or refuses it, and ipfw prints what the kernel has.    *)
(*                                                                         *)
(* A text is [prob, act, params, proto, src, sport, dst, dport, opts].     *)
(* Each part is a block, a sequence of alternatives [not, intro, t], opts  *)
(* a sequence of blocks.  Without a protocol the text is only options.     *)
(***************************************************************************)
EXTENDS FwRule, FwShow

CONSTANTS
  Texts,     \* the texts that may be written
  Packets    \* the packets that a rule is tried on

ASSUME LangAssumption == Texts # {} /\ IsFiniteSet(Texts) /\ IsFiniteSet(Packets)

VARIABLES
  pc,        \* what has been done with the text
  text,      \* the text
  rule,      \* what ipfw made of it
  listed     \* what is printed for it

vars == <<pc, text, rule, listed>>

-----------------------------------------------------------------------------
\* The words of a text, in the form that ipfw_add() takes.
ItemWords(i) ==
  (IF i.not THEN <<Word("not")>> ELSE << >>)
    \o (IF i.intro = "" THEN << >> ELSE <<Word(i.intro)>>) \o <<i.t>>

BlockWords(b) ==
  IF Len(b) <= 1 THEN FlattenSeq([i \in DOMAIN b |-> ItemWords(b[i])])
  ELSE <<Word("{")>>
         \o FlattenSeq([i \in DOMAIN b |->
              (IF i = 1 THEN << >> ELSE <<Word("or")>>) \o ItemWords(b[i])])
         \o <<Word("}")>>

Body(t) ==
  (IF t.proto = << >> THEN << >>
   ELSE BlockWords(t.proto) \o <<Word("from")>> \o BlockWords(t.src) \o BlockWords(t.sport)
          \o <<Word("to")>> \o BlockWords(t.dst) \o BlockWords(t.dport))
    \o FlattenSeq([i \in DOMAIN t.opts |-> BlockWords(t.opts[i])])

Typed(t) == [prob |-> t.prob, act |-> t.act, params |-> t.params, body |-> Body(t)]

-----------------------------------------------------------------------------
\* What a text says of a packet by ipfw.8, RULE BODY and RULE OPTIONS.  Ports, flags
\* and what belongs to the process at one end are those of the packet's protocol, "for
\* protocols which support" them, and only fragments but the first have none.
NotLater(p) == p.ver # 0 /\ p.frag # "later"
Ports(p) == NotLater(p) /\ p.proto \in {"tcp", "udp"}
Tcp(p) == NotLater(p) /\ p.proto = "tcp"

AddressSays(t, a) ==
  CASE t.w \in {"me", "me6"} -> a \in Mine
    [] t.w \in {"host", "host6"} -> a = t.v
    [] t.w \in {"net", "set", "table", "net6"} \cup Lookups -> a \in Nets[t.v]

ProtocolSays(v, p) ==
  CASE v = "ip4" -> p.ver = 4
    [] v = "ip6" -> p.ver = 6
    [] v \notin {"ip4", "ip6"} -> v = "ip" \/ (p.ver # 0 /\ p.proto = v)

TcpWords == {"setup", "established", "tcpflags", "tcpoptions", "tcpseq", "tcpack", "tcpwin",
             "tcpdatalen"}

\* The packets that an option is about, of which it then compares a field.
About(w, p) ==
  CASE w \in TcpWords -> Tcp(p)
    [] w = "icmptypes" -> NotLater(p) /\ p.proto = "icmp"
    [] w = "icmp6types" -> NotLater(p) /\ p.ver = 6 /\ p.proto = "icmp6"
    [] w \in {"ipttl", "ipid", "ipprecedence", "ipoptions", "iptos"} -> p.ver = 4
    [] w \in {"iplen", "ipver"} -> p.ver # 0
    [] w \in {"ext6hdr", "flow-id"} -> p.ver = 6
    [] w \in {"uid", "gid", "jail"} -> Ports(p)
    [] w \in {"mac", "mac-type"} -> p.eth
    [] OTHER -> TRUE

OptionSays(w, p) ==
  CASE w = "in" -> ~p.out
    [] w = "out" -> p.out
    [] w = "frag" -> p.ver # 0 /\ p.frag = "later"
    [] w = "layer2" -> p.eth
    [] w \in {"ip4", "ip6"} -> ProtocolSays(w, p)
    [] w = "verrevpath" -> p.out \/ "O_VERREVPATH" \in p.yes
    [] w = "versrcreach" -> p.out \/ (p.ver # 0 /\ "O_VERSRCREACH" \in p.yes)
    [] w = "antispoof" -> p.out \/ p.ver = 0 \/ "O_ANTISPOOF" \in p.yes
    [] w \in {"keep-state", "limit", "//"} -> TRUE
    [] OTHER -> About(w, p) /\ OptionOp[w] \in p.yes

\* A lookup of a field that the packet has.
LookupSays(k, p) == (IF k \in SessionKeys THEN Ports(p) ELSE p.ver # 0) /\ k \in p.yes

\* "src-ip" and "dst-ip" are of IPv4, "src-ip6" and "dst-ip6" of IPv6.
FromWords == {"src-ip", "src-ip6", "src-port"}
AddressWords == {"me", "me6", "host", "host6", "net", "net6", "set", "table"}
ItemSays(i, a, p) ==
  LET from == IF i.intro # "" THEN i.intro \in FromWords ELSE a = "SRC"
      address(src) == p.ver # 0 /\ AddressSays(i.t, IF src THEN p.src ELSE p.dst)
  IN  CASE i.t.w = "any" -> TRUE
        [] i.t.w = "all6" -> p.ver = 6
        [] i.t.w \in AddressWords ->
             /\ i.intro \in {"src-ip", "dst-ip"} => p.ver = 4
             /\ i.t.w = "me6" \/ i.intro \in {"src-ip6", "dst-ip6"} => p.ver = 6
             /\ address(from)
        [] i.t.w \in Lookups /\ KeyOf[i.t.w] \in FieldKeys -> LookupSays(KeyOf[i.t.w], p)
        [] i.t.w \in Lookups /\ KeyOf[i.t.w] \notin FieldKeys -> address(KeyOf[i.t.w] = "src-ip")
        [] i.t.w = "ports" -> Ports(p) /\ (IF from THEN "O_IP_SRCPORT" ELSE "O_IP_DSTPORT") \in p.yes
        [] i.t.w = "protocol" -> ProtocolSays(i.t.v, p)
        [] OTHER -> OptionSays(i.t.w, p)

BlockSays(b, a, p) == b = << >> \/ \E i \in DOMAIN b : ItemSays(b[i], a, p) # b[i].not

Says(t, p) ==
  /\ t.prob => "O_PROB" \in p.yes
  /\ BlockSays(t.proto, "", p)
  /\ BlockSays(t.src, "SRC", p) /\ BlockSays(t.sport, "SRC", p)
  /\ BlockSays(t.dst, "DST", p) /\ BlockSays(t.dport, "DST", p)
  /\ \A i \in DOMAIN t.opts : BlockSays(t.opts[i], "", p)

\* What the rule must do: what it says if all of it holds, and else nothing.  Fragments
\* are reassembled, the others go on.
StateOf(t) ==
  {OptionOp[t.opts[i][1].t.w] : i \in {i \in DOMAIN t.opts : t.opts[i][1].t.w \in States}}

ParamOf(x) ==
  CASE x = "log" -> "O_LOG" [] x = "altq" -> "O_ALTQ" [] x \in {"tag", "untag"} -> x

HeaderOf == [p \in Packets |-> Parse(p)]

Outcome(r, p) == Run(r, HeaderOf[p], p)

Meaning(t, p) ==
  LET op == ActionOf[t.act].op
      effects == StateOf(t) \cup {ParamOf(x) : x \in t.params}
  IN  IF HeaderOf[p].drop THEN [mode |-> "O_DENY", did |-> {}]
      ELSE IF ~Says(t, p) THEN [mode |-> "next", did |-> {}]
      ELSE CASE op \in Onward -> [mode |-> "next", did |-> effects \cup {op}]
             [] op = "O_REASS" ->
                  [mode |-> IF p.ver # 0 /\ p.frag # "no" THEN op ELSE "next", did |-> effects]
             [] op \notin Onward \cup {"O_REASS"} ->
                  [mode |-> IF op \in Layer3 /\ p.eth THEN "next" ELSE op, did |-> effects]

-----------------------------------------------------------------------------
Nothing == [prob |-> FALSE, act |-> "allow", params |-> {}, body |-> << >>]
NoRule == Compile(Nothing)
NoText == CHOOSE t \in Texts : TRUE

Init == pc = "idle" /\ text = NoText /\ rule = NoRule /\ listed = Nothing

Write == /\ pc = "idle"
         /\ \E t \in Texts : text' = t
         /\ pc' = "written" /\ UNCHANGED <<rule, listed>>

\* ipfw_add(), which exits with a usage message or sends the rule.
IpfwAdd == /\ pc = "written"
           /\ rule' = Compile(Typed(text))
           /\ pc' = IF rule'.err THEN "usage" ELSE "sent"
           /\ UNCHANGED <<text, listed>>

\* IP_FW_ADD
KernelAdd == /\ pc = "sent"
             /\ pc' = IF Accepted(rule) THEN "installed" ELSE "refused"
             /\ UNCHANGED <<text, rule, listed>>

\* ipfw list
List == /\ pc = "installed"
        /\ listed' = Show(rule)
        /\ pc' = "listed"
        /\ UNCHANGED <<text, rule>>

\* The next rule.
Forget == /\ pc \in {"usage", "refused", "listed"}
          /\ pc' = "idle" /\ text' = NoText /\ rule' = NoRule /\ listed' = Nothing

Next == Write \/ IpfwAdd \/ KernelAdd \/ List \/ Forget
Spec == Init /\ [][Next]_vars

-----------------------------------------------------------------------------
\* The texts that ipfw takes for something else.  A word that adds no instruction
\* leaves a "not", or the "or" before it, to another one; ::/0 becomes "me6"; some
\* options lose their "not", and a state is installed before its "not" is seen; the
\* last protocol decides the family of "me"; after check-state nothing is read.
Blocks(t) == {t.proto, t.src, t.sport, t.dst, t.dport} \cup Range(t.opts)
Adds(i) == i.t.w # "any" /\ ~(i.t.w = "protocol" /\ i.t.v = "ip")
Careless(t) ==
  \/ \E b \in Blocks(t) : \E i \in DOMAIN b :
       \/ ~Adds(b[i]) /\ (b[i].not \/ Len(b) > 1)
       \/ b[i].not /\ b[i].t.w \in Forgetful \cup States
       \/ b[i].t.w = "all6"
  \/ Len(t.proto) > 1 /\ t.proto[Len(t.proto)].t.v = "ip6" /\ \E i \in Range(t.src \o t.dst) : i.t.w = "me"
  \/ t.act = "checkstate" /\ Body(t) # << >>

\* The packets to which the kernel does something else than ipfw.8 says of a text.  The
\* offset of an IPv6 fragment includes the flag that more follow, so that the first is
\* taken for a later one (ip_fw2.c:1006); some options look at IPv4 only; "me" as an
\* IPv4 address is found in both families; versrcreach looks up a route also for an
\* outgoing packet; reass takes any header for one of IPv4; and a rule that gives a tag
\* does not apply to a packet that has it.
ItemsOf(t) == UNION {Range(b) : b \in Blocks(t)}
Used(t) == {i.t.w : i \in ItemsOf(t)}
NotFirst6 == TcpWords \cup {"frag", "ports", "icmp6types"}
Only4 == {"iplen", "ipver", "tcpdatalen", "uid", "gid", "jail"} \cup {LookupWord(k) : k \in FieldKeys}
Departs(t, p) ==
  \/ p.ver = 6 /\ p.frag = "first" /\ Used(t) \cap NotFirst6 # {}
  \/ p.ver = 6 /\ Used(t) \cap Only4 # {}
  \/ p.ver = 6 /\ \E i \in ItemsOf(t) : i.t.w = "me" /\ i.intro \in {"src-ip", "dst-ip"}
  \/ p.out /\ "versrcreach" \in Used(t)
  \/ p.ver # 4 /\ t.act = "reass"
  \/ "tag" \in t.params /\ "O_TAG" \in p.yes

\* An installed rule does what its text says by ipfw.8, to every packet but those.
CompiledMeansText ==
  pc \in {"installed", "listed"} /\ ~Careless(text) =>
    \A p \in Packets : Departs(text, p) \/ Outcome(rule, p) = Meaning(text, p)

\* The texts for which ipfw makes instructions that the kernel does not know, or that
\* are longer than it allows: the longest lists that ipfw makes have 62 words.
Refusable(t) ==
  \/ t.act = "call"
  \/ \E b \in Blocks(t) : \E i \in Range(b) :
       \/ i.t.w = "sockarg"
       \/ i.t.w \in RangeWords \cup {"ports", "mac-type"} /\ i.t.n > 30
       \/ i.t.w = "net" /\ i.t.n > 15

\* The kernel takes every rule that ipfw makes, but for those.
KernelAccepts ==
  /\ pc = "refused" => Refusable(text)
  /\ pc = "installed" => ~Refusable(text)

\* The upper protocols of which an instruction reads the header.
Reads(c) ==
  CASE c.op \in PortOps \cup UidOps \/ c.key \in SessionKeys -> {"tcp", "udp"}
    [] c.op \in TcpOps -> {"tcp"}
    [] c.op = "O_ICMPTYPE" -> {"icmp"}
    [] c.op = "O_ICMP6TYPE" -> {"icmp6"}
    [] OTHER -> {}

\* An instruction that reads a header is guarded by a test that the header is there,
\* in the packet and in the part of it that has been pulled up.
ReadsOnlyParsed ==
  \A i \in DOMAIN rule.cmd : \A p \in Packets :
    LET h == HeaderOf[p]
        c == rule.cmd[i]
    IN  ~h.drop /\ Guard(c, h) =>
          /\ Reads(c) # {} => h.ulp \in Reads(c)
          /\ c.op \in V4Ops => h.v4

\* The texts whose rule is printed as another.  After words of the old form an
\* address, a lookup or a protocol that is an option is printed as a second one
\* there; a family at the end of a block is printed as the protocol, and one in the
\* options before a protocol that is not, after its "not".  The word that is printed
\* before icmp6types is an item of its own to an "or"; extension headers are
\* printed in words that ipfw does not know; a flow label loses its "not" and the brace
\* before it, and the addresses that are "any" are not printed before it.
IsFamily(i) == ~i.not /\ {i.t.w, i.t.v} \cap {"ip4", "ip6"} # {}
Unlistable(t) ==
  \/ \E b \in Blocks(t) : Len(b) > 1 /\ IsFamily(b[Len(b)])
  \/ \E i \in Range(t.proto) : i.not /\ \E b \in Range(t.opts) : IsFamily(b[1])
  \/ t.proto # << >> /\ LET items == FlattenSeq(t.opts) IN \E n \in DOMAIN items :
       /\ \A k \in 1..n : items[k].intro # "" \/ items[k].t.w \in Lookups
       /\ items[n].intro # "dst-port"
  \/ "ext6hdr" \in Used(t)
  \/ \E b \in Range(t.opts) : \E i \in DOMAIN b :
       \/ b[i].t.w = "icmp6types" /\ Len(b) > 1
       \/ b[i].t.w = "flow-id" /\ (b[i].not \/ (i = 1 /\ Len(b) > 1))
  \/ t.proto # << >> /\ (~\E i \in Range(t.dst \o t.dport) : Adds(i)) /\ \E n \in DOMAIN t.opts :
       t.opts[n][1].t.w = "flow-id" /\ \A m \in 1..(n - 1) : Len(t.opts[m]) = 1 /\ IsFamily(t.opts[m][1])

\* What is listed for a rule is the text of a rule that does the same.
ListingMeansRule ==
  pc = "listed" /\ ~Careless(text) /\ ~Unlistable(text) =>
    LET again == Compile(listed)
    IN  ~again.err /\ \A p \in Packets : Outcome(again, p) = Outcome(rule, p)

=============================================================================
