------------------------------ MODULE MCFwLang ------------------------------
(* Texts and packets for TLC: every word of the language once, alone and   *)
(* with "not", and the combinations of those that depend on one another.   *)
EXTENDS FwLang

MCMine == {"a", "a6"}
MCNets == [n |-> {"a", "b"}, n6 |-> {"b6"}]

It(w, v, n) == [not |-> FALSE, intro |-> "", t |-> Token(w, v, n)]
Not(i) == [i EXCEPT !.not = TRUE]
As(intro, i) == [i EXCEPT !.intro = intro]
Pr(v) == It("protocol", v, 1)
Whole == It("any", "", 1)
A == It("host", "a", 1)
B == It("host", "b", 1)
Me == It("me", "", 1)
N(n) == It("net", "n", n)
A6 == It("host6", "a6", 1)
N6 == It("net6", "n6", 1)
P(n) == It("ports", "p", n)
O(w) == It(w, "", 1)

Plain == [prob |-> FALSE, act |-> "deny", params |-> {}, proto |-> <<Pr("ip")>>, src |-> <<Whole>>,
          sport |-> << >>, dst |-> <<Whole>>, dport |-> << >>, opts |-> << >>]
Old(proto, src, dst) == [Plain EXCEPT !.proto = proto, !.src = src, !.dst = dst]
New(opts) == [Plain EXCEPT !.proto = << >>, !.src = << >>, !.dst = << >>, !.opts = opts]
With(t, opts) == [t EXCEPT !.opts = opts]

Protos == {<<Pr("ip")>>, <<Pr("tcp")>>, <<Not(Pr("tcp"))>>, <<Pr("tcp"), Pr("udp")>>, <<Pr("ip4")>>,
           <<Pr("ip6")>>, <<Not(Pr("ip"))>>, <<Pr("tcp"), Pr("ip6")>>}
Addrs == {<<Whole>>, <<Me>>, <<A>>, <<Not(A)>>, <<N(15)>>, <<N(16)>>, <<A, B>>, <<Not(A), B>>, <<A, Whole>>,
          <<Not(Whole)>>, <<A6>>, <<N6>>, <<It("table", "n", 1)>>, <<It("set", "n", 1)>>, <<It("me6", "", 1)>>,
          <<It("all6", "", 1)>>}
Headers == {Old(p, s, <<Whole>>) : p \in Protos, s \in Addrs} \cup {Old(p, <<Whole>>, d) : p \in Protos, d \in Addrs}
             \cup {Old(<<Pr("tcp")>>, s, d) : s \in Addrs, d \in Addrs}
PortLists == {<< >>, <<P(2)>>, <<Not(P(2))>>, <<P(30)>>, <<P(31)>>, <<Whole>>}
WithPorts == {[Plain EXCEPT !.proto = <<Pr("tcp")>>, !.src = s, !.sport = sp, !.dport = dp] :
                s \in {<<Whole>>, <<A>>}, sp \in PortLists, dp \in PortLists}
Words == DOMAIN OptionOp \ Lookups
LookupItems == {It(w, "n", 1) : w \in Lookups}
Prefixed == {As("proto", Pr("tcp")), As("src-ip", A), As("dst-ip", Me), As("src-ip6", A6), As("dst-ip6", N6),
             As("src-port", P(2)), As("dst-port", P(2)), As("src-ip", Whole), As("proto", Pr("ip6")),
             As("src-ip", It("table", "n", 1))}
Items1 == {O(w) : w \in Words} \cup LookupItems \cup Prefixed
Single == {New(<<<<i>>>>) : i \in Items1} \cup {New(<<<<Not(i)>>>>) : i \in Items1}
          \cup {With(Plain, <<<<i>>>>) : i \in Items1}
          \cup {With(Old(pr, <<A>>, <<B>>), <<<<i>>>>) : pr \in {<<Pr("tcp")>>, <<Pr("ip6")>>}, i \in Items1}
          \cup {With(Old(<<Pr("tcp")>>, <<A>>, <<B>>), <<<<Not(i)>>>>) : i \in Items1}
          \cup {With(Old(<<Not(Pr("tcp"))>>, <<Whole>>, <<A, B>>), <<<<O("frag")>>, <<i>>>>) : i \in Items1}
Few == {O("in"), O("frag"), Not(O("layer2")), As("src-port", P(2)), As("dst-ip", Me), O("established"), O("ip6"), As("src-ip", A), As("dst-port", P(2)), As("proto", Pr("tcp"))}
Pairs == {With(t, <<<<i, j>>>>) : t \in {New(<< >>), Plain}, i \in Few, j \in Few}
         \cup {With(t, <<<<i>>, <<j>>>>) : t \in {New(<< >>), Plain}, i \in Few, j \in Few}
         \cup {New(<<<<Not(i), j>>, <<O("out")>>>>) : i \in Few, j \in Few}
Triples == {With(t, <<<<i, j>>, <<k>>>>) : t \in {New(<< >>), Old(<<Pr("tcp")>>, <<A>>, <<Whole>>)}, i \in Few, j \in Few, k \in Few}
           \cup {New(<<<<i, Not(j), k>>>>) : i \in Few, j \in Few, k \in Few}
Stateful == {With(t, <<<<O(w)>>, <<Not(i)>>>>) : t \in {New(<< >>), Plain}, w \in States, i \in Few}
            \cup {With(t, <<<<i>>, <<O(w)>>>>) : t \in {New(<< >>), Plain}, w \in States, i \in Few}
            \cup {New(<<<<O("keep-state")>>, <<O("limit")>>>>), New(<<<<O("in"), O("keep-state")>>>>)}
ListTexts == {New(<<<<It(w, "", n)>>>>) : w \in RangeWords \cup {"mac-type"}, n \in {2, 30, 31}}
             \cup {With(Old(<<Pr("ip6")>>, <<Whole>>, <<Whole>>), <<<<It("flow-id", "", n)>>>>) : n \in {2, 30, 31}}
\* A flow label and the types of ICMP6 alone and beside other options, after ip6; a
\* family that is the first word; and what comes after ports of the destination.
Labels == {Old(<<Pr("ip6")>>, s, d) : s \in {<<Whole>>, <<A6>>, <<Me>>}, d \in {<<Whole>>, <<Not(N6)>>}}
          \cup {New(<<<<As("proto", Pr("ip6"))>>>>)}
Marks == {O("flow-id"), Not(O("flow-id")), O("icmp6types"), Not(O("icmp6types"))}
Labelled == {With(t, t.opts \o <<<<m>>>>) : t \in Labels, m \in Marks}
            \cup {With(t, t.opts \o o) : t \in Labels,
                    o \in UNION {{<<<<m>>, <<i>>>>, <<<<i>>, <<m>>>>, <<<<m, i>>>>, <<<<i, m>>>>} : m \in Marks, i \in Few}}
Families == {New(<<<<i>>, <<j>>>>) : i \in {O("ip4"), O("ip6"), Not(O("ip6"))}, j \in Few}
AfterPorts == {[With(Plain, o) EXCEPT !.proto = pr, !.dport = dp] :
                 pr \in {<<Pr("ip")>>, <<Pr("tcp")>>}, dp \in {<<Whole>>, <<P(2)>>, <<Not(P(2))>>},
                 o \in {<<<<i>>>> : i \in Few} \cup {<<<<i, j>>>> : i \in Few, j \in Few}}
ActionsT == {[With(Old(<<Pr("tcp")>>, <<A>>, <<Whole>>), <<<<O("keep-state")>>, <<O("in")>>>>) EXCEPT
               !.act = a, !.params = ps, !.prob = pr] :
              a \in DOMAIN ActionOf, ps \in {{}, {"log", "tag"}, {"altq", "untag"}}, pr \in BOOLEAN}
Reassembly == {[t EXCEPT !.act = "reass", !.opts = o] :
                 t \in {Plain, New(<< >>), Old(<<Pr("ip6")>>, <<Whole>>, <<Whole>>)}, o \in {<< >>, <<<<O("frag")>>>>, <<<<O("in")>>>>}}
              \ {New(<< >>)}

MCTexts == Headers \cup WithPorts \cup Single \cup Pairs \cup Triples \cup Stateful \cup ListTexts \cup ActionsT
           \cup Labelled \cup Families \cup AfterPorts \cup Reassembly

Base == [ver |-> 4, eth |-> FALSE, proto |-> "tcp", exts |-> << >>, frag |-> "no", short |-> FALSE,
         out |-> FALSE, src |-> "a", dst |-> "b", yes |-> {}]
Every == {OptionOp[w] : w \in DOMAIN OptionOp} \cup {"O_IP_SRCPORT", "O_IP_DSTPORT", "O_PROB"} \cup FieldKeys
Four == {[Base EXCEPT !.src = s, !.dst = d, !.yes = y] : s \in {"a", "b", "c"}, d \in {"a", "b"}, y \in {{}, Every}}
        \cup {[Base EXCEPT !.proto = pr, !.yes = Every, !.out = o] : pr \in {"udp", "icmp", "other"}, o \in BOOLEAN}
        \cup {[Base EXCEPT !.frag = f, !.yes = Every] : f \in {"first", "later"}}
        \cup {[Base EXCEPT !.short = TRUE], [Base EXCEPT !.eth = TRUE, !.yes = Every],
              [Base EXCEPT !.yes = Every \cup {"O_TAG"}]}
\* With ports, the first fragment and a later one, each extension header, each protocol.
Base6 == [Base EXCEPT !.ver = 6, !.src = "a6", !.dst = "c6", !.yes = Every]
Six == {[Base6 EXCEPT !.src = s, !.dst = "b6", !.proto = pr] : s \in {"a6", "b6"}, pr \in {"tcp", "udp", "icmp6", "sctp"}}
       \cup {[Base6 EXCEPT !.dst = "a6", !.out = o, !.yes = {}] : o \in BOOLEAN}
       \cup {[Base6 EXCEPT !.exts = <<e>>] : e \in {"frag0", "other", "rt?"}}
       \cup {[Base6 EXCEPT !.exts = e, !.frag = f, !.proto = pr] :
               e \in {<<"frag">>, <<"other", "frag">>}, f \in {"first", "later"}, pr \in {"tcp", "icmp6"}}
       \cup {[Base6 EXCEPT !.exts = <<"frag">>, !.frag = "first", !.short = TRUE],
             [Base6 EXCEPT !.proto = "ospf", !.yes = Every \cup {"O_REASS"}],
             [Base6 EXCEPT !.proto = "esp", !.exts = <<"esp">>],
             [Base6 EXCEPT !.proto = "icmp"]}
Zero == {[Base EXCEPT !.ver = 0, !.proto = "none", !.eth = TRUE, !.out = o, !.yes = y] : o \in BOOLEAN, y \in {{}, Every}}
MCPackets == Four \cup Six \cup Zero
=============================================================================
