----------------------------- MODULE FwDynTable -----------------------------
(***************************************************************************)
(* The table of dynamic rules of ipfw (ip_fw_dynamic.c) and its operations *)
(* as functions of the table.  Each is called with the dynamic rules' lock *)
(* held, and a caller may run several of them before it lets go.           *)
(*                                                                         *)
(* A table is a record: n is curr_dyn_buckets, want is dyn_buckets (the    *)
(* size that sysctl asked for), chain[b] the entries of bucket b in the    *)
(* order of their list (no bucket before the first allocation), ent the    *)
(* entries, count is dyn_count, and swept: remove_dyn_rule() has run in    *)
(* this second.  The field ttl of an entry is expire - time_uptime, but    *)
(* never less than 0.                                                      *)
(***************************************************************************)
EXTENDS Integers, Sequences, FiniteSets, Functions, FiniteSetsExt

CONSTANTS
  Ptrs,        \* the entries the zone may allocate: numbers
  DynMax,      \* dyn_max
  SynLife, AckLife, FinLife, RstLife, UdpLife, ShortLife,  \* dyn_*_lifetime
  KaInterval,  \* dyn_keepalive_interval
  KaPeriod,    \* dyn_keepalive_period
  Garbage,     \* what an uninitialized IPv6 address may be
  NULL

ASSUME DynAssumption ==
  /\ Ptrs \subseteq Nat /\ NULL \notin Ptrs
  /\ {DynMax, SynLife, AckLife, FinLife, RstLife, UdpLife, ShortLife,
      KaInterval, KaPeriod} \subseteq Nat \ {0}
  /\ Garbage \subseteq Nat

\* A flow id: addresses and ports are numbers, 0 where the mask of a limit
\* hides them.
Reversed(id) ==
  [id EXCEPT !.src = id.dst, !.sport = id.dport, !.dst = id.src, !.dport = id.sport]

\* hash_packet(): a sum has what matters of the exclusive or, that it is the
\* same for both directions.
Hash(id, n) == (id.src + id.sport + id.dst + id.dport) % n

NoTable(d) == DOMAIN d.chain = {}
Entries(d) == DOMAIN d.ent
IsParent(d, p) == d.ent[p].type = "parent"
Expired(d, p) == d.ent[p].ttl = 0
Children(d, p) == {q \in Entries(d) : d.ent[q].type = "limit" /\ d.ent[q].parent = p}

EmptyTable(size) ==
  [n |-> size, want |-> size, chain |-> <<>>, ent |-> <<>>, count |-> 0, swept |-> FALSE]

-----------------------------------------------------------------------------
\* A list without the entries of S.
Without(c, S) ==
  LET copy[i \in 0..Len(c)] == IF i = 0 THEN << >>
                               ELSE IF c[i] \in S THEN copy[i - 1]
                               ELSE Append(copy[i - 1], c[i])
  IN  copy[Len(c)]

\* UNLINK_DYN_RULE of every entry of S.
Unlink_mutantKeepsCount(d, S) ==
  [d EXCEPT !.chain = [b \in DOMAIN d.chain |-> Without(d.chain[b], S)],
            !.ent = [p \in Entries(d) \ S |-> d.ent[p]],
            !.count = @ - Cardinality(S)]

Unlink(d, S) ==
  [d EXCEPT !.chain = [b \in DOMAIN d.chain |-> Without(d.chain[b], S)],
            !.ent = [p \in Entries(d) \ S |->
                       [d.ent[p] EXCEPT !.count = @ - Cardinality(Children(d, p) \cap S)]],
            !.count = @ - Cardinality(S)]

\* remove_dyn_rule(): the children first, then the parents that are left with
\* none.  rule = NULL stands for any rule, keep is the entry to spare, if any.
Concerned(d, rule, keep) ==
  {p \in Entries(d) \ keep : rule = NULL \/ d.ent[p].rule = rule}

RemoveParents(d, rule, keep) ==
  Unlink(d, {p \in Concerned(d, rule, keep) : IsParent(d, p) /\ d.ent[p].count = 0})

RemoveDyn(d, rule, force, keep) ==
  LET doomed == {p \in Concerned(d, rule, keep) : ~IsParent(d, p) /\ (force \/ Expired(d, p))}
  IN  IF d.count = 0 \/ (~force /\ d.swept) THEN d
      ELSE [RemoveParents(Unlink(d, doomed), rule, keep) EXCEPT !.swept = TRUE]

-----------------------------------------------------------------------------
\* lookup_dyn_rule_locked(): the walk along a bucket, which frees what has
\* expired until it finds the flow.
SameFlow(id, e) == e.id = id \/ Reversed(e.id) = id

Matches(d, p, id) == ~IsParent(d, p) /\ ~Expired(d, p) /\ SameFlow(id, d.ent[p])

\* What the walk along the list c frees on its way to position stop: every entry
\* that has expired, but a parent only if its children went before it.
Freed(d, c, stop) ==
  LET old(i)  == {c[j] : j \in {k \in 1..i - 1 : ~IsParent(d, c[k]) /\ Expired(d, c[k])}}
      free(i) == /\ Expired(d, c[i])
                 /\ IsParent(d, c[i]) =>
                      d.ent[c[i]].count = Cardinality(Children(d, c[i]) \cap old(i))
  IN  {c[i] : i \in {k \in 1..stop - 1 : free(k)}}

Find(d, id) ==
  LET c    == d.chain[Hash(id, d.n)]
      hits == {i \in DOMAIN c : Matches(d, c[i], id)}
  IN  CASE NoTable(d) -> [d |-> d, hit |-> NULL]
        [] ~NoTable(d) /\ hits = {} -> [d |-> Unlink(d, Freed(d, c, Len(c) + 1)), hit |-> NULL]
        [] OTHER -> [d |-> Unlink(d, Freed(d, c, Min(hits))), hit |-> c[Min(hits)]]

\* An entry that was not in front moves there.
ToFront(d, p) ==
  LET b == Hash(d.ent[p].id, d.n)
  IN  [d EXCEPT !.chain[b] = <<p>> \o Without(@, {p})]

\* The flags seen from each side, and the lifetime they give.  In an established
\* session an ack is remembered (acked: from which sides there is one), and a
\* packet with an older one changes nothing.  pkt.seq is "late" for an ack that
\* is older than the last one, "none" when the caller gives no TCP header.
BothSyn == {<<"fwd", "SYN">>, <<"rev", "SYN">>}
BothFin == {<<"fwd", "FIN">>, <<"rev", "FIN">>}
Established(s) ==
  BothSyn \subseteq s /\ s \subseteq BothSyn \cup BothFin /\ ~ BothFin \subseteq s
Closed(s) == BothSyn \subseteq s /\ ~Established(s)

\* fin and rst lifetimes are cut to less than the period of the keepalives.
BelowPeriod_mutantUncut(life) == life

BelowPeriod(life) == IF life >= KaPeriod THEN KaPeriod - 1 ELSE life

Late(e, dir, pkt) == pkt.seq = "late" /\ dir \in e.acked

TcpLife(s, late, ttl) ==
  CASE s = {<<"fwd", "SYN">>} -> SynLife
    [] Established(s) -> IF late THEN ttl ELSE AckLife
    [] s = BothSyn \cup BothFin -> BelowPeriod(FinLife)
    [] OTHER -> BelowPeriod(RstLife)

Refreshed(e, pkt) ==
  LET dir   == IF e.id = pkt.id THEN "fwd" ELSE "rev"
      state == e.state \cup {<<dir, f>> : f \in pkt.flags}
  IN  CASE pkt.id.proto = "tcp" ->
             [e EXCEPT !.state = state,
                       !.acked = @ \cup {x \in {dir} : Established(state) /\ pkt.seq # "none"},
                       !.ttl = TcpLife(state, Late(e, dir, pkt), @)]
        [] pkt.id.proto = "udp" -> [e EXCEPT !.ttl = UdpLife]
        [] OTHER -> [e EXCEPT !.ttl = ShortLife]

Lookup(d, pkt) ==
  LET found == Find(d, pkt.id)
  IN  IF found.hit = NULL THEN found
      ELSE [found EXCEPT !.d = [ToFront(found.d, found.hit) EXCEPT
                                  !.ent[found.hit] = Refreshed(@, pkt)]]

-----------------------------------------------------------------------------
\* realloc_dynamic_table(): malloc() gives the size asked for, half of it, ...,
\* or nothing.  A size that is no power of 2 is forgotten.
PowersOf2 == {1, 2, 4, 8, 16, 32, 64, 128, 256, 512, 1024, 2048, 4096, 8192, 16384,
              32768, 65536}
Sizes(want) == {w \in PowersOf2 : w <= want /\ (w >= 2 \/ w = want)} \cup {0}

Realloc(d, size) ==
  IF d.want \notin PowersOf2 THEN [d EXCEPT !.want = d.n]
  ELSE [d EXCEPT !.n = IF size = 0 THEN Min({2, d.want}) ELSE size,
                 !.chain = [b \in 0..size - 1 |-> <<>>]]

MustRealloc(d) == NoTable(d) \/ (d.count = 0 /\ d.want # d.n)

\* add_dyn_rule(): result.hit is NULL when there is no memory.  rule is the
\* rule, and for a child of a limit the rule of its parent.
Added(d, id, type, rule, parent) ==
  LET p == Min(Ptrs \ Entries(d))
      e == [type |-> type, rule |-> rule, id |-> id, ttl |-> SynLife, state |-> {}, acked |-> {},
            parent |-> parent, count |-> 0]
      b == Hash(id, d.n)
  IN  [d   |-> [d EXCEPT !.chain[b] = <<p>> \o @,
                         !.ent = [q \in Entries(d) \cup {p} |->
                                    CASE q = p -> e
                                      [] q = parent -> [d.ent[q] EXCEPT !.count = @ + 1]
                                      [] OTHER -> d.ent[q]],
                         !.count = @ + 1],
       hit |-> p]

Add(d, id, type, rule, parent, size) ==
  LET r == IF MustRealloc(d) THEN Realloc(d, size) ELSE d
  IN  IF NoTable(r) \/ Ptrs \subseteq Entries(r) THEN [d |-> r, hit |-> NULL]
      ELSE Added(r, id, type, rule, parent)

\* The id of a limit: what the mask does not name is 0, except that nobody
\* clears the addresses of an IPv6 id.
MaskedId(id, mask, garbage) ==
  LET addr(name, a) == IF name \in mask THEN a ELSE IF id.v6 THEN garbage ELSE 0
      port(name, a) == IF name \in mask THEN a ELSE 0
  IN  [id EXCEPT !.src = addr("src-addr", @), !.dst = addr("dst-addr", @),
                 !.sport = port("src-port", @), !.dport = port("dst-port", @)]

\* lookup_dyn_parent()
Parent(d, id, rule, size) ==
  LET same == IF NoTable(d) THEN {}
              ELSE {p \in Range(d.chain[Hash(id, d.n)]) :
                      IsParent(d, p) /\ d.ent[p].rule = rule /\ d.ent[p].id = id}
      p    == CHOOSE x \in same : TRUE
  IN  IF same # {} THEN [d |-> [d EXCEPT !.ent[p].ttl = ShortLife], hit |-> p]
      ELSE Add(d, id, "parent", rule, NULL, size)

\* The last part of ipfw_install_state() for a limit, once there is a parent.
Full(d, p, limit) == d.ent[p].count >= limit

AddChild_mutantNoRecheck(par, pkt, rule, cmd, size) ==
  LET d == IF Full(par.d, par.hit, cmd.n) THEN RemoveDyn(par.d, rule, FALSE, {par.hit}) ELSE par.d
  IN  [d |-> Add(d, pkt.id, "limit", rule, par.hit, size).d, ok |-> TRUE]

AddChild(par, pkt, rule, cmd, size) ==
  LET d == IF Full(par.d, par.hit, cmd.n) THEN RemoveDyn(par.d, rule, FALSE, {par.hit}) ELSE par.d
  IN  IF Full(d, par.hit, cmd.n) THEN [d |-> d, ok |-> FALSE]
      ELSE [d |-> Add(d, pkt.id, "limit", rule, par.hit, size).d, ok |-> TRUE]

\* ipfw_install_state(): ok is whether the packet goes on.  cmd is the
\* instruction: its type, and for a limit its mask and the limit n.
InstallNew(d, rule, cmd, pkt, size, garbage) ==
  LET par == Parent(d, MaskedId(pkt.id, cmd.mask, garbage), rule, size)
      res == CASE cmd.type = "keep" ->
                    [d |-> Add(d, pkt.id, "keep", rule, NULL, size).d, ok |-> TRUE]
               [] cmd.type # "keep" /\ par.hit = NULL -> [d |-> par.d, ok |-> FALSE]
               [] OTHER -> AddChild(par, pkt, rule, cmd, size)
  IN  IF res.ok THEN [res EXCEPT !.d = Lookup(res.d, [pkt EXCEPT !.seq = "none"]).d] ELSE res

\* The flow is looked up first, without the header of the packet: its ack is
\* taken to be in order.
InstallState(d, rule, cmd, pkt, size, garbage) ==
  LET found == Lookup(d, [pkt EXCEPT !.seq = "none"])
      room  == IF found.d.count >= DynMax THEN RemoveDyn(found.d, NULL, FALSE, {}) ELSE found.d
  IN  CASE found.hit # NULL -> [d |-> found.d, ok |-> TRUE]
        [] found.hit = NULL /\ room.count >= DynMax -> [d |-> room, ok |-> FALSE]
        [] OTHER -> InstallNew(room, rule, cmd, pkt, size, garbage)

\* ipfw_remove_dyn_children()
RemoveChildren(d, rule) == RemoveDyn(d, rule, TRUE, {})

-----------------------------------------------------------------------------
\* ipfw_tick(): the sessions that are probed, each with a keepalive to either
\* side.  ipfw_send_pkt() sends to the source of the id unless dir is set.
ToProbe_mutantLate(d) ==
  {p \in Entries(d) : /\ ~IsParent(d, p) /\ d.ent[p].id.proto = "tcp"
                      /\ BothSyn \subseteq d.ent[p].state
                      /\ d.ent[p].ttl > KaInterval}

ToProbe(d) ==
  {p \in Entries(d) : /\ ~IsParent(d, p) /\ d.ent[p].id.proto = "tcp"
                      /\ BothSyn \subseteq d.ent[p].state
                      /\ d.ent[p].ttl < KaInterval /\ ~Expired(d, p)}

SendPkt(id, flags) ==
  IF "SYN" \in flags /\ "RST" \notin flags THEN id ELSE Reversed(id)

Keepalives(d) ==
  UNION {{SendPkt(d.ent[p].id, {"SYN"}), SendPkt(d.ent[p].id, {})} : p \in ToProbe(d)}

\* A second goes by.
Age(d) ==
  [d EXCEPT !.ent = [p \in Entries(d) |-> [d.ent[p] EXCEPT !.ttl = Max({0, @ - 1})]],
            !.swept = FALSE]
=============================================================================
