------------------------------- MODULE FwDyn -------------------------------
(***************************************************************************)
(* The dynamic rules of ipfw over time: packets that look for a session or *)
(* install one for a keep-state or limit rule, the timer that probes TCP   *)
(* sessions, rules that are deleted with their sessions, and the clock.    *)
(* Each action runs under the dynamic rules' lock (FwDynTable).            *)
(***************************************************************************)
EXTENDS FwDynTable

CONSTANTS
  Pkts,      \* packets: the flow id, the flags and the ack (FwDynTable)
  Rules,     \* rules with a keep-state or limit
  CmdOf,     \* the instruction of each
  Matching,  \* the packets that each rule lets through to that instruction
  Wanted     \* values for dyn_buckets

FlowId ==
  [proto : STRING, v6 : BOOLEAN, src : Nat, sport : Nat, dst : Nat, dport : Nat]

ASSUME FlowAssumption ==
  /\ Pkts \subseteq [id : FlowId, flags : SUBSET {"SYN", "FIN", "RST"},
                     seq : {"new", "late", "none"}]
  /\ \A pkt \in Pkts : pkt.id.proto # "tcp" => pkt.flags = {}
  /\ NULL \notin Rules
  /\ CmdOf \in [Rules -> [type : {"keep", "limit"}, n : Nat,
                          mask : SUBSET {"src-addr", "dst-addr", "src-port", "dst-port"}]]
  /\ Matching \in [Rules -> SUBSET Pkts]
  /\ Wanted \subseteq Nat \ {0}

VARIABLES
  dyn,      \* the table
  timer,    \* seconds until ipfw_tick()
  rounds,   \* ghost: for each entry, how often it was probed when it was closed
            \* and no packet had come but answers to the keepalives
  probed,   \* ghost: whether it was probed since a packet came
  answers   \* ghost: flows of the packets that the keepalives of this second may
            \* bring about

vars == <<dyn, timer, rounds, probed, answers>>

\* The ghosts after the packet pkt; an answer carries no SYN and no FIN.
Track(d, pkt, answer) ==
  LET seen(p) == SameFlow(pkt.id, d.ent[p]) /\ ~IsParent(d, p)
      old(f, p, none) == IF p \in DOMAIN f THEN f[p] ELSE none
  IN  /\ rounds' = [p \in Entries(d) |-> IF seen(p) /\ ~answer THEN 0 ELSE old(rounds, p, 0)]
      /\ probed' = [p \in Entries(d) |-> IF seen(p) /\ pkt.seq = "new" THEN FALSE ELSE old(probed, p, FALSE)]
      /\ UNCHANGED <<timer, answers>>

\* O_PROBE_STATE and O_CHECK_STATE: ipfw_lookup_dyn_rule()
LookupDynRule(pkt) ==
  \E answer \in {FALSE, pkt.id \in answers /\ pkt.flags \cap {"SYN", "FIN"} = {}} :
    /\ dyn' = Lookup(dyn, pkt).d
    /\ Track(dyn', pkt, answer)

\* O_KEEP_STATE and O_LIMIT
InstallDynRule(rule, pkt) ==
  \E size \in Sizes(dyn.want), g \in Garbage :
    /\ dyn' = InstallState(dyn, rule, CmdOf[rule], pkt, size, g).d
    /\ Track(dyn', [pkt EXCEPT !.seq = "new"], FALSE)

\* del_entry() deletes the rule.
DeleteRule(rule) ==
  /\ dyn' = RemoveChildren(dyn, rule)
  /\ rounds' = [p \in Entries(dyn') |-> rounds[p]]
  /\ probed' = [p \in Entries(dyn') |-> probed[p]]
  /\ UNCHANGED <<timer, answers>>

SetBuckets(w) ==
  /\ dyn' = [dyn EXCEPT !.want = w]
  /\ UNCHANGED <<timer, rounds, probed, answers>>

\* ipfw_tick(), and then the clock goes on.  A peer answers a keepalive at once
\* or not at all.
Tick ==
  /\ timer = 0
  /\ timer' = KaPeriod
  /\ rounds' = [p \in Entries(dyn) |-> IF p \in ToProbe(dyn) /\ Closed(dyn.ent[p].state)
                                       THEN Min({2, rounds[p] + 1}) ELSE rounds[p]]
  /\ probed' = [p \in Entries(dyn) |-> probed[p] \/ p \in ToProbe(dyn)]
  /\ answers' = {Reversed(id) : id \in Keepalives(dyn)}
  /\ UNCHANGED dyn

Second ==
  /\ timer > 0
  /\ timer' = timer - 1
  /\ dyn' = Age(dyn)
  /\ answers' = {}
  /\ UNCHANGED <<rounds, probed>>

Init ==
  /\ \E w \in Wanted \cap PowersOf2 : dyn = EmptyTable(w)
  /\ timer = 1
  /\ rounds = <<>> /\ probed = <<>> /\ answers = {}

Next ==
  \/ \E pkt \in Pkts : LookupDynRule(pkt)
  \/ \E r \in Rules : \E pkt \in Matching[r] : InstallDynRule(r, pkt)
  \/ \E r \in Rules : DeleteRule(r)
  \/ \E w \in Wanted : SetBuckets(w)
  \/ Tick
  \/ Second

Spec == Init /\ [][Next]_vars

-----------------------------------------------------------------------------
Sessions == {p \in Entries(dyn) : ~IsParent(dyn, p)}

\* The table is what its lists hold: an entry is in one list, the one its id
\* hashes to, dyn_count counts the entries, a parent counts its children, and no
\* child outlives its parent (UNLINK_DYN_RULE, the passes of remove_dyn_rule()).
\* dyn_max may be exceeded by one, the child of a parent that took the last slot.
\* Both directions of a flow find the same session: there are never two, whatever
\* rules install state for it and from whichever side (the hash is commutative,
\* ipfw_install_state() looks before it adds).
TableOK ==
  /\ dyn.count = Cardinality(Entries(dyn)) /\ dyn.count <= DynMax + 1
  /\ \A p \in Entries(dyn) :
       /\ {b \in DOMAIN dyn.chain : p \in Range(dyn.chain[b])} = {Hash(dyn.ent[p].id, dyn.n)}
       /\ IsParent(dyn, p) => dyn.ent[p].count = Cardinality(Children(dyn, p))
       /\ dyn.ent[p].type = "limit" =>
            /\ dyn.ent[p].parent \in Entries(dyn) /\ IsParent(dyn, dyn.ent[p].parent)
            /\ dyn.ent[dyn.ent[p].parent].rule = dyn.ent[p].rule
  /\ Entries(dyn) \subseteq Ptrs
  /\ \A b \in DOMAIN dyn.chain : IsInjective(dyn.chain[b]) /\ Range(dyn.chain[b]) \subseteq Entries(dyn)
  /\ \A p, q \in Sessions : p # q => ~SameFlow(dyn.ent[p].id, dyn.ent[q])

\* limit {src-addr ...} N (ipfw.8): never more than N sessions of a rule whose
\* masked ids agree, whatever expires, is deleted or fails in between.  IPv6 ids
\* with a part that is not masked are not covered.
Defined(id, mask) == ~id.v6 \/ {"src-addr", "dst-addr"} \subseteq mask

LimitHolds ==
  \A r \in Rules : CmdOf[r].type = "limit" =>
    \A p \in Sessions :
      LET key(q) == MaskedId(dyn.ent[q].id, CmdOf[r].mask, 0)
      IN  Defined(dyn.ent[p].id, CmdOf[r].mask) =>
            Cardinality({q \in Sessions : dyn.ent[q].rule = r /\ key(q) = key(p)}) <= CmdOf[r].n

\* An established TCP session does not expire before its peers were asked
\* (ipfw_tick(): keepalives in the last seconds of its life).
AskedBeforeExpiry ==
  \A p \in Sessions :
    Established(dyn.ent[p].state) /\ dyn.ent[p].id.proto = "tcp" /\ Expired(dyn, p) => probed[p]

\* Peers that answer keepalives do not keep a session alive that was closed or
\* reset: it is probed once at most (the lifetimes cut below the period,
\* ip_fw_dynamic.c:513 and 527).
ClosedIsLetGo ==
  \A p \in Sessions :
    Closed(dyn.ent[p].state) /\ dyn.ent[p].id.proto = "tcp" => rounds[p] <= 1
=============================================================================
