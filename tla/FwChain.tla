------------------------------ MODULE FwChain ------------------------------
(***************************************************************************)
(* The rule chain of ipfw shared by packets and by control requests.       *)
(*                                                                         *)
(* Packets (ipfw_check_hook() and ipfw_chk(), one per thread) scan the map *)
(* of the chain under its read lock.  Requests (ipfw_ctl()) are serialised *)
(* by the upper half lock and take the write lock only to swap the maps;   *)
(* what they write in a rule itself, its set, they write with packets      *)
(* about.  A step is what a thread does between two accesses to what       *)
(* others may write.                                                       *)
(*                                                                         *)
(* The match part of a rule is the set of flows that it matches; FwRule    *)
(* has the instructions.  Dynamic rules are the rule that a flow's session *)
(* points to; FwDyn has the rest of them.  Here they may expire any time.  *)
(***************************************************************************)
EXTENDS Integers, Sequences, FiniteSets, SequencesExt, FiniteSetsExt

CONSTANTS
  Ptrs,       \* addresses of rules
  Threads,    \* processors that handle packets
  Ctls,       \* processes in ipfw_ctl()
  Flows,      \* flows of packets
  Nums,       \* numbers that a request may give to a rule; 0 asks for one
  Step,       \* autoinc_step
  DefaultNum, \* IPFW_DEFAULT_RULE
  Sets, Resvd,  \* the sets of rules and RESVD_SET
  Bodies,     \* what new rules may say: [state, flows, act, arg]
  Startups,   \* the rules loaded at first: sequences of [num, set, body] in order
  MaxRequests, \* bound on the requests and settings after the start
  MaxAway,    \* bound on the packets that are out of the firewall
  NULL

\* What a rule may say.
Says == [state : {"none", "keep", "check"}, flows : SUBSET Flows, arg : Nat,
         act : {"accept", "deny", "count", "skipto", "pipe", "divert", "tee"}]

ASSUME ChainAssumption ==
  /\ DefaultNum \in Nat /\ Nums \subseteq 0..DefaultNum - 1 /\ Step \in Nat \ {0}
  /\ Resvd \in Sets /\ NULL \notin Ptrs \cup Threads \cup Ctls
  /\ MaxRequests \in Nat /\ MaxAway \in Nat
  /\ Bodies \subseteq Says

\* A rule of the script that loads the first rules.
Line == [num : 0..DefaultNum - 1, set : Sets, body : Says]

\* The first rules are in order, and there is memory for them.
ASSUME StartAssumption ==
  \A s \in Startups :
    /\ s \in Seq(Line)
    /\ \A i, j \in DOMAIN s : i < j => s[i].num <= s[j].num
    /\ \E m \in [1..Len(s) + 1 -> Ptrs] : IsInjective(m)

VARIABLES
  rule,    \* the rules allocated: number, set, id, body and the cached skipto
  map,     \* chain->map
  id,      \* chain->id
  off,     \* set_disable
  onepass, \* fw_one_pass
  uh,      \* the request that holds the upper half lock for writing
  sess,    \* the rule that the session of a flow points to
  ctl,     \* the requests
  pkt,     \* the packets under way
  todo,    \* requests that may still come: the bound
  away     \* packets with a tag that other modules will return

chainvars == <<rule, map, id>>
vars == <<rule, map, id, off, onepass, uh, sess, ctl, pkt, todo, away>>

N == Len(map)
At(i) == rule[map[i]]
Default == [num |-> DefaultNum, set |-> Resvd, id |-> 1, xnext |-> 0, next |-> 0,
            body |-> [state |-> "none", flows |-> Flows, act |-> "deny", arg |-> 0]]

-----------------------------------------------------------------------------
\* The order of the rules: by number, then by id.
Precedes(r, num, rid) == r.num < num \/ (r.num = num /\ r.id < rid)

\* ipfw_find_rule(): the first rule not before (num, rid); the last if there is
\* none.
FindRule(num, rid) ==
  LET search[r \in (1..N) \X (1..N)] ==
        LET lo == r[1]
            hi == r[2]
            i == (lo + hi) \div 2
        IN  IF lo >= hi THEN hi
            ELSE IF Precedes(At(i), num, rid) THEN search[<<i + 1, hi>>] ELSE search[<<lo, i>>]
  IN  search[<<1, N>>]

\* set_match(): the place after the rule at position i.
SetMatch_mutantSameId(i) ==
  [cid |-> id, slot |-> i + 1, num |-> At(i).num, rid |-> At(i).id]

SetMatch(i) == [cid |-> id, slot |-> i + 1, num |-> At(i).num, rid |-> At(i).id + 1]

Readers == {t \in Threads : pkt[t].pc \in {"scan", "body", "action", "cache"}}

Idle == [pc |-> "idle"]

\* ipfw_chk() takes the read lock and finds where to start.  ref is the tag of a
\* packet that was here before; left is a ghost, the rule that it left.
StartAt(ref) == IF ref.cid = id THEN ref.slot ELSE FindRule(ref.num, ref.rid)

Enter(t, flow, pos, left) ==
  pkt' = [pkt EXCEPT ![t] = [pc |-> "scan", flow |-> flow, pos |-> pos, f |-> NULL,
                             looked |-> FALSE, hit |-> FALSE, left |-> left]]

Arrive(t, flow) ==
  /\ pkt[t].pc = "idle"
  /\ Enter(t, flow, 1, NULL)
  /\ UNCHANGED <<chainvars, off, onepass, uh, sess, ctl, away>>

\* A packet comes back from dummynet or a divert socket; with one_pass it does
\* not meet the firewall again.
Return(t, a) ==
  /\ pkt[t].pc = "idle"
  /\ away' = away \ {a}
  /\ IF a.onepass THEN UNCHANGED pkt ELSE Enter(t, a.flow, StartAt(a.ref), a.left)
  /\ UNCHANGED <<chainvars, off, onepass, uh, sess, ctl>>

\* The two loops of ipfw_chk() up to the action: the next rule, the jump to the
\* action of the session's rule, or the action of this one.
NextRule(p) == [p EXCEPT !.pc = "scan", !.pos = @ + 1]

Body(t) ==
  LET p == pkt[t]
      f == map[p.pos]
      b == rule[f].body
      q == sess[p.flow]
      seen == [p EXCEPT !.looked = @ \/ b.state # "none"]
      here == [seen EXCEPT !.pc = "action", !.f = f]
  IN  \/ /\ b.state # "none" /\ ~p.looked /\ q # NULL
         /\ pkt' = [pkt EXCEPT ![t] = [seen EXCEPT !.pc = "action", !.f = q, !.hit = TRUE,
                                         !.pos = FindRule(rule[q].num, rule[q].id)]]
         /\ UNCHANGED sess
      \/ /\ b.state = "none" \/ p.looked \/ q = NULL
         /\ b.state = "check" \/ p.flow \notin b.flows
         /\ pkt' = [pkt EXCEPT ![t] = NextRule(seen)]
         /\ UNCHANGED sess
      \/ /\ b.state = "none" \/ (b.state = "keep" /\ (p.looked \/ q = NULL))
         /\ p.flow \in b.flows
         /\ \/ /\ pkt' = [pkt EXCEPT ![t] = here]
               /\ sess' = IF b.state = "keep" /\ q = NULL THEN [sess EXCEPT ![p.flow] = f]
                          ELSE sess
            \/ \* ipfw_install_state() refuses, or has no memory
               /\ b.state = "keep" /\ q = NULL
               /\ \E v \in {"deny", "action"} :
                    pkt' = [pkt EXCEPT ![t] = IF v = "deny" THEN [here EXCEPT !.pc = "deny"]
                                              ELSE here]
               /\ UNCHANGED sess

Scan(t) ==
  /\ \/ pkt[t].pc = "body" /\ Body(t)
     \/ /\ pkt[t].pc = "scan" /\ pkt[t].pos <= N
        /\ \/ At(pkt[t].pos).set \notin off /\ Body(t)
           \/ /\ At(pkt[t].pos).set \in off
              /\ pkt' = [pkt EXCEPT ![t] = NextRule(@)]
              /\ UNCHANGED sess
     \/ \* "ouch!, skip past end of rules"
        /\ pkt[t].pc = "scan" /\ pkt[t].pos > N
        /\ pkt' = [pkt EXCEPT ![t].pc = "deny"]
        /\ UNCHANGED sess
  /\ UNCHANGED <<chainvars, off, onepass, uh, ctl, away>>

\* O_ACCEPT, O_DENY and O_COUNT.  A rule that has been freed may say anything.
Simple(t) ==
  /\ pkt[t].pc = "action"
  /\ \/ \E v \in {"accept", "deny"} :
          /\ pkt[t].f \in DOMAIN rule => rule[pkt[t].f].body.act = v
          /\ pkt' = [pkt EXCEPT ![t].pc = v]
     \/ /\ pkt[t].f \in DOMAIN rule /\ rule[pkt[t].f].body.act = "count"
        /\ pkt' = [pkt EXCEPT ![t] = NextRule(@)]
  /\ UNCHANGED <<chainvars, off, onepass, uh, sess, ctl, away>>

Does(t, acts) ==
  /\ pkt[t].pc = "action" /\ pkt[t].f \in DOMAIN rule
  /\ rule[pkt[t].f].body.act \in acts

\* O_SKIPTO: the target is cached in the rule, first the position and then the
\* version of the chain that it is for.  Rules of disabled sets are passed over.
Target_mutantBackward(r) == r.body.arg

Target(r) == IF r.body.arg <= r.num THEN r.num + 1 ELSE r.body.arg

Enabled(i) == Min({j \in i..N : j = N \/ At(j).set \notin off})

Cached(r) == r.xnext = id

Skipto(t) ==
  LET f == pkt[t].f
      i == FindRule(Target(rule[f]), 0)
  IN  /\ Does(t, {"skipto"})
      /\ \/ /\ Cached(rule[f])
            /\ pkt' = [pkt EXCEPT ![t].pos = Enabled(rule[f].next), ![t].pc = "body"]
            /\ UNCHANGED rule
         \/ /\ ~Cached(rule[f])
            /\ rule' = [rule EXCEPT ![f].next = i]
            /\ pkt' = [pkt EXCEPT ![t].pos = i, ![t].pc = "cache"]
      /\ UNCHANGED <<map, id, off, onepass, uh, sess, ctl, away>>

SkiptoCached(t) ==
  LET f == pkt[t].f
  IN  /\ pkt[t].pc = "cache"
      /\ rule' = IF f \in DOMAIN rule THEN [rule EXCEPT ![f].xnext = id] ELSE rule
      /\ pkt' = [pkt EXCEPT ![t].pos = Enabled(@), ![t].pc = "body"]
      /\ UNCHANGED <<map, id, off, onepass, uh, sess, ctl, away>>

\* O_PIPE, O_DIVERT and O_TEE: set_match() under the lock.
Leave(t) ==
  LET p == pkt[t]
      r == rule[p.f]
  IN  /\ Does(t, {"pipe", "divert", "tee"})
      /\ pkt' = [pkt EXCEPT ![t] =
                   [pc |-> r.body.act, flow |-> p.flow, ref |-> SetMatch(p.pos),
                    onepass |-> onepass /\ r.body.act = "pipe",
                    left |-> IF p.f = map[p.pos] THEN <<r.num, r.id>> ELSE NULL]]
      /\ UNCHANGED <<chainvars, off, onepass, uh, sess, ctl, away>>

\* ipfw_check_hook() with the verdict.  dummynet and the divert socket keep the
\* packet, lose it or, dummynet only, return it at once; a tee keeps a copy, if
\* there is memory for it, and the packet goes on.
Verdict(t) ==
  LET p == pkt[t]
      sent == [flow |-> p.flow, ref |-> p.ref, onepass |-> p.onepass, left |-> p.left]
      kept == /\ Cardinality(away) < MaxAway
              /\ away' = away \cup {sent}
      again == Enter(t, p.flow, StartAt(p.ref), p.left)
      over == pkt' = [pkt EXCEPT ![t] = Idle]
  IN  /\ \/ p.pc \in {"accept", "deny"} /\ over /\ UNCHANGED away
         \/ p.pc \in {"pipe", "divert"} /\ over /\ (kept \/ UNCHANGED away)
         \/ p.pc = "pipe" /\ (IF p.onepass THEN over ELSE again) /\ UNCHANGED away
         \/ p.pc = "tee" /\ again /\ (kept \/ UNCHANGED away)
      /\ UNCHANGED <<chainvars, off, onepass, uh, sess, ctl>>

Expire(flow) ==
  /\ sess[flow] # NULL
  /\ sess' = [sess EXCEPT ![flow] = NULL]
  /\ UNCHANGED <<chainvars, off, onepass, uh, ctl, pkt, away>>

-----------------------------------------------------------------------------
Resting(c) == ctl[c].pc = "idle"

\* ipfw_add_rule() and get_map(): memory for the rule and for a map, whose size
\* is read without a lock ...
AddRule(c, num, set, body) ==
  LET free == Ptrs \ (DOMAIN rule \cup {ctl[x].p : x \in {y \in Ctls : ~Resting(y)}})
  IN  /\ Resting(c) /\ free # {}
      /\ ctl' = [ctl EXCEPT ![c] = [pc |-> "get_map", p |-> CHOOSE p \in free : TRUE,
                                    size |-> N + 1, num |-> num, set |-> set, body |-> body]]
      /\ UNCHANGED <<chainvars, off, onepass, uh, sess, pkt, away>>

\* ... and checked with the lock.
BigEnough_mutantUnchecked(size) == TRUE

BigEnough(size) == size >= N + 1

GetMap(c) ==
  /\ ctl[c].pc = "get_map" /\ uh = NULL
  /\ IF BigEnough(ctl[c].size)
       THEN uh' = c /\ ctl' = [ctl EXCEPT ![c].pc = "insert"]
       ELSE uh' = uh /\ ctl' = [ctl EXCEPT ![c].size = N + 1]
  /\ UNCHANGED <<chainvars, off, onepass, sess, pkt, away>>

\* The insertion point; a rule without a number goes last and gets the number of
\* its predecessor, plus the step if that is below the default rule.
InsertPos(num) == FindRule(IF num = 0 THEN DefaultNum ELSE num + 1, 0)

AutoNum(i) ==
  LET last == IF i > 1 THEN At(i - 1).num ELSE 0
  IN  IF last < DefaultNum - Step THEN last + Step ELSE last

\* swap_map(): the write lock waits for the packets; the version changes.
Bump == id + 1

Insert(c) ==
  LET a == ctl[c]
      i == InsertPos(a.num)
      r == [num |-> IF a.num = 0 THEN AutoNum(i) ELSE a.num, set |-> a.set, id |-> Bump,
            xnext |-> 0, next |-> 0, body |-> a.body]
  IN  /\ a.pc = "insert" /\ Readers = {}
      /\ rule' = [p \in DOMAIN rule \cup {a.p} |-> IF p = a.p THEN r ELSE rule[p]]
      /\ map' = InsertAt(map, i, a.p)
      /\ id' = Bump
      /\ uh' = NULL
      /\ ctl' = [ctl EXCEPT ![c] = Idle]
      /\ UNCHANGED <<off, onepass, sess, pkt, away>>

\* keep_rule(): what del_entry() spares.
KeepRule(r, cmd, set, num) ==
  \/ r.num = DefaultNum
  \/ cmd = 0 /\ num = 0 /\ r.set = Resvd
  \/ cmd # 0 /\ r.set # set
  \/ cmd # 1 /\ num # 0 /\ num # r.num

\* del_entry(), commands 0, 1 and 5.  There may be nothing to delete, or no
\* memory for the map.
DelEntry(c, cmd, set, num) ==
  LET doomed == {i \in 1..N : ~KeepRule(At(i), cmd, set, num)}
  IN  /\ Resting(c) /\ uh = NULL
      /\ doomed # {}
      /\ uh' = c
      /\ ctl' = [ctl EXCEPT ![c] = [pc |-> "delete", p |-> NULL,
                                    dead |-> {map[i] : i \in doomed}]]
      /\ UNCHANGED <<chainvars, off, onepass, sess, pkt, away>>

\* The rules that are not to be deleted are copied to the new map one by one.
Kept(dead) ==
  LET copy[i \in 0..N] == IF i = 0 THEN << >>
                          ELSE IF map[i] \in dead THEN copy[i - 1]
                          ELSE Append(copy[i - 1], map[i])
  IN  copy[N]

DelSwap(c) ==
  /\ ctl[c].pc = "delete" /\ Readers = {}
  /\ map' = Kept(ctl[c].dead)
  /\ id' = Bump
  /\ ctl' = [ctl EXCEPT ![c] = [pc |-> "reap", p |-> NULL, dead |-> ctl[c].dead,
                                left |-> ctl[c].dead]]
  /\ UNCHANGED <<rule, off, onepass, uh, sess, pkt, away>>

\* ipfw_remove_dyn_children() for one rule after the other, then the lock goes
\* and ipfw_reap_rules() frees them.
Orphan_mutantNone(p) == sess

Orphan(p) == [x \in Flows |-> IF sess[x] = p THEN NULL ELSE sess[x]]

RemoveChildren(c) ==
  /\ ctl[c].pc = "reap"
  /\ \E p \in ctl[c].left :
       /\ sess' = Orphan(p)
       /\ ctl' = [ctl EXCEPT ![c].left = @ \ {p}]
  /\ UNCHANGED <<chainvars, off, onepass, uh, pkt, away>>

Reap(c) ==
  /\ ctl[c].pc = "reap" /\ ctl[c].left = {}
  /\ rule' = [p \in DOMAIN rule \ ctl[c].dead |-> rule[p]]
  /\ uh' = NULL
  /\ ctl' = [ctl EXCEPT ![c] = Idle]
  /\ UNCHANGED <<map, id, off, onepass, sess, pkt, away>>

\* del_entry(), commands 2 (move a rule), 3 (move a set) and 4 (swap two sets):
\* a loop over all rules but the last, without the lock that packets hold.
NewSet(r, cmd, num, new) ==
  CASE cmd = 2 /\ r.num = num -> new
    [] cmd \in {3, 4} /\ r.set = num -> new
    [] cmd = 4 /\ r.set = new -> num
    [] OTHER -> r.set

MoveSets(c, cmd, num, new) ==
  LET to == [i \in 1..N - 1 |-> NewSet(At(i), cmd, num, new)]
  IN  /\ Resting(c) /\ uh = NULL
      /\ \E i \in DOMAIN to : to[i] # At(i).set
      /\ uh' = c
      /\ ctl' = [ctl EXCEPT ![c] = [pc |-> "sets", p |-> NULL, to |-> to]]
      /\ UNCHANGED <<chainvars, off, onepass, sess, pkt, away>>

MoveSetsStep(c) ==
  LET to == ctl[c].to
  IN  /\ ctl[c].pc = "sets"
      /\ IF to # << >>
           THEN /\ rule' = [rule EXCEPT ![map[N - Len(to)]].set = Head(to)]
                /\ ctl' = [ctl EXCEPT ![c].to = Tail(to)]
                /\ UNCHANGED uh
           ELSE uh' = NULL /\ ctl' = [ctl EXCEPT ![c] = Idle] /\ UNCHANGED rule
      /\ UNCHANGED <<map, id, off, onepass, sess, pkt, away>>

\* IP_FW_DEL with two masks: sets are disabled and enabled in one assignment.
SetDisable(c, disable, enable) ==
  /\ Resting(c) /\ uh = NULL
  /\ off' = ((off \cup disable) \ enable) \ {Resvd}
  /\ UNCHANGED <<chainvars, onepass, uh, sess, ctl, pkt, away>>

SetOnePass(b) ==
  /\ onepass' = b
  /\ UNCHANGED <<chainvars, off, uh, sess, ctl, pkt, away>>

-----------------------------------------------------------------------------
\* vnet_ipfw_init() makes the default rule; then the rules of a script were added
\* in order.
Loaded(s, i) ==
  IF i > Len(s) THEN Default
  ELSE [num |-> s[i].num, set |-> s[i].set, id |-> i + 1, xnext |-> 0, next |-> 0,
        body |-> s[i].body]

Init ==
  /\ \E s \in Startups :
       /\ map = CHOOSE m \in [1..Len(s) + 1 -> Ptrs] : IsInjective(m)
       /\ rule = [p \in Range(map) |-> Loaded(s, CHOOSE i \in 1..Len(s) + 1 : map[i] = p)]
       /\ id = Len(s) + 1
  /\ off = {} /\ onepass = TRUE /\ uh = NULL
  /\ sess = [x \in Flows |-> NULL]
  /\ ctl = [c \in Ctls |-> Idle] /\ pkt = [t \in Threads |-> Idle] /\ away = {}
  /\ todo = MaxRequests

Packet(t) ==
  \/ \E x \in Flows : Arrive(t, x)
  \/ \E a \in away : Return(t, a)
  \/ Scan(t) \/ Simple(t) \/ Skipto(t) \/ SkiptoCached(t) \/ Leave(t) \/ Verdict(t)

Request(c) ==
  \/ \E n \in Nums, s \in Sets, b \in Bodies : AddRule(c, n, s, b)
  \/ \E cmd \in {0, 1, 5}, s \in Sets, n \in Nums : DelEntry(c, cmd, s, n)
  \/ \E n \in Nums \ {0}, s \in Sets : MoveSets(c, 2, n, s)
  \/ \E cmd \in {3, 4}, s, new \in Sets : MoveSets(c, cmd, s, new)
  \/ \E d, e \in SUBSET (Sets \ {Resvd}) : SetDisable(c, d, e)

Progress(c) ==
  GetMap(c) \/ Insert(c) \/ DelSwap(c) \/ RemoveChildren(c) \/ Reap(c) \/ MoveSetsStep(c)

Next ==
  \/ /\ (\E t \in Threads : Packet(t)) \/ (\E c \in Ctls : Progress(c)) \/ (\E x \in Flows : Expire(x))
     /\ UNCHANGED todo
  \/ /\ (\E c \in Ctls : Request(c)) \/ (\E b \in BOOLEAN : SetOnePass(b))
     /\ todo > 0 /\ todo' = todo - 1

Spec == Init /\ [][Next]_vars

-----------------------------------------------------------------------------
\* The map is sorted by number and id, ends with the default rule, and holds rules
\* that are allocated; whoever is to fill a new map has enough memory for it,
\* though it was sized without the lock (get_map(), ip_fw_sockopt.c:109).  A cached
\* skipto that is marked with the version of the chain is where the search would
\* end, whoever wrote it (ip_fw2.c:1984).
ChainOK ==
  /\ \A i \in 1..N - 1 : Precedes(At(i), At(i + 1).num, At(i + 1).id)
  /\ At(N).num = DefaultNum /\ At(N).set = Resvd
  /\ Range(map) \subseteq DOMAIN rule /\ \A i \in 1..N : At(i).id <= id
  /\ \A c \in Ctls : ctl[c].pc = "insert" => uh = c /\ ctl[c].size >= N + 1
  /\ \A i \in 1..N :
       At(i).body.act = "skipto" /\ At(i).xnext = id => At(i).next = FindRule(Target(At(i)), 0)

\* A dynamic rule never outlives its rule: packets that were about to install one
\* are done before the children are removed (del_entry(), swap_map()).
SessionsHaveRules == \A x \in Flows : sess[x] # NULL => sess[x] \in DOMAIN rule

\* A packet that comes back goes on with the first rule after the one that it
\* left, whatever was inserted and deleted meanwhile (ip_fw2.c:1156), or with the
\* default rule.
After(i, left) == ~Precedes(At(i), left[1], left[2] + 1)

ResumesAfter ==
  [][\A t \in Threads :
       t \notin Readers /\ pkt'[t].pc = "scan" /\ pkt'[t].left # NULL =>
         LET next == {i \in 1..N : After(i, pkt'[t].left)}
         IN  pkt'[t].pos = IF next = {} THEN N ELSE Min(next)]_vars

\* ipfw_chk() ends: a packet never looks at a rule again, except that it may jump
\* once to the action of its session's rule (ip_fw2.c:1897 and 1990).
Rank(p) == CASE p.pc = "cache" -> 0 [] p.pc \in {"scan", "body"} -> 1 [] p.pc = "action" -> 2

ScansForward ==
  [][\A t \in Readers \cap Readers' :
       LET p == pkt[t]
           q == pkt'[t]
       IN  \/ q = p
           \/ ~p.hit /\ q.hit
           \/ q.pos > p.pos
           \/ q.pos = p.pos /\ (Rank(q) > Rank(p) \/ p.hit)]_vars
=============================================================================
