--------------------------- MODULE FwChain_proofs ---------------------------
(***************************************************************************)
(* Proofs about the rule chain of ipfw: the binary search finds the first  *)
(* rule that is not before its argument; the map stays sorted and ends     *)
(* with the default rule, whatever requests do; a cached skipto is never   *)
(* stale; a session never outlives its rule; a packet resumes after the    *)
(* rule that it left, and never looks at a rule again.                     *)
(***************************************************************************)
EXTENDS FwChain, ProofLemmas

\* Rules, requests and packets.
RuleType == [num : Nat, set : Sets, id : Nat, xnext : Nat, next : Nat, body : Says]

AddType == [pc : {"get_map", "insert"}, p : Ptrs, size : Nat, num : Nums, set : Sets,
            body : Bodies]
CtlType == [pc : {"idle"}] \cup AddType
             \cup [pc : {"delete"}, p : {NULL}, dead : SUBSET Ptrs]
             \cup [pc : {"reap"}, p : {NULL}, dead : SUBSET Ptrs, left : SUBSET Ptrs]
             \cup [pc : {"sets"}, p : {NULL}, to : Seq(Sets)]

RefType == [cid : Nat, slot : Nat, num : Nat, rid : Nat]
LeftType == {NULL} \cup (Nat \X Nat)
InType == [pc : {"scan", "body", "action", "cache", "accept", "deny"}, flow : Flows, pos : Nat,
           f : Ptrs \cup {NULL}, looked : BOOLEAN, hit : BOOLEAN, left : LeftType]
OutType == [pc : {"pipe", "divert", "tee"}, flow : Flows, ref : RefType, onepass : BOOLEAN,
            left : LeftType]
PktType == [pc : {"idle"}] \cup InType \cup OutType
AwayType == [flow : Flows, ref : RefType, onepass : BOOLEAN, left : LeftType]

Typed ==
  /\ DOMAIN rule \subseteq Ptrs /\ rule \in [DOMAIN rule -> RuleType]
  /\ map \in Seq(DOMAIN rule) /\ map # << >>
  /\ id \in Nat \ {0} /\ off \subseteq Sets /\ onepass \in BOOLEAN
  /\ uh \in Ctls \cup {NULL} /\ sess \in [Flows -> Ptrs \cup {NULL}]
  /\ ctl \in [Ctls -> CtlType] /\ pkt \in [Threads -> PktType] /\ away \subseteq AwayType

\* The map is sorted, and only its last rule has the last number.
Ordered == \A i, j \in 1..N : i < j => Precedes(At(i), At(j).num, At(j).id)

LastIsDefault ==
  /\ At(N).num = DefaultNum /\ At(N).set = Resvd /\ At(N).body.act = "deny"
  /\ \A i \in 1..N : i < N => At(i).num < DefaultNum

\* No rule is newer than the chain, and a cached target of this version is right.
RuleOK(r) ==
  /\ r.id <= id /\ r.xnext <= id
  /\ r.xnext = id => r.next = FindRule(Target(r), 0)

\* What each request holds.
Adding(c) == ctl[c].pc \in {"get_map", "insert"}

CtlOK(c) ==
  /\ ctl[c].pc \in {"insert", "delete", "reap", "sets"} => uh = c
  /\ Adding(c) => ctl[c].p \notin DOMAIN rule
  /\ \A d \in Ctls : Adding(c) /\ Adding(d) /\ c # d => ctl[c].p # ctl[d].p
  /\ ctl[c].pc = "insert" => ctl[c].size >= N + 1
  /\ ctl[c].pc = "delete" => map[N] \notin ctl[c].dead
  /\ ctl[c].pc = "reap" => /\ ctl[c].left \subseteq ctl[c].dead
                           /\ \A i \in 1..N : map[i] \notin ctl[c].dead
  /\ ctl[c].pc = "sets" => Len(ctl[c].to) < N

\* A session's rule is in the map, or about to lose its children.
Spared(q) ==
  q # NULL =>
    /\ q \in DOMAIN rule
    /\ \A c \in Ctls : ctl[c].pc = "reap" /\ q \in ctl[c].dead => q \in ctl[c].left

SessOK(x) == Spared(sess[x])

\* The tag of a packet that is away, and the rule that it left.
RefOK(ref, left) ==
  /\ ref.cid <= id
  /\ ref.cid = id => ref.slot \in 2..N + 1
  /\ left # NULL =>
       /\ ref.num = left[1] /\ ref.rid = left[2] + 1
       /\ ref.cid = id => /\ ref.slot <= N
                          /\ At(ref.slot - 1).num = left[1] /\ At(ref.slot - 1).id = left[2]

PktOK(p) ==
  /\ p.pc = "scan" => p.pos \in 1..N + 1
  /\ p.pc \in {"body", "action", "cache"} => p.pos \in 1..N
  /\ p.pc = "action" =>
       /\ p.hit => p.looked
       /\ ~p.hit => p.f = map[p.pos]
       /\ p.f \in DOMAIN rule => p.pos = FindRule(rule[p.f].num, rule[p.f].id)
  /\ p.pc \in {"scan", "body", "cache"} => (p.hit => p.looked)
  /\ p.pc = "cache" /\ p.f \in DOMAIN rule =>
       rule[p.f].next = FindRule(Target(rule[p.f]), 0) /\ p.pos = rule[p.f].next
  /\ p.pc \in {"pipe", "divert", "tee"} => RefOK(p.ref, p.left)

RulesOK == \A p \in DOMAIN rule : RuleOK(rule[p])
PktsOK == \A t \in Threads : PktOK(pkt[t])
AwayOK == \A a \in away : RefOK(a.ref, a.left)

ChainInv ==
  /\ Typed /\ Ordered /\ LastIsDefault
  /\ RulesOK /\ (\A c \in Ctls : CtlOK(c)) /\ (\A x \in Flows : SessOK(x))
  /\ PktsOK /\ AwayOK

-----------------------------------------------------------------------------
(***************************************************************************)
(* ipfw_find_rule().  The rules that precede (num, rid) come first in a    *)
(* sorted map; the binary search finds the first position that is not one  *)
(* of theirs, P.                                                           *)
(***************************************************************************)

\* g is the search of the model, for positions 1 to n.
IsSearch(n, P, g) ==
  g = [r \in (1..n) \X (1..n) |->
         IF r[1] >= r[2] THEN r[2]
         ELSE IF (r[1] + r[2]) \div 2 \in P THEN g[<<(r[1] + r[2]) \div 2 + 1, r[2]>>]
         ELSE g[<<r[1], (r[1] + r[2]) \div 2>>]]

\* j is the first position from lo that is not in P, or hi.
First(P, lo, hi, j) ==
  /\ j \in lo..hi
  /\ j = hi \/ j \notin P
  /\ \A k \in lo..hi : k < j => k \in P

Initial(n, P) == \A j, k \in 1..n : j <= k /\ k \in P => j \in P

\* The middle of an interval cuts it in two.
LEMMA Middle ==
  ASSUME NEW lo \in Nat, NEW hi \in Nat, lo < hi
  PROVE  (lo + hi) \div 2 \in Nat /\ lo <= (lo + hi) \div 2 /\ (lo + hi) \div 2 < hi
OBVIOUS

\* What is first in the half that the search goes on with is first.
LEMMA HalfFirst ==
  ASSUME NEW n \in Nat, NEW P, Initial(n, P), NEW lo \in 1..n, NEW hi \in 1..n,
         NEW i \in Nat, lo <= i, i < hi, NEW j
  PROVE  /\ i \in P /\ First(P, i + 1, hi, j) => First(P, lo, hi, j)
         /\ i \notin P /\ First(P, lo, i, j) => First(P, lo, hi, j)
<1>1. ASSUME i \in P, First(P, i + 1, hi, j) PROVE First(P, lo, hi, j)
  <2>1. j \in lo..hi /\ (j = hi \/ j \notin P)
    BY <1>1 DEF First
  <2>2. ASSUME NEW k \in lo..hi, k < j PROVE k \in P
    <3>1. CASE k <= i
      <4>1. k \in 1..n /\ i \in 1..n
        BY <3>1
      <4>2. QED
        BY <1>1, <3>1, <4>1 DEF Initial
    <3>2. CASE ~(k <= i)
      BY <1>1, <2>2, <3>2 DEF First
    <3>3. QED
      BY <3>1, <3>2
  <2>3. QED
    BY <2>1, <2>2 DEF First
<1>2. ASSUME i \notin P, First(P, lo, i, j) PROVE First(P, lo, hi, j)
  BY <1>2 DEF First
<1>3. QED
  BY <1>1, <1>2

LEMMA SearchExists ==
  ASSUME NEW n \in Nat, NEW P, Initial(n, P)
  PROVE  \E g : IsSearch(n, P, g)
<1> DEFINE g == [r \in (1..n) \X (1..n) |->
                   IF r[1] >= r[2] THEN r[2] ELSE CHOOSE j \in r[1]..r[2] : First(P, r[1], r[2], j)]
<1>1. ASSUME NEW lo \in 1..n, NEW hi \in 1..n, lo <= hi PROVE First(P, lo, hi, g[<<lo, hi>>])
  <2>1. CASE lo = hi
    BY <2>1 DEF First
  <2>2. CASE lo < hi
    <3> DEFINE T == {j \in lo..hi : j = hi \/ j \notin P}
    <3>1. hi \in T /\ T \in SUBSET Nat
      BY <2>2
    <3> HIDE DEF T
    <3>2. PICK j \in T : \A k \in T : j <= k
      BY <3>1, NatMin
    <3> USE DEF T
    <3>3. First(P, lo, hi, j) /\ j \in lo..hi
      BY <3>2 DEF First
    <3>4. g[<<lo, hi>>] = CHOOSE u \in lo..hi : First(P, lo, hi, u)
      BY <2>2
    <3>5. QED
      BY <3>3, <3>4
  <2>3. QED
    BY <1>1, <2>1, <2>2
<1>2. ASSUME NEW lo \in 1..n, NEW hi \in 1..n, NEW j, NEW k, First(P, lo, hi, j),
             First(P, lo, hi, k)
      PROVE  j = k
  BY <1>2 DEF First
<1> HIDE DEF g
<1>3. ASSUME NEW lo \in 1..n, NEW hi \in 1..n, lo < hi, NEW i, i = (lo + hi) \div 2
      PROVE  g[<<lo, hi>>] = IF i \in P THEN g[<<i + 1, hi>>] ELSE g[<<lo, i>>]
  <2>1. i \in Nat /\ lo <= i /\ i < hi
    BY <1>3, Middle
  <2>2. i \in 1..n /\ i + 1 \in 1..n /\ i + 1 <= hi
    BY <2>1
  <2>3. First(P, lo, hi, g[<<lo, hi>>]) /\ First(P, i + 1, hi, g[<<i + 1, hi>>]) /\ First(P, lo, i, g[<<lo, i>>])
    BY <1>1, <1>3, <2>1, <2>2
  <2>4. CASE i \in P
    <3>1. First(P, lo, hi, g[<<i + 1, hi>>])
      BY <2>1, <2>3, <2>4, HalfFirst
    <3>2. QED
      BY <1>2, <2>3, <2>4, <3>1
  <2>5. CASE i \notin P
    <3>1. First(P, lo, hi, g[<<lo, i>>])
      BY <2>1, <2>3, <2>5, HalfFirst
    <3>2. QED
      BY <1>2, <2>3, <2>5, <3>1
  <2>6. QED
    BY <2>4, <2>5
<1>4. \A lo, hi \in 1..n : lo >= hi => g[<<lo, hi>>] = hi
  BY DEF g
<1>5. g = [r \in (1..n) \X (1..n) |-> g[r]]
  BY DEF g
<1>6. \A r \in (1..n) \X (1..n) :
        g[r] = IF r[1] >= r[2] THEN r[2]
               ELSE IF (r[1] + r[2]) \div 2 \in P THEN g[<<(r[1] + r[2]) \div 2 + 1, r[2]>>]
               ELSE g[<<r[1], (r[1] + r[2]) \div 2>>]
  <2> SUFFICES ASSUME NEW r \in (1..n) \X (1..n)
               PROVE  g[r] = IF r[1] >= r[2] THEN r[2]
                      ELSE IF (r[1] + r[2]) \div 2 \in P THEN g[<<(r[1] + r[2]) \div 2 + 1, r[2]>>]
                      ELSE g[<<r[1], (r[1] + r[2]) \div 2>>]
    OBVIOUS
  <2>1. PICK lo \in 1..n, hi \in 1..n : r = <<lo, hi>> /\ r[1] = lo /\ r[2] = hi
    OBVIOUS
  <2>2. CASE lo >= hi
    BY <1>4, <2>1, <2>2
  <2>3. CASE ~(lo >= hi)
    <3>1. lo < hi
      BY <2>3
    <3>2. g[<<lo, hi>>] = IF (lo + hi) \div 2 \in P THEN g[<<(lo + hi) \div 2 + 1, hi>>]
                          ELSE g[<<lo, (lo + hi) \div 2>>]
      BY <1>3, <3>1
    <3>3. QED
      BY <2>1, <2>3, <3>2
  <2>4. QED
    BY <2>2, <2>3
<1>7. IsSearch(n, P, g)
  BY <1>5, <1>6, Zenon DEF IsSearch
<1>8. QED
  BY <1>7

LEMMA SearchFinds ==
  ASSUME NEW n \in Nat \ {0}, NEW P, Initial(n, P), NEW g, IsSearch(n, P, g)
  PROVE  First(P, 1, n, g[<<1, n>>])
<1> DEFINE S == {d \in Nat : \A lo, hi \in 1..n :
                               lo <= hi /\ hi - lo <= d => First(P, lo, hi, g[<<lo, hi>>])}
<1>1. \A lo, hi \in 1..n : lo >= hi => g[<<lo, hi>>] = hi
  BY DEF IsSearch
<1>2. ASSUME NEW lo \in 1..n, NEW hi \in 1..n, lo < hi, NEW i, i = (lo + hi) \div 2
      PROVE  g[<<lo, hi>>] = IF i \in P THEN g[<<i + 1, hi>>] ELSE g[<<lo, i>>]
  BY <1>2 DEF IsSearch
<1>3. 0 \in S
  BY <1>1 DEF First
<1>4. ASSUME NEW d \in Nat, d \in S PROVE d + 1 \in S
  <2> SUFFICES ASSUME NEW lo \in 1..n, NEW hi \in 1..n, lo <= hi, hi - lo <= d + 1
               PROVE  First(P, lo, hi, g[<<lo, hi>>])
    OBVIOUS
  <2>1. CASE lo = hi
    BY <1>1, <2>1 DEF First
  <2>2. CASE lo < hi
    <3>1. PICK i : i = (lo + hi) \div 2
      OBVIOUS
    <3>2. i \in Nat /\ lo <= i /\ i < hi
      BY <2>2, <3>1, Middle
    <3>3. /\ i \in 1..n /\ i + 1 \in 1..n /\ i + 1 <= hi
          /\ hi - (i + 1) <= d /\ i - lo <= d
      BY <3>2
    <3>4. First(P, i + 1, hi, g[<<i + 1, hi>>]) /\ First(P, lo, i, g[<<lo, i>>])
      BY <1>4, <3>2, <3>3
    <3>5. g[<<lo, hi>>] = IF i \in P THEN g[<<i + 1, hi>>] ELSE g[<<lo, i>>]
      BY <1>2, <2>2, <3>1
    <3>6. QED
      BY <3>2, <3>4, <3>5, HalfFirst
  <2>3. QED
    BY <2>1, <2>2
<1>5. Nat \subseteq S
  <2> HIDE DEF S
  <2> QED BY <1>3, <1>4, NatSetInduction
<1>6. n - 1 \in S /\ 1 \in 1..n /\ n \in 1..n
  BY <1>5
<1>7. QED
  BY <1>6

LEMMA FirstUnique ==
  ASSUME NEW lo \in Nat, NEW hi \in Nat, NEW P, NEW j, NEW k, First(P, lo, hi, j),
         First(P, lo, hi, k)
  PROVE  j = k
BY DEF First

\* v is the position that a search for (num, rid) has to find.
Before(num, rid) == {i \in 1..N : Precedes(At(i), num, rid)}
Found(num, rid, v) == First(Before(num, rid), 1, N, v)

\* The search as FindRule has it.
IsFindRule(num, rid, g) ==
  g = [r \in (1..N) \X (1..N) |->
         LET lo == r[1]
             hi == r[2]
             i == (lo + hi) \div 2
         IN  IF lo >= hi THEN hi
             ELSE IF Precedes(At(i), num, rid) THEN g[<<i + 1, hi>>] ELSE g[<<lo, i>>]]

LEMMA MapTyped ==
  Typed => /\ N \in Nat \ {0} /\ id \in Nat \ {0}
           /\ \A i \in 1..N : /\ map[i] \in DOMAIN rule /\ map[i] \in Ptrs
                              /\ At(i) \in RuleType /\ At(i).num \in Nat /\ At(i).id \in Nat
BY SMTT(40) DEF Typed, N, At, RuleType

\* The binary search is the first position that does not precede its argument.
SearchWorks == \A num, rid \in Nat : Found(num, rid, FindRule(num, rid))

LEMMA FindRuleFinds == Typed /\ Ordered => SearchWorks
<1> USE DEF SearchWorks
<1> SUFFICES ASSUME Typed, Ordered, NEW num \in Nat, NEW rid \in Nat
             PROVE  Found(num, rid, FindRule(num, rid))
  OBVIOUS
<1> DEFINE P == Before(num, rid)
           G == CHOOSE g : IsFindRule(num, rid, g)
<1>1. Initial(N, P)
  <2> SUFFICES ASSUME NEW j \in 1..N, NEW k \in 1..N, j <= k, k \in P PROVE j \in P
    BY DEF Initial
  <2>1. CASE j = k
    BY <2>1
  <2>2. CASE j < k
    <3>1. Precedes(At(j), At(k).num, At(k).id)
      BY <2>2 DEF Ordered
    <3>2. Precedes(At(k), num, rid)
      BY DEF Before
    <3>3. At(j).num \in Nat /\ At(j).id \in Nat /\ At(k).num \in Nat /\ At(k).id \in Nat
      BY MapTyped
    <3>4. Precedes(At(j), num, rid)
      BY <3>1, <3>2, <3>3 DEF Precedes
    <3>5. QED
      BY <3>4 DEF Before
  <2>3. QED
    BY <2>1, <2>2
<1>2. N \in Nat \ {0}
  BY MapTyped
<1>3. \A i \in 1..N : i \in P <=> Precedes(At(i), num, rid)
  BY DEF Before
<1>4. ASSUME NEW g PROVE IsFindRule(num, rid, g) <=> IsSearch(N, P, g)
  <2> HIDE DEF P
  <2> DEFINE A(r) == IF r[1] >= r[2] THEN r[2]
                     ELSE IF Precedes(At((r[1] + r[2]) \div 2), num, rid)
                          THEN g[<<(r[1] + r[2]) \div 2 + 1, r[2]>>]
                          ELSE g[<<r[1], (r[1] + r[2]) \div 2>>]
             B(r) == IF r[1] >= r[2] THEN r[2]
                     ELSE IF (r[1] + r[2]) \div 2 \in P
                          THEN g[<<(r[1] + r[2]) \div 2 + 1, r[2]>>]
                          ELSE g[<<r[1], (r[1] + r[2]) \div 2>>]
  <2>1. ASSUME NEW r \in (1..N) \X (1..N) PROVE A(r) = B(r)
    <3>1. r[1] \in 1..N /\ r[2] \in 1..N
      OBVIOUS
    <3>2. CASE r[1] >= r[2]
      BY <3>2
    <3>3. CASE ~(r[1] >= r[2])
      <4>1. (r[1] + r[2]) \div 2 \in 1..N
        BY <1>2, <3>1, <3>3, Middle
      <4>2. QED
        BY <1>3, <4>1
    <3>4. QED
      BY <3>2, <3>3
  <2>2. IsSearch(N, P, g) <=> g = [r \in (1..N) \X (1..N) |-> B(r)]
    BY DEF IsSearch
  <2>3. IsFindRule(num, rid, g) <=> g = [r \in (1..N) \X (1..N) |-> A(r)]
    BY DEF IsFindRule
  <2> HIDE DEF A, B
  <2>4. [r \in (1..N) \X (1..N) |-> A(r)] = [r \in (1..N) \X (1..N) |-> B(r)]
    BY <2>1
  <2>5. QED
    BY <2>2, <2>3, <2>4
<1>5. IsSearch(N, P, G)
  <2> HIDE DEF P
  <2>1. PICK g : IsSearch(N, P, g)
    BY <1>1, <1>2, SearchExists
  <2>2. IsFindRule(num, rid, G)
    BY <1>4, <2>1
  <2> HIDE DEF G
  <2>3. QED
    BY <1>4, <2>2
<1>6. First(P, 1, N, G[<<1, N>>])
  <2> HIDE DEF G, P
  <2> QED BY <1>1, <1>2, <1>5, SearchFinds
<1>7. FindRule(num, rid) = G[<<1, N>>]
  BY DEF FindRule, IsFindRule
<1>8. QED
  BY <1>6, <1>7 DEF Found

LEMMA FindRuleFindsNext == (Typed /\ Ordered)' => SearchWorks'
BY FindRuleFinds, PTL

\* What was found: every rule before it precedes the argument, and it does not
\* unless it is the last.
LEMMA FoundMeans ==
  ASSUME NEW num \in Nat, NEW rid \in Nat, NEW v, Found(num, rid, v), N \in Nat
  PROVE  /\ v \in 1..N
         /\ \A j \in 1..N : j < v => Precedes(At(j), num, rid)
         /\ v = N \/ ~Precedes(At(v), num, rid)
BY DEF Found, First, Before

LEMMA FindRuleMeans ==
  ASSUME Typed, Ordered, NEW num \in Nat, NEW rid \in Nat
  PROVE  /\ FindRule(num, rid) \in 1..N
         /\ \A j \in 1..N : j < FindRule(num, rid) => Precedes(At(j), num, rid)
         /\ FindRule(num, rid) = N \/ ~Precedes(At(FindRule(num, rid)), num, rid)
<1> DEFINE v == FindRule(num, rid)
<1>1. Found(num, rid, v) /\ N \in Nat
  BY FindRuleFinds, MapTyped DEF SearchWorks
<1> HIDE DEF v
<1>2. /\ v \in 1..N
      /\ \A j \in 1..N : j < v => Precedes(At(j), num, rid)
      /\ v = N \/ ~Precedes(At(v), num, rid)
  BY <1>1, FoundMeans
<1>3. QED
  BY <1>2 DEF v

\* Only one position can be found.
LEMMA FoundOnce ==
  ASSUME Typed, NEW num \in Nat, NEW rid \in Nat, NEW v, Found(num, rid, v),
         NEW w \in 1..N, \A j \in 1..N : j < w => Precedes(At(j), num, rid),
         w = N \/ ~Precedes(At(w), num, rid)
  PROVE  v = w
<1>1. N \in Nat
  BY MapTyped
<1>2. /\ v \in 1..N
      /\ \A j \in 1..N : j < v => Precedes(At(j), num, rid)
      /\ v = N \/ ~Precedes(At(v), num, rid)
  BY <1>1, FoundMeans
<1>3. ~(v < w) /\ ~(w < v)
  BY <1>1, <1>2
<1>4. QED
  BY <1>1, <1>2, <1>3

\* The search finds a rule of the map by its number and id.
LEMMA FindSelf ==
  ASSUME Typed, Ordered, NEW i \in 1..N
  PROVE  FindRule(At(i).num, At(i).id) = i
<1>1. At(i).num \in Nat /\ At(i).id \in Nat
  BY MapTyped
<1>2. PICK num, rid \in Nat : num = At(i).num /\ rid = At(i).id
  BY <1>1
<1>3. \A j \in 1..N : j < i => Precedes(At(j), num, rid)
  BY <1>2 DEF Ordered
<1>4. ~Precedes(At(i), num, rid)
  BY <1>2 DEF Precedes
<1>5. Found(num, rid, FindRule(num, rid))
  BY FindRuleFinds DEF SearchWorks
<1>6. FindRule(num, rid) = i
  BY <1>3, <1>4, <1>5, FoundOnce
<1>7. QED
  BY <1>2, <1>6

\* A search for what comes later ends no earlier, and one for a number that is
\* greater than that of a rule ends after the rule, if it is not the last.
LEMMA FindForward ==
  ASSUME Typed, Ordered, NEW num \in Nat, NEW rid \in Nat, NEW to \in Nat, num < to
  PROVE  FindRule(num, rid) <= FindRule(to, 0)
<1>1. PICK v, w : v = FindRule(num, rid) /\ w = FindRule(to, 0)
  OBVIOUS
<1>2. /\ v \in 1..N /\ w \in 1..N /\ N \in Nat
      /\ \A j \in 1..N : j < v => Precedes(At(j), num, rid)
      /\ w = N \/ ~Precedes(At(w), to, 0)
  BY <1>1, FindRuleMeans, MapTyped
<1>3. SUFFICES ASSUME w < v PROVE FALSE
  BY <1>1, <1>2
<1>4. Precedes(At(w), num, rid) /\ ~Precedes(At(w), to, 0)
  BY <1>2, <1>3
<1>5. At(w).num \in Nat
  BY <1>2, MapTyped
<1>6. QED
  BY <1>4, <1>5 DEF Precedes

LEMMA FindAfter ==
  ASSUME Typed, Ordered, NEW i \in 1..N, i < N, NEW to \in Nat, At(i).num < to
  PROVE  i < FindRule(to, 0)
<1>1. PICK w : w = FindRule(to, 0)
  OBVIOUS
<1>2. w \in 1..N /\ N \in Nat /\ (w = N \/ ~Precedes(At(w), to, 0))
  BY <1>1, FindRuleMeans, MapTyped
<1>3. SUFFICES ASSUME w <= i PROVE FALSE
  BY <1>1, <1>2
<1>4. At(w).num <= At(i).num
  <2>1. At(w).num \in Nat /\ At(i).num \in Nat
    BY <1>2, MapTyped
  <2>2. CASE w = i
    BY <2>1, <2>2
  <2>3. CASE w < i
    BY <1>2, <2>1, <2>3 DEF Ordered, Precedes
  <2>4. QED
    BY <1>3, <1>2, <2>2, <2>3
<1>5. At(w).num \in Nat /\ At(i).num \in Nat
  BY <1>2, MapTyped
<1>6. QED
  BY <1>2, <1>3, <1>4, <1>5 DEF Precedes

\* The search depends on nothing but the map and the numbers and ids in it.
SameKeys ==
  /\ map' = map
  /\ \A i \in 1..N : At(i)'.num = At(i).num /\ At(i)'.id = At(i).id

LEMMA FindRuleSame ==
  ASSUME Typed, Ordered, Typed', Ordered', SameKeys
  PROVE  \A num, rid \in Nat : FindRule(num, rid)' = FindRule(num, rid)
<1> SUFFICES ASSUME NEW num \in Nat, NEW rid \in Nat
             PROVE  FindRule(num, rid)' = FindRule(num, rid)
  OBVIOUS
<1>1. N' = N /\ N \in Nat
  BY MapTyped DEF SameKeys, N
<1>2. PICK v : v = FindRule(num, rid)'
  OBVIOUS
<1>3. \A a, b \in Nat : Found(a, b, FindRule(a, b))'
  BY FindRuleFindsNext DEF SearchWorks
<1>4. First(Before(num, rid)', 1, N', v)
  BY <1>2, <1>3 DEF Found
<1>5. Before(num, rid)' = Before(num, rid)
  <2>1. \A i \in 1..N : Precedes(At(i), num, rid)' <=> Precedes(At(i), num, rid)
    BY DEF SameKeys, Precedes
  <2>2. QED
    BY <1>1, <2>1 DEF Before
<1>6. Found(num, rid, v)
  BY <1>1, <1>4, <1>5 DEF Found
<1>7. Found(num, rid, FindRule(num, rid))
  BY FindRuleFinds DEF SearchWorks
<1>8. QED
  BY <1>1, <1>2, <1>6, <1>7, FirstUnique DEF Found

-----------------------------------------------------------------------------
(***************************************************************************)
(* Steps that leave the map, and what the search looks at, as they are.    *)
(***************************************************************************)

KeysKept ==
  /\ map' = map /\ id' = id /\ DOMAIN rule' = DOMAIN rule
  /\ \A p \in DOMAIN rule : /\ rule'[p].num = rule[p].num /\ rule'[p].id = rule[p].id
                            /\ rule'[p].body = rule[p].body

LEMMA KeptMap ==
  ASSUME Typed, Ordered, Typed', KeysKept
  PROVE  /\ N' = N /\ Ordered' /\ SameKeys
         /\ \A i \in 1..N : At(i)'.body = At(i).body
<1>1. N' = N
  BY DEF KeysKept, N
<1>2. \A i \in 1..N : /\ At(i)'.num = At(i).num /\ At(i)'.id = At(i).id
                      /\ At(i)'.body = At(i).body
  BY MapTyped DEF KeysKept, At
<1>3. Ordered'
  BY <1>1, <1>2 DEF Ordered, Precedes
<1>4. QED
  BY <1>1, <1>2, <1>3 DEF KeysKept, SameKeys

LEMMA TargetTyped ==
  ASSUME NEW r \in RuleType
  PROVE  Target(r) \in Nat /\ r.num < Target(r) /\ r.num \in Nat /\ r.id \in Nat
BY DEF Target, RuleType, Says

\* A tag means the same after a step that keeps the map and the keys in it.
LEMMA SameRef ==
  ASSUME Typed, SameKeys, id' = id, NEW ref \in RefType, NEW left \in LeftType, RefOK(ref, left)
  PROVE  RefOK(ref, left)'
<1>1. N' = N /\ id' = id /\ SameKeys
  BY DEF SameKeys, N
<1>2. N \in Nat /\ ref.slot \in Nat
  BY MapTyped DEF RefType
<1>3. ref.cid <= id' /\ (ref.cid = id' => ref.slot \in 2..N' + 1)
  BY <1>1 DEF RefOK
<1>4. ASSUME left # NULL
      PROVE  /\ ref.num = left[1] /\ ref.rid = left[2] + 1
             /\ ref.cid = id' => /\ ref.slot <= N'
                                 /\ At(ref.slot - 1)'.num = left[1]
                                 /\ At(ref.slot - 1)'.id = left[2]
  <2>1. ref.num = left[1] /\ ref.rid = left[2] + 1
    BY <1>4 DEF RefOK
  <2>2. ASSUME ref.cid = id
        PROVE  ref.slot <= N /\ At(ref.slot - 1)'.num = left[1] /\ At(ref.slot - 1)'.id = left[2]
    <3>1. PICK k : k = ref.slot - 1
      OBVIOUS
    <3>2. /\ ref.slot \in 2..N + 1 /\ ref.slot <= N
          /\ At(ref.slot - 1).num = left[1] /\ At(ref.slot - 1).id = left[2]
      BY <1>4, <2>2 DEF RefOK
    <3>3. k \in 1..N
      BY <1>2, <3>1, <3>2
    <3>4. At(k)'.num = At(k).num /\ At(k)'.id = At(k).id
      BY <1>1, <3>3 DEF SameKeys
    <3>5. QED
      BY <3>1, <3>2, <3>4
  <2>3. QED
    BY <1>1, <2>1, <2>2
<1>5. QED
  BY <1>3, <1>4 DEF RefOK

LEMMA KeptRef ==
  ASSUME Typed, Ordered, Typed', KeysKept, NEW ref \in RefType, NEW left \in LeftType,
         RefOK(ref, left)
  PROVE  RefOK(ref, left)'
BY KeptMap, SameRef DEF KeysKept

\* So does what is known of a packet, but for the rule whose cache it writes.
LEMMA KeptPkt ==
  ASSUME Typed, Ordered, Typed', KeysKept, NEW p \in PktType, PktOK(p),
         p.pc = "cache" /\ p.f \in DOMAIN rule => rule'[p.f].next = rule[p.f].next
  PROVE  PktOK(p)'
<1>1. N' = N /\ map' = map /\ DOMAIN rule' = DOMAIN rule
  BY KeptMap DEF KeysKept
<1>2. \A num, rid \in Nat : FindRule(num, rid)' = FindRule(num, rid)
  BY KeptMap, FindRuleSame
<1>3. ASSUME NEW f \in DOMAIN rule
      PROVE  /\ FindRule(rule[f].num, rule[f].id)' = FindRule(rule[f].num, rule[f].id)
             /\ FindRule(Target(rule[f]), 0)' = FindRule(Target(rule[f]), 0)
  <2>1. rule[f] \in RuleType
    BY DEF Typed
  <2>2. Target(rule'[f]) = Target(rule[f]) /\ rule'[f].num = rule[f].num /\ rule'[f].id = rule[f].id
    BY DEF KeysKept, Target
  <2>3. PICK a, b, c \in Nat : a = rule[f].num /\ b = rule[f].id /\ c = Target(rule[f])
    BY <2>1, TargetTyped
  <2>4. FindRule(a, b)' = FindRule(a, b) /\ FindRule(c, 0)' = FindRule(c, 0)
    BY <1>2, <2>3
  <2>5. a = rule'[f].num /\ b = rule'[f].id /\ c = Target(rule'[f])
    BY <2>2, <2>3
  <2>6. QED
    BY <2>3, <2>4, <2>5
<1>4. p.pc = "scan" => p.pos \in 1..N' + 1
  BY <1>1 DEF PktOK
<1>5. p.pc \in {"body", "action", "cache"} => p.pos \in 1..N'
  BY <1>1 DEF PktOK
<1>6. p.pc = "action" =>
        /\ p.hit => p.looked
        /\ ~p.hit => p.f = map'[p.pos]
        /\ p.f \in DOMAIN rule' => p.pos = FindRule(rule[p.f].num, rule[p.f].id)'
  BY <1>1, <1>3 DEF PktOK
<1>7. p.pc \in {"scan", "body", "cache"} => (p.hit => p.looked)
  BY DEF PktOK
<1>8. p.pc = "cache" /\ p.f \in DOMAIN rule' =>
        rule'[p.f].next = FindRule(Target(rule[p.f]), 0)' /\ p.pos = rule'[p.f].next
  BY <1>1, <1>3 DEF PktOK
<1>9. p.pc \in {"pipe", "divert", "tee"} => RefOK(p.ref, p.left)'
  <2> SUFFICES ASSUME p.pc \in {"pipe", "divert", "tee"} PROVE RefOK(p.ref, p.left)'
    OBVIOUS
  <2>1. p \in OutType
    BY DEF PktType, InType
  <2>2. PICK ref \in RefType, left \in LeftType : ref = p.ref /\ left = p.left
    BY <2>1 DEF OutType
  <2>3. RefOK(ref, left)'
    BY <2>2, KeptRef DEF PktOK
  <2>4. QED
    BY <2>2, <2>3
<1>10. QED
  BY <1>4, <1>5, <1>6, <1>7, <1>8, <1>9 DEF PktOK

\* Steps that change no request.
LEMMA KeptRest ==
  ASSUME ChainInv, Typed', KeysKept, UNCHANGED <<uh, ctl>>,
         \A p \in DOMAIN rule : rule'[p].set = rule[p].set,
         \A x \in Flows : Spared(sess'[x])
  PROVE  /\ Ordered' /\ LastIsDefault' /\ (\A c \in Ctls : CtlOK(c)')
         /\ \A x \in Flows : SessOK(x)'
<1>1. N' = N /\ map' = map /\ DOMAIN rule' = DOMAIN rule /\ Ordered'
  BY KeptMap DEF ChainInv, KeysKept
<1>2. LastIsDefault'
  <2>1. \A i \in 1..N : /\ At(i)'.num = At(i).num /\ At(i)'.body = At(i).body
                        /\ At(i)'.set = At(i).set
    BY MapTyped, KeptMap DEF ChainInv, KeysKept, SameKeys, At
  <2>2. N \in 1..N
    BY MapTyped DEF ChainInv
  <2>3. QED
    BY <1>1, <2>1, <2>2 DEF ChainInv, LastIsDefault
<1>3. ASSUME NEW c \in Ctls PROVE CtlOK(c)'
  BY <1>1 DEF ChainInv, CtlOK, Adding
<1>4. ASSUME NEW x \in Flows PROVE SessOK(x)'
  BY <1>1 DEF SessOK, Spared
<1>5. QED
  BY <1>1, <1>2, <1>3, <1>4

\* Steps that leave the chain alone: it is enough that what the packets do is
\* right with the chain as it was.
LEMMA PacketStep ==
  ASSUME ChainInv, UNCHANGED <<chainvars, off, uh, ctl>>, onepass' \in BOOLEAN,
         sess' \in [Flows -> Ptrs \cup {NULL}], \A x \in Flows : Spared(sess'[x]),
         pkt' \in [Threads -> PktType], \A t \in Threads : PktOK(pkt'[t]),
         away' \subseteq AwayType, \A a \in away' : RefOK(a.ref, a.left)
  PROVE  ChainInv'
<1>1. Typed'
  BY DEF ChainInv, Typed, chainvars
<1>2. KeysKept
  BY DEF KeysKept, chainvars
<1>3. Ordered' /\ LastIsDefault' /\ (\A c \in Ctls : CtlOK(c)') /\ \A x \in Flows : SessOK(x)'
  <2>1. \A p \in DOMAIN rule : rule'[p].set = rule[p].set
    BY DEF chainvars
  <2>2. QED
    BY <1>1, <1>2, <2>1, KeptRest
<1>4. RulesOK'
  <2> SUFFICES ASSUME NEW p \in DOMAIN rule PROVE RuleOK(rule[p])'
    BY <1>2 DEF RulesOK, KeysKept
  <2>1. rule[p] \in RuleType /\ RuleOK(rule[p]) /\ rule'[p] = rule[p] /\ id' = id
    BY DEF ChainInv, Typed, RulesOK, chainvars
  <2>2. PICK r \in RuleType : r = rule[p]
    BY <2>1
  <2>3. PICK to \in Nat : to = Target(r)
    BY TargetTyped
  <2>4. FindRule(to, 0)' = FindRule(to, 0)
    BY <1>1, <1>2, KeptMap, FindRuleSame DEF ChainInv
  <2>5. RuleOK(r)'
    <3>1. RuleOK(r)
      BY <2>1, <2>2
    <3>2. r.id <= id' /\ r.xnext <= id'
      BY <2>1, <3>1 DEF RuleOK
    <3>3. r.xnext = id' => r.next = FindRule(to, 0)'
      BY <2>1, <2>3, <2>4, <3>1 DEF RuleOK
    <3>4. QED
      BY <2>3, <3>2, <3>3 DEF RuleOK
  <2>6. QED
    BY <2>1, <2>2, <2>5
<1>5. PktsOK'
  <2> SUFFICES ASSUME NEW t \in Threads PROVE PktOK(pkt[t])'
    BY DEF PktsOK
  <2>1. PICK p \in PktType : p = pkt'[t]
    OBVIOUS
  <2>2. PktOK(p)
    BY <2>1
  <2>3. p.f \in DOMAIN rule => rule'[p.f].next = rule[p.f].next
    BY DEF chainvars
  <2>4. PktOK(p)'
    BY <1>1, <1>2, <2>2, <2>3, KeptPkt DEF ChainInv
  <2>5. QED
    BY <2>1, <2>4
<1>6. AwayOK'
  <2> SUFFICES ASSUME NEW a \in away' PROVE RefOK(a.ref, a.left)'
    BY DEF AwayOK
  <2>1. a \in AwayType
    OBVIOUS
  <2>2. PICK ref \in RefType, left \in LeftType : ref = a.ref /\ left = a.left
    BY <2>1 DEF AwayType
  <2>3. RefOK(ref, left)'
    BY <1>1, <1>2, <2>2, KeptRef DEF ChainInv
  <2>4. QED
    BY <2>2, <2>3
<1>7. QED
  BY <1>1, <1>3, <1>4, <1>5, <1>6 DEF ChainInv

-----------------------------------------------------------------------------
(***************************************************************************)
(* The steps of packets.                                                   *)
(***************************************************************************)

LEMMA InTyped ==
  ASSUME NEW p \in PktType, p.pc \in {"scan", "body", "action", "cache", "accept", "deny"}
  PROVE  p \in InType
BY DEF PktType, OutType

LEMMA OutTyped ==
  ASSUME NEW p \in PktType, p.pc \in {"pipe", "divert", "tee"}
  PROVE  p \in OutType
BY DEF PktType, InType

\* The tag leads to a position of the map, or behind it.
LEMMA StartAtTyped ==
  ASSUME Typed, Ordered, NEW ref \in RefType, NEW left \in LeftType, RefOK(ref, left)
  PROVE  StartAt(ref) \in 1..N + 1
<1>1. N \in Nat
  BY MapTyped
<1>2. CASE ref.cid = id
  BY <1>1, <1>2 DEF RefOK, StartAt
<1>3. CASE ref.cid # id
  <2>1. PICK a, b \in Nat : a = ref.num /\ b = ref.rid
    BY DEF RefType
  <2>2. FindRule(a, b) \in 1..N
    BY FindRuleMeans
  <2>3. QED
    BY <1>1, <1>3, <2>1, <2>2 DEF StartAt
<1>4. QED
  BY <1>2, <1>3

\* A packet that enters the firewall.
LEMMA EnterOK ==
  ASSUME ChainInv, NEW t \in Threads, NEW flow \in Flows, NEW pos \in 1..N + 1,
         NEW left \in LeftType, Enter(t, flow, pos, left)
  PROVE  pkt' \in [Threads -> PktType] /\ \A u \in Threads : PktOK(pkt'[u])
<1> DEFINE q == [pc |-> "scan", flow |-> flow, pos |-> pos, f |-> NULL,
                 looked |-> FALSE, hit |-> FALSE, left |-> left]
<1>1. pkt \in [Threads -> PktType] /\ \A u \in Threads : PktOK(pkt[u])
  BY DEF ChainInv, Typed, PktsOK
<1>2. pkt' = [pkt EXCEPT ![t] = q]
  BY DEF Enter
<1>3. q \in PktType
  <2>1. pos \in Nat
    BY MapTyped DEF ChainInv
  <2>2. QED
    BY <2>1 DEF PktType, InType
<1>4. PktOK(q)
  BY DEF PktOK
<1> HIDE DEF q
<1>5. QED
  BY <1>1, <1>2, <1>3, <1>4

LEMMA SessSpared ==
  ASSUME ChainInv
  PROVE  /\ sess \in [Flows -> Ptrs \cup {NULL}] /\ \A x \in Flows : Spared(sess[x])
         /\ away \subseteq AwayType /\ \A a \in away : RefOK(a.ref, a.left)
         /\ onepass \in BOOLEAN
BY DEF ChainInv, Typed, SessOK, AwayOK

LEMMA ArriveStep ==
  ASSUME ChainInv, NEW t \in Threads, NEW flow \in Flows, Arrive(t, flow)
  PROVE  ChainInv'
<1>1. 1 \in 1..N + 1 /\ NULL \in LeftType
  BY MapTyped DEF ChainInv, LeftType
<1>2. pkt' \in [Threads -> PktType] /\ \A u \in Threads : PktOK(pkt'[u])
  BY <1>1, EnterOK DEF Arrive
<1>3. QED
  BY <1>2, SessSpared, PacketStep DEF Arrive

LEMMA ReturnStep ==
  ASSUME ChainInv, NEW t \in Threads, NEW a \in away, Return(t, a)
  PROVE  ChainInv'
<1>1. pkt' \in [Threads -> PktType] /\ \A u \in Threads : PktOK(pkt'[u])
  <2>1. CASE UNCHANGED pkt
    BY <2>1 DEF ChainInv, Typed, PktsOK
  <2>2. CASE Enter(t, a.flow, StartAt(a.ref), a.left)
    <3>1. a \in AwayType /\ RefOK(a.ref, a.left)
      BY DEF ChainInv, AwayOK, Typed
    <3>2. a.flow \in Flows /\ a.ref \in RefType /\ a.left \in LeftType
      BY <3>1 DEF AwayType
    <3>3. StartAt(a.ref) \in 1..N + 1
      BY <3>1, <3>2, StartAtTyped DEF ChainInv
    <3>4. QED
      BY <2>2, <3>2, <3>3, EnterOK
  <2>3. QED
    BY <2>1, <2>2 DEF Return
<1>2. away' \subseteq AwayType /\ \A b \in away' : RefOK(b.ref, b.left)
  BY SessSpared DEF Return
<1>3. QED
  BY <1>1, <1>2, SessSpared, PacketStep DEF Return

LEMMA ExpireStep ==
  ASSUME ChainInv, NEW flow \in Flows, Expire(flow)
  PROVE  ChainInv'
<1>1. pkt' \in [Threads -> PktType] /\ \A u \in Threads : PktOK(pkt'[u])
  BY DEF ChainInv, Typed, PktsOK, Expire
<1>2. sess' \in [Flows -> Ptrs \cup {NULL}] /\ \A x \in Flows : Spared(sess'[x])
  <2>1. \A x \in Flows : sess'[x] = NULL \/ sess'[x] = sess[x]
    BY SessSpared DEF Expire
  <2>2. Spared(NULL)
    BY DEF Spared
  <2>3. sess' \in [Flows -> Ptrs \cup {NULL}]
    BY SessSpared DEF Expire
  <2>4. QED
    BY <2>1, <2>2, <2>3, SessSpared
<1>3. QED
  BY <1>1, <1>2, SessSpared, PacketStep DEF Expire

LEMMA VerdictStep ==
  ASSUME ChainInv, NEW t \in Threads, Verdict(t)
  PROVE  ChainInv'
<1> DEFINE p == pkt[t]
<1>1. p \in PktType /\ PktOK(p)
  BY DEF ChainInv, Typed, PktsOK
<1>2. pkt' = [pkt EXCEPT ![t] = Idle] =>
        pkt' \in [Threads -> PktType] /\ \A u \in Threads : PktOK(pkt'[u])
  <2>1. Idle \in PktType /\ PktOK(Idle)
    BY DEF Idle, PktType, PktOK
  <2>2. QED
    BY <2>1 DEF ChainInv, Typed, PktsOK
<1>3. p.pc \in {"pipe", "divert", "tee"} =>
        /\ p.flow \in Flows /\ p.ref \in RefType /\ p.left \in LeftType /\ p.onepass \in BOOLEAN
        /\ RefOK(p.ref, p.left) /\ StartAt(p.ref) \in 1..N + 1
  <2> SUFFICES ASSUME p.pc \in {"pipe", "divert", "tee"}
               PROVE  /\ p.flow \in Flows /\ p.ref \in RefType /\ p.left \in LeftType
                      /\ p.onepass \in BOOLEAN
                      /\ RefOK(p.ref, p.left) /\ StartAt(p.ref) \in 1..N + 1
    OBVIOUS
  <2>1. /\ p.flow \in Flows /\ p.ref \in RefType /\ p.left \in LeftType
        /\ p.onepass \in BOOLEAN
    BY <1>1, OutTyped DEF OutType
  <2>2. RefOK(p.ref, p.left)
    BY <1>1 DEF PktOK
  <2> HIDE DEF p
  <2>3. StartAt(p.ref) \in 1..N + 1
    BY <2>1, <2>2, StartAtTyped DEF ChainInv
  <2>4. QED
    BY <2>1, <2>2, <2>3
<1>4. pkt' \in [Threads -> PktType] /\ \A u \in Threads : PktOK(pkt'[u])
  <2>1. CASE pkt' = [pkt EXCEPT ![t] = Idle]
    BY <1>2, <2>1
  <2>2. CASE p.pc \in {"pipe", "divert", "tee"} /\ Enter(t, p.flow, StartAt(p.ref), p.left)
    <3> HIDE DEF p
    <3> QED BY <1>3, <2>2, EnterOK
  <2>3. QED
    BY <2>1, <2>2 DEF Verdict
<1>5. away' \subseteq AwayType /\ \A b \in away' : RefOK(b.ref, b.left)
  <2>1. CASE UNCHANGED away
    BY <2>1, SessSpared
  <2>2. CASE /\ p.pc \in {"pipe", "divert", "tee"}
             /\ away' = away \cup {[flow |-> p.flow, ref |-> p.ref, onepass |-> p.onepass,
                                    left |-> p.left]}
    <3> HIDE DEF p
    <3> DEFINE sent == [flow |-> p.flow, ref |-> p.ref, onepass |-> p.onepass, left |-> p.left]
    <3>1. sent \in AwayType /\ RefOK(sent.ref, sent.left)
      BY <1>3, <2>2 DEF AwayType
    <3>2. away' = away \cup {sent}
      BY <2>2
    <3> HIDE DEF sent
    <3>3. QED
      BY <3>1, <3>2, SessSpared
  <2>3. QED
    BY <2>1, <2>2 DEF Verdict
<1>6. QED
  BY <1>4, <1>5, SessSpared, PacketStep DEF Verdict

LEMMA OnePacket ==
  ASSUME ChainInv, NEW t \in Threads, NEW q \in PktType, PktOK(q), pkt' = [pkt EXCEPT ![t] = q]
  PROVE  pkt' \in [Threads -> PktType] /\ \A u \in Threads : PktOK(pkt'[u])
BY DEF ChainInv, Typed, PktsOK

\* The record of a packet in the firewall.
In(pc, flow, pos, f, looked, hit, left) ==
  [pc |-> pc, flow |-> flow, pos |-> pos, f |-> f, looked |-> looked, hit |-> hit, left |-> left]

LEMMA RecordOf ==
  ASSUME NEW p \in InType
  PROVE  /\ p = In(p.pc, p.flow, p.pos, p.f, p.looked, p.hit, p.left)
         /\ p.flow \in Flows /\ p.pos \in Nat /\ p.f \in Ptrs \cup {NULL}
         /\ p.looked \in BOOLEAN /\ p.hit \in BOOLEAN /\ p.left \in LeftType
         /\ p.pc \in {"scan", "body", "action", "cache", "accept", "deny"}
BY DEF InType, In

LEMMA InIn ==
  ASSUME NEW pc \in {"scan", "body", "action", "cache", "accept", "deny"}, NEW flow \in Flows,
         NEW pos \in Nat, NEW f \in Ptrs \cup {NULL}, NEW looked \in BOOLEAN, NEW hit \in BOOLEAN,
         NEW left \in LeftType
  PROVE  In(pc, flow, pos, f, looked, hit, left) \in PktType
BY DEF InType, In, PktType

\* The next rule, for a packet that has looked at the one before.
LEMMA NextRuleOK ==
  ASSUME Typed, NEW p \in InType, p.pos \in 1..N, p.hit => p.looked
  PROVE  NextRule(p) \in PktType /\ PktOK(NextRule(p))
<1>1. N \in Nat
  BY MapTyped
<1>2. NextRule(p) = In("scan", p.flow, p.pos + 1, p.f, p.looked, p.hit, p.left)
  <2>1. PICK k : k = p.pos + 1
    OBVIOUS
  <2>2. NextRule(p) = [p EXCEPT !.pc = "scan", !.pos = k]
    BY <2>1, Zenon DEF NextRule
  <2>3. NextRule(p) = In("scan", p.flow, k, p.f, p.looked, p.hit, p.left)
    BY <2>2, RecordOf DEF In
  <2>4. QED
    BY <2>1, <2>3
<1>3. PICK q : q = NextRule(p)
  OBVIOUS
<1>4. q.pc = "scan" /\ q.pos = p.pos + 1 /\ q.looked = p.looked /\ q.hit = p.hit
  BY <1>2, <1>3 DEF In
<1>5. q.pos \in 1..N + 1
  BY <1>1, <1>4
<1>6. q.hit => q.looked
  BY <1>4, Zenon
<1>7. PktOK(q)
  BY <1>4, <1>5, <1>6 DEF PktOK
<1>8. q \in PktType
  <2>1. p.pos + 1 \in Nat
    BY <1>1
  <2>2. PICK k \in Nat : k = p.pos + 1
    BY <2>1
  <2>3. In("scan", p.flow, k, p.f, p.looked, p.hit, p.left) \in PktType
    BY RecordOf, InIn
  <2>4. QED
    BY <1>2, <1>3, <2>2, <2>3
<1>9. QED
  BY <1>3, <1>7, <1>8, Zenon

\* A packet that goes to the action of the rule f, at the position pos.
LEMMA ActionOK ==
  ASSUME Typed, NEW flow \in Flows, NEW f \in Ptrs, NEW pos \in 1..N, NEW looked \in BOOLEAN,
         NEW hit \in BOOLEAN, NEW left \in LeftType, hit => looked, ~hit => f = map[pos],
         f \in DOMAIN rule => pos = FindRule(rule[f].num, rule[f].id)
  PROVE  /\ In("action", flow, pos, f, looked, hit, left) \in PktType
         /\ PktOK(In("action", flow, pos, f, looked, hit, left))
<1>1. pos \in Nat
  BY MapTyped
<1>2. PICK q : q = In("action", flow, pos, f, looked, hit, left)
  OBVIOUS
<1>3. q.pc = "action" /\ q.pos = pos /\ q.looked = looked /\ q.hit = hit /\ q.f = f
  BY <1>2 DEF In
<1>4. q \in PktType
  BY <1>1, <1>2, InIn, Zenon
<1>5. PktOK(q)
  BY <1>3 DEF PktOK
<1>6. QED
  BY <1>2, <1>4, <1>5, Zenon

LEMMA BodyOK ==
  ASSUME ChainInv, NEW t \in Threads, pkt[t].pc \in {"scan", "body"}, pkt[t].pos \in 1..N, Body(t)
  PROVE  /\ pkt' \in [Threads -> PktType] /\ \A u \in Threads : PktOK(pkt'[u])
         /\ sess' \in [Flows -> Ptrs \cup {NULL}] /\ \A x \in Flows : Spared(sess'[x])
<1>1. PICK p \in PktType : p = pkt[t] /\ PktOK(p)
  BY DEF ChainInv, Typed, PktsOK
<1>2. p \in InType /\ p.pos \in 1..N /\ (p.hit => p.looked) /\ p.flow \in Flows
  <2>1. p \in InType
    BY <1>1, InTyped
  <2>2. QED
    BY <1>1, <2>1, RecordOf DEF PktOK
<1>3. Typed /\ Ordered
  BY DEF ChainInv
<1>4. PICK f \in Ptrs : f = map[p.pos] /\ f \in DOMAIN rule
  BY <1>2, <1>3, MapTyped
<1>5. PICK b \in Says : b = rule[f].body
  BY <1>3, <1>4 DEF Typed, RuleType
<1>6. PICK q : q = sess[p.flow]
  OBVIOUS
<1>7. PICK l : l = (p.looked \/ b.state # "none")
  OBVIOUS
<1>8. l \in BOOLEAN /\ (p.hit => l)
  BY <1>2, <1>7, Zenon
<1> DEFINE seen == [p EXCEPT !.looked = l]
           here == [seen EXCEPT !.pc = "action", !.f = f]
           to == FindRule(rule[q].num, rule[q].id)
           jump == [seen EXCEPT !.pc = "action", !.f = q, !.hit = TRUE, !.pos = to]
<1>9. seen = In(p.pc, p.flow, p.pos, p.f, l, p.hit, p.left)
  BY <1>2, RecordOf DEF In
<1>10. here = In("action", p.flow, p.pos, f, l, p.hit, p.left)
  <2>1. PICK w, h, e : w = seen /\ h = here /\ e = [w EXCEPT !.pc = "action", !.f = f]
    OBVIOUS
  <2>2. h = e
    BY <2>1, Zenon
  <2>3. w = In(p.pc, p.flow, p.pos, p.f, l, p.hit, p.left)
    BY <1>9, <2>1
  <2>4. PICK hit, left, flow, pos : hit = p.hit /\ left = p.left /\ flow = p.flow /\ pos = p.pos
    OBVIOUS
  <2>5. w = In(p.pc, flow, pos, p.f, l, hit, left)
    BY <2>3, <2>4, Zenon
  <2>6. e = In("action", flow, pos, f, l, hit, left)
    <3>1. e = [[w EXCEPT !.pc = "action"] EXCEPT !.f = f]
      BY <2>1
    <3>2. [w EXCEPT !.pc = "action"] = In("action", flow, pos, p.f, l, hit, left)
      BY <2>5 DEF In
    <3>3. QED
      BY <3>1, <3>2 DEF In
  <2>7. QED
    BY <2>1, <2>2, <2>4, <2>6, Zenon
<1>11. jump = In("action", p.flow, to, q, l, TRUE, p.left)
  <2>1. PICK v : v = TRUE
    OBVIOUS
  <2>2. jump = [seen EXCEPT !.pc = "action", !.f = q, !.hit = v, !.pos = to]
    BY <2>1, Zenon
  <2> HIDE DEF jump, to
  <2>3. jump = In("action", p.flow, to, q, l, v, p.left)
    BY <1>9, <2>2 DEF In
  <2>4. QED
    BY <2>1, <2>3, Zenon
<1>12. \/ /\ b.state # "none" /\ ~p.looked /\ q # NULL
          /\ pkt' = [pkt EXCEPT ![t] = jump]
          /\ UNCHANGED sess
       \/ pkt' = [pkt EXCEPT ![t] = NextRule(seen)] /\ UNCHANGED sess
       \/ /\ pkt' = [pkt EXCEPT ![t] = here]
          /\ sess' = sess \/ sess' = [sess EXCEPT ![p.flow] = f]
       \/ pkt' = [pkt EXCEPT ![t] = [here EXCEPT !.pc = "deny"]] /\ UNCHANGED sess
  BY <1>1, <1>4, <1>5, <1>6, <1>7, Zenon DEF Body
<1> HIDE DEF seen, here, jump
<1>13. CASE /\ b.state # "none" /\ ~p.looked /\ q # NULL
            /\ pkt' = [pkt EXCEPT ![t] = jump]
            /\ UNCHANGED sess
  <2>1. q \in Ptrs /\ q \in DOMAIN rule
    BY <1>2, <1>6, <1>13, SessSpared DEF Spared
  <2>2. PICK num, rid \in Nat : num = rule[q].num /\ rid = rule[q].id
    BY <1>3, <2>1 DEF Typed, RuleType
  <2>3. to \in 1..N
    BY <1>3, <2>2, FindRuleMeans
  <2>4. l /\ p.flow \in Flows /\ p.left \in LeftType
    BY <1>2, <1>7, <1>13, RecordOf, Zenon
  <2> HIDE DEF to
  <2>5. to = FindRule(rule[q].num, rule[q].id)
    BY DEF to
  <2>6. jump \in PktType /\ PktOK(jump)
    BY <1>3, <1>8, <1>11, <2>1, <2>3, <2>4, <2>5, ActionOK, Zenon
  <2>7. QED
    BY <1>13, <2>6, OnePacket, SessSpared, Zenon
<1>14. CASE pkt' = [pkt EXCEPT ![t] = NextRule(seen)] /\ UNCHANGED sess
  <2>1. seen.pos = p.pos /\ seen.hit = p.hit /\ seen.looked = l
    BY <1>9 DEF In
  <2>2. p.pc \in {"scan", "body", "action", "cache", "accept", "deny"}
    BY <1>2, RecordOf
  <2>3. seen \in InType
    BY <1>2, <1>8, <1>9, RecordOf DEF In, InType
  <2>4. seen.pos \in 1..N /\ (seen.hit => seen.looked)
    BY <1>2, <1>8, <2>1, Zenon
  <2>5. NextRule(seen) \in PktType /\ PktOK(NextRule(seen))
    BY <1>3, <2>3, <2>4, NextRuleOK, Zenon
  <2>6. QED
    BY <1>14, <2>5, OnePacket, SessSpared, Zenon
<1>15. CASE /\ pkt' = [pkt EXCEPT ![t] = here]
            /\ sess' = sess \/ sess' = [sess EXCEPT ![p.flow] = f]
  <2>1. p.pos = FindRule(rule[f].num, rule[f].id)
    BY <1>2, <1>3, <1>4, FindSelf DEF At
  <2>2. p.flow \in Flows /\ p.left \in LeftType /\ p.hit \in BOOLEAN
    BY <1>2, RecordOf
  <2>3. here \in PktType /\ PktOK(here)
    BY <1>2, <1>3, <1>4, <1>8, <1>10, <2>1, <2>2, ActionOK, Zenon
  <2>4. pkt' \in [Threads -> PktType] /\ \A u \in Threads : PktOK(pkt'[u])
    BY <1>15, <2>3, OnePacket, Zenon
  <2>5. Spared(f)
    BY <1>2, <1>4 DEF ChainInv, CtlOK, Spared
  <2>6. sess' \in [Flows -> Ptrs \cup {NULL}] /\ \A x \in Flows : Spared(sess'[x])
    BY <1>15, <2>5, SessSpared
  <2>7. QED
    BY <2>4, <2>6
<1>16. CASE pkt' = [pkt EXCEPT ![t] = [here EXCEPT !.pc = "deny"]] /\ UNCHANGED sess
  <2>1. PICK d : d = [here EXCEPT !.pc = "deny"]
    OBVIOUS
  <2>2. d = In("deny", p.flow, p.pos, f, l, p.hit, p.left)
    BY <1>10, <2>1 DEF In
  <2>3. d \in PktType
    BY <1>2, <1>4, <1>8, <2>2, RecordOf, InIn
  <2>4. d.pc = "deny"
    BY <2>2 DEF In
  <2>5. PktOK(d)
    BY <2>4 DEF PktOK
  <2>6. QED
    BY <1>16, <2>1, <2>3, <2>5, OnePacket, SessSpared, Zenon
<1>17. QED
  BY <1>12, <1>13, <1>14, <1>15, <1>16

\* A packet of which the verdict is known.
LEMMA OverOK ==
  ASSUME NEW p \in InType, NEW v \in {"accept", "deny"}
  PROVE  [p EXCEPT !.pc = v] \in PktType /\ PktOK([p EXCEPT !.pc = v])
<1>1. PICK q : q = [p EXCEPT !.pc = v]
  OBVIOUS
<1>2. q \in InType /\ q.pc = v
  BY <1>1 DEF InType
<1>3. q \in PktType /\ PktOK(q)
  BY <1>2 DEF PktType, PktOK
<1>4. QED
  BY <1>1, <1>3

LEMMA ScanStep ==
  ASSUME ChainInv, NEW t \in Threads, Scan(t)
  PROVE  ChainInv'
<1>1. PICK p \in PktType : p = pkt[t] /\ PktOK(p)
  BY DEF ChainInv, Typed, PktsOK
<1>2. pkt[t].pc \in {"scan", "body"}
  BY DEF Scan
<1>3. p \in InType /\ (p.hit => p.looked) /\ (p.pc = "body" => p.pos \in 1..N)
      /\ (p.pc = "scan" => p.pos \in 1..N + 1) /\ N \in Nat
  BY <1>1, <1>2, InTyped, MapTyped DEF PktOK, ChainInv
<1>4. /\ pkt' \in [Threads -> PktType] /\ \A u \in Threads : PktOK(pkt'[u])
      /\ sess' \in [Flows -> Ptrs \cup {NULL}] /\ \A x \in Flows : Spared(sess'[x])
  <2>1. CASE pkt[t].pc = "body" /\ Body(t)
    BY <1>1, <1>3, <2>1, BodyOK
  <2>2. CASE pkt[t].pc = "scan" /\ pkt[t].pos <= N /\ Body(t)
    <3>1. pkt[t].pos \in 1..N
      BY <1>1, <1>3, <2>2
    <3>2. QED
      BY <1>2, <2>2, <3>1, BodyOK
  <2>3. CASE pkt[t].pc = "scan" /\ pkt[t].pos <= N /\ pkt' = [pkt EXCEPT ![t] = NextRule(@)]
             /\ UNCHANGED sess
    <3>1. p.pos \in 1..N
      BY <1>1, <1>3, <2>3
    <3>2. NextRule(p) \in PktType /\ PktOK(NextRule(p))
      BY <1>3, <3>1, NextRuleOK DEF ChainInv
    <3>3. pkt' = [pkt EXCEPT ![t] = NextRule(p)]
      BY <1>1, <2>3
    <3>4. QED
      BY <2>3, <3>2, <3>3, OnePacket, SessSpared
  <2>4. CASE pkt' = [pkt EXCEPT ![t].pc = "deny"] /\ UNCHANGED sess
    <3>1. pkt' = [pkt EXCEPT ![t] = [p EXCEPT !.pc = "deny"]]
      BY <1>1, <2>4
    <3>2. [p EXCEPT !.pc = "deny"] \in PktType /\ PktOK([p EXCEPT !.pc = "deny"])
      BY <1>3, OverOK
    <3>3. QED
      BY <2>4, <3>1, <3>2, OnePacket, SessSpared
  <2>5. QED
    BY <2>1, <2>2, <2>3, <2>4 DEF Scan
<1>5. QED
  BY <1>4, SessSpared, PacketStep DEF Scan

\* A packet at the action of a rule.
LEMMA ActionTyped ==
  ASSUME ChainInv, NEW t \in Threads, pkt[t].pc = "action"
  PROVE  /\ pkt[t] \in InType /\ PktOK(pkt[t]) /\ pkt[t].pos \in 1..N
         /\ (pkt[t].hit => pkt[t].looked)
BY InTyped DEF ChainInv, Typed, PktsOK, PktOK

LEMMA SimpleStep ==
  ASSUME ChainInv, NEW t \in Threads, Simple(t)
  PROVE  ChainInv'
<1>1. PICK p \in InType : p = pkt[t] /\ p.pos \in 1..N /\ (p.hit => p.looked)
  BY ActionTyped DEF Simple
<1>2. pkt' \in [Threads -> PktType] /\ \A u \in Threads : PktOK(pkt'[u])
  <2>1. CASE \E v \in {"accept", "deny"} : pkt' = [pkt EXCEPT ![t].pc = v]
    <3>1. PICK v \in {"accept", "deny"} : pkt' = [pkt EXCEPT ![t] = [p EXCEPT !.pc = v]]
      BY <1>1, <2>1
    <3>2. [p EXCEPT !.pc = v] \in PktType /\ PktOK([p EXCEPT !.pc = v])
      BY OverOK
    <3>3. QED
      BY <3>1, <3>2, OnePacket
  <2>2. CASE pkt' = [pkt EXCEPT ![t] = NextRule(@)]
    <3>1. NextRule(p) \in PktType /\ PktOK(NextRule(p))
      BY <1>1, NextRuleOK DEF ChainInv
    <3>2. pkt' = [pkt EXCEPT ![t] = NextRule(p)]
      BY <1>1, <2>2
    <3>3. QED
      BY <3>1, <3>2, OnePacket
  <2>3. QED
    BY <2>1, <2>2 DEF Simple
<1>3. QED
  BY <1>2, SessSpared, PacketStep DEF Simple

\* Only the last rule is the default rule, which denies.
LEMMA NotTheLast ==
  ASSUME ChainInv, NEW i \in 1..N, At(i).body.act # "deny"
  PROVE  i < N
BY MapTyped DEF ChainInv, LastIsDefault

\* The tag that set_match() makes for the rule that matched.
LEMMA SetMatchOK ==
  ASSUME ChainInv, NEW pos \in 1..N, NEW left \in LeftType,
         left # NULL => left = <<At(pos).num, At(pos).id>> /\ pos < N
  PROVE  SetMatch(pos) \in RefType /\ RefOK(SetMatch(pos), left)
<1>1. At(pos).num \in Nat /\ At(pos).id \in Nat /\ N \in Nat /\ id \in Nat
  BY MapTyped DEF ChainInv
<1>2. SetMatch(pos) \in RefType
  BY <1>1 DEF SetMatch, RefType
<1>3. PICK ref : ref = SetMatch(pos)
  OBVIOUS
<1>4. ref.cid = id /\ ref.slot = pos + 1 /\ ref.num = At(pos).num /\ ref.rid = At(pos).id + 1
  BY <1>3 DEF SetMatch
<1>5. ref.slot - 1 = pos
  BY <1>4
<1>6. RefOK(ref, left)
  <2>1. ref.cid <= id /\ ref.slot \in 2..N + 1
    BY <1>1, <1>4
  <2>2. ASSUME left # NULL
        PROVE  /\ ref.num = left[1] /\ ref.rid = left[2] + 1 /\ ref.slot <= N
               /\ At(ref.slot - 1).num = left[1] /\ At(ref.slot - 1).id = left[2]
    <3>1. left[1] = At(pos).num /\ left[2] = At(pos).id /\ pos < N
      BY <2>2
    <3>2. QED
      BY <1>1, <1>4, <1>5, <3>1
  <2>3. QED
    BY <2>1, <2>2 DEF RefOK
<1>7. QED
  BY <1>2, <1>3, <1>6

LEMMA LeaveStep ==
  ASSUME ChainInv, NEW t \in Threads, Leave(t)
  PROVE  ChainInv'
<1>1. PICK p \in InType : p = pkt[t] /\ p.pos \in 1..N
  BY ActionTyped DEF Leave, Does
<1>2. PICK f : f = p.f
  OBVIOUS
<1>3. PICK r \in RuleType : r = rule[f] /\ f \in DOMAIN rule /\ r.body.act \in {"pipe", "divert", "tee"}
  BY <1>1, <1>2 DEF Leave, Does, ChainInv, Typed
<1>4. PICK left : left = IF f = map[p.pos] THEN <<r.num, r.id>> ELSE NULL
  OBVIOUS
<1>5. left \in LeftType
  BY <1>3, <1>4 DEF LeftType, RuleType
<1>6. left # NULL => left = <<At(p.pos).num, At(p.pos).id>> /\ p.pos < N
  <2>1. SUFFICES ASSUME left # NULL PROVE left = <<At(p.pos).num, At(p.pos).id>> /\ p.pos < N
    OBVIOUS
  <2>2. f = map[p.pos] /\ r = At(p.pos) /\ left = <<r.num, r.id>>
    BY <1>3, <1>4, <2>1 DEF At
  <2>3. p.pos < N
    BY <1>1, <1>3, <2>2, NotTheLast
  <2>4. QED
    BY <2>2, <2>3
<1>7. PICK ref : ref = SetMatch(p.pos)
  OBVIOUS
<1>8. ref \in RefType /\ RefOK(ref, left)
  BY <1>1, <1>5, <1>6, <1>7, SetMatchOK
<1>9. PICK o \in BOOLEAN : o = (onepass /\ r.body.act = "pipe")
  OBVIOUS
<1>10. PICK q : q = [pc |-> r.body.act, flow |-> p.flow, ref |-> ref, onepass |-> o, left |-> left]
  OBVIOUS
<1>11. pkt' = [pkt EXCEPT ![t] = q]
  BY <1>1, <1>2, <1>3, <1>4, <1>7, <1>9, <1>10, Zenon DEF Leave
<1>12. q \in PktType /\ PktOK(q)
  <2>1. p.flow \in Flows
    BY DEF InType
  <2>2. q \in OutType /\ q.pc \in {"pipe", "divert", "tee"} /\ q.ref = ref /\ q.left = left
    BY <1>3, <1>5, <1>8, <1>10, <2>1 DEF OutType
  <2>3. QED
    BY <1>8, <2>2 DEF PktType, PktOK
<1>13. pkt' \in [Threads -> PktType] /\ \A u \in Threads : PktOK(pkt'[u])
  BY <1>11, <1>12, OnePacket
<1>14. QED
  BY <1>13, SessSpared, PacketStep DEF Leave

\* A rule whose cache is right for the chain as it was is right after such a step.
LEMMA KeptRule ==
  ASSUME ChainInv, Typed', KeysKept, NEW p \in DOMAIN rule, rule'[p].xnext <= id,
         rule'[p].xnext = id => rule'[p].next = FindRule(Target(rule[p]), 0)
  PROVE  RuleOK(rule[p])'
<1>1. rule[p] \in RuleType /\ RuleOK(rule[p])
  BY DEF ChainInv, Typed, RulesOK
<1>2. PICK r : r = rule'[p]
  OBVIOUS
<1>3. r.id = rule[p].id /\ id' = id /\ Target(r) = Target(rule[p])
  BY <1>2 DEF KeysKept, Target
<1>4. PICK to \in Nat : to = Target(rule[p])
  BY <1>1, TargetTyped
<1>5. FindRule(to, 0)' = FindRule(to, 0)
  BY KeptMap, FindRuleSame DEF ChainInv
<1>6. r.id <= id' /\ r.xnext <= id'
  BY <1>1, <1>2, <1>3 DEF RuleOK
<1>7. r.xnext = id' => r.next = FindRule(to, 0)'
  BY <1>2, <1>3, <1>4, <1>5
<1>8. RuleOK(r)'
  BY <1>3, <1>4, <1>6, <1>7 DEF RuleOK
<1>9. QED
  BY <1>2, <1>8

LEMMA KeptAway ==
  ASSUME ChainInv, Typed', KeysKept, away' = away
  PROVE  AwayOK'
<1> SUFFICES ASSUME NEW a \in away' PROVE RefOK(a.ref, a.left)'
  BY DEF AwayOK
<1>1. a \in AwayType /\ RefOK(a.ref, a.left)
  BY DEF ChainInv, Typed, AwayOK
<1>2. PICK ref \in RefType, left \in LeftType : ref = a.ref /\ left = a.left
  BY <1>1 DEF AwayType
<1>3. RefOK(ref, left)'
  BY <1>1, <1>2, KeptRef DEF ChainInv
<1>4. QED
  BY <1>2, <1>3

LEMMA EnabledRange ==
  ASSUME Typed, NEW i \in 1..N
  PROVE  Enabled(i) \in i..N
<1> DEFINE T == {j \in i..N : j = N \/ At(j).set \notin off}
<1>1. N \in Nat
  BY MapTyped
<1>2. T \in SUBSET Nat /\ T # {} /\ T \subseteq i..N
  <2>1. N \in T
    BY <1>1
  <2>2. QED
    BY <1>1, <2>1
<1> HIDE DEF T
<1>3. \E j \in T : \A k \in T : j <= k
  BY <1>2, NatMin
<1>4. Min(T) \in T
  BY <1>3 DEF Min
<1>5. QED
  BY <1>2, <1>4 DEF Enabled, T

\* A packet that goes on with the body of the rule at pos.
LEMMA GoesOn ==
  ASSUME Typed, NEW p \in InType, p.hit => p.looked, NEW pos \in 1..N
  PROVE  /\ [p EXCEPT !.pos = pos, !.pc = "body"] \in PktType
         /\ PktOK([p EXCEPT !.pos = pos, !.pc = "body"])
<1>1. PICK q : q = [p EXCEPT !.pos = pos, !.pc = "body"]
  OBVIOUS
<1>2. pos \in Nat
  BY MapTyped
<1>3. q \in InType /\ q.pc = "body" /\ q.pos = pos /\ q.hit = p.hit /\ q.looked = p.looked
  BY <1>1, <1>2 DEF InType
<1>4. q \in PktType /\ PktOK(q)
  BY <1>3 DEF PktType, PktOK
<1>5. QED
  BY <1>1, <1>4

\* Where a skipto leads.
LEMMA SkiptoTarget ==
  ASSUME ChainInv, NEW t \in Threads, Skipto(t)
  PROVE  /\ pkt[t].f \in DOMAIN rule /\ rule[pkt[t].f] \in RuleType
         /\ FindRule(Target(rule[pkt[t].f]), 0) \in 1..N
         /\ Cached(rule[pkt[t].f]) =>
              rule[pkt[t].f].next = FindRule(Target(rule[pkt[t].f]), 0)
<1>1. PICK f \in DOMAIN rule : f = pkt[t].f
  BY DEF Skipto, Does
<1>2. rule[f] \in RuleType /\ RuleOK(rule[f])
  BY DEF ChainInv, Typed, RulesOK
<1>3. PICK to \in Nat : to = Target(rule[f])
  BY <1>2, TargetTyped
<1>4. FindRule(to, 0) \in 1..N
  BY FindRuleMeans DEF ChainInv
<1>5. Cached(rule[f]) => rule[f].next = FindRule(to, 0)
  BY <1>2, <1>3 DEF RuleOK, Cached
<1>6. QED
  BY <1>1, <1>2, <1>3, <1>4, <1>5

LEMMA SkiptoStep ==
  ASSUME ChainInv, NEW t \in Threads, Skipto(t)
  PROVE  ChainInv'
<1>1. PICK p \in InType : p = pkt[t] /\ p.pos \in 1..N /\ (p.hit => p.looked)
  BY ActionTyped DEF Skipto, Does
<1>2. PICK f, i : f = p.f /\ i = FindRule(Target(rule[f]), 0)
  OBVIOUS
<1>3. /\ f \in DOMAIN rule /\ rule[f] \in RuleType /\ i \in 1..N /\ i \in Nat
      /\ Cached(rule[f]) => rule[f].next = i
  BY <1>1, <1>2, SkiptoTarget, MapTyped DEF ChainInv
<1>4. CASE /\ Cached(rule[f])
           /\ pkt' = [pkt EXCEPT ![t].pos = Enabled(rule[f].next), ![t].pc = "body"]
           /\ UNCHANGED rule
  <2>1. Enabled(i) \in 1..N
    BY <1>3, EnabledRange DEF ChainInv
  <2>2. pkt' = [pkt EXCEPT ![t] = [p EXCEPT !.pos = Enabled(i), !.pc = "body"]]
    BY <1>1, <1>3, <1>4 DEF ChainInv, Typed
  <2>3. PICK k \in 1..N : k = Enabled(i)
    BY <2>1
  <2>4. [p EXCEPT !.pos = k, !.pc = "body"] \in PktType
        /\ PktOK([p EXCEPT !.pos = k, !.pc = "body"])
    BY <1>1, GoesOn DEF ChainInv
  <2>5. pkt' \in [Threads -> PktType] /\ \A u \in Threads : PktOK(pkt'[u])
    BY <2>2, <2>3, <2>4, OnePacket
  <2>6. QED
    BY <1>4, <2>5, SessSpared, PacketStep DEF Skipto, chainvars
<1>5. CASE /\ ~Cached(rule[f])
           /\ rule' = [rule EXCEPT ![f].next = i]
           /\ pkt' = [pkt EXCEPT ![t].pos = i, ![t].pc = "cache"]
  <2>1. PICK q : q = [p EXCEPT !.pos = i, !.pc = "cache"]
    OBVIOUS
  <2>2. /\ q \in InType /\ q.pc = "cache" /\ q.pos = i /\ q.f = f
        /\ q.hit = p.hit /\ q.looked = p.looked
    BY <1>2, <1>3, <2>1 DEF InType
  <2>3. pkt' = [pkt EXCEPT ![t] = q]
    BY <1>1, <1>5, <2>1 DEF ChainInv, Typed
  <2>4. UNCHANGED <<map, id, off, onepass, uh, sess, ctl, away>>
    BY DEF Skipto
  <2>5. /\ DOMAIN rule' = DOMAIN rule
        /\ rule'[f] = [rule[f] EXCEPT !.next = i]
        /\ \A r \in DOMAIN rule : r # f => rule'[r] = rule[r]
    BY <1>3, <1>5
  <2>6. /\ rule'[f] \in RuleType /\ rule'[f].next = i
        /\ rule'[f].num = rule[f].num /\ rule'[f].id = rule[f].id
        /\ rule'[f].body = rule[f].body /\ rule'[f].set = rule[f].set
        /\ rule'[f].xnext = rule[f].xnext
    BY <1>3, <2>5 DEF RuleType
  <2>7. KeysKept /\ \A r \in DOMAIN rule : rule'[r].set = rule[r].set
    BY <2>4, <2>5, <2>6 DEF KeysKept
  <2>8. Typed'
    <3>1. DOMAIN rule' \subseteq Ptrs /\ rule' \in [DOMAIN rule' -> RuleType]
      BY <1>5, <2>5, <2>6 DEF ChainInv, Typed
    <3>2. pkt' \in [Threads -> PktType]
      BY <2>2, <2>3 DEF ChainInv, Typed, PktType
    <3>3. QED
      BY <2>4, <2>5, <3>1, <3>2 DEF ChainInv, Typed
  <2>9. Ordered' /\ LastIsDefault' /\ (\A c \in Ctls : CtlOK(c)') /\ \A x \in Flows : SessOK(x)'
    BY <2>4, <2>7, <2>8, KeptRest, SessSpared
  <2>10. RulesOK'
    <3> SUFFICES ASSUME NEW r \in DOMAIN rule PROVE RuleOK(rule[r])'
      BY <2>5 DEF RulesOK
    <3>1. RuleOK(rule[r])
      BY DEF ChainInv, RulesOK
    <3>2. rule'[r].xnext <= id /\ (rule'[r].xnext = id => rule'[r].next = FindRule(Target(rule[r]), 0))
      BY <1>5, <2>5, <2>6, <3>1 DEF RuleOK, Cached
    <3>3. QED
      BY <2>7, <2>8, <3>2, KeptRule
  <2>11. PktsOK'
    <3> SUFFICES ASSUME NEW u \in Threads PROVE PktOK(pkt[u])'
      BY DEF PktsOK
    <3>1. CASE u = t
      <4>1. PICK to \in Nat : to = Target(rule[f])
        BY <1>3, TargetTyped
      <4>2. FindRule(to, 0)' = FindRule(to, 0)
        BY <2>7, <2>8, KeptMap, FindRuleSame DEF ChainInv
      <4>3. PICK g : g = rule'[f]
        OBVIOUS
      <4>4. g.next = i /\ Target(g) = to
        BY <2>6, <4>1, <4>3 DEF Target
      <4>5. N' = N
        BY <2>4 DEF N
      <4>6. PktOK(q)'
        BY <1>1, <1>2, <1>3, <2>2, <4>1, <4>2, <4>3, <4>4, <4>5 DEF PktOK
      <4>7. pkt'[u] = q
        BY <2>3, <3>1 DEF ChainInv, Typed
      <4>8. QED
        BY <4>6, <4>7
    <3>2. CASE u # t
      <4>1. PICK o \in PktType : o = pkt[u] /\ PktOK(o) /\ pkt'[u] = o
        BY <2>3, <3>2 DEF ChainInv, Typed, PktsOK
      <4>2. o.pc = "cache" /\ o.f \in DOMAIN rule => rule'[o.f].next = rule[o.f].next
        <5>1. ASSUME o.pc = "cache", o.f = f PROVE rule[f].next = i
          BY <1>2, <1>3, <4>1, <5>1 DEF PktOK
        <5>2. QED
          BY <2>5, <2>6, <5>1
      <4>3. PktOK(o)'
        BY <2>7, <2>8, <4>1, <4>2, KeptPkt DEF ChainInv
      <4>4. QED
        BY <4>1, <4>3
    <3>3. QED
      BY <3>1, <3>2
  <2>12. AwayOK'
    BY <2>4, <2>7, <2>8, KeptAway
  <2>13. QED
    BY <2>8, <2>9, <2>10, <2>11, <2>12 DEF ChainInv
<1>6. QED
  BY <1>1, <1>2, <1>4, <1>5 DEF Skipto

LEMMA SkiptoCachedStep ==
  ASSUME ChainInv, NEW t \in Threads, SkiptoCached(t)
  PROVE  ChainInv'
<1>1. PICK p \in InType : p = pkt[t] /\ p.pos \in 1..N /\ (p.hit => p.looked) /\ PktOK(p)
                          /\ p.pc = "cache"
  BY InTyped DEF SkiptoCached, ChainInv, Typed, PktsOK, PktOK
<1>2. PICK f, k : f = p.f /\ k = Enabled(p.pos)
  OBVIOUS
<1>3. k \in 1..N
  BY <1>1, <1>2, EnabledRange, MapTyped DEF ChainInv
<1>4. PICK q : q = [p EXCEPT !.pos = k, !.pc = "body"]
  OBVIOUS
<1>5. q \in PktType /\ PktOK(q) /\ q.pc = "body"
  <2>1. q.pc = "body"
    BY <1>4 DEF InType
  <2>2. QED
    BY <1>1, <1>3, <1>4, <2>1, GoesOn DEF ChainInv
<1>6. pkt' = [pkt EXCEPT ![t] = q]
  BY <1>1, <1>2, <1>4 DEF SkiptoCached, ChainInv, Typed
<1>7. UNCHANGED <<map, id, off, onepass, uh, sess, ctl, away>>
  BY DEF SkiptoCached
<1>8. pkt' \in [Threads -> PktType]
  BY <1>5, <1>6 DEF ChainInv, Typed
<1>9. CASE f \notin DOMAIN rule
  <2>1. rule' = rule
    BY <1>1, <1>2, <1>9 DEF SkiptoCached
  <2>2. \A u \in Threads : PktOK(pkt'[u])
    BY <1>5, <1>6, OnePacket
  <2>3. QED
    BY <1>7, <1>8, <2>1, <2>2, SessSpared, PacketStep DEF chainvars
<1>10. CASE f \in DOMAIN rule
  <2>1. rule' = [rule EXCEPT ![f].xnext = id] /\ rule[f] \in RuleType /\ id \in Nat
    BY <1>1, <1>2, <1>10 DEF SkiptoCached, ChainInv, Typed
  <2>2. /\ DOMAIN rule' = DOMAIN rule
        /\ rule'[f] = [rule[f] EXCEPT !.xnext = id]
        /\ \A r \in DOMAIN rule : r # f => rule'[r] = rule[r]
    BY <1>10, <2>1
  <2>3. /\ rule'[f] \in RuleType /\ rule'[f].next = rule[f].next
        /\ rule'[f].num = rule[f].num /\ rule'[f].id = rule[f].id
        /\ rule'[f].body = rule[f].body /\ rule'[f].set = rule[f].set
        /\ rule'[f].xnext = id
    BY <2>1, <2>2 DEF RuleType
  <2>4. KeysKept /\ \A r \in DOMAIN rule : rule'[r].set = rule[r].set
    BY <1>7, <2>2, <2>3 DEF KeysKept
  <2>5. Typed'
    <3>1. DOMAIN rule' \subseteq Ptrs /\ rule' \in [DOMAIN rule' -> RuleType]
      BY <2>1, <2>2, <2>3 DEF ChainInv, Typed
    <3>2. QED
      BY <1>7, <1>8, <2>2, <3>1 DEF ChainInv, Typed
  <2>6. Ordered' /\ LastIsDefault' /\ (\A c \in Ctls : CtlOK(c)') /\ \A x \in Flows : SessOK(x)'
    BY <1>7, <2>4, <2>5, KeptRest, SessSpared
  <2>7. RulesOK'
    <3> SUFFICES ASSUME NEW r \in DOMAIN rule PROVE RuleOK(rule[r])'
      BY <2>2 DEF RulesOK
    <3>1. CASE r = f
      <4>1. rule[f].next = FindRule(Target(rule[f]), 0)
        BY <1>1, <1>2, <1>10 DEF PktOK
      <4>2. rule'[r].xnext <= id /\ rule'[r].next = FindRule(Target(rule[r]), 0)
        BY <2>1, <2>3, <3>1, <4>1
      <4>3. QED
        BY <2>4, <2>5, <4>2, KeptRule
    <3>2. CASE r # f
      <4>1. RuleOK(rule[r]) /\ rule'[r] = rule[r]
        BY <2>2, <3>2 DEF ChainInv, RulesOK
      <4>2. rule'[r].xnext <= id /\ (rule'[r].xnext = id => rule'[r].next = FindRule(Target(rule[r]), 0))
        BY <4>1 DEF RuleOK
      <4>3. QED
        BY <2>4, <2>5, <4>2, KeptRule
    <3>3. QED
      BY <3>1, <3>2
  <2>8. PktsOK'
    <3> SUFFICES ASSUME NEW u \in Threads PROVE PktOK(pkt[u])'
      BY DEF PktsOK
    <3>1. PICK o \in PktType : o = pkt'[u] /\ PktOK(o)
      BY <1>5, <1>6, <1>8, OnePacket
    <3>2. o.f \in DOMAIN rule => rule'[o.f].next = rule[o.f].next
      BY <2>2, <2>3
    <3>3. PktOK(o)'
      BY <2>4, <2>5, <3>1, <3>2, KeptPkt DEF ChainInv
    <3>4. QED
      BY <3>1, <3>3
  <2>9. AwayOK'
    BY <1>7, <2>4, <2>5, KeptAway
  <2>10. QED
    BY <2>5, <2>6, <2>7, <2>8, <2>9 DEF ChainInv
<1>11. QED
  BY <1>9, <1>10

-----------------------------------------------------------------------------
(***************************************************************************)
(* The steps of requests that leave the map alone.                         *)
(***************************************************************************)

\* A request that leaves the rules, the packets and the tags alone.
LEMMA RequestStep ==
  ASSUME ChainInv, UNCHANGED <<chainvars, pkt, away>>, off' \subseteq Sets,
         onepass' \in BOOLEAN, uh' \in Ctls \cup {NULL}, ctl' \in [Ctls -> CtlType],
         \A c \in Ctls : CtlOK(c)',
         sess' \in [Flows -> Ptrs \cup {NULL}], \A x \in Flows : SessOK(x)'
  PROVE  ChainInv'
<1>1. Typed'
  BY DEF ChainInv, Typed, chainvars
<1>2. KeysKept
  BY DEF KeysKept, chainvars
<1>3. Ordered'
  BY <1>1, <1>2, KeptMap DEF ChainInv
<1>4. LastIsDefault'
  BY DEF ChainInv, LastIsDefault, chainvars, N, At
<1>5. RulesOK'
  <2> SUFFICES ASSUME NEW p \in DOMAIN rule PROVE RuleOK(rule[p])'
    BY DEF RulesOK, chainvars
  <2>1. RuleOK(rule[p]) /\ rule'[p] = rule[p]
    BY DEF ChainInv, RulesOK, chainvars
  <2>2. rule'[p].xnext <= id /\ (rule'[p].xnext = id => rule'[p].next = FindRule(Target(rule[p]), 0))
    BY <2>1 DEF RuleOK
  <2>3. QED
    BY <1>1, <1>2, <2>2, KeptRule
<1>6. PktsOK'
  <2> SUFFICES ASSUME NEW t \in Threads PROVE PktOK(pkt[t])'
    BY DEF PktsOK
  <2>1. PICK p \in PktType : p = pkt'[t] /\ PktOK(p)
    BY DEF ChainInv, Typed, PktsOK
  <2>2. p.f \in DOMAIN rule => rule'[p.f].next = rule[p.f].next
    BY DEF chainvars
  <2>3. PktOK(p)'
    BY <1>1, <1>2, <2>1, <2>2, KeptPkt DEF ChainInv
  <2>4. QED
    BY <2>1, <2>3
<1>7. AwayOK'
  BY <1>1, <1>2, KeptAway
<1>8. QED
  BY <1>1, <1>3, <1>4, <1>5, <1>6, <1>7 DEF ChainInv

LEMMA CtlTyped ==
  ASSUME ChainInv
  PROVE  /\ ctl \in [Ctls -> CtlType] /\ uh \in Ctls \cup {NULL} /\ NULL \notin Ctls
         /\ off \subseteq Sets /\ \A c \in Ctls : CtlOK(c)
         /\ \A c \in Ctls : ctl[c].pc \in {"insert", "delete", "reap", "sets"} => uh = c
         /\ \A c \in Ctls : Adding(c) => ctl[c] \in AddType
BY ChainAssumption DEF ChainInv, Typed, CtlOK, CtlType, Adding

\* Who is idle, or has not got the lock, holds nothing; what others hold is as it was.
LEMMA AddRuleStep ==
  ASSUME ChainInv, NEW c \in Ctls, NEW num \in Nums, NEW set \in Sets, NEW body \in Bodies,
         AddRule(c, num, set, body)
  PROVE  ChainInv'
<1> DEFINE free == Ptrs \ (DOMAIN rule \cup {ctl[x].p : x \in {y \in Ctls : ~Resting(y)}})
<1>1. PICK p : p = CHOOSE q \in free : TRUE
  OBVIOUS
<1>2. p \in free
  BY <1>1 DEF AddRule
<1>3. /\ p \in Ptrs /\ p \notin DOMAIN rule
      /\ \A d \in Ctls : Adding(d) => ctl[d].p # p
  BY <1>2 DEF Resting, Adding
<1> DEFINE a == [pc |-> "get_map", p |-> p, size |-> N + 1, num |-> num, set |-> set, body |-> body]
<1>4. ctl' = [ctl EXCEPT ![c] = a]
  BY <1>1 DEF AddRule
<1>5. a \in CtlType /\ a.pc = "get_map" /\ a.p = p
  BY <1>3, MapTyped DEF CtlType, AddType, ChainInv
<1> HIDE DEF a, free
<1>6. ctl' \in [Ctls -> CtlType] /\ ctl'[c] = a /\ \A d \in Ctls : d # c => ctl'[d] = ctl[d]
  BY <1>4, <1>5, CtlTyped
<1>7. UNCHANGED <<chainvars, off, onepass, uh, sess, pkt, away>>
  BY DEF AddRule
<1>8. ASSUME NEW d \in Ctls PROVE CtlOK(d)'
  <2>1. CtlOK(d)
    BY CtlTyped
  <2>2. CASE d = c
    BY <1>3, <1>5, <1>6, <1>7, <2>2 DEF CtlOK, Adding, chainvars
  <2>3. CASE d # c
    BY <1>3, <1>5, <1>6, <1>7, <2>1, <2>3 DEF CtlOK, Adding, chainvars, N
  <2>4. QED
    BY <2>2, <2>3
<1>9. ASSUME NEW x \in Flows PROVE SessOK(x)'
  BY <1>5, <1>6, <1>7, SessSpared DEF SessOK, Spared, chainvars
<1>10. QED
  BY <1>6, <1>7, <1>8, <1>9, SessSpared, CtlTyped, RequestStep

LEMMA GetMapStep ==
  ASSUME ChainInv, NEW c \in Ctls, GetMap(c)
  PROVE  ChainInv'
<1>1. /\ ctl[c] \in AddType /\ ctl[c].pc = "get_map" /\ uh = NULL /\ Adding(c)
      /\ N + 1 \in Nat
  BY CtlTyped, MapTyped DEF GetMap, Adding, ChainInv
<1>2. UNCHANGED <<chainvars, off, onepass, sess, pkt, away>>
  BY DEF GetMap
<1>3. PICK a : a = IF BigEnough(ctl[c].size) THEN [ctl[c] EXCEPT !.pc = "insert"]
                   ELSE [ctl[c] EXCEPT !.size = N + 1]
  OBVIOUS
<1>4. ctl' = [ctl EXCEPT ![c] = a]
  BY <1>1, <1>3, CtlTyped DEF GetMap
<1>5. /\ a \in CtlType /\ a.p = ctl[c].p /\ a.pc \in {"get_map", "insert"}
      /\ a.pc = "insert" => a.size >= N + 1 /\ uh' = c
      /\ a.pc = "get_map" => uh' = uh
  BY <1>1, <1>3 DEF AddType, CtlType, BigEnough, GetMap
<1>6. ctl' \in [Ctls -> CtlType] /\ ctl'[c] = a /\ \A d \in Ctls : d # c => ctl'[d] = ctl[d]
  BY <1>4, <1>5, CtlTyped
<1>7. \A d \in Ctls : ctl[d].pc \notin {"insert", "delete", "reap", "sets"}
  BY <1>1, CtlTyped
<1>8. ASSUME NEW d \in Ctls PROVE CtlOK(d)'
  <2>1. CtlOK(d) /\ CtlOK(c)
    BY CtlTyped
  <2>2. CASE d = c
    BY <1>1, <1>2, <1>5, <1>6, <2>1, <2>2 DEF CtlOK, Adding, chainvars, N
  <2>3. CASE d # c
    BY <1>1, <1>2, <1>5, <1>6, <1>7, <2>1, <2>3 DEF CtlOK, Adding, chainvars, N
  <2>4. QED
    BY <2>2, <2>3
<1>9. ASSUME NEW x \in Flows PROVE SessOK(x)'
  BY <1>5, <1>6, <1>7, <1>2, SessSpared DEF SessOK, Spared, chainvars
<1>10. uh' \in Ctls \cup {NULL}
  BY <1>1, <1>5
<1>11. QED
  BY <1>2, <1>6, <1>8, <1>9, <1>10, SessSpared, CtlTyped, RequestStep

LEMMA DelEntryStep ==
  ASSUME ChainInv, NEW c \in Ctls, NEW cmd, NEW set, NEW num, DelEntry(c, cmd, set, num)
  PROVE  ChainInv'
<1> DEFINE doomed == {i \in 1..N : ~KeepRule(At(i), cmd, set, num)}
<1>1. PICK dead : dead = {map[i] : i \in doomed}
  OBVIOUS
<1>2. dead \subseteq Ptrs
  BY <1>1, MapTyped DEF ChainInv
<1>3. map[N] \notin dead
  <2>1. SUFFICES ASSUME map[N] \in dead PROVE FALSE
    OBVIOUS
  <2>2. PICK i \in doomed : map[i] = map[N]
    BY <1>1, <2>1
  <2>3. At(i).num = DefaultNum
    BY <2>2 DEF At, ChainInv, LastIsDefault
  <2>4. QED
    BY <2>3 DEF KeepRule
<1>4. /\ ctl' = [ctl EXCEPT ![c] = [pc |-> "delete", p |-> NULL, dead |-> dead]]
      /\ uh = NULL /\ uh' = c
      /\ UNCHANGED <<chainvars, off, onepass, sess, pkt, away>>
  BY <1>1 DEF DelEntry
<1>5. [pc |-> "delete", p |-> NULL, dead |-> dead] \in CtlType
  BY <1>2 DEF CtlType
<1>6. /\ ctl' \in [Ctls -> CtlType] /\ ctl'[c].pc = "delete" /\ ctl'[c].dead = dead
      /\ \A d \in Ctls : d # c => ctl'[d] = ctl[d]
  BY <1>4, <1>5, CtlTyped
<1>7. \A d \in Ctls : ctl[d].pc \notin {"insert", "delete", "reap", "sets"}
  BY <1>4, CtlTyped
<1>8. ASSUME NEW d \in Ctls PROVE CtlOK(d)'
  <2>1. CtlOK(d)
    BY CtlTyped
  <2>2. CASE d = c
    BY <1>3, <1>4, <1>6, <2>2 DEF CtlOK, Adding, chainvars, N
  <2>3. CASE d # c
    BY <1>4, <1>6, <1>7, <2>1, <2>3 DEF CtlOK, Adding, chainvars, N
  <2>4. QED
    BY <2>2, <2>3
<1>9. ASSUME NEW x \in Flows PROVE SessOK(x)'
  BY <1>4, <1>6, <1>7, SessSpared DEF SessOK, Spared, chainvars
<1>10. QED
  BY <1>4, <1>6, <1>8, <1>9, SessSpared, CtlTyped, RequestStep

LEMMA MoveSetsStart ==
  ASSUME ChainInv, NEW c \in Ctls, NEW cmd, NEW num, NEW new \in Sets,
         cmd = 4 => num \in Sets, MoveSets(c, cmd, num, new)
  PROVE  ChainInv'
<1>1. PICK to : to = [i \in 1..N - 1 |-> NewSet(At(i), cmd, num, new)]
  OBVIOUS
<1>2. to \in Seq(Sets) /\ Len(to) < N
  <2>1. N - 1 \in Nat /\ N \in Nat
    BY MapTyped DEF ChainInv
  <2>2. ASSUME NEW i \in 1..N - 1 PROVE NewSet(At(i), cmd, num, new) \in Sets
    <3>1. At(i).set \in Sets
      BY <2>1, MapTyped DEF ChainInv, RuleType
    <3>2. QED
      BY <3>1 DEF NewSet
  <2>3. to \in [1..N - 1 -> Sets]
    BY <1>1, <2>2
  <2>4. to \in Seq(Sets) /\ Len(to) = N - 1
    BY <2>1, <2>3
  <2>5. QED
    BY <2>1, <2>4
<1>3. /\ ctl' = [ctl EXCEPT ![c] = [pc |-> "sets", p |-> NULL, to |-> to]]
      /\ uh = NULL /\ uh' = c
      /\ UNCHANGED <<chainvars, off, onepass, sess, pkt, away>>
  BY <1>1 DEF MoveSets
<1>4. [pc |-> "sets", p |-> NULL, to |-> to] \in CtlType
  BY <1>2 DEF CtlType
<1>5. /\ ctl' \in [Ctls -> CtlType] /\ ctl'[c].pc = "sets" /\ ctl'[c].to = to
      /\ \A d \in Ctls : d # c => ctl'[d] = ctl[d]
  BY <1>3, <1>4, CtlTyped
<1>6. \A d \in Ctls : ctl[d].pc \notin {"insert", "delete", "reap", "sets"}
  BY <1>3, CtlTyped
<1>7. ASSUME NEW d \in Ctls PROVE CtlOK(d)'
  <2>1. CtlOK(d)
    BY CtlTyped
  <2>2. CASE d = c
    BY <1>2, <1>3, <1>5, <2>2 DEF CtlOK, Adding, chainvars, N
  <2>3. CASE d # c
    BY <1>3, <1>5, <1>6, <2>1, <2>3 DEF CtlOK, Adding, chainvars, N
  <2>4. QED
    BY <2>2, <2>3
<1>8. ASSUME NEW x \in Flows PROVE SessOK(x)'
  BY <1>3, <1>5, <1>6, SessSpared DEF SessOK, Spared, chainvars
<1>9. QED
  BY <1>3, <1>5, <1>7, <1>8, SessSpared, CtlTyped, RequestStep

LEMMA SetDisableStep ==
  ASSUME ChainInv, NEW c \in Ctls, NEW disable \in SUBSET Sets, NEW enable,
         SetDisable(c, disable, enable)
  PROVE  ChainInv'
<1>1. off' \subseteq Sets /\ UNCHANGED <<chainvars, onepass, uh, sess, ctl, pkt, away>>
  BY CtlTyped DEF SetDisable
<1>2. ASSUME NEW d \in Ctls PROVE CtlOK(d)'
  <2>1. CtlOK(d)
    BY CtlTyped
  <2>2. QED
    BY <1>1, <2>1 DEF CtlOK, Adding, chainvars, N
<1>3. ASSUME NEW x \in Flows PROVE SessOK(x)'
  BY <1>1, SessSpared DEF SessOK, Spared, chainvars
<1>4. QED
  BY <1>1, <1>2, <1>3, SessSpared, CtlTyped, RequestStep

LEMMA SetOnePassStep ==
  ASSUME ChainInv, NEW b \in BOOLEAN, SetOnePass(b)
  PROVE  ChainInv'
<1>1. onepass' \in BOOLEAN /\ UNCHANGED <<chainvars, off, uh, sess, ctl, pkt, away>>
  BY DEF SetOnePass
<1>2. ASSUME NEW d \in Ctls PROVE CtlOK(d)'
  <2>1. CtlOK(d)
    BY CtlTyped
  <2>2. QED
    BY <1>1, <2>1 DEF CtlOK, Adding, chainvars, N
<1>3. ASSUME NEW x \in Flows PROVE SessOK(x)'
  BY <1>1, SessSpared DEF SessOK, Spared, chainvars
<1>4. QED
  BY <1>1, <1>2, <1>3, SessSpared, CtlTyped, RequestStep

\* The request that frees rules is the one that holds the lock.
LEMMA ReapTyped ==
  ASSUME ChainInv, NEW c \in Ctls, ctl[c].pc = "reap"
  PROVE  /\ ctl[c] \in [pc : {"reap"}, p : {NULL}, dead : SUBSET Ptrs, left : SUBSET Ptrs]
         /\ uh = c /\ ctl[c].left \subseteq ctl[c].dead
         /\ \A i \in 1..N : map[i] \notin ctl[c].dead
         /\ \A d \in Ctls : d # c => ctl[d].pc \notin {"insert", "delete", "reap", "sets"}
<1>1. ctl[c] \in CtlType /\ CtlOK(c) /\ uh = c
  BY CtlTyped
<1>2. ctl[c] \in [pc : {"reap"}, p : {NULL}, dead : SUBSET Ptrs, left : SUBSET Ptrs]
  BY <1>1 DEF CtlType, AddType
<1>3. \A d \in Ctls : d # c => ctl[d].pc \notin {"insert", "delete", "reap", "sets"}
  BY <1>1, CtlTyped
<1>4. QED
  BY <1>1, <1>2, <1>3 DEF CtlOK

LEMMA RemoveChildrenStep ==
  ASSUME ChainInv, NEW c \in Ctls, RemoveChildren(c)
  PROVE  ChainInv'
<1>1. PICK p \in ctl[c].left :
        /\ sess' = Orphan(p)
        /\ ctl' = [ctl EXCEPT ![c].left = @ \ {p}]
  BY DEF RemoveChildren
<1>2. UNCHANGED <<chainvars, off, onepass, uh, pkt, away>>
  BY DEF RemoveChildren
<1>3. PICK a : a = ctl[c]
  OBVIOUS
<1>4. /\ a \in [pc : {"reap"}, p : {NULL}, dead : SUBSET Ptrs, left : SUBSET Ptrs]
      /\ uh = c /\ a.left \subseteq a.dead /\ \A i \in 1..N : map[i] \notin a.dead
      /\ \A d \in Ctls : d # c => ctl[d].pc \notin {"insert", "delete", "reap", "sets"}
  BY <1>3, ReapTyped DEF RemoveChildren
<1>5. PICK b : b = [a EXCEPT !.left = a.left \ {p}]
  OBVIOUS
<1>6. /\ b \in CtlType /\ b.pc = "reap" /\ b.dead = a.dead /\ b.left = a.left \ {p}
  BY <1>4, <1>5 DEF CtlType
<1>7. ctl' = [ctl EXCEPT ![c] = b]
  BY <1>1, <1>3, <1>5, CtlTyped
<1>8. ctl' \in [Ctls -> CtlType] /\ ctl'[c] = b /\ \A d \in Ctls : d # c => ctl'[d] = ctl[d]
  BY <1>6, <1>7, CtlTyped
<1>9. ASSUME NEW d \in Ctls PROVE CtlOK(d)'
  <2>1. CtlOK(d)
    BY CtlTyped
  <2>2. CASE d = c
    BY <1>2, <1>4, <1>6, <1>8, <2>2 DEF CtlOK, Adding, chainvars, N
  <2>3. CASE d # c
    BY <1>2, <1>4, <1>6, <1>8, <2>1, <2>3 DEF CtlOK, Adding, chainvars, N
  <2>4. QED
    BY <2>2, <2>3
<1>10. \A x \in Flows : sess'[x] = NULL \/ (sess'[x] = sess[x] /\ sess[x] # p)
  BY <1>1 DEF Orphan
<1>11. sess' \in [Flows -> Ptrs \cup {NULL}]
  BY <1>1, SessSpared DEF Orphan
<1>12. ASSUME NEW x \in Flows PROVE SessOK(x)'
  <2>1. CASE sess'[x] = NULL
    BY <2>1 DEF SessOK, Spared
  <2>2. CASE sess'[x] # NULL
    <3>1. PICK q : q = sess[x] /\ q = sess'[x] /\ q # p
      BY <1>10, <2>2
    <3>2. q \in DOMAIN rule' /\ (q \in a.dead => q \in a.left)
      BY <1>2, <1>3, <1>4, <2>2, <3>1, SessSpared DEF Spared, chainvars
    <3>3. \A d \in Ctls : ctl'[d].pc = "reap" /\ q \in ctl'[d].dead => q \in ctl'[d].left
      BY <1>4, <1>6, <1>8, <3>1, <3>2
    <3>4. QED
      BY <3>1, <3>2, <3>3 DEF SessOK, Spared
  <2>3. QED
    BY <2>1, <2>2
<1>13. QED
  BY <1>2, <1>8, <1>9, <1>11, <1>12, SessSpared, CtlTyped, RequestStep

\* What frees rules does not touch the map, the sessions or what the tags say.
LEMMA ReapStep ==
  ASSUME ChainInv, NEW c \in Ctls, Reap(c)
  PROVE  ChainInv'
<1>1. PICK dead : dead = ctl[c].dead
  OBVIOUS
<1>2. /\ rule' = [p \in DOMAIN rule \ dead |-> rule[p]]
      /\ uh' = NULL /\ ctl' = [ctl EXCEPT ![c] = Idle] /\ ctl[c].left = {}
      /\ UNCHANGED <<map, id, off, onepass, sess, pkt, away>>
  BY <1>1 DEF Reap
<1>3. /\ uh = c /\ \A i \in 1..N : map[i] \notin dead
      /\ \A d \in Ctls : d # c => ctl[d].pc \notin {"insert", "delete", "reap", "sets"}
  BY <1>1, ReapTyped DEF Reap
<1>4. /\ DOMAIN rule' = DOMAIN rule \ dead
      /\ \A p \in DOMAIN rule' : rule'[p] = rule[p]
  BY <1>2
<1>5. N' = N /\ \A i \in 1..N : At(i)' = At(i)
  BY <1>2, <1>3, <1>4, MapTyped DEF N, At, ChainInv
<1>6. Idle \in CtlType /\ Idle.pc = "idle"
  BY DEF Idle, CtlType
<1>7. ctl' \in [Ctls -> CtlType] /\ ctl'[c].pc = "idle" /\ \A d \in Ctls : d # c => ctl'[d] = ctl[d]
  BY <1>2, <1>6, CtlTyped
<1>8. Typed'
  <2>1. rule' \in [DOMAIN rule' -> RuleType] /\ DOMAIN rule' \subseteq Ptrs
    BY <1>2, <1>4 DEF ChainInv, Typed
  <2>2. map' \in Seq(DOMAIN rule') /\ map' # << >>
    <3>1. map \in Seq(DOMAIN rule) /\ map # << >> /\ Len(map) = N
      BY DEF ChainInv, Typed, N
    <3>2. \A i \in 1..Len(map) : map[i] \in DOMAIN rule \ dead
      BY <1>3, <3>1
    <3>3. map \in Seq(DOMAIN rule \ dead)
      BY <3>1, <3>2
    <3>4. QED
      BY <1>2, <1>4, <3>1, <3>3
  <2>3. QED
    BY <1>2, <1>7, <2>1, <2>2 DEF ChainInv, Typed
<1>9. Ordered' /\ LastIsDefault'
  <2>1. N \in 1..N
    BY MapTyped DEF ChainInv
  <2>2. QED
    BY <1>5, <2>1 DEF ChainInv, Ordered, LastIsDefault
<1>10. SameKeys /\ \A num, rid \in Nat : FindRule(num, rid)' = FindRule(num, rid)
  <2>1. SameKeys
    BY <1>2, <1>5 DEF SameKeys
  <2>2. QED
    BY <1>8, <1>9, <2>1, FindRuleSame DEF ChainInv
<1>11. RulesOK'
  <2> SUFFICES ASSUME NEW p \in DOMAIN rule' PROVE RuleOK(rule[p])'
    BY DEF RulesOK
  <2>1. PICK r \in RuleType : r = rule[p] /\ RuleOK(r) /\ rule'[p] = r
    BY <1>4 DEF ChainInv, Typed, RulesOK
  <2>2. PICK to \in Nat : to = Target(r)
    BY TargetTyped
  <2>3. FindRule(to, 0)' = FindRule(to, 0)
    BY <1>10
  <2>4. RuleOK(r)'
    BY <1>2, <2>1, <2>2, <2>3 DEF RuleOK
  <2>5. QED
    BY <2>1, <2>4
<1>12. ASSUME NEW d \in Ctls PROVE CtlOK(d)'
  <2>1. CtlOK(d)
    BY CtlTyped
  <2>2. CASE d = c
    BY <1>2, <1>7, <2>2 DEF CtlOK, Adding
  <2>3. CASE d # c
    BY <1>2, <1>3, <1>4, <1>5, <1>7, <2>1, <2>3 DEF CtlOK, Adding
  <2>4. QED
    BY <2>2, <2>3
<1>13. ASSUME NEW x \in Flows PROVE SessOK(x)'
  <2>1. Spared(sess[x])
    BY SessSpared
  <2>2. sess[x] # NULL => sess[x] \in DOMAIN rule \ dead
    BY <1>1, <1>2, <2>1 DEF Spared, Reap
  <2>3. QED
    BY <1>2, <1>3, <1>4, <1>7, <2>1, <2>2 DEF SessOK, Spared
<1>14. PktsOK'
  <2> SUFFICES ASSUME NEW t \in Threads PROVE PktOK(pkt[t])'
    BY DEF PktsOK
  <2>1. PICK p \in PktType : p = pkt[t] /\ p = pkt'[t] /\ PktOK(p)
    BY <1>2 DEF ChainInv, Typed, PktsOK
  <2>2. ASSUME p.f \in DOMAIN rule'
        PROVE  /\ p.f \in DOMAIN rule /\ rule'[p.f] = rule[p.f]
               /\ FindRule(rule[p.f].num, rule[p.f].id)' = FindRule(rule[p.f].num, rule[p.f].id)
               /\ FindRule(Target(rule[p.f]), 0)' = FindRule(Target(rule[p.f]), 0)
    <3>1. PICK r \in RuleType : r = rule[p.f] /\ r = rule'[p.f] /\ p.f \in DOMAIN rule
      BY <1>4, <2>2 DEF ChainInv, Typed
    <3>2. PICK num, rid, to \in Nat : num = r.num /\ rid = r.id /\ to = Target(r)
      BY TargetTyped
    <3>3. FindRule(num, rid)' = FindRule(num, rid) /\ FindRule(to, 0)' = FindRule(to, 0)
      BY <1>10
    <3>4. QED
      BY <3>1, <3>2, <3>3
  <2>3. p.pc \in {"pipe", "divert", "tee"} => RefOK(p.ref, p.left)'
    <3> SUFFICES ASSUME p.pc \in {"pipe", "divert", "tee"} PROVE RefOK(p.ref, p.left)'
      OBVIOUS
    <3>1. PICK ref \in RefType, left \in LeftType : ref = p.ref /\ left = p.left
      BY OutTyped DEF OutType
    <3>2. RefOK(ref, left)
      BY <2>1, <3>1 DEF PktOK
    <3>3. RefOK(ref, left)'
      BY <1>2, <1>5, <1>8, <1>9, <1>10, <3>2, SameRef DEF ChainInv
    <3>4. QED
      BY <3>1, <3>3
  <2>4. PktOK(p)'
    BY <1>2, <1>4, <1>5, <2>1, <2>2, <2>3 DEF PktOK
  <2>5. QED
    BY <2>1, <2>4
<1>15. AwayOK'
  <2> SUFFICES ASSUME NEW a \in away' PROVE RefOK(a.ref, a.left)'
    BY DEF AwayOK
  <2>1. a \in AwayType /\ RefOK(a.ref, a.left)
    BY <1>2 DEF ChainInv, Typed, AwayOK
  <2>2. PICK ref \in RefType, left \in LeftType : ref = a.ref /\ left = a.left
    BY <2>1 DEF AwayType
  <2>3. RefOK(ref, left)'
    BY <1>2, <1>5, <1>10, <2>1, <2>2, SameRef DEF ChainInv
  <2>4. QED
    BY <2>2, <2>3
<1>16. QED
  BY <1>8, <1>9, <1>11, <1>12, <1>13, <1>14, <1>15 DEF ChainInv

LEMMA MoveSetsNext ==
  ASSUME ChainInv, NEW c \in Ctls, MoveSetsStep(c), ctl[c].to # << >>
  PROVE  ChainInv'
<1>1. ctl[c] \in CtlType /\ CtlOK(c) /\ uh = c /\ ctl[c].pc = "sets"
  BY CtlTyped DEF MoveSetsStep
<1>2. PICK a : a = ctl[c]
  OBVIOUS
<1>3. a \in [pc : {"sets"}, p : {NULL}, to : Seq(Sets)] /\ Len(a.to) < N
  BY <1>1, <1>2 DEF CtlType, AddType, CtlOK
<1>4. PICK to \in Seq(Sets) : to = a.to /\ to # << >>
  BY <1>2, <1>3
<1>5. /\ Head(to) \in Sets /\ Tail(to) \in Seq(Sets) /\ Len(Tail(to)) = Len(to) - 1
      /\ Len(to) \in Nat /\ Len(to) > 0 /\ Len(to) < N /\ N \in Nat
  BY <1>3, <1>4, MapTyped DEF ChainInv
<1>6. PICK i \in 1..N : i = N - Len(to) /\ i < N
  BY <1>5
<1>7. PICK f \in DOMAIN rule : f = map[i] /\ f # map[N]
  <2>1. At(i).num < DefaultNum /\ At(N).num = DefaultNum
    BY <1>6 DEF ChainInv, LastIsDefault
  <2>2. At(i).num \in Nat
    BY MapTyped DEF ChainInv
  <2>3. map[i] # map[N]
    BY <2>1, <2>2 DEF At
  <2>4. QED
    BY <2>3, MapTyped DEF ChainInv
<1>8. /\ rule' = [rule EXCEPT ![f].set = Head(to)]
      /\ ctl' = [ctl EXCEPT ![c].to = Tail(to)]
      /\ UNCHANGED <<map, id, off, onepass, uh, sess, pkt, away>>
  BY <1>2, <1>4, <1>6, <1>7 DEF MoveSetsStep
<1>9. PICK b : b = [a EXCEPT !.to = Tail(to)]
  OBVIOUS
<1>10. b \in CtlType /\ b.pc = "sets" /\ b.to = Tail(to)
  BY <1>3, <1>5, <1>9 DEF CtlType
<1>11. ctl' \in [Ctls -> CtlType] /\ ctl'[c] = b /\ \A d \in Ctls : d # c => ctl'[d] = ctl[d]
  BY <1>2, <1>8, <1>9, <1>10, CtlTyped
<1>12. rule[f] \in RuleType
  BY DEF ChainInv, Typed
<1>13. /\ DOMAIN rule' = DOMAIN rule
       /\ rule'[f] = [rule[f] EXCEPT !.set = Head(to)]
       /\ \A r \in DOMAIN rule : r # f => rule'[r] = rule[r]
  BY <1>8
<1>14. /\ rule'[f] \in RuleType /\ rule'[f].next = rule[f].next
       /\ rule'[f].num = rule[f].num /\ rule'[f].id = rule[f].id
       /\ rule'[f].body = rule[f].body /\ rule'[f].xnext = rule[f].xnext
  BY <1>5, <1>12, <1>13 DEF RuleType
<1>15. KeysKept
  BY <1>8, <1>13, <1>14 DEF KeysKept
<1>16. Typed'
  <2>1. DOMAIN rule' \subseteq Ptrs /\ rule' \in [DOMAIN rule' -> RuleType]
    BY <1>8, <1>13, <1>14 DEF ChainInv, Typed
  <2>2. QED
    BY <1>8, <1>11, <1>13, <2>1 DEF ChainInv, Typed
<1>17. Ordered' /\ N' = N
  BY <1>15, <1>16, KeptMap DEF ChainInv
<1>18. LastIsDefault'
  <2>1. rule'[map[N]] = rule[map[N]] /\ map' = map /\ N \in 1..N
    BY <1>6, <1>7, <1>8, <1>13, MapTyped DEF ChainInv
  <2>2. At(N)' = At(N)
    BY <1>17, <2>1 DEF At
  <2>3. \A j \in 1..N : At(j)'.num = At(j).num
    BY <1>15, <1>16, KeptMap DEF ChainInv, SameKeys
  <2>4. QED
    BY <1>17, <2>2, <2>3 DEF ChainInv, LastIsDefault
<1>19. RulesOK'
  <2> SUFFICES ASSUME NEW r \in DOMAIN rule PROVE RuleOK(rule[r])'
    BY <1>13 DEF RulesOK
  <2>1. RuleOK(rule[r]) /\ rule'[r].xnext = rule[r].xnext /\ rule'[r].next = rule[r].next
    BY <1>13, <1>14 DEF ChainInv, RulesOK
  <2>2. rule'[r].xnext <= id /\ (rule'[r].xnext = id => rule'[r].next = FindRule(Target(rule[r]), 0))
    BY <2>1 DEF RuleOK
  <2>3. QED
    BY <1>15, <1>16, <2>2, KeptRule
<1>20. ASSUME NEW d \in Ctls PROVE CtlOK(d)'
  <2>1. CtlOK(d)
    BY CtlTyped
  <2>2. CASE d = c
    <3>1. Len(Tail(to)) < N'
      BY <1>5, <1>17
    <3>2. QED
      BY <1>1, <1>8, <1>10, <1>11, <2>2, <3>1 DEF CtlOK, Adding
  <2>3. CASE d # c
    BY <1>8, <1>10, <1>11, <1>13, <1>17, <2>1, <2>3 DEF CtlOK, Adding
  <2>4. QED
    BY <2>2, <2>3
<1>21. ASSUME NEW x \in Flows PROVE SessOK(x)'
  <2>1. \A d \in Ctls : ctl'[d].pc = "reap" => ctl'[d] = ctl[d]
    BY <1>10, <1>11
  <2>2. QED
    BY <1>8, <1>13, <2>1, SessSpared DEF SessOK, Spared
<1>22. PktsOK'
  <2> SUFFICES ASSUME NEW t \in Threads PROVE PktOK(pkt[t])'
    BY DEF PktsOK
  <2>1. PICK p \in PktType : p = pkt'[t] /\ PktOK(p)
    BY <1>8 DEF ChainInv, Typed, PktsOK
  <2>2. p.f \in DOMAIN rule => rule'[p.f].next = rule[p.f].next
    BY <1>13, <1>14
  <2>3. PktOK(p)'
    BY <1>15, <1>16, <2>1, <2>2, KeptPkt DEF ChainInv
  <2>4. QED
    BY <2>1, <2>3
<1>23. AwayOK'
  BY <1>8, <1>15, <1>16, KeptAway
<1>24. QED
  BY <1>16, <1>17, <1>18, <1>19, <1>20, <1>21, <1>22, <1>23 DEF ChainInv

LEMMA MoveSetsEnd ==
  ASSUME ChainInv, NEW c \in Ctls, MoveSetsStep(c), ctl[c].to = << >>
  PROVE  ChainInv'
<1>1. /\ uh' = NULL /\ ctl' = [ctl EXCEPT ![c] = Idle] /\ uh = c
      /\ UNCHANGED <<chainvars, off, onepass, sess, pkt, away>>
  BY CtlTyped DEF MoveSetsStep, chainvars
<1>2. Idle \in CtlType /\ Idle.pc = "idle"
  BY DEF Idle, CtlType
<1>3. ctl' \in [Ctls -> CtlType] /\ ctl'[c].pc = "idle" /\ \A d \in Ctls : d # c => ctl'[d] = ctl[d]
  BY <1>1, <1>2, CtlTyped
<1>4. \A d \in Ctls : d # c => ctl[d].pc \notin {"insert", "delete", "reap", "sets"}
  BY <1>1, CtlTyped
<1>5. ASSUME NEW d \in Ctls PROVE CtlOK(d)'
  <2>1. CtlOK(d)
    BY CtlTyped
  <2>2. CASE d = c
    BY <1>3, <2>2 DEF CtlOK, Adding
  <2>3. CASE d # c
    BY <1>1, <1>3, <1>4, <2>1, <2>3 DEF CtlOK, Adding, chainvars, N
  <2>4. QED
    BY <2>2, <2>3
<1>6. ASSUME NEW x \in Flows PROVE SessOK(x)'
  <2>1. \A d \in Ctls : ctl'[d].pc = "reap" => ctl'[d] = ctl[d]
    BY <1>3
  <2>2. QED
    BY <1>1, <2>1, SessSpared DEF SessOK, Spared, chainvars
<1>7. QED
  BY <1>1, <1>3, <1>5, <1>6, SessSpared, CtlTyped, RequestStep

-----------------------------------------------------------------------------
(***************************************************************************)
(* del_entry(): the new map has the rules that are kept, in their order.   *)
(***************************************************************************)

LEMMA KeptCopied ==
  ASSUME Typed, NEW dead
  PROVE  Kept(dead) \in Seq(DOMAIN rule) /\ Copied(map, dead, N, Kept(dead))
<1> DEFINE G == CHOOSE g : IsCopy(map, dead, N, g)
<1>1. N \in Nat /\ map \in Seq(DOMAIN rule) /\ N = Len(map)
  BY MapTyped DEF Typed, N
<1>2. IsCopy(map, dead, N, G)
  <2>1. \E g : IsCopy(map, dead, N, g)
    BY <1>1, CopyExists
  <2>2. QED
    BY <2>1
<1>3. Kept(dead) = G[N]
  BY DEF Kept, IsCopy
<1> HIDE DEF G
<1>4. IsCopy(map, dead, Len(map), G)
  BY <1>1, <1>2
<1>5. G[Len(map)] \in Seq(DOMAIN rule) /\ Copied(map, dead, Len(map), G[Len(map)])
  BY <1>1, <1>4, CopyIs
<1>6. QED
  BY <1>1, <1>3, <1>5

\* What is kept is sorted and ends with the default rule, as the map did.
LEMMA KeptOK ==
  ASSUME Typed, Ordered, LastIsDefault, NEW dead, map[N] \notin dead, NEW s, s = Kept(dead)
  PROVE  /\ s \in Seq(DOMAIN rule) /\ s # << >> /\ Len(s) \in Nat \ {0} /\ s[Len(s)] = map[N]
         /\ \A i, j \in 1..Len(s) : i < j => Precedes(rule[s[i]], rule[s[j]].num, rule[s[j]].id)
         /\ \A i \in 1..Len(s) : i < Len(s) => rule[s[i]].num < DefaultNum
         /\ \A i \in 1..Len(s) : s[i] \notin dead
<1>1. s \in Seq(DOMAIN rule) /\ Len(s) \in Nat /\ N \in Nat \ {0}
  BY KeptCopied, MapTyped
<1>2. PICK e : Picks(map, dead, N, s, e)
  BY KeptCopied DEF Copied
<1>3. PICK l \in Nat : l = Len(s)
  BY <1>1
<1>4. /\ \A k \in 1..l : e[k] \in 1..N /\ s[k] = map[e[k]] /\ s[k] \notin dead
      /\ \A j, k \in 1..l : j < k => e[j] < e[k]
  BY <1>2, <1>3 DEF Picks
<1>5. PICK k \in 1..l : e[k] = N
  BY <1>1, <1>2, <1>3 DEF Picks
<1>6. k = l
  <2>1. SUFFICES ASSUME k # l PROVE FALSE
    OBVIOUS
  <2>2. k < l /\ l \in 1..l
    BY <2>1
  <2>3. e[k] < e[l] /\ e[l] \in 1..N
    BY <1>4, <2>2
  <2>4. QED
    BY <1>1, <1>5, <2>3
<1>7. s[l] = map[N] /\ l > 0
  BY <1>4, <1>5, <1>6
<1>8. \A i, j \in 1..l : i < j => Precedes(rule[s[i]], rule[s[j]].num, rule[s[j]].id)
  BY <1>4 DEF Ordered, At
<1>9. \A i \in 1..l : i < l => rule[s[i]].num < DefaultNum
  <2> SUFFICES ASSUME NEW i \in 1..l, i < l PROVE rule[s[i]].num < DefaultNum
    OBVIOUS
  <2>1. l \in 1..l
    BY <1>7
  <2>2. e[i] < e[l] /\ e[l] = N /\ e[i] \in 1..N /\ s[i] = map[e[i]]
    BY <1>4, <1>5, <1>6, <2>1
  <2>3. QED
    BY <2>2 DEF LastIsDefault, At
<1>10. QED
  BY <1>1, <1>3, <1>4, <1>7, <1>8, <1>9

-----------------------------------------------------------------------------
(***************************************************************************)
(* swap_map(): no packet reads the map, and no cache or tag is of the new  *)
(* version.                                                                *)
(***************************************************************************)

LEMMA OldRef ==
  ASSUME ChainInv, id' = Bump, NEW ref \in RefType, NEW left, RefOK(ref, left)
  PROVE  RefOK(ref, left)'
<1>1. ref.cid \in Nat /\ id \in Nat /\ ref.cid <= id
  BY DEF RefType, RefOK, ChainInv, Typed
<1>2. ref.cid <= id' /\ ref.cid # id'
  BY <1>1 DEF Bump
<1>3. left # NULL => ref.num = left[1] /\ ref.rid = left[2] + 1
  BY DEF RefOK
<1>4. QED
  BY <1>2, <1>3 DEF RefOK

LEMMA Bumped ==
  ASSUME ChainInv, Readers = {}, id' = Bump, UNCHANGED <<pkt, away>>
  PROVE  PktsOK' /\ AwayOK'
<1>1. ASSUME NEW t \in Threads PROVE PktOK(pkt[t])'
  <2>1. PICK p \in PktType : p = pkt[t] /\ p = pkt'[t] /\ PktOK(p)
    BY DEF ChainInv, Typed, PktsOK
  <2>2. p.pc \notin {"scan", "body", "action", "cache"}
    BY <2>1 DEF Readers
  <2>3. p.pc \in {"pipe", "divert", "tee"} => RefOK(p.ref, p.left)'
    <3> SUFFICES ASSUME p.pc \in {"pipe", "divert", "tee"} PROVE RefOK(p.ref, p.left)'
      OBVIOUS
    <3>1. PICK ref \in RefType : ref = p.ref
      BY OutTyped DEF OutType
    <3>2. RefOK(ref, p.left)
      BY <2>1, <3>1 DEF PktOK
    <3>3. RefOK(ref, p.left)'
      BY <3>2, OldRef
    <3>4. QED
      BY <3>1, <3>3
  <2>4. PktOK(p)'
    BY <2>2, <2>3 DEF PktOK
  <2>5. QED
    BY <2>1, <2>4
<1>2. ASSUME NEW a \in away' PROVE RefOK(a.ref, a.left)'
  <2>1. a \in AwayType /\ RefOK(a.ref, a.left)
    BY DEF ChainInv, Typed, AwayOK
  <2>2. PICK ref \in RefType : ref = a.ref
    BY <2>1 DEF AwayType
  <2>3. RefOK(ref, a.left)'
    BY <2>1, <2>2, OldRef
  <2>4. QED
    BY <2>2, <2>3
<1>3. QED
  BY <1>1, <1>2 DEF PktsOK, AwayOK

\* No rule that was there has a cache of the new version.
LEMMA OldRule ==
  ASSUME ChainInv, id' = Bump, NEW p \in DOMAIN rule, NEW r, r = rule[p]
  PROVE  RuleOK(r)'
<1>1. r \in RuleType /\ RuleOK(r) /\ id \in Nat
  BY DEF ChainInv, Typed, RulesOK
<1>2. r.id <= id /\ r.xnext <= id /\ r.id \in Nat /\ r.xnext \in Nat
  BY <1>1 DEF RuleOK, RuleType
<1>3. r.id <= id' /\ r.xnext <= id' /\ r.xnext # id'
  BY <1>1, <1>2 DEF Bump
<1>4. QED
  BY <1>3 DEF RuleOK

LEMMA DelSwapStep ==
  ASSUME ChainInv, NEW c \in Ctls, DelSwap(c)
  PROVE  ChainInv'
<1>1. ctl[c] \in CtlType /\ CtlOK(c) /\ uh = c /\ ctl[c].pc = "delete"
  BY CtlTyped DEF DelSwap
<1>2. PICK dead : dead = ctl[c].dead
  OBVIOUS
<1>3. dead \subseteq Ptrs /\ map[N] \notin dead
  BY <1>1, <1>2 DEF CtlType, AddType, CtlOK
<1>4. PICK s : s = Kept(dead)
  OBVIOUS
<1>5. PICK l \in Nat \ {0} :
        /\ l = Len(s) /\ s \in Seq(DOMAIN rule) /\ s # << >> /\ s[l] = map[N]
        /\ \A i, j \in 1..l : i < j => Precedes(rule[s[i]], rule[s[j]].num, rule[s[j]].id)
        /\ \A i \in 1..l : i < l => rule[s[i]].num < DefaultNum
        /\ \A i \in 1..l : s[i] \notin dead
  BY <1>3, <1>4, KeptOK DEF ChainInv
<1>6. /\ Readers = {} /\ map' = s /\ id' = Bump
      /\ UNCHANGED <<rule, off, onepass, uh, sess, pkt, away>>
  BY <1>2, <1>4 DEF DelSwap
<1> DEFINE a == [pc |-> "reap", p |-> NULL, dead |-> dead, left |-> dead]
<1>7. ctl' = [ctl EXCEPT ![c] = a]
  BY <1>2 DEF DelSwap
<1>8. a \in CtlType /\ a.pc = "reap" /\ a.dead = dead /\ a.left = dead
  BY <1>3 DEF CtlType
<1> HIDE DEF a
<1>9. ctl' \in [Ctls -> CtlType] /\ ctl'[c] = a /\ \A d \in Ctls : d # c => ctl'[d] = ctl[d]
  BY <1>7, <1>8, CtlTyped
<1>10. N' = l
  BY <1>5, <1>6 DEF N
<1>11. id' \in Nat \ {0}
  BY <1>6, MapTyped DEF Bump, ChainInv
<1>12. Typed'
  BY <1>5, <1>6, <1>9, <1>11 DEF ChainInv, Typed
<1>13. Ordered'
  BY <1>5, <1>6, <1>10 DEF Ordered, At
<1>14. LastIsDefault'
  <2>1. At(N)' = At(N)
    BY <1>5, <1>6, <1>10 DEF At
  <2>2. \A i \in 1..N' : i < N' => At(i)'.num < DefaultNum
    BY <1>5, <1>6, <1>10 DEF At
  <2>3. QED
    BY <2>1, <2>2 DEF ChainInv, LastIsDefault
<1>15. RulesOK'
  BY <1>6, OldRule DEF RulesOK
<1>16. ASSUME NEW d \in Ctls PROVE CtlOK(d)'
  <2>1. CtlOK(d) /\ (d # c => ctl[d].pc \notin {"insert", "delete", "reap", "sets"})
    BY <1>1, CtlTyped
  <2>2. CASE d = c
    BY <1>1, <1>5, <1>6, <1>8, <1>9, <1>10, <2>2 DEF CtlOK, Adding
  <2>3. CASE d # c
    BY <1>6, <1>8, <1>9, <2>1, <2>3 DEF CtlOK, Adding
  <2>4. QED
    BY <2>2, <2>3
<1>17. ASSUME NEW x \in Flows PROVE SessOK(x)'
  <2>1. \A d \in Ctls : ctl'[d].pc = "reap" => ctl'[d].left = ctl'[d].dead
    <3> SUFFICES ASSUME NEW d \in Ctls, ctl'[d].pc = "reap" PROVE ctl'[d].left = ctl'[d].dead
      OBVIOUS
    <3>1. d = c
      BY <1>1, <1>9, CtlTyped
    <3>2. QED
      BY <1>8, <1>9, <3>1
  <2>2. QED
    BY <1>6, <2>1, SessSpared DEF SessOK, Spared
<1>18. PktsOK' /\ AwayOK'
  BY <1>6, Bumped
<1>19. QED
  BY <1>12, <1>13, <1>14, <1>15, <1>16, <1>17, <1>18 DEF ChainInv

-----------------------------------------------------------------------------
(***************************************************************************)
(* ipfw_add_rule(): the new rule goes where the map stays sorted.          *)
(***************************************************************************)

\* u is m with e inserted at position i.
IsInserted(T, m, i, e, u) ==
  /\ u \in Seq(T) /\ Len(u) = Len(m) + 1
  /\ \A k \in 1..Len(m) + 1 : u[k] = IF k < i THEN m[k] ELSE IF k = i THEN e ELSE m[k - 1]

LEMMA Inserted ==
  ASSUME NEW T, NEW m \in Seq(T), NEW i \in 1..Len(m), NEW e \in T
  PROVE  IsInserted(T, m, i, e, InsertAt(m, i, e))
<1>0. PICK u : u = InsertAt(m, i, e)
  OBVIOUS
<1>1. PICK n \in Nat : n = Len(m) /\ i \in 1..n
  OBVIOUS
<1>2. PICK a, b : a = SubSeq(m, 1, i - 1) /\ b = SubSeq(m, i, n)
  OBVIOUS
<1>3. /\ a \in Seq(T) /\ Len(a) = i - 1 /\ \A k \in 1..i - 1 : a[k] = m[k]
  BY <1>1, <1>2
<1>4. /\ b \in Seq(T) /\ Len(b) = n - i + 1 /\ \A k \in 1..n - i + 1 : b[k] = m[i + k - 1]
  BY <1>1, <1>2
<1>5. PICK c : c = a \o <<e>>
  OBVIOUS
<1>6. /\ c \in Seq(T) /\ Len(c) = i /\ c[i] = e /\ \A k \in 1..i - 1 : c[k] = m[k]
  <2>1. c \in Seq(T) /\ Len(c) = i
    BY <1>1, <1>3, <1>5
  <2>2. \A k \in 1..i : c[k] = IF k <= i - 1 THEN a[k] ELSE <<e>>[k - (i - 1)]
    BY <1>1, <1>3, <1>5
  <2>3. c[i] = e
    BY <1>1, <2>2
  <2>4. ASSUME NEW k \in 1..i - 1 PROVE c[k] = m[k]
    BY <1>1, <1>3, <2>2
  <2>5. QED
    BY <2>1, <2>3, <2>4
<1>7. u = c \o b
  BY <1>0, <1>1, <1>2, <1>5 DEF InsertAt
<1>8. u \in Seq(T) /\ Len(u) = n + 1
  <2>0. c \in Seq(T) /\ b \in Seq(T)
    BY <1>4, <1>6
  <2>1. u \in Seq(T)
    BY <1>7, <2>0
  <2>2. Len(u) = Len(c) + Len(b)
    BY <1>7, <2>0
  <2>3. QED
    BY <1>1, <1>4, <1>6, <2>1, <2>2
<1>9. \A k \in 1..n + 1 : u[k] = IF k <= i THEN c[k] ELSE b[k - i]
  BY <1>1, <1>4, <1>6, <1>7
<1>10. ASSUME NEW k \in 1..n + 1
       PROVE  u[k] = IF k < i THEN m[k] ELSE IF k = i THEN e ELSE m[k - 1]
  <2>1. CASE k < i
    <3>1. k \in 1..i - 1 /\ k <= i
      BY <1>1, <2>1
    <3>2. QED
      BY <1>6, <1>9, <2>1, <3>1
  <2>2. CASE k = i
    BY <1>1, <1>6, <1>9, <2>2
  <2>3. CASE k > i
    <3>1. k - i \in 1..n - i + 1 /\ i + (k - i) - 1 = k - 1 /\ ~(k <= i) /\ ~(k < i) /\ k # i
      BY <1>1, <2>3
    <3>2. u[k] = b[k - i] /\ b[k - i] = m[k - 1]
      BY <1>4, <1>9, <3>1
    <3>3. QED
      BY <3>1, <3>2
  <2>4. QED
    BY <1>1, <2>1, <2>2, <2>3
<1>11. QED
  BY <1>0, <1>1, <1>8, <1>10 DEF IsInserted

\* The number of the new rule: the rules before the insertion point come before it,
\* and those from there on come after it.
LEMMA InsertionPoint ==
  ASSUME ChainInv, NEW num \in Nums, NEW i, i = InsertPos(num), NEW new,
         new = IF num = 0 THEN AutoNum(i) ELSE num
  PROVE  /\ i \in 1..N /\ new \in Nat /\ new < DefaultNum
         /\ \A j \in 1..N : j < i => At(j).num <= new
         /\ \A j \in 1..N : i <= j => new < At(j).num
<1>1. N \in Nat \ {0} /\ \A j \in 1..N : At(j).num \in Nat /\ At(j).id \in Nat
  BY MapTyped DEF ChainInv
<1>2. num \in Nat /\ num < DefaultNum /\ DefaultNum \in Nat /\ Step \in Nat \ {0}
  BY ChainAssumption
<1>3. PICK arg \in Nat : arg = IF num = 0 THEN DefaultNum ELSE num + 1
  BY <1>2
<1>4. i = FindRule(arg, 0)
  BY <1>3 DEF InsertPos
<1>5. /\ i \in 1..N
      /\ \A j \in 1..N : j < i => Precedes(At(j), arg, 0)
      /\ i = N \/ ~Precedes(At(i), arg, 0)
  BY <1>4, FindRuleMeans DEF ChainInv
<1>6. \A j \in 1..N : j < i => At(j).num < arg
  <2> SUFFICES ASSUME NEW j \in 1..N, j < i PROVE At(j).num < arg
    OBVIOUS
  <2>1. Precedes(At(j), arg, 0) /\ At(j).num \in Nat /\ At(j).id \in Nat
    BY <1>1, <1>5
  <2>2. QED
    BY <2>1 DEF Precedes
<1>7. At(N).num = DefaultNum /\ \A j \in 1..N : j < N => At(j).num < DefaultNum
  BY DEF ChainInv, LastIsDefault
<1>8. CASE num = 0
  <2>1. i = N
    <3>1. ~(i < N)
      <4>1. SUFFICES ASSUME i < N PROVE FALSE
        OBVIOUS
      <4>2. At(i).num < DefaultNum /\ arg = DefaultNum
        BY <1>3, <1>5, <1>7, <1>8, <4>1
      <4>3. Precedes(At(i), arg, 0)
        BY <4>2 DEF Precedes
      <4>4. QED
        BY <1>1, <1>5, <4>1, <4>3
    <3>2. QED
      BY <1>1, <1>5, <3>1
  <2>2. PICK last \in Nat : last = IF i > 1 THEN At(i - 1).num ELSE 0
    <3>1. i > 1 => At(i - 1).num \in Nat
      BY <1>1, <1>5
    <3>2. QED
      BY <3>1
  <2>3. new = IF last < DefaultNum - Step THEN last + Step ELSE last
    BY <1>8, <2>2 DEF AutoNum
  <2>4. last < DefaultNum
    BY <1>1, <1>2, <1>7, <1>8, <2>1, <2>2
  <2>5. new \in Nat /\ new < DefaultNum /\ last <= new
    BY <1>2, <2>3, <2>4
  <2>6. ASSUME NEW j \in 1..N, j < i PROVE At(j).num <= new
    <3>1. At(j).num <= last
      <4>1. last = At(i - 1).num /\ i - 1 \in 1..N
        BY <1>1, <1>5, <2>2, <2>6
      <4>2. CASE j = i - 1
        BY <1>1, <4>1, <4>2
      <4>3. CASE j < i - 1
        BY <1>1, <4>1, <4>3 DEF ChainInv, Ordered, Precedes
      <4>4. QED
        BY <1>1, <1>5, <2>6, <4>2, <4>3
    <3>2. QED
      BY <1>1, <2>5, <3>1
  <2>7. \A j \in 1..N : i <= j => new < At(j).num
    BY <1>1, <1>7, <2>1, <2>5
  <2>8. QED
    BY <1>5, <2>5, <2>6, <2>7
<1>9. CASE num # 0
  <2>1. new = num /\ arg = num + 1
    BY <1>3, <1>9
  <2>2. \A j \in 1..N : j < i => At(j).num <= new
    BY <1>1, <1>2, <1>6, <2>1
  <2>3. num < At(i).num
    <3>1. CASE i = N
      BY <1>2, <1>7, <3>1
    <3>2. CASE i # N
      <4>1. ~(At(i).num < num + 1)
        BY <1>5, <2>1, <3>2 DEF Precedes
      <4>2. QED
        BY <1>1, <1>2, <1>5, <4>1
    <3>3. QED
      BY <3>1, <3>2
  <2>4. ASSUME NEW j \in 1..N, i <= j PROVE new < At(j).num
    <3>1. CASE j = i
      BY <2>1, <2>3, <3>1
    <3>2. CASE i < j
      <4>1. At(i).num <= At(j).num
        BY <1>1, <1>5, <3>2 DEF ChainInv, Ordered, Precedes
      <4>2. QED
        BY <1>1, <1>2, <1>5, <2>1, <2>3, <4>1
    <3>3. QED
      BY <1>5, <2>4, <3>1, <3>2
  <2>5. QED
    BY <1>2, <1>5, <2>1, <2>2, <2>4
<1>10. QED
  BY <1>8, <1>9

LEMMA InsertStep ==
  ASSUME ChainInv, NEW c \in Ctls, Insert(c)
  PROVE  ChainInv'
<1>1. ctl[c] \in AddType /\ CtlOK(c) /\ uh = c /\ ctl[c].pc = "insert" /\ Adding(c)
  BY CtlTyped DEF Insert, Adding
<1>2. PICK p \in Ptrs, num \in Nums, set \in Sets, body \in Says :
        p = ctl[c].p /\ num = ctl[c].num /\ set = ctl[c].set /\ body = ctl[c].body
  BY <1>1, ChainAssumption DEF AddType
<1>3. p \notin DOMAIN rule
  BY <1>1, <1>2 DEF CtlOK
<1>4. PICK i : i = InsertPos(num)
  OBVIOUS
<1>5. PICK new : new = IF num = 0 THEN AutoNum(i) ELSE num
  OBVIOUS
<1>6. /\ i \in 1..N /\ new \in Nat /\ new < DefaultNum
      /\ \A j \in 1..N : j < i => At(j).num <= new
      /\ \A j \in 1..N : i <= j => new < At(j).num
  BY <1>4, <1>5, InsertionPoint
<1>7. /\ N \in Nat \ {0} /\ id \in Nat \ {0}
      /\ \A j \in 1..N : At(j).num \in Nat /\ At(j).id \in Nat /\ At(j).id <= id
  BY MapTyped DEF ChainInv, RulesOK, RuleOK, At
<1> DEFINE r == [num |-> new, set |-> set, id |-> id + 1, xnext |-> 0, next |-> 0, body |-> body]
<1>8. r \in RuleType /\ r.num = new /\ r.id = id + 1 /\ r.xnext = 0
  BY <1>6, <1>7 DEF RuleType
<1> DEFINE R == DOMAIN rule \cup {p}
<1>9. /\ rule' = [q \in R |-> IF q = p THEN r ELSE rule[q]]
      /\ map' = InsertAt(map, i, p) /\ id' = Bump /\ uh' = NULL
      /\ ctl' = [ctl EXCEPT ![c] = Idle] /\ Readers = {}
      /\ UNCHANGED <<off, onepass, sess, pkt, away>>
  BY <1>2, <1>4, <1>5, Zenon DEF Insert, Bump
<1> HIDE DEF r
<1>10. DOMAIN rule' = R /\ rule'[p] = r /\ \A q \in DOMAIN rule : rule'[q] = rule[q]
  BY <1>3, <1>9
<1>11. map \in Seq(R) /\ p \in R /\ Len(map) = N
  BY DEF ChainInv, Typed, N
<1> HIDE DEF R
<1>12. /\ map' \in Seq(R) /\ Len(map') = N + 1
       /\ \A k \in 1..N + 1 : map'[k] = IF k < i THEN map[k] ELSE IF k = i THEN p ELSE map[k - 1]
  <2>1. PICK m \in Seq(R) : m = map /\ Len(m) = N
    BY <1>11
  <2>2. PICK u : u = map' /\ u = InsertAt(m, i, p)
    BY <1>9, <2>1
  <2>3. i \in 1..Len(m) /\ p \in R
    BY <1>6, <1>11, <2>1
  <2>4. IsInserted(R, m, i, p, u)
    BY <2>2, <2>3, Inserted, Zenon
  <2>5. QED
    BY <2>1, <2>2, <2>4 DEF IsInserted
<1>13. N' = N + 1
  BY <1>12 DEF N
<1>14. ASSUME NEW k \in 1..N + 1
       PROVE  At(k)' = IF k < i THEN At(k) ELSE IF k = i THEN r ELSE At(k - 1)
  <2>1. CASE k < i
    <3>1. k \in 1..N /\ map[k] \in DOMAIN rule
      BY <1>6, <1>7, <2>1, MapTyped DEF ChainInv
    <3>2. QED
      BY <1>10, <1>12, <2>1, <3>1 DEF At
  <2>2. CASE k = i
    BY <1>10, <1>12, <2>2 DEF At
  <2>3. CASE k > i
    <3>1. k - 1 \in 1..N /\ ~(k < i) /\ k # i
      BY <1>6, <1>7, <2>3
    <3>2. map[k - 1] \in DOMAIN rule
      BY <3>1, MapTyped DEF ChainInv
    <3>3. QED
      BY <1>10, <1>12, <3>1, <3>2 DEF At
  <2>4. QED
    BY <1>6, <1>7, <2>1, <2>2, <2>3
<1>15. id' = id + 1
  BY <1>9 DEF Bump
<1>16. Idle \in CtlType /\ Idle.pc = "idle"
  BY DEF Idle, CtlType
<1>17. ctl' \in [Ctls -> CtlType] /\ ctl'[c].pc = "idle" /\ \A d \in Ctls : d # c => ctl'[d] = ctl[d]
  BY <1>9, <1>16, CtlTyped
<1>18. Typed'
  <2>1. DOMAIN rule' \subseteq Ptrs
    BY <1>10 DEF ChainInv, Typed, R
  <2>2. rule' \in [DOMAIN rule' -> RuleType]
    <3>1. \A q \in R : q = p \/ q \in DOMAIN rule
      BY DEF R
    <3>2. \A q \in R : rule'[q] \in RuleType
      BY <1>8, <1>10, <3>1 DEF ChainInv, Typed
    <3>3. QED
      BY <1>9, <1>10, <3>2
  <2>3. map' \in Seq(DOMAIN rule') /\ map' # << >>
    BY <1>7, <1>10, <1>12
  <2>4. QED
    BY <1>7, <1>9, <1>15, <1>17, <2>1, <2>2, <2>3 DEF ChainInv, Typed
<1>19. Ordered'
  <2> SUFFICES ASSUME NEW j \in 1..N + 1, NEW k \in 1..N + 1, j < k
               PROVE  Precedes(At(j)', At(k)'.num, At(k)'.id)
    BY <1>13 DEF Ordered, Precedes
  <2>1. CASE k < i
    <3>1. j \in 1..N /\ k \in 1..N /\ j < i
      BY <1>6, <1>7, <2>1
    <3>2. QED
      BY <1>14, <2>1, <3>1 DEF ChainInv, Ordered
  <2>2. CASE k = i
    <3>1. j \in 1..N /\ j < i
      BY <1>6, <1>7, <2>2
    <3>2. At(j).num <= new /\ At(j).id < id + 1
      BY <1>6, <1>7, <3>1
    <3>3. At(j)' = At(j) /\ At(k)' = r
      BY <1>14, <2>2, <3>1
    <3>4. QED
      BY <1>6, <1>7, <1>8, <3>1, <3>2, <3>3 DEF Precedes
  <2>3. CASE k > i
    <3>1. k - 1 \in 1..N /\ i <= k - 1 /\ At(k)' = At(k - 1)
      BY <1>6, <1>7, <1>14, <2>3
    <3>2. CASE j < i
      <4>1. j \in 1..N /\ j < k - 1 /\ At(j)' = At(j)
        BY <1>6, <1>7, <1>14, <2>3, <3>2
      <4>2. QED
        BY <3>1, <4>1 DEF ChainInv, Ordered
    <3>3. CASE j = i
      <4>1. new < At(k - 1).num /\ At(j)' = r
        BY <1>6, <1>14, <3>1, <3>3
      <4>2. QED
        BY <1>8, <3>1, <4>1 DEF Precedes
    <3>4. CASE j > i
      <4>1. j - 1 \in 1..N /\ j - 1 < k - 1 /\ At(j)' = At(j - 1)
        BY <1>6, <1>7, <1>14, <3>1, <3>4
      <4>2. QED
        BY <3>1, <4>1 DEF ChainInv, Ordered
    <3>5. QED
      BY <1>6, <3>2, <3>3, <3>4
  <2>4. QED
    BY <1>6, <2>1, <2>2, <2>3
<1>20. LastIsDefault'
  <2>1. PICK l \in 1..N + 1 : l = N + 1
    BY <1>7
  <2>2. At(l)' = At(N)
    <3>1. ~(l < i) /\ l # i /\ l - 1 = N
      BY <1>6, <1>7, <2>1
    <3>2. At(l)' = At(l - 1)
      BY <1>14, <3>1
    <3>3. QED
      BY <3>1, <3>2
  <2>3. ASSUME NEW k \in 1..N + 1, k < N + 1 PROVE At(k)'.num < DefaultNum
    <3>1. CASE k < i
      <4>1. k \in 1..N /\ k < N /\ At(k)' = At(k)
        BY <1>6, <1>7, <1>14, <3>1
      <4>2. QED
        BY <4>1 DEF ChainInv, LastIsDefault
    <3>2. CASE k = i
      BY <1>6, <1>8, <1>14, <3>2
    <3>3. CASE k > i
      <4>1. k - 1 \in 1..N /\ k - 1 < N /\ At(k)' = At(k - 1)
        BY <1>6, <1>7, <1>14, <2>3, <3>3
      <4>2. QED
        BY <4>1 DEF ChainInv, LastIsDefault
    <3>4. QED
      BY <1>6, <3>1, <3>2, <3>3
  <2>4. At(N)' = At(l)'
    BY <1>13, <2>1 DEF At
  <2>5. QED
    BY <1>13, <2>2, <2>3, <2>4 DEF ChainInv, LastIsDefault
<1>21. RulesOK'
  <2> SUFFICES ASSUME NEW q \in R PROVE RuleOK(rule[q])'
    BY <1>10 DEF RulesOK
  <2>1. CASE q = p
    BY <1>7, <1>8, <1>10, <1>15, <2>1 DEF RuleOK
  <2>2. CASE q # p
    <3>1. q \in DOMAIN rule /\ rule'[q] = rule[q]
      BY <1>10, <2>2 DEF R
    <3>2. PICK o : o = rule[q] /\ o = rule'[q]
      BY <3>1
    <3>3. RuleOK(o)'
      BY <1>9, <3>1, <3>2, OldRule
    <3>4. QED
      BY <3>2, <3>3
  <2>3. QED
    BY <2>1, <2>2
<1>22. ASSUME NEW d \in Ctls PROVE CtlOK(d)'
  <2>1. CtlOK(d) /\ (d # c => ctl[d].pc \notin {"insert", "delete", "reap", "sets"})
    BY <1>1, CtlTyped
  <2>2. CASE d = c
    BY <1>17, <2>2 DEF CtlOK, Adding
  <2>3. CASE d # c
    <3>1. Adding(d) => ctl[d].p # p
      BY <1>1, <1>2, <2>3 DEF CtlOK
    <3>2. ctl'[d] = ctl[d] /\ (Adding(d)' <=> Adding(d))
      BY <1>17, <2>3 DEF Adding
    <3>3. Adding(d) => ctl[d].p \notin DOMAIN rule'
      BY <1>10, <2>1, <3>1 DEF CtlOK, R
    <3>4. \A e \in Ctls : Adding(d)' /\ Adding(e)' /\ d # e => ctl'[d].p # ctl'[e].p
      BY <1>17, <2>1, <2>3 DEF CtlOK, Adding
    <3>5. QED
      BY <2>1, <2>3, <3>2, <3>3, <3>4 DEF CtlOK
  <2>4. QED
    BY <2>2, <2>3
<1>23. ASSUME NEW x \in Flows PROVE SessOK(x)'
  <2>1. \A d \in Ctls : ctl'[d].pc # "reap"
    BY <1>1, <1>17, CtlTyped
  <2>2. QED
    BY <1>9, <1>10, <2>1, SessSpared DEF SessOK, Spared, R
<1>24. PktsOK' /\ AwayOK'
  BY <1>9, Bumped
<1>25. QED
  BY <1>18, <1>19, <1>20, <1>21, <1>22, <1>23, <1>24 DEF ChainInv

-----------------------------------------------------------------------------
(***************************************************************************)
(* The first rules.                                                        *)
(***************************************************************************)

LEMMA StartTyped ==
  ASSUME NEW s \in Startups
  PROVE  /\ s \in Seq(Line) /\ Len(s) \in Nat /\ DOMAIN s = 1..Len(s)
         /\ \A i \in 1..Len(s) : s[i] \in Line
<1>1. s \in Seq(Line)
  BY StartAssumption
<1>2. QED
  BY <1>1

LEMMA LoadedTyped ==
  ASSUME NEW s \in Startups, NEW i \in 1..Len(s) + 1
  PROVE  /\ Loaded(s, i) \in RuleType /\ Loaded(s, i).xnext = 0 /\ Loaded(s, i).id <= Len(s) + 1
         /\ i = Len(s) + 1 => Loaded(s, i) = Default
         /\ i <= Len(s) => /\ Loaded(s, i).num = s[i].num /\ Loaded(s, i).id = i + 1
                           /\ s[i].num < DefaultNum
<1>1. s \in Seq(Line) /\ Len(s) \in Nat
  BY StartTyped
<1>2. PICK n \in Nat : n = Len(s) /\ i \in 1..n + 1
  BY <1>1
<1>3. CASE i = n + 1
  <2>1. Default \in RuleType
    <3>1. [state |-> "none", flows |-> Flows, act |-> "deny", arg |-> 0] \in Says
      BY DEF Says
    <3>2. DefaultNum \in Nat /\ Resvd \in Sets
      BY ChainAssumption
    <3>3. QED
      BY <3>1, <3>2 DEF Default, RuleType
  <2>2. Loaded(s, i) = Default
    BY <1>2, <1>3 DEF Loaded
  <2>3. Default.xnext = 0 /\ Default.id = 1
    BY DEF Default
  <2>4. QED
    BY <1>2, <1>3, <2>1, <2>2, <2>3
<1>4. CASE i # n + 1
  <2>1. i \in 1..n /\ ~(i > n)
    BY <1>2, <1>4
  <2>2. s[i] \in Line
    BY <1>2, <2>1, StartTyped
  <2>3. PICK r : r = s[i] /\ r.num \in 0..DefaultNum - 1 /\ r.set \in Sets /\ r.body \in Says
    BY <2>2 DEF Line
  <2>4. Loaded(s, i) = [num |-> r.num, set |-> r.set, id |-> i + 1, xnext |-> 0, next |-> 0,
                        body |-> r.body]
    BY <1>2, <2>1, <2>3 DEF Loaded
  <2>5. r.num \in Nat /\ r.num < DefaultNum
    BY <2>3, ChainAssumption
  <2>6. PICK o : o = Loaded(s, i)
    OBVIOUS
  <2>7. o \in RuleType /\ o.xnext = 0 /\ o.id = i + 1 /\ o.num = r.num
    BY <2>1, <2>3, <2>4, <2>5, <2>6 DEF RuleType
  <2>8. QED
    BY <1>2, <2>1, <2>3, <2>5, <2>6, <2>7
<1>5. QED
  BY <1>3, <1>4

LEMMA ChainInit == Init => ChainInv
<1> SUFFICES ASSUME Init PROVE ChainInv
  OBVIOUS
<1>1. PICK s \in Startups :
        /\ map = CHOOSE m \in [1..Len(s) + 1 -> Ptrs] : IsInjective(m)
        /\ rule = [p \in Range(map) |-> Loaded(s, CHOOSE i \in 1..Len(s) + 1 : map[i] = p)]
        /\ id = Len(s) + 1
  BY DEF Init
<1>2. PICK n \in Nat : n = Len(s)
  BY StartTyped
<1>3. map \in [1..n + 1 -> Ptrs] /\ IsInjective(map)
  <2>1. \E m \in [1..n + 1 -> Ptrs] : IsInjective(m)
    BY <1>2, StartAssumption
  <2>2. map = CHOOSE m \in [1..n + 1 -> Ptrs] : IsInjective(m)
    BY <1>1, <1>2
  <2>3. QED
    BY <2>1, <2>2
<1>4. \A i, j \in 1..n + 1 : map[i] = map[j] => i = j
  BY <1>3 DEF IsInjective
<1>5. DOMAIN rule = Range(map)
  BY <1>1
<1>6. Range(map) = {map[i] : i \in 1..n + 1}
  BY <1>3 DEF Range
<1>7. ASSUME NEW i \in 1..n + 1 PROVE map[i] \in DOMAIN rule /\ At(i) = Loaded(s, i)
  <2>1. map[i] \in Range(map)
    BY <1>6
  <2>2. rule[map[i]] = Loaded(s, CHOOSE j \in 1..n + 1 : map[j] = map[i])
    BY <1>1, <1>2, <2>1
  <2>3. (CHOOSE j \in 1..n + 1 : map[j] = map[i]) = i
    BY <1>4
  <2>4. QED
    BY <1>5, <2>1, <2>2, <2>3 DEF At
<1>8. map \in Seq(DOMAIN rule) /\ Len(map) = n + 1 /\ map # << >>
  <2>1. map \in [1..n + 1 -> DOMAIN rule]
    BY <1>3, <1>7
  <2>2. map \in Seq(DOMAIN rule) /\ Len(map) = n + 1
    BY <2>1
  <2>3. QED
    BY <2>2
<1>9. N = n + 1
  BY <1>8 DEF N
<1>10. ASSUME NEW p \in DOMAIN rule PROVE \E i \in 1..n + 1 : p = map[i] /\ rule[p] = Loaded(s, i)
  <2>1. PICK i \in 1..n + 1 : p = map[i]
    BY <1>5, <1>6
  <2>2. QED
    BY <1>7, <2>1 DEF At
<1>11. Typed
  <2>1. DOMAIN rule \subseteq Ptrs
    BY <1>3, <1>5, <1>6
  <2>2. rule \in [DOMAIN rule -> RuleType]
    <3>1. \A p \in DOMAIN rule : rule[p] \in RuleType
      BY <1>2, <1>10, LoadedTyped
    <3>2. rule = [p \in DOMAIN rule |-> rule[p]]
      BY <1>1
    <3>3. QED
      BY <3>1, <3>2
  <2>3. Idle \in PktType /\ Idle \in CtlType
    BY DEF Idle, PktType, CtlType
  <2>4. id \in Nat \ {0}
    BY <1>1, <1>2
  <2>5. QED
    BY <1>8, <2>1, <2>2, <2>3, <2>4 DEF Init, Typed
<1>12. \A i \in 1..n : At(i).num = s[i].num /\ At(i).id = i + 1 /\ s[i].num < DefaultNum
  BY <1>2, <1>7, LoadedTyped
<1>13. At(n + 1) = Default
  BY <1>2, <1>7, LoadedTyped
<1>14. Ordered
  <2> SUFFICES ASSUME NEW i \in 1..n + 1, NEW j \in 1..n + 1, i < j
               PROVE  Precedes(At(i), At(j).num, At(j).id)
    BY <1>9 DEF Ordered
  <2>1. CASE j = n + 1
    <3>1. At(j).num = DefaultNum
      BY <1>13, <2>1 DEF Default
    <3>2. At(i).num < DefaultNum
      BY <1>12, <2>1
    <3>3. QED
      BY <3>1, <3>2 DEF Precedes
  <2>2. CASE j # n + 1
    <3>1. i \in 1..n /\ j \in 1..n
      BY <2>2
    <3>2. s[i].num <= s[j].num /\ s[i].num \in Nat /\ s[j].num \in Nat
      <4>1. DOMAIN s = 1..n
        BY <1>2, StartTyped
      <4>2. s[i] \in Line /\ s[j] \in Line
        BY <1>2, <3>1, StartTyped
      <4>3. s[i].num \in 0..DefaultNum - 1 /\ s[j].num \in 0..DefaultNum - 1
        BY <4>2 DEF Line
      <4>4. s[i].num <= s[j].num
        BY <3>1, <4>1, StartAssumption
      <4>5. QED
        BY <4>3, <4>4, ChainAssumption
    <3>3. QED
      BY <1>12, <3>1, <3>2 DEF Precedes
  <2>3. QED
    BY <2>1, <2>2
<1>15. LastIsDefault
  BY <1>9, <1>12, <1>13 DEF LastIsDefault, Default
<1>16. RulesOK
  <2> SUFFICES ASSUME NEW p \in DOMAIN rule PROVE RuleOK(rule[p])
    BY DEF RulesOK
  <2>1. PICK i \in 1..n + 1 : rule[p] = Loaded(s, i)
    BY <1>10
  <2>2. rule[p].xnext = 0 /\ rule[p].id <= n + 1
    BY <1>2, <2>1, LoadedTyped
  <2>3. QED
    BY <1>1, <1>2, <2>2 DEF RuleOK
<1>17. \A c \in Ctls : ctl[c] = Idle /\ Idle.pc = "idle"
  BY DEF Init, Idle
<1>18. \A c \in Ctls : CtlOK(c)
  BY <1>17 DEF CtlOK, Adding
<1>19. \A x \in Flows : SessOK(x)
  BY DEF Init, SessOK, Spared
<1>20. PktsOK /\ AwayOK
  BY DEF Init, PktsOK, AwayOK, PktOK, Idle
<1>21. QED
  BY <1>11, <1>14, <1>15, <1>16, <1>18, <1>19, <1>20 DEF ChainInv

-----------------------------------------------------------------------------
(***************************************************************************)
(* The invariant and what follows from it.                                 *)
(***************************************************************************)

LEMMA ProgressOK ==
  ASSUME ChainInv, NEW c \in Ctls, Progress(c)
  PROVE  ChainInv'
<1>1. CASE MoveSetsStep(c)
  BY <1>1, MoveSetsNext, MoveSetsEnd
<1>2. CASE ~MoveSetsStep(c)
  BY <1>2, GetMapStep, InsertStep, DelSwapStep, RemoveChildrenStep, ReapStep DEF Progress
<1>3. QED
  BY <1>1, <1>2

LEMMA RequestOK ==
  ASSUME ChainInv, NEW c \in Ctls, Request(c)
  PROVE  ChainInv'
<1>1. CASE \E n \in Nums, s \in Sets, b \in Bodies : AddRule(c, n, s, b)
  BY <1>1, AddRuleStep
<1>2. CASE \E cmd \in {0, 1, 5}, s \in Sets, n \in Nums : DelEntry(c, cmd, s, n)
  BY <1>2, DelEntryStep
<1>3. CASE \E n \in Nums \ {0}, s \in Sets : MoveSets(c, 2, n, s)
  BY <1>3, MoveSetsStart
<1>4. CASE \E cmd \in {3, 4}, s, new \in Sets : MoveSets(c, cmd, s, new)
  BY <1>4, MoveSetsStart
<1>5. CASE \E d, e \in SUBSET (Sets \ {Resvd}) : SetDisable(c, d, e)
  BY <1>5, SetDisableStep
<1>6. QED
  BY <1>1, <1>2, <1>3, <1>4, <1>5 DEF Request

LEMMA PacketOK ==
  ASSUME ChainInv, NEW t \in Threads, Packet(t)
  PROVE  ChainInv'
BY ArriveStep, ReturnStep, ScanStep, SimpleStep, SkiptoStep, SkiptoCachedStep, LeaveStep,
   VerdictStep DEF Packet

LEMMA ChainNext == ChainInv /\ [Next]_vars => ChainInv'
<1> SUFFICES ASSUME ChainInv, [Next]_vars PROVE ChainInv'
  OBVIOUS
<1>1. CASE \E t \in Threads : Packet(t)
  BY <1>1, PacketOK
<1>2. CASE \E c \in Ctls : Progress(c)
  BY <1>2, ProgressOK
<1>3. CASE \E x \in Flows : Expire(x)
  BY <1>3, ExpireStep
<1>4. CASE \E c \in Ctls : Request(c)
  BY <1>4, RequestOK
<1>5. CASE \E b \in BOOLEAN : SetOnePass(b)
  BY <1>5, SetOnePassStep
<1>6. CASE UNCHANGED vars
  <2>1. UNCHANGED <<chainvars, off, onepass, uh, sess, ctl, pkt, away>>
    BY <1>6 DEF vars, chainvars
  <2>2. ASSUME NEW d \in Ctls PROVE CtlOK(d)'
    <3>1. CtlOK(d)
      BY CtlTyped
    <3>2. QED
      BY <2>1, <3>1 DEF CtlOK, Adding, chainvars, N
  <2>3. ASSUME NEW x \in Flows PROVE SessOK(x)'
    BY <2>1, SessSpared DEF SessOK, Spared, chainvars
  <2>4. QED
    BY <2>1, <2>2, <2>3, SessSpared, CtlTyped, RequestStep
<1>7. QED
  BY <1>1, <1>2, <1>3, <1>4, <1>5, <1>6 DEF Next

\* The inductive invariant of the chain, for any number of processors, requests,
\* rules and flows: the map is sorted and ends with the default rule, caches and
\* tags are right for their version of the chain, requests hold what they need
\* and sessions point to rules that are not yet freed (ip_fw_sockopt.c, ip_fw2.c).
THEOREM ChainInvariant == Spec => []ChainInv
<1>1. Init => ChainInv
  BY ChainInit
<1>2. ChainInv /\ [Next]_vars => ChainInv'
  BY ChainNext
<1>3. QED
  BY <1>1, <1>2, PTL DEF Spec

\* The map is sorted by number and id and ends with the default rule, a request
\* that is about to fill a new map has the memory for it, and a cached skipto is
\* where the search would end (get_map(), ipfw_add_rule(), O_SKIPTO).
THEOREM ChainSorted == Spec => []ChainOK
<1>1. ChainInv => ChainOK
  <2> SUFFICES ASSUME ChainInv PROVE ChainOK
    OBVIOUS
  <2>1. N \in Nat \ {0} /\ \A i \in 1..N : map[i] \in DOMAIN rule
    BY MapTyped DEF ChainInv
  <2>2. \A i \in 1..N - 1 : Precedes(At(i), At(i + 1).num, At(i + 1).id)
    BY <2>1 DEF ChainInv, Ordered
  <2>3. At(N).num = DefaultNum /\ At(N).set = Resvd
    BY DEF ChainInv, LastIsDefault
  <2>4. Range(map) \subseteq DOMAIN rule
    BY DEF ChainInv, Typed, Range
  <2>5. \A i \in 1..N : RuleOK(At(i))
    BY <2>1 DEF ChainInv, RulesOK, At
  <2>6. \A c \in Ctls : ctl[c].pc = "insert" => uh = c /\ ctl[c].size >= N + 1
    BY DEF ChainInv, CtlOK
  <2>7. QED
    BY <2>2, <2>3, <2>4, <2>5, <2>6 DEF ChainOK, RuleOK
<1>2. QED
  BY <1>1, ChainInvariant, PTL

\* A dynamic rule never points to a rule that has been freed: packets are done
\* with the old map when its children are removed, and only then it is reaped.
THEOREM SessionsSafe == Spec => []SessionsHaveRules
<1>1. ChainInv => SessionsHaveRules
  BY DEF ChainInv, SessOK, Spared, SessionsHaveRules
<1>2. QED
  BY <1>1, ChainInvariant, PTL

-----------------------------------------------------------------------------
(***************************************************************************)
(* Where packets go on.                                                    *)
(***************************************************************************)

\* A step of one packet leaves the others alone.
LEMMA OthersWait ==
  ASSUME ChainInv, NEW t \in Threads, Packet(t), NEW u \in Threads, u # t
  PROVE  pkt'[u] = pkt[u]
<1>1. pkt \in [Threads -> PktType]
  BY DEF ChainInv, Typed
<1>2. ASSUME NEW q, pkt' = [pkt EXCEPT ![t] = q] PROVE pkt'[u] = pkt[u]
  BY <1>1, <1>2
<1>3. CASE UNCHANGED pkt
  BY <1>3
<1>4. CASE \E q : pkt' = [pkt EXCEPT ![t] = q]
  BY <1>2, <1>4
<1>5. CASE \E x \in Flows : Arrive(t, x)
  BY <1>4, <1>5, Zenon DEF Arrive, Enter
<1>6. CASE \E a \in away : Return(t, a)
  BY <1>3, <1>4, <1>6, Zenon DEF Return, Enter
<1>7. CASE Scan(t)
  BY <1>4, <1>7, Zenon DEF Scan, Body
<1>8. CASE Simple(t)
  BY <1>4, <1>8, Zenon DEF Simple
<1>9. CASE Skipto(t)
  BY <1>1, <1>9 DEF Skipto
<1>10. CASE SkiptoCached(t)
  BY <1>1, <1>10 DEF SkiptoCached
<1>11. CASE Leave(t)
  BY <1>4, <1>11, Zenon DEF Leave
<1>12. CASE Verdict(t)
  BY <1>4, <1>12, Zenon DEF Verdict, Enter
<1>13. QED
  BY <1>5, <1>6, <1>7, <1>8, <1>9, <1>10, <1>11, <1>12 DEF Packet

\* The tag of a packet leads behind the rule that it left: at the slot, if the
\* chain has not changed, and else where the search for the next id ends.
Resumes(left, pos) ==
  LET next == {i \in 1..N : After(i, left)}
  IN  pos = IF next = {} THEN N ELSE Min(next)

LEMMA TagLeads ==
  ASSUME ChainInv, NEW ref \in RefType, NEW left \in LeftType, left # NULL, RefOK(ref, left)
  PROVE  /\ StartAt(ref) \in 1..N
         /\ \A j \in 1..N : j < StartAt(ref) => ~After(j, left)
         /\ StartAt(ref) = N \/ After(StartAt(ref), left)
<1>1. Typed /\ Ordered /\ N \in Nat
  BY MapTyped DEF ChainInv
<1>2. PICK num, rid \in Nat : /\ num = left[1] /\ rid = left[2] + 1 /\ left[2] \in Nat
                              /\ num = ref.num /\ rid = ref.rid
  BY DEF RefType, LeftType, RefOK
<1>3. \A i : After(i, left) <=> ~Precedes(At(i), num, rid)
  BY <1>2 DEF After
<1>4. CASE ref.cid # id
  <2>1. StartAt(ref) = FindRule(num, rid)
    BY <1>2, <1>4 DEF StartAt
  <2>2. QED
    BY <1>1, <1>3, <2>1, FindRuleMeans
<1>5. CASE ref.cid = id
  <2>1. PICK k : k = ref.slot
    OBVIOUS
  <2>2. /\ StartAt(ref) = k /\ k \in 2..N
        /\ At(k - 1).num = num /\ At(k - 1).id = left[2]
    BY <1>1, <1>2, <1>5, <2>1 DEF StartAt, RefOK
  <2>3. PICK i \in 1..N : i = k - 1 /\ i < k /\ k \in 1..N
    BY <1>1, <2>2
  <2>4. At(i).num = num /\ At(i).id = left[2]
    BY <2>2, <2>3
  <2>5. ~Precedes(At(k), num, rid)
    <3>1. Precedes(At(i), At(k).num, At(k).id)
      BY <1>1, <2>3 DEF Ordered
    <3>2. At(k).num \in Nat /\ At(k).id \in Nat
      BY <1>1, <2>3, MapTyped
    <3>3. QED
      BY <1>2, <2>4, <3>1, <3>2 DEF Precedes
  <2>6. ASSUME NEW j \in 1..N, j < k PROVE Precedes(At(j), num, rid)
    <3>1. At(j).num \in Nat /\ At(j).id \in Nat
      BY <1>1, MapTyped
    <3>2. CASE j = i
      BY <1>2, <2>4, <3>2 DEF Precedes
    <3>3. CASE j < i
      <4>1. Precedes(At(j), At(i).num, At(i).id)
        BY <1>1, <3>3 DEF Ordered
      <4>2. QED
        BY <1>2, <2>4, <3>1, <4>1 DEF Precedes
    <3>4. QED
      BY <1>1, <2>3, <2>6, <3>2, <3>3
  <2>7. QED
    BY <1>3, <2>2, <2>3, <2>5, <2>6
<1>6. QED
  BY <1>4, <1>5

LEMMA TagResumes ==
  ASSUME ChainInv, NEW ref \in RefType, NEW left \in LeftType, left # NULL, RefOK(ref, left)
  PROVE  Resumes(left, StartAt(ref))
<1> DEFINE next == {i \in 1..N : After(i, left)}
<1>1. PICK v : v = StartAt(ref)
  OBVIOUS
<1>2. /\ v \in 1..N /\ N \in Nat
      /\ \A j \in 1..N : j < v => ~After(j, left)
      /\ v = N \/ After(v, left)
  BY <1>1, TagLeads, MapTyped DEF ChainInv
<1>3. CASE next = {}
  BY <1>1, <1>2, <1>3 DEF Resumes
<1>4. CASE next # {}
  <2>1. v \in next
    BY <1>2, <1>4
  <2>2. \A j \in next : j \in Nat /\ v <= j
    BY <1>2
  <2> HIDE DEF next
  <2>3. Min(next) \in next /\ \A j \in next : Min(next) <= j
    BY <2>1, <2>2 DEF Min
  <2>4. Min(next) = v
    BY <2>1, <2>2, <2>3
  <2>5. QED
    BY <1>1, <1>4, <2>4 DEF Resumes, next
<1>5. QED
  BY <1>3, <1>4

\* A packet enters the firewall only in these ways.
LEMMA EntersOnlySo ==
  ASSUME ChainInv, NEW t \in Threads, Packet(t), t \notin Readers, pkt'[t].pc = "scan",
         pkt'[t].left # NULL
  PROVE  Resumes(pkt'[t].left, pkt'[t].pos)
<1>1. ASSUME NEW flow, NEW ref \in RefType, NEW left \in LeftType, RefOK(ref, left),
             Enter(t, flow, StartAt(ref), left)
      PROVE  Resumes(pkt'[t].left, pkt'[t].pos)
  <2>1. PICK pos : pos = StartAt(ref)
    OBVIOUS
  <2>2. pkt'[t].left = left /\ pkt'[t].pos = pos
    BY <1>1, <2>1 DEF Enter, ChainInv, Typed
  <2>3. QED
    BY <1>1, <2>1, <2>2, TagResumes
<1>2. CASE \E x \in Flows : Arrive(t, x)
  BY <1>2 DEF Arrive, Enter, ChainInv, Typed
<1>3. CASE \E a \in away : Return(t, a)
  <2>1. PICK a \in away : Return(t, a)
    BY <1>3
  <2>2. a.ref \in RefType /\ a.left \in LeftType /\ RefOK(a.ref, a.left)
    BY DEF ChainInv, Typed, AwayOK, AwayType
  <2>3. pkt' # pkt
    BY <2>1 DEF Return
  <2>4. Enter(t, a.flow, StartAt(a.ref), a.left)
    BY <2>1, <2>3 DEF Return
  <2>5. QED
    BY <1>1, <2>2, <2>4
<1>4. CASE Verdict(t)
  <2>1. PICK p \in PktType : p = pkt[t] /\ PktOK(p)
    BY DEF ChainInv, Typed, PktsOK
  <2>2. ~(pkt' = [pkt EXCEPT ![t] = Idle])
    BY DEF Idle, ChainInv, Typed
  <2>3. p.pc \in {"pipe", "tee"} /\ Enter(t, p.flow, StartAt(p.ref), p.left)
    BY <1>4, <2>1, <2>2, Zenon DEF Verdict
  <2>4. p.ref \in RefType /\ p.left \in LeftType /\ RefOK(p.ref, p.left)
    BY <2>1, <2>3, OutTyped DEF OutType, PktOK
  <2>5. QED
    BY <1>1, <2>3, <2>4
<1>5. pkt[t].pc \notin {"scan", "body", "action", "cache"}
  BY DEF Readers
<1>6. QED
  BY <1>2, <1>3, <1>4, <1>5 DEF Packet, Scan, Simple, Skipto, SkiptoCached, Leave, Does

\* Requests and timers leave the packets alone.
LEMMA OnlyPackets ==
  ASSUME ChainInv, [Next]_vars, NEW t \in Threads
  PROVE  Packet(t) \/ pkt'[t] = pkt[t]
<1>1. CASE \E u \in Threads : Packet(u)
  BY <1>1, OthersWait
<1>2. CASE \E c \in Ctls : Progress(c)
  BY <1>2, Zenon DEF Progress, GetMap, Insert, DelSwap, RemoveChildren, Reap, MoveSetsStep
<1>3. CASE \E x \in Flows : Expire(x)
  BY <1>3 DEF Expire
<1>4. CASE \E c \in Ctls : Request(c)
  BY <1>4, Zenon DEF Request, AddRule, DelEntry, MoveSets, SetDisable
<1>5. CASE \E b \in BOOLEAN : SetOnePass(b)
  BY <1>5 DEF SetOnePass
<1>6. CASE UNCHANGED vars
  BY <1>6 DEF vars
<1>7. QED
  BY <1>1, <1>2, <1>3, <1>4, <1>5, <1>6 DEF Next

\* A packet that comes back goes on with the first rule after the one that it
\* left, or with the last: its tag is used as it is only if the chain is the same,
\* and else the search is for the next id (set_match(), ipfw_chk()).
THEOREM PacketsResume == Spec => ResumesAfter
<1>1. ASSUME ChainInv, [Next]_vars, NEW t \in Threads, t \notin Readers,
             pkt'[t].pc = "scan", pkt'[t].left # NULL
      PROVE  Resumes(pkt'[t].left, pkt'[t].pos)
  <2>1. CASE Packet(t)
    BY <1>1, <2>1, EntersOnlySo
  <2>2. CASE pkt'[t] = pkt[t]
    BY <1>1, <2>2 DEF Readers
  <2>3. QED
    BY <1>1, <2>1, <2>2, OnlyPackets
<1>2. ChainInv /\ [Next]_vars =>
        [\A t \in Threads :
           t \notin Readers /\ pkt'[t].pc = "scan" /\ pkt'[t].left # NULL =>
             LET next == {i \in 1..N : After(i, pkt'[t].left)}
             IN  pkt'[t].pos = IF next = {} THEN N ELSE Min(next)]_vars
  BY <1>1, Zenon DEF Resumes
<1>3. QED
  BY <1>2, ChainInvariant, PTL DEF Spec, ResumesAfter

-----------------------------------------------------------------------------
\* The rules that a packet skips to come later, or it jumped here.
LEMMA SkipsForward ==
  ASSUME ChainInv, NEW t \in Threads, Skipto(t)
  PROVE  pkt'[t].pos > pkt[t].pos \/ (pkt'[t].pos = pkt[t].pos /\ pkt[t].hit)
<1>1. PICK p \in InType : p = pkt[t] /\ p.pos \in 1..N /\ PktOK(p) /\ p.pc = "action"
  BY ActionTyped DEF Skipto, Does
<1>2. PICK f \in DOMAIN rule : f = p.f /\ rule[f] \in RuleType /\ rule[f].body.act = "skipto"
  BY <1>1, SkiptoTarget DEF Skipto, Does
<1>3. PICK i : i = FindRule(Target(rule[f]), 0) /\ i \in 1..N /\ N \in Nat
  BY <1>1, <1>2, SkiptoTarget, MapTyped DEF ChainInv
<1>4. PICK to \in Nat : to = Target(rule[f])
  BY <1>2, TargetTyped
<1>5. rule[f].num \in Nat /\ rule[f].id \in Nat /\ rule[f].num < to
  BY <1>2, <1>4, TargetTyped DEF RuleType, Target, Says
<1>6. p.pos < i \/ (p.pos <= i /\ p.hit)
  <2>1. CASE p.hit
    <3>1. p.pos = FindRule(rule[f].num, rule[f].id)
      BY <1>1, <1>2 DEF PktOK
    <3>2. PICK num, rid \in Nat : num = rule[f].num /\ rid = rule[f].id
      BY <1>5
    <3>3. FindRule(num, rid) <= FindRule(to, 0)
      BY <1>5, <3>2, FindForward DEF ChainInv
    <3>4. QED
      BY <1>3, <1>4, <2>1, <3>1, <3>2, <3>3
  <2>2. CASE ~p.hit
    <3>1. f = map[p.pos]
      BY <1>1, <1>2, <2>2 DEF PktOK
    <3>2. At(p.pos) = rule[f] /\ p.pos < N
      BY <1>1, <1>2, <3>1, NotTheLast DEF At
    <3>3. p.pos < FindRule(to, 0)
      BY <1>1, <1>5, <3>2, FindAfter DEF ChainInv
    <3>4. QED
      BY <1>3, <1>4, <3>3
  <2>3. QED
    BY <2>1, <2>2
<1>7. pkt'[t].pos = i \/ pkt'[t].pos = Enabled(i)
  <2>1. Cached(rule[f]) => rule[f].next = i
    BY <1>1, <1>2, <1>3, SkiptoTarget
  <2>2. CASE /\ Cached(rule[f])
             /\ pkt' = [pkt EXCEPT ![t].pos = Enabled(rule[f].next), ![t].pc = "body"]
    <3>1. PICK k : k = Enabled(i)
      OBVIOUS
    <3>2. pkt' = [pkt EXCEPT ![t].pos = k, ![t].pc = "body"]
      BY <2>1, <2>2, <3>1
    <3>3. pkt' = [pkt EXCEPT ![t] = [p EXCEPT !.pos = k, !.pc = "body"]]
      BY <1>1, <3>2 DEF ChainInv, Typed
    <3>4. pkt'[t].pos = k
      BY <3>3 DEF ChainInv, Typed, InType
    <3>5. QED
      BY <3>1, <3>4
  <2>3. CASE pkt' = [pkt EXCEPT ![t].pos = i, ![t].pc = "cache"]
    <3>1. pkt' = [pkt EXCEPT ![t] = [p EXCEPT !.pos = i, !.pc = "cache"]]
      BY <1>1, <2>3 DEF ChainInv, Typed
    <3>2. QED
      BY <3>1 DEF ChainInv, Typed, InType
  <2>4. QED
    BY <1>1, <1>2, <1>3, <2>2, <2>3, Zenon DEF Skipto
<1>8. Enabled(i) \in i..N
  BY <1>3, EnabledRange DEF ChainInv
<1>9. p.pos \in Nat
  BY <1>1, <1>3
<1>10. QED
  BY <1>1, <1>3, <1>6, <1>7, <1>8, <1>9

\* How a packet may move on in the map, from p to q.
Forward(p, q) ==
  \/ q = p
  \/ ~p.hit /\ q.hit
  \/ q.pos > p.pos
  \/ q.pos = p.pos /\ (Rank(q) > Rank(p) \/ p.hit)

\* The next rule is further on.
LEMMA NextMoves ==
  ASSUME NEW p \in InType
  PROVE  NextRule(p).pos > p.pos
<1>1. PICK k : k = p.pos + 1
  OBVIOUS
<1>2. NextRule(p) = [p EXCEPT !.pc = "scan", !.pos = k]
  BY <1>1, Zenon DEF NextRule
<1>3. NextRule(p).pos = k /\ p.pos \in Nat
  BY <1>2 DEF InType
<1>4. QED
  BY <1>1, <1>3

LEMMA BodyMoves ==
  ASSUME ChainInv, NEW t \in Threads, Body(t), pkt[t].pc \in {"scan", "body"},
         pkt'[t].pc # "deny"
  PROVE  Forward(pkt[t], pkt'[t])
<1>1. PICK p \in InType : p = pkt[t] /\ (p.hit => p.looked) /\ p.pc \in {"scan", "body"}
  BY InTyped DEF ChainInv, Typed, PktsOK, PktOK
<1>2. PICK b : b = rule[map[p.pos]].body
  OBVIOUS
<1>3. PICK seen : seen = [p EXCEPT !.looked = @ \/ b.state # "none"]
  OBVIOUS
<1>4. seen \in InType /\ seen.pos = p.pos /\ seen.hit = p.hit
  <2>1. PICK o \in BOOLEAN : o = (p.looked \/ b.state # "none")
    OBVIOUS
  <2>2. seen = [p EXCEPT !.looked = o]
    BY <1>3, <2>1, Zenon
  <2>3. QED
    BY <2>2 DEF InType
<1>5. ASSUME NEW q, pkt' = [pkt EXCEPT ![t] = q] PROVE pkt'[t] = q
  BY <1>5 DEF ChainInv, Typed
<1>6. CASE /\ ~p.looked
           /\ \E q, i : pkt' = [pkt EXCEPT ![t] = [seen EXCEPT !.pc = "action", !.f = q,
                                                    !.hit = TRUE, !.pos = i]]
  <2>1. PICK q, i : pkt' = [pkt EXCEPT ![t] = [seen EXCEPT !.pc = "action", !.f = q,
                                                !.hit = TRUE, !.pos = i]]
    BY <1>6, Zenon
  <2>2. PICK n : n = [seen EXCEPT !.pc = "action", !.f = q, !.hit = TRUE, !.pos = i]
    OBVIOUS
  <2>3. pkt'[t] = n
    BY <1>5, <2>1, <2>2, Zenon
  <2>4. n.hit = TRUE
    BY <1>4, <2>2 DEF InType
  <2>5. ~p.hit
    BY <1>1, <1>6, Zenon
  <2>6. QED
    BY <1>1, <2>3, <2>4, <2>5, Zenon DEF Forward
<1>7. CASE pkt' = [pkt EXCEPT ![t] = NextRule(seen)]
  <2>1. pkt'[t].pos > seen.pos
    <3>1. pkt'[t] = NextRule(seen)
      BY <1>5, <1>7, Zenon
    <3>2. QED
      BY <1>4, <3>1, NextMoves
  <2>2. QED
    BY <1>1, <1>4, <2>1 DEF Forward
<1>8. CASE pkt' = [pkt EXCEPT ![t] = [seen EXCEPT !.pc = "action", !.f = map[p.pos]]]
  <2>1. PICK n : n = [seen EXCEPT !.pc = "action", !.f = map[p.pos]]
    OBVIOUS
  <2>2. pkt'[t] = n
    BY <1>5, <1>8, <2>1, Zenon
  <2>3. n.pos = p.pos /\ n.pc = "action"
    BY <1>4, <2>1 DEF InType
  <2>4. Rank(n) = 2 /\ Rank(p) = 1
    BY <1>1, <2>3 DEF Rank
  <2>5. QED
    BY <1>1, <2>2, <2>3, <2>4 DEF Forward
<1>9. CASE pkt' = [pkt EXCEPT ![t] = [[seen EXCEPT !.pc = "action", !.f = map[p.pos]]
                                       EXCEPT !.pc = "deny"]]
  <2>1. PICK n : n = [[seen EXCEPT !.pc = "action", !.f = map[p.pos]] EXCEPT !.pc = "deny"]
    OBVIOUS
  <2>2. pkt'[t] = n
    BY <1>5, <1>9, <2>1, Zenon
  <2>3. n.pc = "deny"
    BY <1>4, <2>1 DEF InType
  <2>4. QED
    BY <2>2, <2>3
<1>10. \/ /\ ~p.looked
          /\ pkt' = [pkt EXCEPT ![t] =
                       [seen EXCEPT !.pc = "action", !.f = sess[p.flow], !.hit = TRUE,
                                    !.pos = FindRule(rule[sess[p.flow]].num,
                                                     rule[sess[p.flow]].id)]]
       \/ pkt' = [pkt EXCEPT ![t] = NextRule(seen)]
       \/ pkt' = [pkt EXCEPT ![t] = [seen EXCEPT !.pc = "action", !.f = map[p.pos]]]
       \/ pkt' = [pkt EXCEPT ![t] = [[seen EXCEPT !.pc = "action", !.f = map[p.pos]]
                                       EXCEPT !.pc = "deny"]]
  BY <1>1, <1>2, <1>3, Zenon DEF Body
<1>11. QED
  BY <1>6, <1>7, <1>8, <1>9, <1>10, Zenon

LEMMA PacketForward ==
  ASSUME ChainInv, NEW t \in Threads, Packet(t), t \in Readers, t \in Readers'
  PROVE  Forward(pkt[t], pkt'[t])
<1>1. PICK p \in InType : p = pkt[t] /\ PktOK(p) /\ p.pc \in {"scan", "body", "action", "cache"}
  BY InTyped DEF ChainInv, Typed, PktsOK, Readers
<1>2. pkt'[t].pc \in {"scan", "body", "action", "cache"}
  BY DEF Readers
<1>3. pkt \in [Threads -> PktType]
  BY DEF ChainInv, Typed
<1>4. CASE pkt' = [pkt EXCEPT ![t] = NextRule(@)]
  <2>1. pkt'[t] = NextRule(p)
    BY <1>1, <1>3, <1>4
  <2>2. pkt'[t].pos > p.pos
    BY <2>1, NextMoves
  <2>3. QED
    BY <1>1, <2>2 DEF Forward
<1>5. ~\E v \in {"accept", "deny"} : pkt' = [pkt EXCEPT ![t].pc = v]
  BY <1>1, <1>2, <1>3 DEF InType
<1>6. CASE Scan(t)
  <2>1. CASE Body(t)
    <3>1. pkt[t].pc \in {"scan", "body"}
      BY <1>6 DEF Scan
    <3>2. QED
      BY <1>2, <2>1, <3>1, BodyMoves
  <2>2. QED
    BY <1>4, <1>5, <1>6, <2>1, Zenon DEF Scan
<1>7. CASE Simple(t)
  BY <1>4, <1>5, <1>7, Zenon DEF Simple
<1>8. CASE Skipto(t)
  BY <1>8, SkipsForward DEF Forward
<1>9. CASE SkiptoCached(t)
  <2>1. PICK k : k = Enabled(p.pos) /\ pkt' = [pkt EXCEPT ![t].pos = k, ![t].pc = "body"]
                 /\ p.pc = "cache"
    BY <1>1, <1>9 DEF SkiptoCached
  <2>2. pkt' = [pkt EXCEPT ![t] = [p EXCEPT !.pos = k, !.pc = "body"]]
    BY <1>1, <1>3, <2>1
  <2>3. pkt'[t].pos = k /\ pkt'[t].pc = "body"
    BY <1>3, <2>2 DEF InType
  <2>4. k \in p.pos..N /\ p.pos \in Nat /\ N \in Nat
    BY <1>1, <2>1, EnabledRange, MapTyped DEF ChainInv, PktOK
  <2>5. Rank(p) = 0 /\ Rank(pkt'[t]) = 1
    BY <2>1, <2>3 DEF Rank
  <2>6. QED
    BY <1>1, <2>3, <2>4, <2>5 DEF Forward
<1>10. ~Leave(t)
  <2>1. SUFFICES ASSUME Leave(t) PROVE FALSE
    OBVIOUS
  <2>2. PICK act \in {"pipe", "divert", "tee"} : act = rule[pkt[t].f].body.act
    BY <2>1 DEF Leave, Does
  <2>3. pkt'[t].pc = act
    BY <1>3, <2>1, <2>2 DEF Leave
  <2>4. QED
    BY <1>2, <2>2, <2>3
<1>11. ~Verdict(t) /\ ~(\E x \in Flows : Arrive(t, x)) /\ ~(\E a \in away : Return(t, a))
  BY <1>1 DEF Verdict, Arrive, Return
<1>12. QED
  BY <1>6, <1>7, <1>8, <1>9, <1>10, <1>11 DEF Packet

\* A packet never looks at a rule again, except that it may jump once to its
\* session's rule: so the two loops of ipfw_chk() end.
THEOREM PacketsScanForward == Spec => ScansForward
<1>1. ASSUME ChainInv, [Next]_vars, NEW t \in Readers \cap Readers'
      PROVE  Forward(pkt[t], pkt'[t])
  <2>1. t \in Threads /\ t \in Readers /\ t \in Readers'
    BY DEF Readers
  <2>2. CASE Packet(t)
    BY <1>1, <2>1, <2>2, PacketForward
  <2>3. CASE pkt'[t] = pkt[t]
    BY <2>3 DEF Forward
  <2>4. QED
    BY <1>1, <2>1, <2>2, <2>3, OnlyPackets
<1>2. ChainInv /\ [Next]_vars =>
        [\A t \in Readers \cap Readers' :
           LET p == pkt[t]
               q == pkt'[t]
           IN  \/ q = p
               \/ ~p.hit /\ q.hit
               \/ q.pos > p.pos
               \/ q.pos = p.pos /\ (Rank(q) > Rank(p) \/ p.hit)]_vars
  BY <1>1, Zenon DEF Forward
<1>3. QED
  BY <1>2, ChainInvariant, PTL DEF Spec, ScansForward

=============================================================================
