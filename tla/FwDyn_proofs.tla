---------------------------- MODULE FwDyn_proofs ----------------------------
(***************************************************************************)
(* Proofs about the dynamic rules of ipfw, for any packets, rules, numbers *)
(* of buckets and lifetimes, whatever allocations fail: lists, counters    *)
(* and parents agree; a limit is never exceeded; an established session is *)
(* probed before it expires; and answers do not keep a closed one alive.   *)
(***************************************************************************)
EXTENDS FwDyn, ProofLemmas

Pos == Nat \ {0}
Sides == {"fwd", "rev"}
Flags == {"SYN", "FIN", "RST"}

EntryType ==
  [type : {"keep", "limit", "parent"}, rule : Rules, id : FlowId, ttl : Nat,
   state : SUBSET (Sides \X Flags), acked : SUBSET Sides, parent : Ptrs \cup {NULL},
   count : Nat]

\* The fields of a table.
Shape(d) ==
  /\ d = [n |-> d.n, want |-> d.want, chain |-> d.chain, ent |-> d.ent,
          count |-> d.count, swept |-> d.swept]
  /\ d.n \in Pos /\ d.want \in Pos
  /\ d.chain = [b \in DOMAIN d.chain |-> d.chain[b]]
  /\ d.ent \in [Entries(d) -> EntryType]
  /\ Entries(d) \subseteq Ptrs /\ IsFiniteSet(Entries(d))

\* An entry is in one list, the one of its hash, and in no place else.
Lists(d) ==
  /\ NoTable(d) => Entries(d) = {}
  /\ ~NoTable(d) => DOMAIN d.chain = 0..d.n - 1
  /\ \A b \in DOMAIN d.chain :
       /\ d.chain[b] \in Seq(Ptrs) /\ IsInjective(d.chain[b])
       /\ \A p \in Range(d.chain[b]) : p \in Entries(d) /\ Hash(d.ent[p].id, d.n) = b
  /\ \A p \in Entries(d) : p \in Range(d.chain[Hash(d.ent[p].id, d.n)])

Counts(d) ==
  /\ d.count = Cardinality(Entries(d))
  /\ \A p \in Entries(d) : IsParent(d, p) => d.ent[p].count = Cardinality(Children(d, p))

\* A child has a parent of its rule with the id that the mask leaves of its own.
Family(d, p) ==
  LET e == d.ent[p]
  IN  /\ CmdOf[e.rule].type = "keep" <=> e.type = "keep"
      /\ e.type = "parent" => e.count <= CmdOf[e.rule].n
      /\ e.type = "limit" =>
           /\ e.parent \in Entries(d) /\ IsParent(d, e.parent)
           /\ d.ent[e.parent].rule = e.rule
           /\ \E g \in Garbage : d.ent[e.parent].id = MaskedId(e.id, CmdOf[e.rule].mask, g)

Families(d) == \A p \in Entries(d) : Family(d, p)

\* There is one session for a flow, and one parent for a rule and an id.
Unique(d) ==
  \A p, q \in Entries(d) : p # q =>
    /\ IsParent(d, p) \/ IsParent(d, q) \/ ~SameFlow(d.ent[p].id, d.ent[q])
    /\ IsParent(d, p) /\ IsParent(d, q) =>
         d.ent[p].rule # d.ent[q].rule \/ d.ent[p].id # d.ent[q].id

\* An ack is remembered of an established session only, and the lifetime of a
\* closed one is below the period of the keepalives.
LifeOK(e) ==
  e.type # "parent" =>
    /\ e.acked # {} => BothSyn \subseteq e.state
    /\ e.id.proto = "tcp" /\ Closed(e.state) => e.ttl <= KaPeriod - 1

Lives(d) == \A p \in Entries(d) : LifeOK(d.ent[p])

Good(d) == Shape(d) /\ Lists(d) /\ Counts(d) /\ Families(d) /\ Unique(d) /\ Lives(d)

\* y is the entry x but for the number of its children and, if it is a parent,
\* its lifetime.
Same(x, y) ==
  /\ x.type = y.type /\ x.rule = y.rule /\ x.id = y.id
  /\ x.state = y.state /\ x.acked = y.acked /\ x.parent = y.parent
  /\ x.type # "parent" => x.ttl = y.ttl

\* e has what is left of d.
Less(d, e) ==
  /\ Entries(e) \subseteq Entries(d) /\ e.count <= d.count
  /\ \A p \in Entries(e) : Same(d.ent[p], e.ent[p])

-----------------------------------------------------------------------------
LEMMA WithoutIs ==
  ASSUME NEW T, NEW c \in Seq(T), NEW S
  PROVE  Without(c, S) \in Seq(T) /\ Copied(c, S, Len(c), Without(c, S))
<1> DEFINE G == CHOOSE g : IsCopy(c, S, Len(c), g)
<1>1. PICK n \in Nat : n = Len(c)
  OBVIOUS
<1>2. IsCopy(c, S, n, G)
  <2>1. \E g : IsCopy(c, S, n, g)
    BY CopyExists
  <2>2. QED
    BY <1>1, <2>1
<1>3. Without(c, S) = G[n]
  BY <1>1 DEF Without, IsCopy
<1> HIDE DEF G
<1>4. QED
  BY <1>1, <1>2, <1>3, CopyIs

LEMMA WithoutOK ==
  ASSUME NEW T, NEW c \in Seq(T), NEW S, IsInjective(c)
  PROVE  /\ Without(c, S) \in Seq(T) /\ IsInjective(Without(c, S))
         /\ \A x : x \in Range(Without(c, S)) <=> x \in Range(c) /\ x \notin S
<1>1. PICK s \in Seq(T) : s = Without(c, S) /\ Copied(c, S, Len(c), s)
  BY WithoutIs
<1>2. PICK e : Picks(c, S, Len(c), s, e)
  BY <1>1 DEF Copied
<1>3. PICK n \in Nat, m \in Nat : n = Len(c) /\ m = Len(s)
  OBVIOUS
<1>4. DOMAIN c = 1..n /\ DOMAIN s = 1..m
  BY <1>3
<1>5. /\ e \in [1..m -> 1..n]
      /\ \A j, k \in 1..m : j < k => e[j] < e[k]
      /\ \A k \in 1..m : s[k] = c[e[k]] /\ c[e[k]] \notin S
      /\ \A j \in 1..n : c[j] \notin S => \E k \in 1..m : e[k] = j
  BY <1>2, <1>3 DEF Picks
<1>6. ASSUME NEW j \in 1..m, NEW k \in 1..m, s[j] = s[k] PROVE j = k
  <2>1. e[j] \in 1..n /\ e[k] \in 1..n /\ c[e[j]] = c[e[k]]
    BY <1>5, <1>6
  <2>2. e[j] = e[k]
    BY <1>4, <2>1 DEF IsInjective
  <2>3. QED
    BY <1>5, <2>1, <2>2
<1>7. ASSUME NEW x PROVE x \in Range(s) <=> x \in Range(c) /\ x \notin S
  <2>1. ASSUME x \in Range(s) PROVE x \in Range(c) /\ x \notin S
    <3>1. PICK k \in 1..m : x = s[k]
      BY <1>4, <2>1 DEF Range
    <3>2. e[k] \in 1..n
      BY <1>5
    <3>3. QED
      BY <1>4, <1>5, <3>1, <3>2 DEF Range
  <2>2. ASSUME x \in Range(c), x \notin S PROVE x \in Range(s)
    <3>1. PICK j \in 1..n : x = c[j]
      BY <1>4, <2>2 DEF Range
    <3>2. PICK k \in 1..m : e[k] = j
      BY <1>5, <2>2, <3>1
    <3>3. QED
      BY <1>4, <1>5, <3>1, <3>2 DEF Range
  <2>3. QED
    BY <2>1, <2>2
<1>8. QED
  BY <1>1, <1>4, <1>6, <1>7 DEF IsInjective

-----------------------------------------------------------------------------
(***************************************************************************)
(* The hash of an id is a bucket, and both directions have the same one.   *)
(***************************************************************************)

LEMMA HashRange ==
  ASSUME NEW id \in FlowId, NEW n \in Pos
  PROVE  Hash(id, n) \in 0..n - 1
<1>1. id.src + id.sport + id.dst + id.dport \in Nat
  BY DEF FlowId
<1>2. QED
  BY <1>1 DEF Hash, Pos

LEMMA HashIn ==
  ASSUME NEW d, Shape(d), Lists(d), NEW p \in Entries(d)
  PROVE  Hash(d.ent[p].id, d.n) \in DOMAIN d.chain
<1>1. d.ent[p].id \in FlowId /\ d.n \in Pos
  BY DEF Shape, EntryType
<1>2. QED
  BY <1>1, HashRange DEF Lists

LEMMA HashSame ==
  ASSUME NEW id \in FlowId, NEW e \in EntryType, SameFlow(id, e), NEW n
  PROVE  Hash(e.id, n) = Hash(id, n) /\ e.id.proto = id.proto
<1>1. e.id \in FlowId
  BY DEF EntryType
<1>2. CASE e.id = id
  BY <1>2
<1>3. CASE Reversed(e.id) = id
  <2>1. /\ id.src = e.id.dst /\ id.dst = e.id.src /\ id.sport = e.id.dport
        /\ id.dport = e.id.sport /\ id.proto = e.id.proto
    BY <1>1, <1>3 DEF Reversed, FlowId
  <2>2. /\ id.src \in Nat /\ id.dst \in Nat /\ id.sport \in Nat /\ id.dport \in Nat
    BY DEF FlowId
  <2>3. id.src + id.sport + id.dst + id.dport = id.dst + id.dport + id.src + id.sport
    BY <2>2
  <2>4. QED
    BY <2>1, <2>3 DEF Hash
<1>4. QED
  BY <1>2, <1>3 DEF SameFlow

-----------------------------------------------------------------------------
(***************************************************************************)
(* Entries that leave the table.                                           *)
(***************************************************************************)

LEMMA CountSet ==
  ASSUME NEW e \in EntryType, NEW c \in Nat
  PROVE  /\ [e EXCEPT !.count = c] \in EntryType /\ [e EXCEPT !.count = c].count = c
         /\ Same(e, [e EXCEPT !.count = c])
         /\ \A f \in {"type", "rule", "id", "ttl", "state", "acked", "parent"} :
              [e EXCEPT !.count = c][f] = e[f]
BY DEF EntryType, Same

Unlinked(d, S, u) ==
  /\ u = [n |-> u.n, want |-> u.want, chain |-> u.chain, ent |-> u.ent,
          count |-> u.count, swept |-> u.swept]
  /\ u.n = d.n /\ u.want = d.want /\ u.swept = d.swept
  /\ u.count = d.count - Cardinality(S)
  /\ DOMAIN u.chain = DOMAIN d.chain
  /\ u.chain = [b \in DOMAIN u.chain |-> u.chain[b]]
  /\ \A b \in DOMAIN d.chain : u.chain[b] = Without(d.chain[b], S)
  /\ \A p : p \in Entries(u) <=> p \in Entries(d) /\ p \notin S
  /\ u.ent = [p \in Entries(u) |-> u.ent[p]]

LEMMA UnlinkIs ==
  ASSUME NEW d, Shape(d), NEW S
  PROVE  Unlinked(d, S, Unlink(d, S))
<1>1. PICK u : u = Unlink(d, S)
  OBVIOUS
<1>2. PICK C : C = [b \in DOMAIN d.chain |-> Without(d.chain[b], S)]
  OBVIOUS
<1>3. PICK E : E = [p \in Entries(d) \ S |->
                      [d.ent[p] EXCEPT !.count = @ - Cardinality(Children(d, p) \cap S)]]
  OBVIOUS
<1>4. u = [d EXCEPT !.chain = C, !.ent = E, !.count = @ - Cardinality(S)]
  BY <1>1, <1>2, <1>3, Zenon DEF Unlink
<1>5. /\ u = [n |-> u.n, want |-> u.want, chain |-> u.chain, ent |-> u.ent,
              count |-> u.count, swept |-> u.swept]
      /\ u.n = d.n /\ u.want = d.want /\ u.swept = d.swept
      /\ u.count = d.count - Cardinality(S) /\ u.chain = C /\ u.ent = E
  BY <1>4 DEF Shape
<1>6. /\ DOMAIN C = DOMAIN d.chain /\ C = [b \in DOMAIN C |-> C[b]]
      /\ \A b \in DOMAIN d.chain : C[b] = Without(d.chain[b], S)
  BY <1>2
<1>7. DOMAIN E = Entries(d) \ S /\ E = [p \in DOMAIN E |-> E[p]]
  BY <1>3
<1>8. Unlinked(d, S, u)
  BY <1>5, <1>6, <1>7 DEF Unlinked, Entries
<1>9. QED
  BY <1>1, <1>8

\* What may leave: a parent only with all its children.
Leaving(d, S) ==
  S \subseteq Entries(d) /\ \A p \in S : IsParent(d, p) => Children(d, p) \subseteq S

LEMMA UnlinkEntry ==
  ASSUME NEW d, Shape(d), Counts(d), Families(d), NEW S, Leaving(d, S),
         NEW u, u = Unlink(d, S), NEW p \in Entries(d), p \notin S
  PROVE  /\ p \in Entries(u) /\ u.ent[p] \in EntryType /\ Same(d.ent[p], u.ent[p])
         /\ u.ent[p].count <= d.ent[p].count /\ u.ent[p].ttl = d.ent[p].ttl
         /\ IsParent(d, p) => u.ent[p].count = Cardinality(Children(d, p) \ S)
<1>1. PICK e \in EntryType : e = d.ent[p]
  BY DEF Shape
<1>2. PICK C : C = Children(d, p)
  OBVIOUS
<1>3. IsFiniteSet(C) /\ IsFiniteSet(C \cap S) /\ Cardinality(C \cap S) \in Nat
      /\ Cardinality(C \ S) \in Nat /\ Cardinality(C \ S) = Cardinality(C) - Cardinality(C \cap S)
  <2>1. C \subseteq Entries(d)
    BY <1>2 DEF Children
  <2>2. IsFiniteSet(C) /\ IsFiniteSet(C \ S) /\ IsFiniteSet(C \cap S)
    BY <2>1, FS_Subset DEF Shape
  <2>3. QED
    BY <2>2, FS_Difference, FS_CardinalityType
<1>4. PICK c : c = e.count - Cardinality(C \cap S)
  OBVIOUS
<1>5. c \in Nat /\ c <= e.count /\ (e.type = "parent" => c = Cardinality(C \ S))
  <2>1. CASE e.type = "parent"
    <3>1. e.count = Cardinality(C)
      BY <1>1, <1>2, <2>1 DEF Counts, IsParent
    <3>2. Cardinality(C) \in Nat
      BY <1>3, FS_CardinalityType
    <3>3. QED
      BY <1>3, <1>4, <3>1, <3>2
  <2>2. CASE e.type # "parent"
    <3>1. C = {}
      BY <1>1, <1>2, <2>2 DEF Families, Family, Children, IsParent
    <3>2. Cardinality(C \cap S) = 0
      BY <3>1, FS_EmptySet
    <3>3. QED
      BY <1>1, <1>4, <2>2, <3>2 DEF EntryType
  <2>3. QED
    BY <2>1, <2>2
<1>6. p \in Entries(u) /\ u.ent[p] = [e EXCEPT !.count = c]
  <2>1. p \in Entries(d) \ S
    OBVIOUS
  <2>2. u.ent = [q \in Entries(d) \ S |->
                   [d.ent[q] EXCEPT !.count = @ - Cardinality(Children(d, q) \cap S)]]
    BY DEF Shape, Unlink
  <2>3. u.ent[p] = [e EXCEPT !.count = @ - Cardinality(C \cap S)]
    BY <1>1, <1>2, <2>1, <2>2
  <2>4. u.ent[p] = [e EXCEPT !.count = e.count - Cardinality(C \cap S)]
    BY <2>3
  <2>5. p \in Entries(u)
    BY <2>1, <2>2 DEF Entries
  <2>6. QED
    BY <1>4, <2>4, <2>5
<1>7. PICK f : f = [e EXCEPT !.count = c]
  OBVIOUS
<1>8. f \in EntryType /\ f.count = c /\ Same(e, f) /\ f.ttl = e.ttl
  BY <1>5, <1>7, CountSet
<1>9. QED
  BY <1>1, <1>2, <1>5, <1>6, <1>7, <1>8 DEF IsParent

LEMMA UnlinkLess ==
  ASSUME NEW d, Good(d), NEW S, Leaving(d, S), NEW u, u = Unlink(d, S)
  PROVE  Less(d, u) /\ Shape(u)
<1>1. Shape(d) /\ Counts(d) /\ Families(d)
  BY DEF Good
<1>0. Unlinked(d, S, u)
  BY <1>1, UnlinkIs
<1>2. \A p \in Entries(u) : p \in Entries(d) /\ p \notin S
  BY <1>0 DEF Unlinked
<1>3. \A p \in Entries(u) : u.ent[p] \in EntryType /\ Same(d.ent[p], u.ent[p])
  BY <1>1, <1>2, UnlinkEntry
<1>4. u.count <= d.count
  <2>1. IsFiniteSet(S)
    BY <1>1, FS_Subset DEF Leaving, Shape
  <2>2. Cardinality(S) \in Nat /\ d.count \in Nat
    BY <1>1, <2>1, FS_CardinalityType DEF Shape, Counts
  <2>3. u.count = d.count - Cardinality(S)
    BY <1>0 DEF Unlinked
  <2>4. QED
    BY <2>2, <2>3
<1>5. u.ent \in [Entries(u) -> EntryType]
  <2>1. u.ent = [p \in Entries(u) |-> u.ent[p]]
    BY <1>0 DEF Unlinked
  <2>2. QED
    BY <1>3, <2>1
<1>6. Entries(u) \subseteq Entries(d) /\ IsFiniteSet(Entries(u))
  BY <1>1, <1>2, FS_Subset DEF Shape
<1>7. /\ u = [n |-> u.n, want |-> u.want, chain |-> u.chain, ent |-> u.ent,
              count |-> u.count, swept |-> u.swept]
      /\ u.n = d.n /\ u.want = d.want /\ u.chain = [b \in DOMAIN u.chain |-> u.chain[b]]
  BY <1>0 DEF Unlinked
<1>8. Shape(u)
  BY <1>1, <1>5, <1>6, <1>7 DEF Shape
<1>9. QED
  BY <1>3, <1>4, <1>6, <1>8 DEF Less

LEMMA UnlinkLists ==
  ASSUME NEW d, Good(d), NEW S, Leaving(d, S), NEW u, u = Unlink(d, S)
  PROVE  Lists(u)
<1>1. Shape(d) /\ Lists(d) /\ Counts(d) /\ Families(d)
  BY DEF Good
<1>2. /\ u.n = d.n /\ DOMAIN u.chain = DOMAIN d.chain
      /\ \A b \in DOMAIN d.chain : u.chain[b] = Without(d.chain[b], S)
      /\ \A p : p \in Entries(u) <=> p \in Entries(d) /\ p \notin S
  <2>1. Unlinked(d, S, u)
    BY <1>1, UnlinkIs
  <2>2. QED
    BY <2>1 DEF Unlinked
<1>3. \A p \in Entries(u) : u.ent[p].id = d.ent[p].id
  BY UnlinkLess DEF Less, Same
<1>4. ASSUME NEW b \in DOMAIN u.chain
      PROVE  /\ u.chain[b] \in Seq(Ptrs) /\ IsInjective(u.chain[b])
             /\ \A x : x \in Range(u.chain[b]) <=> x \in Range(d.chain[b]) /\ x \notin S
  <2>1. d.chain[b] \in Seq(Ptrs) /\ IsInjective(d.chain[b])
    BY <1>1, <1>2 DEF Lists
  <2>2. QED
    BY <1>2, <2>1, WithoutOK
<1>5. NoTable(u) <=> NoTable(d)
  BY <1>2 DEF NoTable
<1>6. ASSUME NEW b \in DOMAIN u.chain, NEW p \in Range(u.chain[b])
      PROVE  p \in Entries(u) /\ Hash(u.ent[p].id, u.n) = b
  BY <1>1, <1>2, <1>3, <1>4 DEF Lists
<1>7. ASSUME NEW p \in Entries(u) PROVE p \in Range(u.chain[Hash(u.ent[p].id, u.n)])
  <2>1. p \in Entries(d) /\ p \notin S /\ u.ent[p].id = d.ent[p].id
    BY <1>2, <1>3
  <2>2. PICK b : b = Hash(d.ent[p].id, d.n)
    OBVIOUS
  <2>3. p \in Range(d.chain[b])
    BY <1>1, <2>1, <2>2 DEF Lists
  <2>4. b \in DOMAIN d.chain
    BY <1>1, <2>1, <2>2, HashIn
  <2>5. QED
    BY <1>2, <1>4, <2>1, <2>2, <2>3, <2>4
<1>8. NoTable(u) => Entries(u) = {}
  BY <1>1, <1>2, <1>5 DEF Lists
<1>9. QED
  BY <1>1, <1>2, <1>4, <1>5, <1>6, <1>7, <1>8 DEF Lists


LEMMA UnlinkCounts ==
  ASSUME NEW d, Good(d), NEW S, Leaving(d, S), NEW u, u = Unlink(d, S)
  PROVE  Counts(u)
<1>1. Shape(d) /\ Counts(d) /\ Families(d)
  BY DEF Good
<1>2. Unlinked(d, S, u)
  BY <1>1, UnlinkIs
<1>3. u.count = Cardinality(Entries(u))
  <2>1. PICK E : E = Entries(d)
    OBVIOUS
  <2>2. IsFiniteSet(E) /\ S \subseteq E
    BY <1>1, <2>1 DEF Leaving, Shape
  <2>3. E \cap S = S /\ Entries(u) = E \ S
    BY <1>2, <2>1, <2>2 DEF Unlinked
  <2>4. Cardinality(E \ S) = Cardinality(E) - Cardinality(S)
    BY <2>2, <2>3, FS_Difference
  <2>5. QED
    BY <1>1, <1>2, <2>1, <2>3, <2>4 DEF Unlinked, Counts
<1>4. \A p \in Entries(u) : p \in Entries(d) /\ p \notin S /\ Same(d.ent[p], u.ent[p])
  BY <1>1, <1>2, UnlinkEntry DEF Unlinked
<1>5. ASSUME NEW p \in Entries(u), IsParent(u, p)
      PROVE  u.ent[p].count = Cardinality(Children(u, p))
  <2>1. Children(u, p) = Children(d, p) \ S
    BY <1>2, <1>4 DEF Children, Same, Unlinked
  <2>2. IsParent(d, p)
    BY <1>4, <1>5 DEF IsParent, Same
  <2>3. u.ent[p].count = Cardinality(Children(d, p) \ S)
    BY <1>1, <1>4, <2>2, UnlinkEntry
  <2>4. QED
    BY <2>1, <2>3
<1>6. QED
  BY <1>3, <1>5 DEF Counts

LEMMA UnlinkFamilies ==
  ASSUME NEW d, Good(d), NEW S, Leaving(d, S), NEW u, u = Unlink(d, S)
  PROVE  Families(u)
<1>1. Shape(d) /\ Counts(d) /\ Families(d)
  BY DEF Good
<1>2. Unlinked(d, S, u)
  BY <1>1, UnlinkIs
<1>3. \A p \in Entries(u) :
        /\ p \in Entries(d) /\ p \notin S /\ Same(d.ent[p], u.ent[p])
        /\ u.ent[p].count <= d.ent[p].count
        /\ u.ent[p] \in EntryType /\ d.ent[p] \in EntryType
  BY <1>1, <1>2, UnlinkEntry DEF Unlinked, Shape
<1>4. \A p \in Entries(u) : Family(d, p)
  BY <1>1, <1>3 DEF Families
<1>5. SUFFICES ASSUME NEW p \in Entries(u) PROVE Family(u, p)
  BY DEF Families
<1>6. PICK e \in EntryType, f \in EntryType :
        e = d.ent[p] /\ f = u.ent[p] /\ Same(e, f) /\ f.count <= e.count
  BY <1>3
<1>7. /\ e.type = f.type /\ e.rule = f.rule /\ e.id = f.id /\ e.parent = f.parent
  BY <1>6 DEF Same
<1>8. CmdOf[f.rule].type = "keep" <=> f.type = "keep"
  BY <1>4, <1>6, <1>7 DEF Family
<1>9. ASSUME f.type = "parent" PROVE f.count <= CmdOf[f.rule].n
  <2>1. e.count <= CmdOf[f.rule].n
    BY <1>4, <1>6, <1>7, <1>9 DEF Family
  <2>2. CmdOf[f.rule].n \in Nat /\ e.count \in Nat /\ f.count \in Nat
    BY FlowAssumption DEF EntryType
  <2>3. QED
    BY <1>6, <2>1, <2>2
<1>10. ASSUME f.type = "limit"
       PROVE  /\ f.parent \in Entries(u) /\ IsParent(u, f.parent)
              /\ u.ent[f.parent].rule = f.rule
              /\ \E g \in Garbage :
                   u.ent[f.parent].id = MaskedId(f.id, CmdOf[f.rule].mask, g)
  <2>1. /\ f.parent \in Entries(d) /\ IsParent(d, f.parent)
        /\ d.ent[f.parent].rule = f.rule
        /\ \E g \in Garbage :
             d.ent[f.parent].id = MaskedId(f.id, CmdOf[f.rule].mask, g)
    BY <1>4, <1>6, <1>7, <1>10 DEF Family
  <2>2. p \in Children(d, f.parent)
    BY <1>3, <1>6, <1>7, <1>10 DEF Children
  <2>3. f.parent \notin S
    BY <1>3, <2>1, <2>2 DEF Leaving
  <2>4. f.parent \in Entries(u)
    BY <1>2, <2>1, <2>3 DEF Unlinked
  <2>5. Same(d.ent[f.parent], u.ent[f.parent])
    BY <1>3, <2>4
  <2>6. QED
    BY <2>1, <2>4, <2>5 DEF Same, IsParent
<1>11. QED
  BY <1>6, <1>8, <1>9, <1>10 DEF Family

LEMMA LessUnique ==
  ASSUME NEW d, NEW e, Less(d, e), Unique(d), Shape(d), Shape(e), Lives(d)
  PROVE  Unique(e) /\ Lives(e)
<1>1. \A p \in Entries(e) :
        /\ p \in Entries(d) /\ d.ent[p].type = e.ent[p].type /\ d.ent[p].id = e.ent[p].id
        /\ d.ent[p].rule = e.ent[p].rule
        /\ d.ent[p].state = e.ent[p].state /\ d.ent[p].acked = e.ent[p].acked
        /\ e.ent[p].type # "parent" => d.ent[p].ttl = e.ent[p].ttl
  BY DEF Less, Same
<1>2. \A p, q \in Entries(e) : SameFlow(e.ent[p].id, e.ent[q]) <=> SameFlow(d.ent[p].id, d.ent[q])
  BY <1>1 DEF SameFlow
<1>3. Unique(e)
  BY <1>1, <1>2 DEF Unique, IsParent
<1>4. ASSUME NEW p \in Entries(e) PROVE LifeOK(e.ent[p])
  <2>1. LifeOK(d.ent[p])
    BY <1>1 DEF Lives
  <2>2. QED
    BY <1>1, <2>1 DEF LifeOK
<1>5. QED
  BY <1>3, <1>4 DEF Lives

LEMMA UnlinkOK ==
  ASSUME NEW d, Good(d), NEW S, Leaving(d, S), NEW u, u = Unlink(d, S)
  PROVE  Good(u) /\ Less(d, u) /\ \A p : p \in Entries(u) <=> p \in Entries(d) /\ p \notin S
<1>1. Shape(d) /\ Unique(d) /\ Lives(d)
  BY DEF Good
<1>2. Shape(u) /\ Less(d, u)
  BY UnlinkLess
<1>3. Lists(u) /\ Counts(u) /\ Families(u)
  BY UnlinkLists, UnlinkCounts, UnlinkFamilies
<1>4. Unique(u) /\ Lives(u)
  BY <1>1, <1>2, LessUnique
<1>5. Unlinked(d, S, u)
  BY <1>1, UnlinkIs
<1>6. QED
  BY <1>2, <1>3, <1>4, <1>5 DEF Good, Unlinked


\* A change of the size that is asked for, or of the second, changes nothing else.
Alike(d, e) ==
  /\ e = [n |-> e.n, want |-> e.want, chain |-> e.chain, ent |-> e.ent,
          count |-> e.count, swept |-> e.swept]
  /\ e.n = d.n /\ e.chain = d.chain /\ e.ent = d.ent /\ e.count = d.count

LEMMA AlikeOK ==
  ASSUME NEW d, NEW e, Good(d), Alike(d, e), e.want \in Pos
  PROVE  Good(e) /\ Less(d, e) /\ Entries(e) = Entries(d)
<1>1. Shape(d) /\ Lists(d) /\ Counts(d) /\ Families(d) /\ Unique(d) /\ Lives(d)
  BY DEF Good
<1>2. e.n = d.n /\ e.chain = d.chain /\ e.ent = d.ent /\ e.count = d.count
  BY DEF Alike
<1>3. Entries(e) = Entries(d)
  BY <1>2 DEF Entries
<1>4. Shape(e)
  BY <1>1, <1>2, <1>3 DEF Shape, Alike
<1>5. Lists(e)
  BY <1>1, <1>2, <1>3 DEF Lists, NoTable
<1>6. Counts(e)
  BY <1>1, <1>2, <1>3 DEF Counts, IsParent, Children
<1>7. Families(e)
  BY <1>1, <1>2, <1>3 DEF Families, Family, IsParent
<1>8. Less(d, e)
  <2>1. Cardinality(Entries(d)) \in Nat
    BY <1>1, FS_CardinalityType DEF Shape
  <2>2. QED
    BY <1>1, <1>2, <1>3, <2>1 DEF Less, Same, Counts
<1>9. Unique(e) /\ Lives(e)
  BY <1>1, <1>4, <1>8, LessUnique
<1>10. QED
  BY <1>3, <1>4, <1>5, <1>6, <1>7, <1>8, <1>9 DEF Good

LEMMA LessLess ==
  ASSUME NEW d, NEW e, NEW f, Less(d, e), Less(e, f), Counts(d), Counts(e), Counts(f),
         Shape(d), Shape(e), Shape(f)
  PROVE  Less(d, f)
<1>1. d.count \in Nat /\ e.count \in Nat /\ f.count \in Nat
  BY FS_CardinalityType DEF Counts, Shape
<1>2. f.count <= d.count /\ Entries(f) \subseteq Entries(d)
  BY <1>1 DEF Less
<1>3. ASSUME NEW p \in Entries(f) PROVE Same(d.ent[p], f.ent[p])
  <2>1. Same(d.ent[p], e.ent[p]) /\ Same(e.ent[p], f.ent[p])
    BY <1>3 DEF Less
  <2>2. QED
    BY <2>1 DEF Same
<1>4. QED
  BY <1>2, <1>3 DEF Less

\* remove_dyn_rule() spares the entry that it is told to keep.
Removed(d, keep, r) ==
  Good(r) /\ Less(d, r) /\ \A p \in keep : p \in Entries(d) => p \in Entries(r)

LEMMA RemoveOK ==
  ASSUME NEW d, Good(d), NEW rule, NEW force \in BOOLEAN, NEW keep
  PROVE  Removed(d, keep, RemoveDyn(d, rule, force, keep))
<1> DEFINE r == RemoveDyn(d, rule, force, keep)
<1> DEFINE doomed == {p \in Concerned(d, rule, keep) : ~IsParent(d, p) /\ (force \/ Expired(d, p))}
<1>0. Shape(d) /\ Counts(d)
  BY DEF Good
<1>1. CASE d.count = 0 \/ (~force /\ d.swept)
  <2>1. r = d
    BY <1>1 DEF RemoveDyn
  <2>2. Alike(d, d)
    BY <1>0 DEF Alike, Shape
  <2>3. QED
    BY <1>0, <2>1, <2>2, AlikeOK DEF Shape, Removed
<1>2. CASE ~(d.count = 0 \/ (~force /\ d.swept))
  <2>1. PICK u : u = Unlink(d, doomed)
    OBVIOUS
  <2>2. Leaving(d, doomed) /\ \A p \in keep : p \notin doomed
    BY DEF Leaving, Concerned
  <2>3. Good(u) /\ Less(d, u) /\ \A p : p \in Entries(u) <=> p \in Entries(d) /\ p \notin doomed
    <3> HIDE DEF doomed
    <3> QED BY <2>1, <2>2, UnlinkOK
  <2>4. PICK S : S = {p \in Concerned(u, rule, keep) : IsParent(u, p) /\ u.ent[p].count = 0}
    OBVIOUS
  <2>5. PICK v : v = Unlink(u, S)
    OBVIOUS
  <2>6. Shape(u) /\ Counts(u)
    BY <2>3 DEF Good
  <2>7. Leaving(u, S) /\ \A p \in keep : p \notin S
    <3>1. ASSUME NEW p \in S PROVE p \in Entries(u) /\ p \notin keep /\ Children(u, p) = {}
      <4>1. p \in Entries(u) /\ p \notin keep /\ IsParent(u, p) /\ u.ent[p].count = 0
        BY <2>4, <3>1 DEF Concerned
      <4>2. Cardinality(Children(u, p)) = 0
        BY <2>6, <4>1 DEF Counts
      <4>3. IsFiniteSet(Children(u, p))
        BY <2>6, FS_Subset DEF Children, Shape
      <4>4. QED
        BY <4>1, <4>2, <4>3, FS_EmptySet
    <3>2. QED
      BY <3>1 DEF Leaving
  <2>8. Good(v) /\ Less(u, v) /\ \A p : p \in Entries(v) <=> p \in Entries(u) /\ p \notin S
    BY <2>3, <2>5, <2>7, UnlinkOK
  <2>9. Shape(v) /\ Counts(v)
    BY <2>8 DEF Good
  <2>10. r = [v EXCEPT !.swept = TRUE]
    <3>1. v = RemoveParents(u, rule, keep)
      BY <2>4, <2>5 DEF RemoveParents
    <3>2. QED
      BY <1>2, <2>1, <3>1 DEF RemoveDyn
  <2>11. Alike(v, r) /\ r.want = v.want
    BY <2>9, <2>10 DEF Shape, Alike
  <2>12. Good(r) /\ Less(v, r) /\ Entries(r) = Entries(v)
    BY <2>8, <2>9, <2>11, AlikeOK DEF Shape
  <2>13. Less(d, v)
    BY <1>0, <2>3, <2>6, <2>8, <2>9, LessLess
  <2>14. Less(d, r)
    BY <1>0, <2>9, <2>12, <2>13, LessLess DEF Good
  <2>15. QED
    BY <2>2, <2>3, <2>7, <2>8, <2>12, <2>14 DEF Removed
<1>3. QED
  BY <1>1, <1>2


-----------------------------------------------------------------------------
(***************************************************************************)
(* lookup_dyn_rule_locked(): what it frees, what it finds, and what the    *)
(* packet does to the session.                                             *)
(***************************************************************************)

LEMMA FreedOK ==
  ASSUME NEW d, Good(d), NEW b \in DOMAIN d.chain, NEW stop \in Nat,
         stop <= Len(d.chain[b]) + 1
  PROVE  /\ Leaving(d, Freed(d, d.chain[b], stop))
         /\ \A p \in Freed(d, d.chain[b], stop) : Expired(d, p)
         /\ \A i \in 1..stop - 1 :
              ~IsParent(d, d.chain[b][i]) /\ Expired(d, d.chain[b][i]) =>
                d.chain[b][i] \in Freed(d, d.chain[b], stop)
<1>0. Shape(d) /\ Lists(d) /\ Counts(d)
  BY DEF Good
<1>1. PICK c \in Seq(Ptrs) : c = d.chain[b]
  BY <1>0 DEF Lists
<1>2. PICK l \in Nat : l = Len(c) /\ DOMAIN c = 1..l
  OBVIOUS
<1>3. \A i \in 1..l : c[i] \in Entries(d)
  BY <1>0, <1>1, <1>2 DEF Lists, Range
<1> DEFINE old(i)  == {c[j] : j \in {k \in 1..i - 1 : ~IsParent(d, c[k]) /\ Expired(d, c[k])}}
           free(i) == /\ Expired(d, c[i])
                      /\ IsParent(d, c[i]) =>
                           d.ent[c[i]].count = Cardinality(Children(d, c[i]) \cap old(i))
<1>4. PICK F : F = Freed(d, c, stop)
  OBVIOUS
<1>5. F = {c[i] : i \in {k \in 1..stop - 1 : free(k)}}
  BY <1>4 DEF Freed
<1>6. \A i \in 1..stop - 1 : i \in 1..l
  BY <1>1, <1>2
<1>7. \A i \in 1..stop - 1 : ~IsParent(d, c[i]) /\ Expired(d, c[i]) => c[i] \in F
  BY <1>5
<1>8. ASSUME NEW p \in F
      PROVE  p \in Entries(d) /\ Expired(d, p) /\ (IsParent(d, p) => Children(d, p) \subseteq F)
  <2>1. PICK i \in 1..stop - 1 : p = c[i] /\ free(i)
    BY <1>5
  <2>2. p \in Entries(d)
    BY <1>3, <1>6, <2>1
  <2>3. ASSUME IsParent(d, p) PROVE Children(d, p) \subseteq F
    <3>1. PICK C : C = Children(d, p)
      OBVIOUS
    <3>2. PICK O : O = old(i)
      OBVIOUS
    <3>3. Cardinality(C) = Cardinality(C \cap O)
      BY <1>0, <2>1, <2>2, <2>3, <3>1, <3>2 DEF Counts
    <3>4. IsFiniteSet(C)
      BY <1>0, <3>1, FS_Subset DEF Children, Shape
    <3>5. C = C \cap O
      <4>1. PICK B \in SUBSET C : B = C \cap O
        OBVIOUS
      <4>2. QED
        BY <3>3, <3>4, <4>1, FS_Subset
    <3>6. ASSUME NEW x \in O PROVE x \in F
      <4>1. PICK j \in 1..i - 1 : x = c[j] /\ ~IsParent(d, c[j]) /\ Expired(d, c[j])
        BY <3>2, <3>6
      <4>2. j \in 1..stop - 1
        BY <2>1
      <4>3. QED
        BY <1>7, <4>1, <4>2
    <3>7. QED
      BY <3>1, <3>5, <3>6
  <2>4. QED
    BY <2>1, <2>2, <2>3
<1> HIDE DEF old, free
<1>9. Leaving(d, F)
  BY <1>8 DEF Leaving
<1>10. QED
  BY <1>1, <1>4, <1>7, <1>8, <1>9

LEMMA LeastHit ==
  ASSUME NEW H \in SUBSET Nat, H # {}
  PROVE  Min(H) \in H /\ \A x \in H : Min(H) <= x
<1>1. PICK x \in H : \A y \in H : x <= y
  BY NatMin
<1>2. QED
  BY <1>1 DEF Min

\* What Find() gives: the session of the flow, or the certainty that there is none.
Looked(d, id, f) ==
  /\ Good(f.d) /\ Less(d, f.d)
  /\ f.hit = NULL =>
       \A p \in Entries(f.d) : ~IsParent(f.d, p) => ~SameFlow(id, f.d.ent[p])
  /\ f.hit # NULL =>
       /\ f.hit \in Entries(f.d) /\ ~IsParent(f.d, f.hit) /\ SameFlow(id, f.d.ent[f.hit])
       /\ ~Expired(f.d, f.hit)

LEMMA FindOK ==
  ASSUME NEW d, Good(d), NEW id \in FlowId
  PROVE  Looked(d, id, Find(d, id))
<1>0. Shape(d) /\ Lists(d)
  BY DEF Good
<1>1. PICK f : f = Find(d, id)
  OBVIOUS
<1>2. CASE NoTable(d)
  <2>1. f.d = d /\ f.hit = NULL
    BY <1>1, <1>2 DEF Find
  <2>2. Alike(d, d)
    BY <1>0 DEF Alike, Shape
  <2>3. Good(d) /\ Less(d, d)
    BY <1>0, <2>2, AlikeOK DEF Shape
  <2>4. Entries(d) = {}
    BY <1>0, <1>2 DEF Lists
  <2>5. QED
    BY <1>1, <2>1, <2>3, <2>4 DEF Looked
<1>3. CASE ~NoTable(d)
  <2>1. PICK b : b = Hash(id, d.n)
    OBVIOUS
  <2>2. b \in DOMAIN d.chain
    BY <1>0, <1>3, <2>1, HashRange DEF Lists, Shape
  <2>3. PICK c \in Seq(Ptrs) : c = d.chain[b] /\ IsInjective(c)
    BY <1>0, <2>2 DEF Lists
  <2>4. PICK l \in Nat : l = Len(c) /\ DOMAIN c = 1..l
    OBVIOUS
  <2>5. PICK H : H = {i \in DOMAIN c : Matches(d, c[i], id)}
    OBVIOUS
  <2>6. \A i \in 1..l : c[i] \in Entries(d)
    BY <1>0, <2>2, <2>3, <2>4 DEF Lists, Range
  <2>7. CASE H = {}
    <3>1. f.d = Unlink(d, Freed(d, c, l + 1)) /\ f.hit = NULL
      BY <1>1, <1>3, <2>1, <2>3, <2>4, <2>5, <2>7 DEF Find
    <3>2. PICK F : F = Freed(d, c, l + 1)
      OBVIOUS
    <3>3. Leaving(d, F) /\ \A i \in 1..l : ~IsParent(d, c[i]) /\ Expired(d, c[i]) => c[i] \in F
      BY <2>2, <2>3, <2>4, <3>2, FreedOK
    <3>4. Good(f.d) /\ Less(d, f.d)
          /\ \A p : p \in Entries(f.d) <=> p \in Entries(d) /\ p \notin F
      BY <3>1, <3>2, <3>3, UnlinkOK
    <3>5. ASSUME NEW p \in Entries(f.d), ~IsParent(f.d, p), SameFlow(id, f.d.ent[p])
          PROVE  FALSE
      <4>1. p \in Entries(d) /\ p \notin F /\ Same(d.ent[p], f.d.ent[p])
        BY <3>4 DEF Less
      <4>2. ~IsParent(d, p) /\ SameFlow(id, d.ent[p])
        BY <3>5, <4>1 DEF Same, IsParent, SameFlow
      <4>3. Hash(d.ent[p].id, d.n) = b
        BY <1>0, <2>1, <4>1, <4>2, HashSame DEF Shape
      <4>4. PICK i \in 1..l : p = c[i]
        BY <1>0, <2>3, <2>4, <4>1, <4>3 DEF Lists, Range
      <4>5. ~Matches(d, p, id)
        BY <2>4, <2>5, <2>7, <4>4
      <4>6. Expired(d, p)
        BY <4>2, <4>5 DEF Matches
      <4>7. QED
        BY <3>3, <4>1, <4>2, <4>4, <4>6
    <3>6. QED
      BY <1>1, <3>1, <3>4, <3>5 DEF Looked
  <2>8. CASE H # {}
    <3>1. f.d = Unlink(d, Freed(d, c, Min(H))) /\ f.hit = c[Min(H)]
      BY <1>1, <1>3, <2>1, <2>3, <2>5, <2>8 DEF Find
    <3>2. PICK m \in 1..l : m = Min(H) /\ Matches(d, c[m], id)
      <4>1. H \in SUBSET Nat
        BY <2>4, <2>5
      <4>2. Min(H) \in H
        BY <2>8, <4>1, LeastHit
      <4>3. QED
        BY <2>4, <2>5, <4>2
    <3>3. PICK F : F = Freed(d, c, m)
      OBVIOUS
    <3>4. Leaving(d, F) /\ \A p \in F : Expired(d, p)
      <4>1. m \in Nat /\ m <= Len(d.chain[b]) + 1 /\ F = Freed(d, d.chain[b], m)
        BY <2>3, <2>4, <3>3
      <4>2. QED
        BY <2>2, <4>1, FreedOK
    <3>5. Good(f.d) /\ Less(d, f.d)
          /\ \A p : p \in Entries(f.d) <=> p \in Entries(d) /\ p \notin F
      BY <3>1, <3>2, <3>3, <3>4, UnlinkOK
    <3>6. PICK h : h = c[m] /\ h = f.hit
      BY <3>1, <3>2
    <3>7. h \in Entries(d) /\ ~IsParent(d, h) /\ ~Expired(d, h) /\ SameFlow(id, d.ent[h])
      BY <2>6, <3>2, <3>6 DEF Matches
    <3>8. h \in Entries(f.d) /\ Same(d.ent[h], f.d.ent[h])
      BY <3>4, <3>5, <3>7 DEF Less
    <3>9. ~IsParent(f.d, h) /\ SameFlow(id, f.d.ent[h]) /\ ~Expired(f.d, h)
      BY <3>7, <3>8 DEF Same, IsParent, SameFlow, Expired
    <3>10. h # NULL
      BY <1>0, <3>7, DynAssumption DEF Shape
    <3>11. QED
      BY <1>1, <3>5, <3>6, <3>8, <3>9, <3>10 DEF Looked
  <2>9. QED
    BY <2>7, <2>8
<1>4. QED
  BY <1>2, <1>3


LEMMA ConsOK ==
  ASSUME NEW T, NEW p \in T, NEW s \in Seq(T), IsInjective(s), p \notin Range(s),
         NEW t, t = <<p>> \o s
  PROVE  /\ t \in Seq(T) /\ IsInjective(t)
         /\ \A x : x \in Range(t) <=> x = p \/ x \in Range(s)
<1>2. PICK l \in Nat : l = Len(s)
  OBVIOUS
<1>3. t \in Seq(T) /\ Len(t) = l + 1 /\ t[1] = p /\ \A i \in 1..l : t[i + 1] = s[i]
  BY <1>2
<1>4. DOMAIN t = 1..l + 1 /\ DOMAIN s = 1..l
  BY <1>2, <1>3
<1>5. \A i \in 1..l + 1 : i = 1 \/ \E j \in 1..l : i = j + 1
  <2> SUFFICES ASSUME NEW i \in 1..l + 1, i # 1 PROVE i - 1 \in 1..l /\ i = (i - 1) + 1
    OBVIOUS
  <2> QED OBVIOUS
<1>6. \A i \in 1..l : s[i] # p
  BY <1>4 DEF Range
<1>7. ASSUME NEW i \in 1..l + 1, NEW j \in 1..l + 1, t[i] = t[j] PROVE i = j
  <2>1. CASE i = 1 \/ j = 1
    BY <1>3, <1>5, <1>6, <1>7, <2>1
  <2>2. CASE i # 1 /\ j # 1
    <3>1. PICK x \in 1..l, y \in 1..l : i = x + 1 /\ j = y + 1
      BY <1>5, <2>2
    <3>2. s[x] = s[y]
      BY <1>3, <1>7, <3>1
    <3>3. QED
      BY <1>4, <3>1, <3>2 DEF IsInjective
  <2>3. QED
    BY <2>1, <2>2
<1>8. ASSUME NEW x PROVE x \in Range(t) <=> x = p \/ x \in Range(s)
  <2>1. ASSUME x \in Range(t) PROVE x = p \/ x \in Range(s)
    <3>1. PICK i \in 1..l + 1 : x = t[i]
      BY <1>4, <2>1 DEF Range
    <3>2. CASE i = 1
      BY <1>3, <3>1, <3>2
    <3>3. ASSUME NEW j \in 1..l, i = j + 1 PROVE x \in Range(s)
      BY <1>3, <1>4, <3>1, <3>3 DEF Range
    <3>4. QED
      BY <1>5, <3>2, <3>3
  <2>2. ASSUME x = p \/ x \in Range(s) PROVE x \in Range(t)
    <3>1. 1 \in 1..l + 1 /\ \A j \in 1..l : j + 1 \in 1..l + 1
      BY <1>2
    <3>2. CASE x = p
      BY <1>3, <1>4, <3>1, <3>2 DEF Range
    <3>3. CASE x \in Range(s)
      BY <1>3, <1>4, <3>1, <3>3 DEF Range
    <3>4. QED
      BY <2>2, <3>2, <3>3
  <2>3. QED
    BY <2>1, <2>2
<1>9. QED
  BY <1>3, <1>4, <1>7, <1>8 DEF IsInjective

LEMMA FrontOK ==
  ASSUME NEW d, Good(d), NEW p \in Entries(d), NEW f, f = ToFront(d, p)
  PROVE  Good(f) /\ f.ent = d.ent /\ f.count = d.count
<1>0. Shape(d) /\ Lists(d) /\ Counts(d) /\ Families(d) /\ Unique(d) /\ Lives(d)
  BY DEF Good
<1>1. PICK b : b = Hash(d.ent[p].id, d.n)
  OBVIOUS
<1>2. b \in DOMAIN d.chain
  BY <1>0, <1>1, HashIn
<1>3. PICK s \in Seq(Ptrs) : s = Without(d.chain[b], {p}) /\ IsInjective(s)
                            /\ \A x : x \in Range(s) <=> x \in Range(d.chain[b]) /\ x # p
  <2>1. d.chain[b] \in Seq(Ptrs) /\ IsInjective(d.chain[b])
    BY <1>0, <1>2 DEF Lists
  <2>2. QED
    BY <2>1, WithoutOK
<1>4. PICK t : t = <<p>> \o s
  OBVIOUS
<1>5. p \in Range(d.chain[b]) /\ p \in Ptrs /\ p \notin Range(s)
  BY <1>0, <1>1, <1>3 DEF Lists, Shape
<1>6. t \in Seq(Ptrs) /\ IsInjective(t) /\ \A x : x \in Range(t) <=> x \in Range(d.chain[b])
  <2>1. IsInjective(s) /\ p \in Ptrs /\ p \notin Range(s)
    BY <1>3, <1>5
  <2>2. t \in Seq(Ptrs) /\ IsInjective(t) /\ \A x : x \in Range(t) <=> x = p \/ x \in Range(s)
    BY <1>4, <2>1, ConsOK
  <2>3. QED
    BY <1>3, <1>5, <2>2
<1>7. f = [d EXCEPT !.chain[b] = t]
  BY <1>1, <1>3, <1>4 DEF ToFront
<1>8. /\ f = [n |-> f.n, want |-> f.want, chain |-> f.chain, ent |-> f.ent,
              count |-> f.count, swept |-> f.swept]
      /\ f.n = d.n /\ f.want = d.want /\ f.ent = d.ent /\ f.count = d.count
      /\ f.chain = [d.chain EXCEPT ![b] = t]
  BY <1>0, <1>7 DEF Shape
<1>9. /\ DOMAIN f.chain = DOMAIN d.chain /\ f.chain = [x \in DOMAIN f.chain |-> f.chain[x]]
      /\ f.chain[b] = t /\ \A x \in DOMAIN d.chain : x # b => f.chain[x] = d.chain[x]
  BY <1>0, <1>2, <1>8 DEF Shape
<1>10. Entries(f) = Entries(d) /\ (NoTable(f) <=> NoTable(d))
  BY <1>8, <1>9 DEF Entries, NoTable
<1>11. Shape(f)
  BY <1>0, <1>8, <1>9, <1>10 DEF Shape
<1>12. \A x \in DOMAIN f.chain :
         /\ f.chain[x] \in Seq(Ptrs) /\ IsInjective(f.chain[x])
         /\ \A y : y \in Range(f.chain[x]) <=> y \in Range(d.chain[x])
  BY <1>0, <1>6, <1>9 DEF Lists
<1>13. Lists(f)
  <2>1. ASSUME NEW q \in Entries(f) PROVE q \in Range(f.chain[Hash(f.ent[q].id, f.n)])
    <3>1. Hash(d.ent[q].id, d.n) \in DOMAIN d.chain
      BY <1>0, <1>10, HashIn
    <3>2. QED
      BY <1>0, <1>8, <1>9, <1>10, <1>12, <3>1 DEF Lists
  <2>2. ASSUME NEW x \in DOMAIN f.chain, NEW q \in Range(f.chain[x])
        PROVE  q \in Entries(f) /\ Hash(f.ent[q].id, f.n) = x
    BY <1>0, <1>8, <1>9, <1>10, <1>12 DEF Lists
  <2>3. (NoTable(f) => Entries(f) = {}) /\ (~NoTable(f) => DOMAIN f.chain = 0..f.n - 1)
    BY <1>0, <1>8, <1>9, <1>10 DEF Lists
  <2>4. QED
    BY <1>12, <2>1, <2>2, <2>3 DEF Lists
<1>14. Counts(f) /\ Families(f) /\ Unique(f) /\ Lives(f)
  BY <1>0, <1>8, <1>10 DEF Counts, Families, Family, Unique, Lives, IsParent, Children
<1>15. QED
  BY <1>8, <1>11, <1>13, <1>14 DEF Good

PktType == [id : FlowId, flags : SUBSET Flags, seq : {"new", "late", "none"}]

LEMMA LifetimeOK ==
  ASSUME NEW s, NEW late, NEW ttl \in Nat
  PROVE  TcpLife(s, late, ttl) \in Nat /\ (Closed(s) => TcpLife(s, late, ttl) <= KaPeriod - 1)
<1>1. \A life \in Nat : BelowPeriod(life) \in Nat /\ BelowPeriod(life) <= KaPeriod - 1
  BY DynAssumption DEF BelowPeriod
<1>2. {SynLife, AckLife, FinLife, RstLife} \subseteq Nat
  BY DynAssumption
<1>3. Closed(s) => s # {<<"fwd", "SYN">>} /\ ~Established(s)
  <2>1. <<"fwd", "SYN">> # <<"rev", "SYN">>
    OBVIOUS
  <2>2. QED
    BY <2>1 DEF Closed, BothSyn
<1>4. PICK a, b : a = BelowPeriod(FinLife) /\ b = BelowPeriod(RstLife)
  OBVIOUS
<1>5. a \in Nat /\ b \in Nat /\ a <= KaPeriod - 1 /\ b <= KaPeriod - 1
  BY <1>1, <1>2, <1>4
<1>6. \/ TcpLife(s, late, ttl) = SynLife /\ s = {<<"fwd", "SYN">>}
      \/ TcpLife(s, late, ttl) \in {ttl, AckLife} /\ Established(s)
      \/ TcpLife(s, late, ttl) \in {a, b}
  BY <1>4 DEF TcpLife
<1>7. QED
  BY <1>2, <1>3, <1>5, <1>6


LEMMA RefreshedOK ==
  ASSUME NEW e \in EntryType, LifeOK(e), e.type # "parent", NEW pkt \in PktType,
         SameFlow(pkt.id, e), NEW r, r = Refreshed(e, pkt)
  PROVE  /\ r \in EntryType /\ LifeOK(r)
         /\ r.type = e.type /\ r.rule = e.rule /\ r.id = e.id /\ r.parent = e.parent
         /\ r.count = e.count
<1> DEFINE dir   == IF e.id = pkt.id THEN "fwd" ELSE "rev"
           state == e.state \cup {<<dir, f>> : f \in pkt.flags}
           acked == e.acked \cup {x \in {dir} : Established(state) /\ pkt.seq # "none"}
           life  == TcpLife(state, Late(e, dir, pkt), e.ttl)
<1>1. e.id.proto = pkt.id.proto
  BY HashSame DEF PktType
<1>2. e.ttl \in Nat /\ {UdpLife, ShortLife} \subseteq Nat
  BY DynAssumption DEF EntryType
<1>3. CASE pkt.id.proto = "tcp"
  <2>1. r = [e EXCEPT !.state = state, !.acked = acked, !.ttl = life]
    BY <1>3 DEF Refreshed
  <2>2. state \in SUBSET (Sides \X Flags) /\ acked \in SUBSET Sides
    BY DEF EntryType, PktType, Sides
  <2>3. life \in Nat /\ (Closed(state) => life <= KaPeriod - 1)
    <3> HIDE DEF state
    <3> QED BY <1>2, LifetimeOK
  <2>4. acked # {} => BothSyn \subseteq state
    <3>1. e.acked # {} => BothSyn \subseteq e.state
      BY DEF LifeOK
    <3>2. Established(state) => BothSyn \subseteq state
      <4> HIDE DEF state
      <4> QED BY DEF Established
    <3>3. QED
      BY <3>1, <3>2
  <2> HIDE DEF state, acked, life
  <2>5. /\ r \in EntryType /\ r.state = state /\ r.acked = acked /\ r.ttl = life
        /\ r.type = e.type /\ r.rule = e.rule /\ r.id = e.id /\ r.parent = e.parent
        /\ r.count = e.count
    BY <2>1, <2>2, <2>3 DEF EntryType
  <2>6. QED
    BY <2>3, <2>4, <2>5 DEF LifeOK
<1>4. CASE pkt.id.proto # "tcp"
  <2>1. PICK ttl \in Nat : r = [e EXCEPT !.ttl = ttl]
    BY <1>2, <1>4 DEF Refreshed
  <2>2. /\ r \in EntryType /\ r.state = e.state /\ r.acked = e.acked
        /\ r.type = e.type /\ r.rule = e.rule /\ r.id = e.id /\ r.parent = e.parent
        /\ r.count = e.count
    BY <2>1 DEF EntryType
  <2>3. QED
    BY <1>1, <1>4, <2>2 DEF LifeOK
<1>5. QED
  BY <1>3, <1>4

\* Entries may change in what is not about their place, their rule and their family.
SamePlace(x, y) ==
  /\ x.type = y.type /\ x.rule = y.rule /\ x.id = y.id /\ x.parent = y.parent
  /\ x.count = y.count

LEMMA RewriteOK ==
  ASSUME NEW d, Good(d), NEW e, Entries(e) = Entries(d),
         e = [n |-> e.n, want |-> e.want, chain |-> e.chain, ent |-> e.ent,
              count |-> e.count, swept |-> e.swept],
         e.n = d.n, e.want = d.want, e.chain = d.chain, e.count = d.count,
         e.ent \in [Entries(e) -> EntryType],
         \A p \in Entries(e) : SamePlace(e.ent[p], d.ent[p]) /\ LifeOK(e.ent[p])
  PROVE  Good(e)
<1>0. Shape(d) /\ Lists(d) /\ Counts(d) /\ Families(d) /\ Unique(d) /\ Lives(d)
  BY DEF Good
<1>3. \A p \in Entries(e) :
        /\ e.ent[p].type = d.ent[p].type /\ e.ent[p].rule = d.ent[p].rule
        /\ e.ent[p].id = d.ent[p].id /\ e.ent[p].parent = d.ent[p].parent
        /\ e.ent[p].count = d.ent[p].count
  BY DEF SamePlace
<1>4. Shape(e)
  BY <1>0 DEF Shape
<1>5. Lists(e)
  <2>1. NoTable(e) <=> NoTable(d)
    BY DEF NoTable
  <2>2. (NoTable(e) => Entries(e) = {}) /\ (~NoTable(e) => DOMAIN e.chain = 0..e.n - 1)
    BY <1>0, <2>1 DEF Lists
  <2>3. ASSUME NEW b \in DOMAIN e.chain
        PROVE  /\ e.chain[b] \in Seq(Ptrs) /\ IsInjective(e.chain[b])
               /\ \A p \in Range(e.chain[b]) : p \in Entries(e) /\ Hash(e.ent[p].id, e.n) = b
    BY <1>0, <1>3 DEF Lists
  <2>4. ASSUME NEW p \in Entries(e) PROVE p \in Range(e.chain[Hash(e.ent[p].id, e.n)])
    BY <1>0, <1>3 DEF Lists
  <2>5. QED
    BY <2>2, <2>3, <2>4 DEF Lists
<1>6. \A p \in Entries(e) : (IsParent(e, p) <=> IsParent(d, p)) /\ Children(e, p) = Children(d, p)
  BY <1>3 DEF IsParent, Children
<1>7. Counts(e)
  BY <1>0, <1>3, <1>6 DEF Counts
<1>8. Families(e)
  <2> SUFFICES ASSUME NEW p \in Entries(e) PROVE Family(e, p)
    BY DEF Families
  <2>1. Family(d, p)
    BY <1>0 DEF Families
  <2>2. QED
    BY <1>3, <1>6, <2>1 DEF Family
<1>9. Unique(e)
  BY <1>0, <1>3, <1>6 DEF Unique, SameFlow
<1>10. Lives(e)
  BY DEF Lives
<1>11. QED
  BY <1>4, <1>5, <1>7, <1>8, <1>9, <1>10 DEF Good

Put(d, h, x) == [d EXCEPT !.ent[h] = x]

LEMMA ChangeOK ==
  ASSUME NEW d, Good(d), NEW h \in Entries(d), NEW x \in EntryType, LifeOK(x),
         x.type = d.ent[h].type, x.rule = d.ent[h].rule, x.id = d.ent[h].id,
         x.parent = d.ent[h].parent, x.count = d.ent[h].count,
         NEW e, e = Put(d, h, x)
  PROVE  /\ Good(e) /\ e.count = d.count /\ Entries(e) = Entries(d) /\ e.ent[h] = x
         /\ \A p \in Entries(e) : p # h => e.ent[p] = d.ent[p]
<1>0. Shape(d) /\ Lives(d)
  BY DEF Good
<1>1. /\ e = [n |-> e.n, want |-> e.want, chain |-> e.chain, ent |-> e.ent,
              count |-> e.count, swept |-> e.swept]
      /\ e.n = d.n /\ e.want = d.want /\ e.chain = d.chain /\ e.count = d.count
      /\ e.ent = [d.ent EXCEPT ![h] = x]
  BY <1>0 DEF Shape, Put
<1>2. /\ Entries(e) = Entries(d) /\ e.ent[h] = x /\ e.ent \in [Entries(e) -> EntryType]
      /\ \A p \in Entries(e) : p # h => e.ent[p] = d.ent[p]
  BY <1>0, <1>1 DEF Shape, Entries
<1>3. \A p \in Entries(e) : SamePlace(e.ent[p], d.ent[p]) /\ LifeOK(e.ent[p])
  BY <1>0, <1>2 DEF SamePlace, Lives
<1>4. Good(e)
  BY <1>1, <1>2, <1>3, RewriteOK
<1>5. QED
  BY <1>1, <1>2, <1>4

\* A session after the packet pkt, as it was when it was found.
Renewed(d, pkt, p, e) ==
  /\ p \in Entries(d) /\ ~IsParent(d, p)
  /\ \E x \in EntryType : Same(d.ent[p], x) /\ e = Refreshed(x, pkt)

\* What Lookup() gives.
LookedUp(d, pkt, l) ==
  /\ Good(l.d) /\ Entries(l.d) \subseteq Entries(d) /\ l.d.count <= d.count
  /\ l.hit = NULL =>
       /\ Less(d, l.d)
       /\ \A p \in Entries(l.d) : ~IsParent(l.d, p) => ~SameFlow(pkt.id, l.d.ent[p])
  /\ \A p \in Entries(l.d) :
       IF ~IsParent(l.d, p) /\ SameFlow(pkt.id, l.d.ent[p])
       THEN Renewed(d, pkt, p, l.d.ent[p])
       ELSE Same(d.ent[p], l.d.ent[p])

LEMMA ReversedTwice ==
  ASSUME NEW id \in FlowId
  PROVE  Reversed(id) \in FlowId /\ Reversed(Reversed(id)) = id
<1>1. PICK r : r = Reversed(id)
  OBVIOUS
<1>2. /\ r \in FlowId /\ r.proto = id.proto /\ r.v6 = id.v6
      /\ r.src = id.dst /\ r.dst = id.src /\ r.sport = id.dport /\ r.dport = id.sport
  BY <1>1 DEF Reversed, FlowId
<1>3. PICK s : s = Reversed(r)
  OBVIOUS
<1>4. /\ s \in FlowId /\ s.proto = id.proto /\ s.v6 = id.v6
      /\ s.src = id.src /\ s.dst = id.dst /\ s.sport = id.sport /\ s.dport = id.dport
  BY <1>2, <1>3 DEF Reversed, FlowId
<1>5. s = id
  BY <1>4 DEF FlowId
<1>6. QED
  BY <1>1, <1>2, <1>3, <1>5

LEMMA FlowsMeet ==
  ASSUME NEW id, NEW x \in EntryType, NEW y \in EntryType, SameFlow(id, x), SameFlow(id, y)
  PROVE  SameFlow(x.id, y)
<1>1. x.id \in FlowId /\ y.id \in FlowId
  BY DEF EntryType
<1>2. Reversed(Reversed(x.id)) = x.id /\ Reversed(Reversed(y.id)) = y.id
  BY <1>1, ReversedTwice
<1>3. QED
  BY <1>2 DEF SameFlow

LEMMA LookupOK ==
  ASSUME NEW d, Good(d), NEW pkt \in PktType
  PROVE  LookedUp(d, pkt, Lookup(d, pkt))
<1>1. PICK f : f = Find(d, pkt.id)
  OBVIOUS
<1>2. PICK l : l = Lookup(d, pkt)
  OBVIOUS
<1>3. Looked(d, pkt.id, f)
  BY <1>1, FindOK DEF PktType
<1>4. Good(f.d) /\ Less(d, f.d)
  BY <1>3 DEF Looked
<1>5. CASE f.hit = NULL
  <2>1. l = f
    BY <1>1, <1>2, <1>5 DEF Lookup
  <2>2. \A p \in Entries(l.d) : ~IsParent(l.d, p) => ~SameFlow(pkt.id, l.d.ent[p])
    BY <1>3, <1>5, <2>1 DEF Looked
  <2>3. Good(l.d) /\ Less(d, l.d)
    BY <1>4, <2>1
  <2>4. QED
    BY <1>2, <2>2, <2>3 DEF LookedUp, Less
<1>6. CASE f.hit # NULL
  <2>1. PICK h : h = f.hit
    OBVIOUS
  <2>2. h \in Entries(f.d) /\ ~IsParent(f.d, h) /\ SameFlow(pkt.id, f.d.ent[h])
    BY <1>3, <1>6, <2>1 DEF Looked
  <2>3. PICK t : t = ToFront(f.d, h)
    OBVIOUS
  <2>4. Good(t) /\ t.ent = f.d.ent /\ t.count = f.d.count
    BY <1>4, <2>2, <2>3, FrontOK
  <2>5. Entries(t) = Entries(f.d)
    BY <2>4 DEF Entries
  <2>6. PICK x \in EntryType : x = t.ent[h] /\ LifeOK(x) /\ x.type # "parent"
                               /\ SameFlow(pkt.id, x)
    BY <2>2, <2>4, <2>5 DEF Good, Shape, Lives, IsParent
  <2>7. PICK r : r = Refreshed(x, pkt)
    OBVIOUS
  <2>8. /\ r \in EntryType /\ LifeOK(r) /\ r.type = x.type /\ r.rule = x.rule /\ r.id = x.id
        /\ r.parent = x.parent /\ r.count = x.count
    BY <2>6, <2>7, RefreshedOK
  <2>9. PICK e : e = Put(t, h, r)
    OBVIOUS
  <2>10. /\ Good(e) /\ e.count = t.count /\ Entries(e) = Entries(t) /\ e.ent[h] = r
         /\ \A p \in Entries(e) : p # h => e.ent[p] = t.ent[p]
    BY <2>2, <2>4, <2>5, <2>6, <2>8, <2>9, ChangeOK
  <2>11. l.d = e /\ l.hit = h
    <3>1. f = [d |-> f.d, hit |-> f.hit]
      BY <1>1 DEF Find
    <3>2. l = [f EXCEPT !.d = [ToFront(f.d, f.hit) EXCEPT !.ent[f.hit] = Refreshed(@, pkt)]]
      BY <1>1, <1>2, <1>6 DEF Lookup
    <3>3. [ToFront(f.d, f.hit) EXCEPT !.ent[f.hit] = Refreshed(@, pkt)]
            = [t EXCEPT !.ent[h] = Refreshed(t.ent[h], pkt)]
      BY <2>1, <2>3
    <3>4. l = [f EXCEPT !.d = e]
      BY <2>6, <2>7, <2>9, <3>2, <3>3 DEF Put
    <3>5. QED
      BY <2>1, <3>1, <3>4
  <2>12. \A p \in Entries(e) : p \in Entries(d) /\ Same(d.ent[p], t.ent[p])
    BY <1>4, <2>4, <2>5, <2>10 DEF Less
  <2>13. ASSUME NEW p \in Entries(e), p # h
         PROVE  (IsParent(e, p) \/ ~SameFlow(pkt.id, e.ent[p])) /\ Same(d.ent[p], e.ent[p])
    <3>1. e.ent[p] = t.ent[p] /\ e.ent[p] \in EntryType
      BY <2>10, <2>13 DEF Good, Shape
    <3>2. Same(d.ent[p], e.ent[p])
      BY <2>12, <3>1
    <3>3. ASSUME ~IsParent(e, p), SameFlow(pkt.id, e.ent[p]) PROVE FALSE
      <4>1. SameFlow(t.ent[p].id, t.ent[h])
        BY <2>6, <3>1, <3>3, FlowsMeet
      <4>2. ~IsParent(t, p) /\ ~IsParent(t, h)
        BY <2>6, <3>1, <3>3 DEF IsParent
      <4>3. QED
        BY <2>2, <2>4, <2>5, <2>10, <2>13, <4>1, <4>2 DEF Good, Unique
    <3>4. QED
      BY <3>2, <3>3
  <2>14. ~IsParent(e, h) /\ SameFlow(pkt.id, e.ent[h]) /\ Renewed(d, pkt, h, e.ent[h])
    <3>1. ~IsParent(e, h) /\ SameFlow(pkt.id, e.ent[h])
      BY <2>6, <2>8, <2>10 DEF IsParent, SameFlow
    <3>2. h \in Entries(d) /\ Same(d.ent[h], x)
      BY <2>2, <2>5, <2>6, <2>10, <2>12
    <3>3. ~IsParent(d, h)
      BY <2>6, <3>2 DEF Same, IsParent
    <3>4. QED
      BY <2>7, <2>10, <3>1, <3>2, <3>3 DEF Renewed
  <2>15. Entries(e) \subseteq Entries(d) /\ e.count <= d.count
    BY <1>4, <2>4, <2>5, <2>10 DEF Less
  <2>16. h # NULL
    BY <1>6, <2>1
  <2>17. QED
    BY <1>2, <2>10, <2>11, <2>13, <2>14, <2>15, <2>16 DEF LookedUp
<1>7. QED
  BY <1>5, <1>6


-----------------------------------------------------------------------------
(***************************************************************************)
(* Entries that are added: realloc_dynamic_table() and add_dyn_rule().     *)
(***************************************************************************)

LEMMA ReallocOK ==
  ASSUME NEW d, Good(d), Entries(d) = {}, NEW size \in Nat, NEW r, r = Realloc(d, size)
  PROVE  Good(r) /\ r.count = d.count /\ r.ent = d.ent
<1>0. Shape(d) /\ Lists(d) /\ Counts(d) /\ Families(d) /\ Unique(d) /\ Lives(d)
  BY DEF Good
<1>1. CASE d.want \notin PowersOf2
  <2>1. r = [d EXCEPT !.want = d.n]
    BY <1>1 DEF Realloc
  <2>2. Alike(d, r) /\ r.want = d.n
    BY <1>0, <2>1 DEF Alike, Shape
  <2>3. QED
    BY <1>0, <2>2, AlikeOK DEF Alike, Shape
<1>2. CASE d.want \in PowersOf2
  <2>1. PICK n \in Pos : n = IF size = 0 THEN Min({2, d.want}) ELSE size
    <3>1. d.want \in Nat /\ d.want # 0
      BY <1>0 DEF Shape, Pos
    <3>2. {2, d.want} \in SUBSET Nat
      BY <3>1
    <3>3. Min({2, d.want}) \in {2, d.want}
      BY <3>2, LeastHit
    <3>4. QED
      BY <3>1, <3>3 DEF Pos
  <2>2. PICK C : C = [b \in 0..size - 1 |-> << >>]
    OBVIOUS
  <2>3. r = [d EXCEPT !.n = n, !.chain = C]
    BY <1>2, <2>1, <2>2 DEF Realloc
  <2>4. /\ r = [n |-> r.n, want |-> r.want, chain |-> r.chain, ent |-> r.ent,
                count |-> r.count, swept |-> r.swept]
        /\ r.n = n /\ r.want = d.want /\ r.chain = C /\ r.ent = d.ent /\ r.count = d.count
    BY <1>0, <2>3 DEF Shape
  <2>5. Entries(r) = {}
    BY <2>4 DEF Entries
  <2>6. Shape(r)
    BY <1>0, <2>2, <2>4 DEF Shape, Entries
  <2>7. Lists(r)
    <3>1. DOMAIN C = 0..size - 1 /\ \A b \in DOMAIN C : C[b] = << >>
      BY <2>2
    <3>2. << >> \in Seq(Ptrs) /\ IsInjective(<< >>) /\ Range(<< >>) = {}
      BY DEF IsInjective, Range
    <3>3. ~NoTable(r) => DOMAIN C = 0..n - 1
      <4>1. ASSUME size = 0 PROVE NoTable(r)
        BY <2>4, <3>1, <4>1 DEF NoTable
      <4>2. QED
        BY <2>1, <3>1, <4>1
    <3>4. QED
      BY <2>4, <2>5, <3>1, <3>2, <3>3 DEF Lists
  <2>8. Counts(r) /\ Families(r) /\ Unique(r) /\ Lives(r)
    <3>1. r.count = Cardinality(Entries(r))
      BY <1>0, <2>4 DEF Counts, Entries
    <3>2. QED
      BY <2>5, <3>1 DEF Counts, Families, Unique, Lives
  <2>9. QED
    BY <2>4, <2>6, <2>7, <2>8 DEF Good
<1>3. QED
  BY <1>1, <1>2

LEMMA FlowSym ==
  ASSUME NEW x \in EntryType, NEW y \in EntryType, SameFlow(x.id, y)
  PROVE  SameFlow(y.id, x)
<1>1. SameFlow(x.id, x)
  BY DEF SameFlow
<1>2. QED
  BY <1>1, FlowsMeet

\* What add_dyn_rule() may add: a session of a flow that has none, or a parent
\* that is not there; a child only to a parent that is not full.
Fits(d, id, type, rule, parent) ==
  /\ CmdOf[rule].type = "keep" <=> type = "keep"
  /\ type # "limit" => parent = NULL
  /\ type = "limit" =>
       /\ parent \in Entries(d) /\ IsParent(d, parent) /\ d.ent[parent].rule = rule
       /\ \E g \in Garbage : d.ent[parent].id = MaskedId(id, CmdOf[rule].mask, g)
       /\ d.ent[parent].count < CmdOf[rule].n
  /\ type = "parent" =>
       \A q \in Entries(d) : IsParent(d, q) => d.ent[q].rule # rule \/ d.ent[q].id # id
  /\ type # "parent" =>
       \A q \in Entries(d) : ~IsParent(d, q) => ~SameFlow(id, d.ent[q])

\* The new entry.
Fresh(e, id, type, rule, parent) ==
  /\ e \in EntryType /\ e.id = id /\ e.type = type /\ e.rule = rule /\ e.parent = parent
  /\ e.state = {} /\ e.acked = {} /\ e.count = 0

Grown(d, a, p, id, type, rule, parent) ==
  /\ a.count = d.count + 1
  /\ p \in Ptrs /\ p \notin Entries(d)
  /\ \A q : q \in Entries(a) <=> q = p \/ q \in Entries(d)
  /\ Fresh(a.ent[p], id, type, rule, parent)
  /\ \A q \in Entries(d) :
       /\ a.ent[q] \in EntryType /\ Same(d.ent[q], a.ent[q])
       /\ q # parent => a.ent[q].count = d.ent[q].count
       /\ q = parent => a.ent[q].count = d.ent[q].count + 1

LEMMA AddedIs ==
  ASSUME NEW d, Good(d), ~NoTable(d), ~ Ptrs \subseteq Entries(d),
         NEW id \in FlowId, NEW type \in {"keep", "limit", "parent"}, NEW rule \in Rules,
         NEW parent \in Entries(d) \cup {NULL},
         NEW r, r = Added(d, id, type, rule, parent)
  PROVE  /\ Grown(d, r.d, r.hit, id, type, rule, parent) /\ Shape(r.d) /\ Lists(r.d)
<1>0. Shape(d) /\ Lists(d) /\ Counts(d)
  BY DEF Good
<1>1. PICK p \in Ptrs : p = Min(Ptrs \ Entries(d)) /\ p \notin Entries(d)
  <2>1. PICK S \in SUBSET Nat : S = Ptrs \ Entries(d) /\ S # {}
    BY DynAssumption
  <2>2. Min(S) \in S
    BY <2>1, LeastHit
  <2>3. QED
    BY <2>1, <2>2
<1>2. PICK b : b = Hash(id, d.n)
  OBVIOUS
<1>3. b \in DOMAIN d.chain
  BY <1>0, <1>2, HashRange DEF Lists, Shape
<1>4. PICK e : e = [type |-> type, rule |-> rule, id |-> id, ttl |-> SynLife, state |-> {},
                    acked |-> {}, parent |-> parent, count |-> 0]
  OBVIOUS
<1>5. Fresh(e, id, type, rule, parent)
  BY <1>0, <1>4, DynAssumption DEF Fresh, EntryType, Shape
<1>6. PICK t : t = <<p>> \o d.chain[b]
  OBVIOUS
<1>7. /\ t \in Seq(Ptrs) /\ IsInjective(t)
      /\ \A x : x \in Range(t) <=> x = p \/ x \in Range(d.chain[b])
  <2>1. PICK s \in Seq(Ptrs) : s = d.chain[b] /\ IsInjective(s) /\ p \notin Range(s)
    BY <1>0, <1>1, <1>3 DEF Lists
  <2>2. t = <<p>> \o s
    BY <1>6, <2>1
  <2>3. p \in Ptrs /\ IsInjective(s) /\ p \notin Range(s)
    BY <1>1, <2>1
  <2>5. t \in Seq(Ptrs) /\ IsInjective(t) /\ \A x : x \in Range(t) <=> x = p \/ x \in Range(s)
    BY <2>2, <2>3, ConsOK
  <2>6. QED
    BY <2>1, <2>5
<1>8. PICK E : E = [q \in Entries(d) \cup {p} |->
                      CASE q = p -> e
                        [] q = parent -> [d.ent[q] EXCEPT !.count = @ + 1]
                        [] OTHER -> d.ent[q]]
  OBVIOUS
<1>9. PICK a : a = [d EXCEPT !.chain[b] = t, !.ent = E, !.count = @ + 1]
  OBVIOUS
<1>10. r.d = a /\ r.hit = p
  BY <1>1, <1>2, <1>4, <1>6, <1>8, <1>9 DEF Added
<1>11. /\ a = [n |-> a.n, want |-> a.want, chain |-> a.chain, ent |-> a.ent,
               count |-> a.count, swept |-> a.swept]
       /\ a.n = d.n /\ a.want = d.want /\ a.ent = E /\ a.count = d.count + 1
       /\ a.chain = [d.chain EXCEPT ![b] = t]
  BY <1>0, <1>9 DEF Shape
<1>12. /\ DOMAIN a.chain = DOMAIN d.chain /\ a.chain = [x \in DOMAIN a.chain |-> a.chain[x]]
       /\ a.chain[b] = t /\ \A x \in DOMAIN d.chain : x # b => a.chain[x] = d.chain[x]
  BY <1>0, <1>3, <1>11 DEF Shape
<1>13. /\ DOMAIN E = Entries(d) \cup {p} /\ E = [q \in DOMAIN E |-> E[q]] /\ E[p] = e
       /\ \A q \in Entries(d) : E[q] = IF q = parent THEN [d.ent[q] EXCEPT !.count = @ + 1]
                                       ELSE d.ent[q]
  <2>1. DOMAIN E = Entries(d) \cup {p} /\ E = [q \in DOMAIN E |-> E[q]]
    BY <1>8
  <2>2. \A q \in Entries(d) \cup {p} :
          E[q] = CASE q = p -> e
                   [] q = parent -> [d.ent[q] EXCEPT !.count = @ + 1]
                   [] OTHER -> d.ent[q]
    BY <1>8
  <2>3. p \notin Entries(d) /\ p # parent
    BY <1>1, DynAssumption
  <2>4. E[p] = e
    BY <2>2, <2>3
  <2>5. ASSUME NEW q \in Entries(d), q = parent PROVE E[q] = [d.ent[q] EXCEPT !.count = @ + 1]
    BY <2>2, <2>3, <2>5
  <2>6. ASSUME NEW q \in Entries(d), q # parent PROVE E[q] = d.ent[q]
    BY <2>2, <2>3, <2>6
  <2>7. QED
    BY <2>1, <2>4, <2>5, <2>6
<1>14. ASSUME NEW q \in Entries(d)
       PROVE  /\ E[q] \in EntryType /\ Same(d.ent[q], E[q])
              /\ q # parent => E[q].count = d.ent[q].count
              /\ q = parent => E[q].count = d.ent[q].count + 1
  <2>1. PICK x \in EntryType : x = d.ent[q]
    BY <1>0 DEF Shape
  <2>2. CASE q # parent
    BY <1>13, <2>1, <2>2 DEF Same
  <2>3. CASE q = parent
    <3>1. PICK c \in Nat : c = x.count + 1
      BY DEF EntryType
    <3>2. E[q] = [x EXCEPT !.count = c]
      BY <1>13, <2>1, <2>3, <3>1
    <3>3. PICK y : y = [x EXCEPT !.count = c]
      OBVIOUS
    <3>4. y \in EntryType /\ y.count = c /\ Same(x, y)
      BY <3>3, CountSet
    <3>5. QED
      BY <2>1, <2>3, <3>1, <3>2, <3>3, <3>4
  <2>4. QED
    BY <2>2, <2>3
<1>15. \A q : q \in Entries(a) <=> q = p \/ q \in Entries(d)
  BY <1>11, <1>13 DEF Entries
<1>16. Grown(d, a, p, id, type, rule, parent)
  BY <1>1, <1>5, <1>11, <1>13, <1>14, <1>15 DEF Grown
<1>17. Shape(a)
  <2>1. IsFiniteSet(Entries(a)) /\ Entries(a) \subseteq Ptrs
    <3>1. Entries(a) = Entries(d) \cup {p}
      BY <1>15
    <3>2. QED
      BY <1>0, <3>1, FS_AddElement DEF Shape
  <2>2. a.ent \in [Entries(a) -> EntryType]
    <3>1. \A q \in DOMAIN E : E[q] \in EntryType
      BY <1>5, <1>13, <1>14 DEF Fresh
    <3>2. QED
      BY <1>11, <1>13, <3>1 DEF Entries
  <2>3. QED
    BY <1>0, <1>11, <1>12, <2>1, <2>2 DEF Shape
<1>18. \A q \in Entries(d) : a.ent[q].id = d.ent[q].id
  BY <1>11, <1>14 DEF Same
<1>19. Lists(a)
  <2>1. ~NoTable(a) /\ DOMAIN a.chain = 0..a.n - 1
    BY <1>0, <1>11, <1>12 DEF Lists, NoTable
  <2>2. ASSUME NEW x \in DOMAIN a.chain
        PROVE  /\ a.chain[x] \in Seq(Ptrs) /\ IsInjective(a.chain[x])
               /\ \A y : y \in Range(a.chain[x]) <=> (y = p /\ x = b) \/ y \in Range(d.chain[x])
    BY <1>0, <1>7, <1>12 DEF Lists
  <2>3. ASSUME NEW x \in DOMAIN a.chain, NEW q \in Range(a.chain[x])
        PROVE  q \in Entries(a) /\ Hash(a.ent[q].id, a.n) = x
    <3>1. CASE q = p /\ x = b
      BY <1>2, <1>5, <1>11, <1>13, <1>15, <3>1 DEF Fresh
    <3>2. CASE q \in Range(d.chain[x])
      BY <1>0, <1>11, <1>12, <1>15, <1>18, <3>2 DEF Lists
    <3>3. QED
      BY <2>2, <2>3, <3>1, <3>2
  <2>4. ASSUME NEW q \in Entries(a) PROVE q \in Range(a.chain[Hash(a.ent[q].id, a.n)])
    <3>1. CASE q = p
      BY <1>2, <1>3, <1>5, <1>11, <1>12, <1>13, <2>2, <3>1 DEF Fresh
    <3>2. CASE q \in Entries(d)
      <4>1. PICK h : h = Hash(d.ent[q].id, d.n)
        OBVIOUS
      <4>2. h \in DOMAIN d.chain /\ q \in Range(d.chain[h])
        BY <1>0, <3>2, <4>1, HashIn DEF Lists
      <4>3. QED
        BY <1>11, <1>12, <1>18, <2>2, <3>2, <4>1, <4>2
    <3>3. QED
      BY <1>15, <3>1, <3>2
  <2>5. QED
    BY <2>1, <2>2, <2>3, <2>4 DEF Lists
<1>20. QED
  BY <1>10, <1>16, <1>17, <1>19


LEMMA AddedOK ==
  ASSUME NEW d, Good(d), ~NoTable(d), ~ Ptrs \subseteq Entries(d),
         NEW id \in FlowId, NEW type \in {"keep", "limit", "parent"}, NEW rule \in Rules,
         NEW parent, Fits(d, id, type, rule, parent),
         NEW r, r = Added(d, id, type, rule, parent)
  PROVE  Grown(d, r.d, r.hit, id, type, rule, parent) /\ Good(r.d)
<1>0. Shape(d) /\ Lists(d) /\ Counts(d) /\ Families(d) /\ Unique(d) /\ Lives(d)
  BY DEF Good
<1>1. parent \in Entries(d) \cup {NULL} /\ (type = "limit" <=> parent \in Entries(d))
  <2>1. NULL \notin Entries(d)
    BY <1>0, DynAssumption DEF Shape
  <2>2. QED
    BY <2>1 DEF Fits
<1>2. PICK a, p : a = r.d /\ p = r.hit
  OBVIOUS
<1>3. Grown(d, a, p, id, type, rule, parent) /\ Shape(a) /\ Lists(a)
  BY <1>1, <1>2, AddedIs
<1>4. /\ a.count = d.count + 1 /\ p \notin Entries(d)
      /\ \A q : q \in Entries(a) <=> q = p \/ q \in Entries(d)
  BY <1>3 DEF Grown
<1>5. \A q \in Entries(d) :
        /\ a.ent[q] \in EntryType /\ Same(d.ent[q], a.ent[q])
        /\ q # parent => a.ent[q].count = d.ent[q].count
        /\ q = parent => a.ent[q].count = d.ent[q].count + 1
  BY <1>3 DEF Grown
<1>6. /\ a.ent[p] \in EntryType /\ a.ent[p].id = id /\ a.ent[p].type = type
      /\ a.ent[p].rule = rule /\ a.ent[p].parent = parent /\ a.ent[p].state = {}
      /\ a.ent[p].acked = {} /\ a.ent[p].count = 0
  BY <1>3 DEF Grown, Fresh
<1>7. \A q \in Entries(d) :
        /\ a.ent[q].type = d.ent[q].type /\ a.ent[q].rule = d.ent[q].rule
        /\ a.ent[q].id = d.ent[q].id /\ a.ent[q].parent = d.ent[q].parent
        /\ a.ent[q].state = d.ent[q].state /\ a.ent[q].acked = d.ent[q].acked
        /\ d.ent[q].type # "parent" => a.ent[q].ttl = d.ent[q].ttl
  BY <1>5 DEF Same
<1>8. \A q \in Entries(d) : Family(d, q)
  BY <1>0 DEF Families
<1>9. Counts(a)
  <2>1. a.count = Cardinality(Entries(a))
    <3>1. PICK D : D = Entries(d)
      OBVIOUS
    <3>2. Entries(a) = D \cup {p} /\ IsFiniteSet(D) /\ p \notin D
      BY <1>0, <1>4, <3>1 DEF Shape
    <3>3. Cardinality(D \cup {p}) = Cardinality(D) + 1
      BY <3>2, FS_AddElement
    <3>4. QED
      BY <1>0, <1>4, <3>1, <3>2, <3>3 DEF Counts
  <2>2. ASSUME NEW q \in Entries(d), IsParent(a, q)
        PROVE  a.ent[q].count = Cardinality(Children(a, q))
    <3>1. PICK C : C = Children(d, q)
      OBVIOUS
    <3>2. IsFiniteSet(C) /\ C \subseteq Entries(d)
      BY <1>0, <3>1, FS_Subset DEF Children, Shape
    <3>3. d.ent[q].count = Cardinality(C)
      BY <1>0, <1>7, <2>2, <3>1 DEF Counts, IsParent
    <3>4. CASE q = parent
      <4>1. Children(a, q) = C \cup {p}
        BY <1>1, <1>4, <1>6, <1>7, <3>1, <3>4 DEF Children
      <4>2. Cardinality(C \cup {p}) = Cardinality(C) + 1
        BY <1>4, <3>2, FS_AddElement
      <4>3. QED
        BY <1>5, <3>3, <3>4, <4>1, <4>2
    <3>5. CASE q # parent
      <4>1. Children(a, q) = C
        BY <1>4, <1>6, <1>7, <3>1, <3>5 DEF Children
      <4>2. QED
        BY <1>5, <3>3, <3>5, <4>1
    <3>6. QED
      BY <3>4, <3>5
  <2>3. a.ent[p].count = Cardinality(Children(a, p))
    <3>1. ASSUME NEW q \in Children(a, p) PROVE FALSE
      <4>1. q \in Entries(a) /\ a.ent[q].type = "limit" /\ a.ent[q].parent = p
        BY <3>1 DEF Children
      <4>2. CASE q = p
        BY <1>1, <1>4, <1>6, <4>1, <4>2
      <4>3. CASE q \in Entries(d)
        BY <1>4, <1>7, <1>8, <4>1, <4>3 DEF Family
      <4>4. QED
        BY <1>4, <4>1, <4>2, <4>3
    <3>2. Children(a, p) = {}
      BY <3>1
    <3>3. QED
      BY <1>6, <3>2, FS_EmptySet
  <2>4. QED
    BY <1>4, <2>1, <2>2, <2>3 DEF Counts
<1>10. Families(a)
  <2>1. Family(a, p)
    <3>1. ASSUME type = "limit"
          PROVE  /\ parent \in Entries(a) /\ IsParent(a, parent) /\ a.ent[parent].rule = rule
                 /\ \E g \in Garbage : a.ent[parent].id = MaskedId(id, CmdOf[rule].mask, g)
      <4>1. /\ parent \in Entries(d) /\ IsParent(d, parent) /\ d.ent[parent].rule = rule
            /\ \E g \in Garbage : d.ent[parent].id = MaskedId(id, CmdOf[rule].mask, g)
        BY <3>1 DEF Fits
      <4>2. QED
        BY <1>4, <1>7, <4>1 DEF IsParent
    <3>2. CmdOf[rule].type = "keep" <=> type = "keep"
      BY DEF Fits
    <3>3. a.ent[p].count <= CmdOf[rule].n
      BY <1>6, FlowAssumption
    <3>4. QED
      BY <1>6, <3>1, <3>2, <3>3 DEF Family
  <2>2. ASSUME NEW q \in Entries(d) PROVE Family(a, q)
    <3>1. PICK x \in EntryType, y \in EntryType : x = d.ent[q] /\ y = a.ent[q]
      BY <1>0, <1>5 DEF Shape
    <3>2. x.type = y.type /\ x.rule = y.rule /\ x.id = y.id /\ x.parent = y.parent
      BY <1>7, <3>1
    <3>3. CmdOf[y.rule].type = "keep" <=> y.type = "keep"
      BY <1>8, <3>1, <3>2 DEF Family
    <3>4. ASSUME y.type = "parent" PROVE y.count <= CmdOf[y.rule].n
      <4>1. CASE q = parent
        <5>1. y.count = x.count + 1 /\ x.rule = rule /\ x.count < CmdOf[rule].n
          BY <1>1, <1>5, <3>1, <4>1 DEF Fits
        <5>2. x.count \in Nat /\ CmdOf[rule].n \in Nat
          BY FlowAssumption DEF EntryType
        <5>3. QED
          BY <3>2, <5>1, <5>2
      <4>2. CASE q # parent
        BY <1>5, <1>8, <3>1, <3>2, <3>4, <4>2 DEF Family
      <4>3. QED
        BY <4>1, <4>2
    <3>5. ASSUME y.type = "limit"
          PROVE  /\ y.parent \in Entries(a) /\ IsParent(a, y.parent)
                 /\ a.ent[y.parent].rule = y.rule
                 /\ \E g \in Garbage : a.ent[y.parent].id = MaskedId(y.id, CmdOf[y.rule].mask, g)
      <4>1. /\ y.parent \in Entries(d) /\ IsParent(d, y.parent)
            /\ d.ent[y.parent].rule = y.rule
            /\ \E g \in Garbage : d.ent[y.parent].id = MaskedId(y.id, CmdOf[y.rule].mask, g)
        BY <1>8, <3>1, <3>2, <3>5 DEF Family
      <4>2. QED
        BY <1>4, <1>7, <4>1 DEF IsParent
    <3>6. QED
      BY <3>1, <3>3, <3>4, <3>5 DEF Family
  <2>3. QED
    BY <1>4, <2>1, <2>2 DEF Families
<1>11. Unique(a)
  <2>0. \A x \in EntryType, y \in EntryType : SameFlow(x.id, y) => SameFlow(y.id, x)
    BY FlowSym
  <2>1. ASSUME NEW q \in Entries(d)
        PROVE  /\ \/ IsParent(a, p) \/ IsParent(a, q)
                  \/ ~SameFlow(a.ent[p].id, a.ent[q]) /\ ~SameFlow(a.ent[q].id, a.ent[p])
               /\ IsParent(a, p) /\ IsParent(a, q) =>
                    a.ent[p].rule # a.ent[q].rule \/ a.ent[p].id # a.ent[q].id
    <3>1. ASSUME ~IsParent(a, p), ~IsParent(a, q)
          PROVE  ~SameFlow(a.ent[p].id, a.ent[q]) /\ ~SameFlow(a.ent[q].id, a.ent[p])
      <4>1. ~SameFlow(id, d.ent[q])
        BY <1>6, <1>7, <3>1 DEF Fits, IsParent
      <4>2. ~SameFlow(a.ent[p].id, a.ent[q])
        BY <1>6, <1>7, <4>1 DEF SameFlow
      <4>3. QED
        BY <1>5, <1>6, <2>0, <4>2
    <3>2. ASSUME IsParent(a, p), IsParent(a, q)
          PROVE  a.ent[p].rule # a.ent[q].rule \/ a.ent[p].id # a.ent[q].id
      BY <1>6, <1>7, <3>2 DEF Fits, IsParent
    <3>3. QED
      BY <3>1, <3>2
  <2>2. ASSUME NEW q \in Entries(d), NEW s \in Entries(d), q # s
        PROVE  /\ IsParent(a, q) \/ IsParent(a, s) \/ ~SameFlow(a.ent[q].id, a.ent[s])
               /\ IsParent(a, q) /\ IsParent(a, s) =>
                    a.ent[q].rule # a.ent[s].rule \/ a.ent[q].id # a.ent[s].id
    BY <1>0, <1>7, <2>2 DEF Unique, IsParent, SameFlow
  <2>3. QED
    BY <1>4, <2>1, <2>2 DEF Unique
<1>12. Lives(a)
  <2>1. LifeOK(a.ent[p])
    BY <1>6 DEF LifeOK, Closed, BothSyn
  <2>2. ASSUME NEW q \in Entries(d) PROVE LifeOK(a.ent[q])
    BY <1>0, <1>7 DEF Lives, LifeOK
  <2>3. QED
    BY <1>4, <2>1, <2>2 DEF Lives
<1>13. QED
  BY <1>2, <1>3, <1>9, <1>10, <1>11, <1>12 DEF Good


\* What Add() gives: the table with the entry, or as it was.
AddedOrNot(d, id, type, rule, parent, r) ==
  /\ Good(r.d) /\ r.hit \in Ptrs \cup {NULL}
  /\ r.hit = NULL => r.d.count = d.count /\ r.d.ent = d.ent
  /\ r.hit # NULL =>
       \E x : /\ x.count = d.count /\ x.ent = d.ent
              /\ Grown(x, r.d, r.hit, id, type, rule, parent)

LEMMA AddOK ==
  ASSUME NEW d, Good(d), NEW id \in FlowId, NEW type \in {"keep", "limit", "parent"},
         NEW rule \in Rules, NEW parent, Fits(d, id, type, rule, parent), NEW size \in Nat
  PROVE  AddedOrNot(d, id, type, rule, parent, Add(d, id, type, rule, parent, size))
<1>0. Shape(d) /\ Lists(d) /\ Counts(d)
  BY DEF Good
<1>1. PICK r : r = Add(d, id, type, rule, parent, size)
  OBVIOUS
<1>2. PICK x : x = IF MustRealloc(d) THEN Realloc(d, size) ELSE d
  OBVIOUS
<1>3. Good(x) /\ x.count = d.count /\ x.ent = d.ent
  <2>1. CASE MustRealloc(d)
    <3>1. Entries(d) = {}
      <4>1. CASE NoTable(d)
        BY <1>0, <4>1 DEF Lists
      <4>2. CASE d.count = 0
        BY <1>0, <4>2, FS_EmptySet DEF Counts, Shape
      <4>3. QED
        BY <2>1, <4>1, <4>2 DEF MustRealloc
    <3>2. x = Realloc(d, size)
      BY <1>2, <2>1
    <3>3. QED
      BY <3>1, <3>2, ReallocOK
  <2>2. CASE ~MustRealloc(d)
    BY <1>2, <2>2
  <2>3. QED
    BY <2>1, <2>2
<1>4. CASE NoTable(x) \/ Ptrs \subseteq Entries(x)
  <2>1. r.d = x /\ r.hit = NULL
    BY <1>1, <1>2, <1>4 DEF Add
  <2>2. QED
    BY <1>1, <1>3, <2>1 DEF AddedOrNot
<1>5. CASE ~(NoTable(x) \/ Ptrs \subseteq Entries(x))
  <2>1. r = Added(x, id, type, rule, parent)
    BY <1>1, <1>2, <1>5 DEF Add
  <2>2. Fits(x, id, type, rule, parent)
    BY <1>3 DEF Fits, Entries, IsParent
  <2>3. Grown(x, r.d, r.hit, id, type, rule, parent) /\ Good(r.d)
    BY <1>3, <1>5, <2>1, <2>2, AddedOK
  <2>4. r.hit \in Ptrs /\ r.hit # NULL
    BY <2>3, DynAssumption DEF Grown
  <2>5. QED
    BY <1>1, <1>3, <2>3, <2>4 DEF AddedOrNot
<1>6. QED
  BY <1>4, <1>5

\* The id under which a limit counts a flow.
LEMMA MaskedType ==
  ASSUME NEW id \in FlowId, NEW mask, NEW g \in Nat
  PROVE  MaskedId(id, mask, g) \in FlowId
BY DEF MaskedId, FlowId

\* What Parent() gives: a parent for the id, which may be new.
Fathered(d, id, rule, r) ==
  /\ Good(r.d) /\ r.d.count <= d.count + 1
  /\ \A p \in Entries(r.d) : ~IsParent(r.d, p) => p \in Entries(d) /\ Same(d.ent[p], r.d.ent[p])
  /\ r.hit # NULL => /\ r.hit \in Entries(r.d) /\ IsParent(r.d, r.hit)
                     /\ r.d.ent[r.hit].rule = rule /\ r.d.ent[r.hit].id = id

LEMMA ParentOK ==
  ASSUME NEW d, Good(d), NEW id \in FlowId, NEW rule \in Rules, CmdOf[rule].type = "limit",
         NEW size \in Nat
  PROVE  Fathered(d, id, rule, Parent(d, id, rule, size))
<1>0. Shape(d) /\ Lists(d) /\ Counts(d)
  BY DEF Good
<1>1. PICK r : r = Parent(d, id, rule, size)
  OBVIOUS
<1>2. PICK S : S = IF NoTable(d) THEN {}
                   ELSE {p \in Range(d.chain[Hash(id, d.n)]) :
                           IsParent(d, p) /\ d.ent[p].rule = rule /\ d.ent[p].id = id}
  OBVIOUS
<1>3. \A p \in S : p \in Entries(d) /\ IsParent(d, p) /\ d.ent[p].rule = rule /\ d.ent[p].id = id
  <2>1. ASSUME ~NoTable(d) PROVE Hash(id, d.n) \in DOMAIN d.chain
    BY <1>0, <2>1, HashRange DEF Lists, Shape
  <2>2. QED
    BY <1>0, <1>2, <2>1 DEF Lists
<1>4. d.count \in Nat
  BY <1>0, FS_CardinalityType DEF Counts, Shape
<1>5. CASE S # {}
  <2>1. PICK p : p = CHOOSE x \in S : TRUE
    OBVIOUS
  <2>2. p \in S
    BY <1>5, <2>1
  <2>3. PICK e \in EntryType : e = d.ent[p] /\ e.type = "parent"
    BY <1>0, <1>3, <2>2 DEF Shape, IsParent
  <2>4. PICK x : x = [e EXCEPT !.ttl = ShortLife]
    OBVIOUS
  <2>5. /\ x \in EntryType /\ x.type = "parent" /\ x.rule = e.rule /\ x.id = e.id
        /\ x.parent = e.parent /\ x.count = e.count
    BY <2>3, <2>4, DynAssumption DEF EntryType
  <2>6. LifeOK(x)
    BY <2>5 DEF LifeOK
  <2>7. PICK f : f = Put(d, p, x)
    OBVIOUS
  <2>8. r.d = f /\ r.hit = p
    <3>1. r.d = [d EXCEPT !.ent[p].ttl = ShortLife] /\ r.hit = p
      BY <1>1, <1>2, <1>5, <2>1 DEF Parent
    <3>2. QED
      BY <2>3, <2>4, <2>7, <3>1 DEF Put
  <2>9. /\ Good(f) /\ f.count = d.count /\ Entries(f) = Entries(d) /\ f.ent[p] = x
        /\ \A q \in Entries(f) : q # p => f.ent[q] = d.ent[q]
    <3>1. /\ p \in Entries(d) /\ x.type = d.ent[p].type /\ x.rule = d.ent[p].rule
          /\ x.id = d.ent[p].id /\ x.parent = d.ent[p].parent /\ x.count = d.ent[p].count
      BY <1>3, <2>2, <2>3, <2>5
    <3>2. x \in EntryType
      BY <2>5
    <3>3. QED
      BY <2>6, <2>7, <3>1, <3>2, ChangeOK
  <2>10. ASSUME NEW q \in Entries(f), ~IsParent(f, q)
         PROVE  q \in Entries(d) /\ Same(d.ent[q], f.ent[q])
    BY <2>5, <2>9, <2>10 DEF IsParent, Same
  <2>11. p \in Entries(f) /\ IsParent(f, p) /\ f.ent[p].rule = rule /\ f.ent[p].id = id
    BY <1>3, <2>2, <2>3, <2>5, <2>9 DEF IsParent
  <2>12. QED
    BY <1>1, <1>4, <2>8, <2>9, <2>10, <2>11 DEF Fathered
<1>6. CASE S = {}
  <2>1. r = Add(d, id, "parent", rule, NULL, size)
    BY <1>1, <1>2, <1>6 DEF Parent
  <2>2. \A q \in Entries(d) : IsParent(d, q) => d.ent[q].rule # rule \/ d.ent[q].id # id
    <3>1. ASSUME NEW q \in Entries(d), IsParent(d, q), d.ent[q].rule = rule, d.ent[q].id = id
          PROVE  q \in S
      BY <1>0, <1>2, <3>1 DEF Lists
    <3>2. QED
      BY <1>6, <3>1
  <2>3. Fits(d, id, "parent", rule, NULL)
    BY <2>2 DEF Fits
  <2>4. AddedOrNot(d, id, "parent", rule, NULL, r)
    BY <2>1, <2>3, AddOK
  <2>5. CASE r.hit = NULL
    <3>1. Good(r.d) /\ r.d.count = d.count /\ r.d.ent = d.ent
      BY <2>4, <2>5 DEF AddedOrNot
    <3>2. QED
      BY <1>1, <1>4, <2>5, <3>1 DEF Fathered, Entries, IsParent, Same
  <2>6. CASE r.hit # NULL
    <3>1. PICK x : /\ x.count = d.count /\ x.ent = d.ent
                   /\ Grown(x, r.d, r.hit, id, "parent", rule, NULL)
      BY <2>4, <2>6 DEF AddedOrNot
    <3>2. Good(r.d)
      BY <2>4 DEF AddedOrNot
    <3>3. /\ r.d.count = d.count + 1
          /\ \A q : q \in Entries(r.d) <=> q = r.hit \/ q \in Entries(d)
          /\ Fresh(r.d.ent[r.hit], id, "parent", rule, NULL)
          /\ \A q \in Entries(d) : Same(d.ent[q], r.d.ent[q])
      BY <3>1 DEF Grown, Entries
    <3>4. r.d.ent[r.hit].type = "parent" /\ r.d.ent[r.hit].rule = rule /\ r.d.ent[r.hit].id = id
      BY <3>3 DEF Fresh
    <3>5. QED
      BY <1>1, <1>4, <3>2, <3>3, <3>4 DEF Fathered, IsParent
  <2>7. QED
    BY <2>5, <2>6
<1>7. QED
  BY <1>5, <1>6


-----------------------------------------------------------------------------
(***************************************************************************)
(* ipfw_install_state().                                                   *)
(***************************************************************************)

\* The sessions of e are those of d that are left, and perhaps one of the flow id.
Extends(d, id, e) ==
  /\ Good(e)
  /\ \A p \in Entries(e) : ~IsParent(e, p) =>
       \/ SameFlow(id, e.ent[p])
       \/ p \in Entries(d) /\ Same(d.ent[p], e.ent[p])

NoSession(d, id) == \A p \in Entries(d) : ~IsParent(d, p) => ~SameFlow(id, d.ent[p])

\* No session came.
Remains(d, e) ==
  /\ Good(e)
  /\ \A p \in Entries(e) : ~IsParent(e, p) => p \in Entries(d) /\ Same(d.ent[p], e.ent[p])

LEMMA RemainsNone ==
  ASSUME NEW d, NEW e, NEW id, Remains(d, e), NoSession(d, id)
  PROVE  NoSession(e, id)
<1>1. SUFFICES ASSUME NEW p \in Entries(e), ~IsParent(e, p), SameFlow(id, e.ent[p]) PROVE FALSE
  BY DEF NoSession
<1>2. p \in Entries(d) /\ Same(d.ent[p], e.ent[p])
  BY <1>1 DEF Remains
<1>3. ~IsParent(d, p) /\ SameFlow(id, d.ent[p])
  BY <1>1, <1>2 DEF Same, IsParent, SameFlow
<1>4. QED
  BY <1>2, <1>3 DEF NoSession

LEMMA AddExtends ==
  ASSUME NEW d, NEW x, Good(x), Remains(d, x), NEW id \in FlowId, NEW type, NEW rule, NEW parent,
         NEW r, AddedOrNot(x, id, type, rule, parent, r), x.count \in Nat
  PROVE  Extends(d, id, r.d) /\ r.d.count <= x.count + 1
<1>0. Good(r.d)
  BY DEF AddedOrNot
<1>1. CASE r.hit = NULL
  <2>1. r.d.count = x.count /\ r.d.ent = x.ent
    BY <1>1 DEF AddedOrNot
  <2>2. QED
    BY <1>0, <2>1 DEF Extends, Remains, Entries, IsParent
<1>2. CASE r.hit # NULL
  <2>1. PICK y : /\ y.count = x.count /\ y.ent = x.ent
                 /\ Grown(y, r.d, r.hit, id, type, rule, parent)
    BY <1>2 DEF AddedOrNot
  <2>2. /\ r.d.count = x.count + 1
        /\ \A q : q \in Entries(r.d) <=> q = r.hit \/ q \in Entries(x)
        /\ Fresh(r.d.ent[r.hit], id, type, rule, parent)
        /\ \A q \in Entries(x) : Same(x.ent[q], r.d.ent[q])
    BY <2>1 DEF Grown, Entries
  <2>3. SameFlow(id, r.d.ent[r.hit])
    BY <2>2 DEF Fresh, SameFlow
  <2>4. ASSUME NEW p \in Entries(r.d), ~IsParent(r.d, p), p # r.hit
        PROVE  p \in Entries(d) /\ Same(d.ent[p], r.d.ent[p])
    <3>1. p \in Entries(x) /\ Same(x.ent[p], r.d.ent[p])
      BY <2>2, <2>4
    <3>2. ~IsParent(x, p)
      BY <2>4, <3>1 DEF Same, IsParent
    <3>3. p \in Entries(d) /\ Same(d.ent[p], x.ent[p])
      BY <3>1, <3>2 DEF Remains
    <3>4. QED
      BY <3>1, <3>3 DEF Same
  <2>5. QED
    BY <1>0, <2>2, <2>3, <2>4 DEF Extends
<1>3. QED
  BY <1>1, <1>2

LEMMA LessRemains ==
  ASSUME NEW d, NEW x, NEW y, Remains(d, x), Less(x, y), Good(y)
  PROVE  Remains(d, y)
<1>1. SUFFICES ASSUME NEW p \in Entries(y), ~IsParent(y, p)
               PROVE  p \in Entries(d) /\ Same(d.ent[p], y.ent[p])
  BY DEF Remains
<1>2. p \in Entries(x) /\ Same(x.ent[p], y.ent[p])
  BY DEF Less
<1>3. ~IsParent(x, p)
  BY <1>1, <1>2 DEF Same, IsParent
<1>4. p \in Entries(d) /\ Same(d.ent[p], x.ent[p])
  BY <1>2, <1>3 DEF Remains
<1>5. QED
  BY <1>2, <1>4 DEF Same

LEMMA CountNat ==
  ASSUME NEW d, Good(d)
  PROVE  d.count \in Nat
BY FS_CardinalityType DEF Good, Counts, Shape

LEMMA AddChildOK ==
  ASSUME NEW d, NEW par, Good(par.d), Remains(d, par.d), NEW pkt \in PktType,
         NoSession(d, pkt.id), NEW rule \in Rules, CmdOf[rule].type = "limit",
         NEW g \in Garbage, par.hit \in Entries(par.d), IsParent(par.d, par.hit),
         par.d.ent[par.hit].rule = rule,
         par.d.ent[par.hit].id = MaskedId(pkt.id, CmdOf[rule].mask, g), NEW size \in Nat,
         NEW r, r = AddChild(par, pkt, rule, CmdOf[rule], size)
  PROVE  /\ Extends(d, pkt.id, r.d) /\ r.d.count <= par.d.count + 1
         /\ ~r.ok => NoSession(r.d, pkt.id)
<1>0. pkt.id \in FlowId
  BY DEF PktType
<1>1. PICK h : h = par.hit
  OBVIOUS
<1>2. PICK y : y = IF Full(par.d, par.hit, CmdOf[rule].n) THEN RemoveDyn(par.d, rule, FALSE, {par.hit})
                   ELSE par.d
  OBVIOUS
<1>3. /\ Good(y) /\ Remains(d, y) /\ y.count <= par.d.count /\ h \in Entries(y)
      /\ Same(par.d.ent[h], y.ent[h])
  <2>1. CASE Full(par.d, par.hit, CmdOf[rule].n)
    <3>0. PICK K : K = {par.hit}
      OBVIOUS
    <3>1. y = RemoveDyn(par.d, rule, FALSE, K)
      BY <1>2, <2>1, <3>0
    <3>4. Removed(par.d, K, y)
      BY <3>1, RemoveOK
    <3>2. Good(y) /\ Less(par.d, y) /\ par.hit \in Entries(y)
      BY <3>0, <3>4 DEF Removed
    <3>3. h \in Entries(y) /\ Same(par.d.ent[h], y.ent[h]) /\ y.count <= par.d.count
      BY <1>1, <3>2 DEF Less
    <3>5. Remains(d, y)
      BY <3>2, LessRemains
    <3>6. QED
      BY <3>2, <3>3, <3>5
  <2>2. CASE ~Full(par.d, par.hit, CmdOf[rule].n)
    <3>1. y = par.d
      BY <1>2, <2>2
    <3>2. y.count \in Nat
      BY <3>1, CountNat
    <3>3. QED
      BY <1>1, <3>1, <3>2 DEF Same
  <2>3. QED
    BY <2>1, <2>2
<1>4. IsParent(y, h) /\ y.ent[h].rule = rule
      /\ y.ent[h].id = MaskedId(pkt.id, CmdOf[rule].mask, g)
  BY <1>1, <1>3 DEF Same, IsParent
<1>5. y.count \in Nat /\ par.d.count \in Nat
  BY <1>3, CountNat
<1>6. NoSession(y, pkt.id)
  BY <1>3, RemainsNone
<1>7. CASE Full(y, h, CmdOf[rule].n)
  <2>1. r.d = y /\ r.ok = FALSE
    BY <1>1, <1>2, <1>7 DEF AddChild
  <2>2. QED
    BY <1>3, <1>5, <1>6, <2>1 DEF Extends, Remains
<1>8. CASE ~Full(y, h, CmdOf[rule].n)
  <2>1. PICK a : a = Add(y, pkt.id, "limit", rule, h, size)
    OBVIOUS
  <2>2. r.d = a.d /\ r.ok = TRUE
    BY <1>1, <1>2, <1>8, <2>1 DEF AddChild
  <2>3. y.ent[h].count < CmdOf[rule].n
    <3>1. y.ent[h].count \in Nat
      BY <1>3 DEF Good, Shape, EntryType
    <3>2. CmdOf[rule].n \in Nat
      BY FlowAssumption
    <3>3. QED
      BY <1>8, <3>1, <3>2 DEF Full
  <2>4. Fits(y, pkt.id, "limit", rule, h)
    BY <1>3, <1>4, <1>6, <2>3 DEF Fits, NoSession
  <2>5. AddedOrNot(y, pkt.id, "limit", rule, h, a)
    BY <1>0, <1>3, <2>1, <2>4, AddOK
  <2>6. Extends(d, pkt.id, a.d) /\ a.d.count <= y.count + 1
    BY <1>0, <1>3, <1>5, <2>5, AddExtends
  <2>7. a.d.count \in Nat
    BY <2>6, CountNat DEF Extends
  <2>8. QED
    BY <1>3, <1>5, <2>2, <2>6, <2>7
<1>9. QED
  BY <1>7, <1>8


Headless(pkt) == [pkt EXCEPT !.seq = "none"]

LEMMA HeadlessOK ==
  ASSUME NEW pkt \in PktType
  PROVE  Headless(pkt) \in PktType /\ Headless(pkt).id = pkt.id /\ Headless(pkt).seq = "none"
BY DEF PktType, Headless

\* What ipfw_install_state() gives: the session of the packet is as the packet
\* left it, the others are as they were.
Installed(d, pkt, e) ==
  /\ Good(e)
  /\ \A p \in Entries(e) : ~IsParent(e, p) =>
       \/ /\ SameFlow(pkt.id, e.ent[p])
          /\ \E x \in EntryType : e.ent[p] = Refreshed(x, Headless(pkt)) /\ x.id = e.ent[p].id
                                  /\ LifeOK(x) /\ x.type # "parent"
       \/ /\ ~SameFlow(pkt.id, e.ent[p])
          /\ p \in Entries(d) /\ ~IsParent(d, p) /\ Same(d.ent[p], e.ent[p])

LEMMA RemainsInstalled ==
  ASSUME NEW d, NEW e, NEW pkt, Remains(d, e), NoSession(e, pkt.id)
  PROVE  Installed(d, pkt, e)
BY DEF Remains, NoSession, Installed, Same, IsParent

\* The last call of lookup_dyn_rule_locked() sets the lifetime.
LEMMA LookupInstalled ==
  ASSUME NEW d, NEW x, NEW pkt \in PktType, Extends(d, pkt.id, x),
         NEW l, l = Lookup(x, Headless(pkt))
  PROVE  Installed(d, pkt, l.d) /\ l.d.count <= x.count
<1>1. Good(x)
  BY DEF Extends
<1>2. PICK h \in PktType : h = Headless(pkt) /\ h.id = pkt.id
  BY HeadlessOK
<1>3. LookedUp(x, h, l)
  BY <1>1, <1>2, LookupOK
<1>4. ASSUME NEW p \in Entries(l.d), ~IsParent(l.d, p), SameFlow(pkt.id, l.d.ent[p])
      PROVE  \E e \in EntryType : l.d.ent[p] = Refreshed(e, h) /\ e.id = l.d.ent[p].id
                                  /\ LifeOK(e) /\ e.type # "parent"
  <2>1. Renewed(x, h, p, l.d.ent[p])
    BY <1>2, <1>3, <1>4 DEF LookedUp
  <2>2. PICK e \in EntryType : Same(x.ent[p], e) /\ l.d.ent[p] = Refreshed(e, h)
    BY <2>1 DEF Renewed
  <2>3. p \in Entries(x) /\ ~IsParent(x, p)
    BY <2>1 DEF Renewed
  <2>4. LifeOK(x.ent[p]) /\ x.ent[p] \in EntryType
    BY <1>1, <2>3 DEF Good, Lives, Shape
  <2>5. LifeOK(e) /\ e.type # "parent"
    BY <2>2, <2>3, <2>4 DEF Same, LifeOK, IsParent
  <2>6. e.id = l.d.ent[p].id
    BY <2>2 DEF Refreshed, EntryType
  <2>7. QED
    BY <2>2, <2>5, <2>6
<1>5. ASSUME NEW p \in Entries(l.d), ~IsParent(l.d, p), ~SameFlow(pkt.id, l.d.ent[p])
      PROVE  p \in Entries(d) /\ ~IsParent(d, p) /\ Same(d.ent[p], l.d.ent[p])
  <2>1. p \in Entries(x) /\ Same(x.ent[p], l.d.ent[p])
    BY <1>2, <1>3, <1>5 DEF LookedUp
  <2>2. ~IsParent(x, p) /\ ~SameFlow(pkt.id, x.ent[p])
    BY <1>5, <2>1 DEF Same, IsParent, SameFlow
  <2>3. p \in Entries(d) /\ Same(d.ent[p], x.ent[p])
    BY <2>1, <2>2 DEF Extends
  <2>4. QED
    BY <2>1, <2>2, <2>3 DEF Same, IsParent
<1>6. Good(l.d) /\ l.d.count <= x.count
  BY <1>3 DEF LookedUp
<1>7. QED
  BY <1>2, <1>4, <1>5, <1>6 DEF Installed

LEMMA InstallNewOK ==
  ASSUME NEW d, Good(d), NEW rule \in Rules, NEW pkt \in PktType, NoSession(d, pkt.id),
         NEW size \in Nat, NEW g \in Garbage,
         NEW r, r = InstallNew(d, rule, CmdOf[rule], pkt, size, g)
  PROVE  Installed(d, pkt, r.d) /\ r.d.count <= d.count + 2
<1>0. pkt.id \in FlowId /\ g \in Nat /\ d.count \in Nat
  BY CountNat, DynAssumption DEF PktType
<1>1. PICK m \in FlowId : m = MaskedId(pkt.id, CmdOf[rule].mask, g)
  BY <1>0, MaskedType
<1>2. Remains(d, d)
  BY DEF Remains, Same
<1>3. PICK par : par = Parent(d, m, rule, size)
  OBVIOUS
<1>4. PICK res : res = CASE CmdOf[rule].type = "keep" ->
                              [d |-> Add(d, pkt.id, "keep", rule, NULL, size).d, ok |-> TRUE]
                         [] CmdOf[rule].type # "keep" /\ par.hit = NULL ->
                              [d |-> par.d, ok |-> FALSE]
                         [] OTHER -> AddChild(par, pkt, rule, CmdOf[rule], size)
  OBVIOUS
<1>5. r = IF res.ok THEN [res EXCEPT !.d = Lookup(res.d, [pkt EXCEPT !.seq = "none"]).d] ELSE res
  BY <1>1, <1>3, <1>4 DEF InstallNew
<1>6. /\ Extends(d, pkt.id, res.d) /\ res.d.count <= d.count + 2
      /\ ~res.ok => Remains(d, res.d) /\ NoSession(res.d, pkt.id)
      /\ res = [d |-> res.d, ok |-> res.ok]
  <2>1. CASE CmdOf[rule].type = "keep"
    <3>1. PICK a : a = Add(d, pkt.id, "keep", rule, NULL, size)
      OBVIOUS
    <3>2. res = [d |-> a.d, ok |-> TRUE]
      BY <1>4, <2>1, <3>1
    <3>3. Fits(d, pkt.id, "keep", rule, NULL)
      BY <2>1 DEF Fits, NoSession
    <3>4. AddedOrNot(d, pkt.id, "keep", rule, NULL, a)
      BY <1>0, <3>1, <3>3, AddOK
    <3>5. Extends(d, pkt.id, a.d) /\ a.d.count <= d.count + 1
      BY <1>0, <1>2, <3>4, AddExtends
    <3>6. a.d.count \in Nat
      BY <3>5, CountNat DEF Extends
    <3>7. QED
      BY <1>0, <3>2, <3>5, <3>6
  <2>2. CASE CmdOf[rule].type # "keep"
    <3>1. CmdOf[rule].type = "limit"
      BY <2>2, FlowAssumption
    <3>2. Fathered(d, m, rule, par)
      BY <1>3, <3>1, ParentOK
    <3>3. Remains(d, par.d) /\ par.d.count <= d.count + 1 /\ Good(par.d)
      BY <3>2 DEF Fathered, Remains
    <3>4. par.d.count \in Nat
      BY <3>3, CountNat
    <3>5. CASE par.hit = NULL
      <4>1. res = [d |-> par.d, ok |-> FALSE]
        BY <1>4, <2>2, <3>5
      <4>2. NoSession(par.d, pkt.id)
        BY <3>3, RemainsNone
      <4>3. Extends(d, pkt.id, par.d)
        BY <3>3 DEF Remains, Extends
      <4>4. QED
        BY <1>0, <3>3, <3>4, <4>1, <4>2, <4>3
    <3>6. CASE par.hit # NULL
      <4>1. res = AddChild(par, pkt, rule, CmdOf[rule], size)
        BY <1>4, <2>2, <3>6
      <4>2. /\ par.hit \in Entries(par.d) /\ IsParent(par.d, par.hit)
            /\ par.d.ent[par.hit].rule = rule
            /\ par.d.ent[par.hit].id = MaskedId(pkt.id, CmdOf[rule].mask, g)
        BY <1>1, <3>2, <3>6 DEF Fathered
      <4>3. /\ Extends(d, pkt.id, res.d) /\ res.d.count <= par.d.count + 1
            /\ ~res.ok => NoSession(res.d, pkt.id)
        BY <3>1, <3>3, <4>1, <4>2, AddChildOK
      <4>4. ~res.ok => Remains(d, res.d)
        BY <4>3 DEF Extends, Remains, NoSession
      <4>5. res = [d |-> res.d, ok |-> res.ok]
        BY <4>1 DEF AddChild
      <4>6. res.d.count \in Nat
        BY <4>3, CountNat DEF Extends
      <4>7. QED
        BY <1>0, <3>3, <3>4, <4>3, <4>4, <4>5, <4>6
    <3>7. QED
      BY <3>5, <3>6
  <2>3. QED
    BY <2>1, <2>2
<1>7. CASE ~res.ok
  <2>1. r = res
    BY <1>5, <1>7
  <2>2. QED
    BY <1>6, <1>7, <2>1, RemainsInstalled
<1>8. CASE res.ok
  <2>1. PICK l : l = Lookup(res.d, Headless(pkt))
    OBVIOUS
  <2>2. r.d = l.d
    <3>1. r = [res EXCEPT !.d = l.d]
      BY <1>5, <1>8, <2>1 DEF Headless
    <3>2. QED
      BY <1>6, <3>1
  <2>3. Installed(d, pkt, l.d) /\ l.d.count <= res.d.count
    BY <1>6, <2>1, LookupInstalled
  <2>4. l.d.count \in Nat /\ res.d.count \in Nat
    BY <1>6, <2>3, CountNat DEF Installed, Extends
  <2>5. QED
    BY <1>0, <1>6, <2>2, <2>3, <2>4
<1>9. QED
  BY <1>7, <1>8


LEMMA InstallStateOK ==
  ASSUME NEW d, Good(d), d.count <= DynMax + 1, NEW rule \in Rules, NEW pkt \in PktType,
         NEW size \in Nat, NEW g \in Garbage,
         NEW r, r = InstallState(d, rule, CmdOf[rule], pkt, size, g)
  PROVE  Installed(d, pkt, r.d) /\ r.d.count <= DynMax + 1
<1>0. d.count \in Nat /\ DynMax \in Nat
  BY CountNat, DynAssumption
<1>1. PICK l : l = Lookup(d, Headless(pkt))
  OBVIOUS
<1>2. PICK room : room = IF l.d.count >= DynMax THEN RemoveDyn(l.d, NULL, FALSE, {}) ELSE l.d
  OBVIOUS
<1>3. Installed(d, pkt, l.d) /\ l.d.count <= d.count
  <2>1. Extends(d, pkt.id, d)
    BY DEF Extends, Same
  <2>2. QED
    BY <1>1, <2>1, LookupInstalled
<1>4. l.d.count \in Nat /\ Good(l.d)
  BY <1>3, CountNat DEF Installed
<1>5. CASE l.hit # NULL
  <2>1. r.d = l.d
    BY <1>1, <1>2, <1>5 DEF InstallState, Headless
  <2>2. QED
    BY <1>0, <1>3, <1>4, <2>1
<1>6. CASE l.hit = NULL
  <2>1. Less(d, l.d) /\ NoSession(l.d, pkt.id)
    <3>1. PICK h \in PktType : h = Headless(pkt) /\ h.id = pkt.id
      BY HeadlessOK
    <3>2. LookedUp(d, h, l)
      BY <1>1, <3>1, LookupOK
    <3>3. QED
      BY <1>6, <3>1, <3>2 DEF LookedUp, NoSession
  <2>2. Remains(d, l.d)
    BY <1>4, <2>1 DEF Less, Remains
  <2>3. Good(room) /\ Remains(d, room) /\ room.count <= l.d.count
    <3>1. CASE l.d.count >= DynMax
      <4>1. PICK K : K = {}
        OBVIOUS
      <4>2. room = RemoveDyn(l.d, NULL, FALSE, K)
        BY <1>2, <3>1, <4>1
      <4>3. Removed(l.d, K, room)
        BY <1>4, <4>2, RemoveOK
      <4>4. Good(room) /\ Less(l.d, room)
        BY <4>3 DEF Removed
      <4>5. QED
        BY <2>2, <4>4, LessRemains DEF Less
    <3>2. CASE ~(l.d.count >= DynMax)
      <4>1. room = l.d
        BY <1>2, <3>2
      <4>2. l.d.count <= l.d.count
        BY <1>4
      <4>3. QED
        BY <1>4, <2>2, <4>1, <4>2
    <3>3. QED
      BY <3>1, <3>2
  <2>4. room.count \in Nat /\ NoSession(room, pkt.id)
    <3>1. Remains(l.d, room)
      <4>1. CASE l.d.count >= DynMax
        <5>1. PICK K : K = {}
          OBVIOUS
        <5>2. Removed(l.d, K, room)
          BY <1>2, <1>4, <4>1, <5>1, RemoveOK
        <5>3. QED
          BY <5>2 DEF Removed, Less, Remains
      <4>2. CASE ~(l.d.count >= DynMax)
        BY <1>2, <1>4, <4>2 DEF Remains, Same
      <4>3. QED
        BY <4>1, <4>2
    <3>2. QED
      BY <2>1, <2>3, <3>1, CountNat, RemainsNone
  <2>5. CASE room.count >= DynMax
    <3>1. r.d = room
      BY <1>1, <1>2, <1>6, <2>5 DEF InstallState, Headless
    <3>2. QED
      BY <1>0, <1>3, <1>4, <2>3, <2>4, <3>1, RemainsInstalled
  <2>6. CASE ~(room.count >= DynMax)
    <3>1. r = InstallNew(room, rule, CmdOf[rule], pkt, size, g)
      BY <1>1, <1>2, <1>6, <2>6 DEF InstallState, Headless
    <3>2. Installed(room, pkt, r.d) /\ r.d.count <= room.count + 2
      BY <2>3, <2>4, <3>1, InstallNewOK
    <3>3. r.d.count \in Nat
      BY <3>2, CountNat DEF Installed
    <3>4. r.d.count <= DynMax + 1
      BY <1>0, <2>4, <2>6, <3>2, <3>3
    <3>5. ASSUME NEW p \in Entries(room), ~IsParent(room, p), NEW e, Same(room.ent[p], e)
          PROVE  p \in Entries(d) /\ ~IsParent(d, p) /\ Same(d.ent[p], e)
      BY <2>3, <3>5 DEF Remains, Same, IsParent
    <3>6. Installed(d, pkt, r.d)
      BY <3>2, <3>5 DEF Installed
    <3>7. QED
      BY <3>4, <3>6
  <2>7. QED
    BY <2>5, <2>6
<1>7. QED
  BY <1>5, <1>6


-----------------------------------------------------------------------------
(***************************************************************************)
(* What the flags of a packet do to the lifetime of a TCP session.         *)
(***************************************************************************)

LEMMA FlagsGrow ==
  ASSUME NEW s, NEW t, s \subseteq t
  PROVE  /\ Closed(s) => Closed(t)
         /\ BothSyn \subseteq s /\ Established(t) => Established(s)
BY DEF Closed, Established

LEMMA EstablishedLife ==
  ASSUME NEW s, NEW late, NEW ttl, Established(s)
  PROVE  TcpLife(s, late, ttl) = IF late THEN ttl ELSE AckLife
<1>1. s # {<<"fwd", "SYN">>}
  <2>1. <<"fwd", "SYN">> # <<"rev", "SYN">>
    OBVIOUS
  <2>2. QED
    BY <2>1 DEF Established, BothSyn
<1>2. s # BothSyn \cup BothFin
  BY DEF Established
<1>3. QED
  BY <1>1, <1>2 DEF TcpLife

LEMMA RefreshedTcp ==
  ASSUME NEW x \in EntryType, LifeOK(x), x.type # "parent", NEW pkt \in PktType,
         SameFlow(pkt.id, x), x.id.proto = "tcp", NEW r, r = Refreshed(x, pkt)
  PROVE  /\ Closed(x.state) => Closed(r.state)
         /\ Established(r.state) =>
              \/ r.ttl = AckLife
              \/ pkt.seq = "late" /\ r.ttl = x.ttl /\ Established(x.state)
<1> DEFINE dir   == IF x.id = pkt.id THEN "fwd" ELSE "rev"
           state == x.state \cup {<<dir, f>> : f \in pkt.flags}
           acked == x.acked \cup {y \in {dir} : Established(state) /\ pkt.seq # "none"}
           late  == Late(x, dir, pkt)
<1>1. pkt.id.proto = "tcp"
  BY HashSame DEF PktType
<1>2. r = [x EXCEPT !.state = state, !.acked = acked, !.ttl = TcpLife(state, late, x.ttl)]
  BY <1>1 DEF Refreshed
<1>3. r.state = state /\ r.ttl = TcpLife(state, late, x.ttl)
  <2> HIDE DEF state, acked, late
  <2> QED BY <1>2 DEF EntryType
<1>4. x.state \subseteq r.state
  BY <1>3
<1>5. Closed(x.state) => Closed(r.state)
  BY <1>4, FlagsGrow
<1>6. ASSUME Established(r.state), r.ttl # AckLife
      PROVE  pkt.seq = "late" /\ r.ttl = x.ttl /\ Established(x.state)
  <2>1. r.ttl = IF late THEN x.ttl ELSE AckLife
    <3>1. PICK s : s = state
      OBVIOUS
    <3>2. Established(s) /\ r.ttl = TcpLife(s, late, x.ttl)
      BY <1>3, <1>6, <3>1
    <3>3. QED
      BY <3>2, EstablishedLife
  <2>2. late /\ r.ttl = x.ttl
    BY <1>6, <2>1
  <2>3. pkt.seq = "late" /\ BothSyn \subseteq x.state
    BY <2>2 DEF Late, LifeOK
  <2>4. QED
    BY <1>4, <1>6, <2>2, <2>3, FlagsGrow
<1>7. QED
  BY <1>5, <1>6

-----------------------------------------------------------------------------
(***************************************************************************)
(* The inductive invariant.                                                *)
(***************************************************************************)

\* A closed session that was probed once, and that only answers have come to
\* since, expires before the timer.
LetGo(p) ==
  rounds[p] # 0 =>
    /\ dyn.ent[p].id.proto = "tcp" /\ Closed(dyn.ent[p].state) /\ rounds[p] = 1
    /\ dyn.ent[p].ttl = 0 \/ dyn.ent[p].ttl <= timer - 1

\* The timer comes to an established session that was not probed in the last
\* KaInterval seconds of its life.
Asked(p) ==
  dyn.ent[p].id.proto = "tcp" /\ Established(dyn.ent[p].state) /\ ~probed[p] =>
    dyn.ent[p].ttl + KaPeriod >= KaInterval + timer

Ghosts ==
  /\ rounds \in [Entries(dyn) -> Nat] /\ probed \in [Entries(dyn) -> BOOLEAN]
  /\ timer \in 0..KaPeriod
  /\ answers # {} => timer = KaPeriod

DynInv ==
  /\ Good(dyn) /\ dyn.count <= DynMax + 1 /\ Ghosts
  /\ \A p \in Sessions : LetGo(p)

AskedInv == \A p \in Sessions : Asked(p)

\* The defaults are 5, 20 and 300 seconds.
KeepalivesInTime == KaPeriod < KaInterval /\ KaInterval <= AckLife

-----------------------------------------------------------------------------
(***************************************************************************)
(* What a step does to a session that is there after it: nothing, or what  *)
(* a packet does.                                                          *)
(***************************************************************************)
NextSessions == {p \in Entries(dyn') : ~IsParent(dyn', p)}

Kept(p) ==
  /\ p \in Sessions /\ Same(dyn.ent[p], dyn'.ent[p]) /\ dyn'.ent[p].ttl = dyn.ent[p].ttl
  /\ rounds'[p] = rounds[p] /\ probed'[p] = probed[p]

Seen(p, pkt) ==
  \E x \in EntryType :
    /\ LifeOK(x) /\ x.type # "parent" /\ SameFlow(pkt.id, x)
    /\ dyn'.ent[p] = Refreshed(x, pkt)
    /\ \/ rounds'[p] = 0
       \/ /\ p \in Sessions /\ Same(dyn.ent[p], x)
          /\ timer = KaPeriod /\ rounds'[p] = rounds[p]
    /\ \/ pkt.seq # "late"
       \/ /\ p \in Sessions /\ Same(dyn.ent[p], x)
          /\ probed'[p] = probed[p]

LEMMA KeptOK ==
  ASSUME NEW p, Kept(p), timer' = timer
  PROVE  (LetGo(p) => LetGo(p)') /\ (Asked(p) => Asked(p)')
BY DEF Kept, Same, LetGo, Asked

LEMMA SeenLetGo ==
  ASSUME NEW p, NEW pkt \in PktType, Seen(p, pkt), timer' = timer, p \in Sessions => LetGo(p)
  PROVE  LetGo(p)'
<1>1. PICK x \in EntryType :
        /\ LifeOK(x) /\ x.type # "parent" /\ SameFlow(pkt.id, x)
        /\ dyn'.ent[p] = Refreshed(x, pkt)
        /\ \/ rounds'[p] = 0
           \/ /\ p \in Sessions /\ Same(dyn.ent[p], x)
              /\ timer = KaPeriod /\ rounds'[p] = rounds[p]
  BY DEF Seen
<1>2. PICK r : r = Refreshed(x, pkt)
  OBVIOUS
<1>3. LifeOK(r) /\ r.type = x.type /\ r.id = x.id
  BY <1>1, <1>2, RefreshedOK
<1>4. CASE rounds'[p] = 0
  BY <1>4 DEF LetGo
<1>5. CASE rounds'[p] # 0
  <2>1. Same(dyn.ent[p], x) /\ timer = KaPeriod /\ rounds'[p] = rounds[p] /\ LetGo(p)
    BY <1>1, <1>5
  <2>2. x.id.proto = "tcp" /\ Closed(x.state) /\ rounds'[p] = 1
    BY <1>5, <2>1 DEF LetGo, Same
  <2>3. Closed(r.state)
    BY <1>1, <1>2, <2>2, RefreshedTcp
  <2>4. r.ttl <= KaPeriod - 1
    BY <1>1, <1>3, <2>2, <2>3 DEF LifeOK
  <2>5. timer' = KaPeriod /\ dyn'.ent[p] = r
    BY <1>1, <1>2, <2>1
  <2>6. QED
    BY <1>3, <2>2, <2>3, <2>4, <2>5 DEF LetGo
<1>6. QED
  BY <1>4, <1>5

LEMMA SeenAsked ==
  ASSUME KeepalivesInTime, NEW p, NEW pkt \in PktType, Seen(p, pkt), timer' = timer,
         timer \in 0..KaPeriod, p \in Sessions => Asked(p)
  PROVE  Asked(p)'
<1>1. PICK x \in EntryType :
        /\ LifeOK(x) /\ x.type # "parent" /\ SameFlow(pkt.id, x)
        /\ dyn'.ent[p] = Refreshed(x, pkt)
        /\ \/ pkt.seq # "late"
           \/ /\ p \in Sessions /\ Same(dyn.ent[p], x)
              /\ probed'[p] = probed[p]
  BY DEF Seen
<1>2. PICK r : r = Refreshed(x, pkt)
  OBVIOUS
<1>3. LifeOK(r) /\ r.type = x.type /\ r.id = x.id /\ dyn'.ent[p] = r
  BY <1>1, <1>2, RefreshedOK
<1>4. SUFFICES ASSUME r.id.proto = "tcp", Established(r.state), ~probed'[p]
               PROVE  r.ttl + KaPeriod >= KaInterval + timer'
  BY <1>3 DEF Asked
<1>5. \/ r.ttl = AckLife
      \/ pkt.seq = "late" /\ r.ttl = x.ttl /\ Established(x.state)
  BY <1>1, <1>2, <1>3, <1>4, RefreshedTcp
<1>6. CASE r.ttl = AckLife
  <2>1. PICK tm \in 0..KaPeriod : tm = timer'
    OBVIOUS
  <2>2. r.ttl + KaPeriod >= KaInterval + tm
    BY <1>6, <2>1, DynAssumption DEF KeepalivesInTime
  <2>3. QED
    BY <2>1, <2>2
<1>7. CASE pkt.seq = "late" /\ r.ttl = x.ttl /\ Established(x.state)
  <2>1. Same(dyn.ent[p], x) /\ probed'[p] = probed[p] /\ Asked(p)
    BY <1>1, <1>7
  <2>2. dyn.ent[p].ttl = r.ttl /\ dyn.ent[p].id.proto = "tcp"
        /\ Established(dyn.ent[p].state) /\ ~probed[p]
    BY <1>1, <1>3, <1>4, <1>7, <2>1 DEF Same
  <2>3. r.ttl + KaPeriod >= KaInterval + timer
    BY <2>1, <2>2 DEF Asked
  <2>4. QED
    BY <2>3
<1>8. QED
  BY <1>5, <1>6, <1>7


LEMMA SessionType ==
  ASSUME NEW d, Good(d), NEW p \in Entries(d)
  PROVE  d.ent[p] \in EntryType /\ LifeOK(d.ent[p])
BY DEF Good, Shape, Lives

LEMMA PktsTyped ==
  ASSUME NEW pkt \in Pkts
  PROVE  pkt \in PktType
BY FlowAssumption DEF PktType, Flags

LEMMA TrackTyped ==
  ASSUME Ghosts, NEW pkt, NEW answer, Track(dyn', pkt, answer)
  PROVE  Ghosts'
<1>1. /\ \A p \in Entries(dyn) : rounds[p] \in Nat /\ probed[p] \in BOOLEAN
      /\ DOMAIN rounds = Entries(dyn) /\ DOMAIN probed = Entries(dyn)
  BY DEF Ghosts
<1>2. rounds' \in [Entries(dyn') -> Nat]
  BY <1>1 DEF Track
<1>3. probed' \in [Entries(dyn') -> BOOLEAN]
  BY <1>1 DEF Track
<1>4. QED
  BY <1>2, <1>3 DEF Ghosts, Track

\* The ghosts of a session that the packet does not concern, and of the one that
\* it does.
LEMMA TrackOther ==
  ASSUME Ghosts, NEW pkt, NEW answer, Track(dyn', pkt, answer),
         NEW p \in Entries(dyn'), p \in Entries(dyn), ~SameFlow(pkt.id, dyn'.ent[p])
  PROVE  rounds'[p] = rounds[p] /\ probed'[p] = probed[p]
BY DEF Track, Ghosts

LEMMA TrackSeen ==
  ASSUME Ghosts, NEW pkt, NEW answer \in BOOLEAN, Track(dyn', pkt, answer),
         NEW p \in Entries(dyn'), SameFlow(pkt.id, dyn'.ent[p]), ~IsParent(dyn', p)
  PROVE  /\ ~answer => rounds'[p] = 0
         /\ p \in Entries(dyn) => rounds'[p] \in {0, rounds[p]}
         /\ pkt.seq = "new" => probed'[p] = FALSE
         /\ p \in Entries(dyn) /\ pkt.seq # "new" => probed'[p] = probed[p]
BY DEF Track, Ghosts

LEMMA LookupStep ==
  ASSUME DynInv, NEW pkt \in Pkts, LookupDynRule(pkt)
  PROVE  /\ Good(dyn') /\ dyn'.count <= DynMax + 1 /\ Ghosts' /\ timer' = timer
         /\ \A p \in NextSessions : Kept(p) \/ Seen(p, pkt)
<1>0. Good(dyn) /\ Ghosts /\ dyn.count <= DynMax + 1 /\ pkt \in PktType
  BY PktsTyped DEF DynInv
<1>1. PICK answer \in {FALSE, pkt.id \in answers /\ pkt.flags \cap {"SYN", "FIN"} = {}} :
        dyn' = Lookup(dyn, pkt).d /\ Track(dyn', pkt, answer)
  BY DEF LookupDynRule
<1>2. answer \in BOOLEAN /\ (answer => timer = KaPeriod)
  BY <1>0, <1>1 DEF Ghosts
<1>3. PICK l : l = Lookup(dyn, pkt)
  OBVIOUS
<1>4. LookedUp(dyn, pkt, l) /\ dyn' = l.d
  BY <1>0, <1>1, <1>3, LookupOK
<1>5. Good(dyn') /\ Entries(dyn') \subseteq Entries(dyn) /\ dyn'.count <= DynMax + 1
  <2>1. Good(dyn') /\ Entries(dyn') \subseteq Entries(dyn) /\ dyn'.count <= dyn.count
    BY <1>4 DEF LookedUp
  <2>2. PICK m, n : m = dyn.count /\ n = dyn'.count
    OBVIOUS
  <2>3. m \in Nat /\ n \in Nat
    BY <1>0, <2>1, <2>2, CountNat
  <2>4. n <= DynMax + 1
    BY <1>0, <2>1, <2>2, <2>3, DynAssumption
  <2>5. QED
    BY <2>1, <2>2, <2>4
<1>6. Ghosts' /\ timer' = timer
  BY <1>0, <1>1, TrackTyped DEF Track
<1>7. ASSUME NEW p \in NextSessions PROVE Kept(p) \/ Seen(p, pkt)
  <2>1. p \in Entries(dyn') /\ ~IsParent(dyn', p) /\ p \in Entries(dyn)
    BY <1>5 DEF NextSessions
  <2>2. CASE SameFlow(pkt.id, dyn'.ent[p])
    <3>1. Renewed(dyn, pkt, p, dyn'.ent[p])
      BY <1>4, <2>1, <2>2 DEF LookedUp
    <3>2. p \in Sessions
      BY <3>1 DEF Renewed, Sessions
    <3>3. PICK x \in EntryType : Same(dyn.ent[p], x) /\ dyn'.ent[p] = Refreshed(x, pkt)
      BY <3>1 DEF Renewed
    <3>4. LifeOK(x) /\ x.type # "parent"
      <4>1. LifeOK(dyn.ent[p]) /\ dyn.ent[p].type # "parent"
        BY <1>0, <2>1, <3>2, SessionType DEF Sessions, IsParent
      <4>2. QED
        BY <3>3, <4>1 DEF LifeOK, Same
    <3>5. SameFlow(pkt.id, x)
      <4>1. dyn'.ent[p].id = x.id
        BY <3>3 DEF Refreshed, EntryType
      <4>2. QED
        BY <2>2, <4>1 DEF SameFlow
    <3>6. /\ ~answer => rounds'[p] = 0
          /\ rounds'[p] \in {0, rounds[p]}
          /\ pkt.seq # "new" => probed'[p] = probed[p]
      BY <1>0, <1>1, <1>2, <2>1, <2>2, TrackSeen
    <3>7. \/ rounds'[p] = 0
          \/ timer = KaPeriod /\ rounds'[p] = rounds[p]
      BY <1>2, <3>6
    <3>8. pkt.seq # "late" \/ probed'[p] = probed[p]
      BY <3>6
    <3>9. Seen(p, pkt)
      BY <3>2, <3>3, <3>4, <3>5, <3>7, <3>8 DEF Seen
    <3>10. QED
      BY <3>9
  <2>3. CASE ~SameFlow(pkt.id, dyn'.ent[p])
    <3>1. Same(dyn.ent[p], dyn'.ent[p])
      BY <1>4, <2>1, <2>3 DEF LookedUp
    <3>2. p \in Sessions /\ dyn'.ent[p].ttl = dyn.ent[p].ttl
      BY <2>1, <3>1 DEF Same, IsParent, Sessions
    <3>3. rounds'[p] = rounds[p] /\ probed'[p] = probed[p]
      BY <1>0, <1>1, <2>1, <2>3, TrackOther
    <3>4. QED
      BY <3>1, <3>2, <3>3 DEF Kept
  <2>4. QED
    BY <2>2, <2>3
<1>8. QED
  BY <1>5, <1>6, <1>7

LEMMA InstallStep ==
  ASSUME DynInv, NEW rule \in Rules, NEW pkt \in Pkts, InstallDynRule(rule, pkt)
  PROVE  /\ Good(dyn') /\ dyn'.count <= DynMax + 1 /\ Ghosts' /\ timer' = timer
         /\ \A p \in NextSessions : Kept(p) \/ Seen(p, Headless(pkt))
<1>0. Good(dyn) /\ Ghosts /\ dyn.count <= DynMax + 1 /\ pkt \in PktType
  BY PktsTyped DEF DynInv
<1>1. PICK size \in Sizes(dyn.want), g \in Garbage :
        /\ dyn' = InstallState(dyn, rule, CmdOf[rule], pkt, size, g).d
        /\ Track(dyn', [pkt EXCEPT !.seq = "new"], FALSE)
  BY DEF InstallDynRule
<1>2. size \in Nat
  BY <1>1 DEF Sizes, PowersOf2
<1>3. PICK r : r = InstallState(dyn, rule, CmdOf[rule], pkt, size, g)
  OBVIOUS
<1>4. Installed(dyn, pkt, dyn') /\ dyn'.count <= DynMax + 1
  BY <1>0, <1>1, <1>2, <1>3, InstallStateOK
<1>5. PICK k : k = [pkt EXCEPT !.seq = "new"]
  OBVIOUS
<1>6. k.id = pkt.id /\ k.seq = "new" /\ Track(dyn', k, FALSE)
  BY <1>0, <1>1, <1>5 DEF PktType
<1>7. Ghosts' /\ timer' = timer
  BY <1>0, <1>6, TrackTyped DEF Track
<1>8. ASSUME NEW p \in NextSessions PROVE Kept(p) \/ Seen(p, Headless(pkt))
  <2>1. p \in Entries(dyn') /\ ~IsParent(dyn', p)
    BY DEF NextSessions
  <2>2. CASE SameFlow(pkt.id, dyn'.ent[p])
    <3>1. PICK x \in EntryType : /\ dyn'.ent[p] = Refreshed(x, Headless(pkt))
                                 /\ x.id = dyn'.ent[p].id /\ LifeOK(x) /\ x.type # "parent"
      BY <1>4, <2>1, <2>2 DEF Installed
    <3>2. SameFlow(Headless(pkt).id, x) /\ Headless(pkt).seq # "late"
      BY <1>0, <2>2, <3>1, HeadlessOK DEF SameFlow
    <3>3. rounds'[p] = 0
      BY <1>0, <1>6, <2>1, <2>2, TrackSeen
    <3>4. QED
      BY <3>1, <3>2, <3>3 DEF Seen
  <2>3. CASE ~SameFlow(pkt.id, dyn'.ent[p])
    <3>1. p \in Entries(dyn) /\ ~IsParent(dyn, p) /\ Same(dyn.ent[p], dyn'.ent[p])
      BY <1>4, <2>1, <2>3 DEF Installed
    <3>2. dyn'.ent[p].ttl = dyn.ent[p].ttl
      BY <3>1 DEF Same, IsParent
    <3>3. rounds'[p] = rounds[p] /\ probed'[p] = probed[p]
      BY <1>0, <1>6, <2>1, <2>3, <3>1, TrackOther
    <3>4. QED
      BY <3>1, <3>2, <3>3 DEF Kept, Sessions
  <2>4. QED
    BY <2>2, <2>3
<1>9. QED
  BY <1>4, <1>7, <1>8 DEF Installed

\* Less is left of the table, and the ghosts of what is left.
LEMMA LessStep ==
  ASSUME DynInv, Good(dyn'), Less(dyn, dyn'),
         rounds' = [p \in Entries(dyn') |-> rounds[p]],
         probed' = [p \in Entries(dyn') |-> probed[p]], timer' = timer, answers' = answers
  PROVE  /\ Good(dyn') /\ dyn'.count <= DynMax + 1 /\ Ghosts' /\ timer' = timer
         /\ \A p \in NextSessions : Kept(p)
<1>0. Good(dyn) /\ Ghosts /\ dyn.count <= DynMax + 1
  BY DEF DynInv
<1>1. dyn'.count <= DynMax + 1
  <2>1. PICK m, n : m = dyn.count /\ n = dyn'.count
    OBVIOUS
  <2>2. m \in Nat /\ n \in Nat /\ n <= m
    BY <1>0, <2>1, CountNat DEF Less
  <2>3. n <= DynMax + 1
    BY <1>0, <2>1, <2>2, DynAssumption
  <2>4. QED
    BY <2>1, <2>3
<1>2. Entries(dyn') \subseteq Entries(dyn)
  BY DEF Less
<1>3. Ghosts'
  BY <1>0, <1>2 DEF Ghosts
<1>4. ASSUME NEW p \in NextSessions PROVE Kept(p)
  <2>1. p \in Entries(dyn') /\ ~IsParent(dyn', p) /\ p \in Entries(dyn)
    BY <1>2 DEF NextSessions
  <2>2. Same(dyn.ent[p], dyn'.ent[p])
    BY <2>1 DEF Less
  <2>3. p \in Sessions /\ dyn'.ent[p].ttl = dyn.ent[p].ttl
    BY <2>1, <2>2 DEF Same, IsParent, Sessions
  <2>4. QED
    BY <2>1, <2>2, <2>3 DEF Kept
<1>5. QED
  BY <1>1, <1>3, <1>4

LEMMA DeleteStep ==
  ASSUME DynInv, NEW rule \in Rules, DeleteRule(rule)
  PROVE  /\ Good(dyn') /\ dyn'.count <= DynMax + 1 /\ Ghosts' /\ timer' = timer
         /\ \A p \in NextSessions : Kept(p)
<1>1. PICK r : r = RemoveChildren(dyn, rule)
  OBVIOUS
<1>2. PICK keep : keep = {}
  OBVIOUS
<1>3. Removed(dyn, keep, r)
  BY <1>1, <1>2, RemoveOK DEF RemoveChildren, DynInv
<1>4. Good(dyn') /\ Less(dyn, dyn')
  BY <1>1, <1>3 DEF Removed, DeleteRule
<1>5. QED
  BY <1>4, LessStep DEF DeleteRule

LEMMA SetBucketsStep ==
  ASSUME DynInv, NEW w \in Wanted, SetBuckets(w)
  PROVE  /\ Good(dyn') /\ dyn'.count <= DynMax + 1 /\ Ghosts' /\ timer' = timer
         /\ \A p \in NextSessions : Kept(p)
<1>1. Good(dyn) /\ Ghosts
  BY DEF DynInv
<1>2. Alike(dyn, dyn') /\ dyn'.want = w
  BY <1>1 DEF SetBuckets, Alike, Good, Shape
<1>3. w \in Pos
  BY FlowAssumption DEF Pos
<1>4. Good(dyn') /\ Less(dyn, dyn') /\ Entries(dyn') = Entries(dyn)
  BY <1>1, <1>2, <1>3, AlikeOK
<1>5. rounds' = [p \in Entries(dyn') |-> rounds[p]] /\ probed' = [p \in Entries(dyn') |-> probed[p]]
  BY <1>1, <1>4 DEF SetBuckets, Ghosts
<1>6. QED
  BY <1>4, <1>5, LessStep DEF SetBuckets


-----------------------------------------------------------------------------
(***************************************************************************)
(* ipfw_tick() and the clock.                                              *)
(***************************************************************************)

LEMMA MinTwo ==
  ASSUME NEW n \in Nat
  PROVE  Min({2, n + 1}) = IF n = 0 THEN 1 ELSE 2
BY DEF Min

LEMMA MaxZero ==
  ASSUME NEW n \in Nat
  PROVE  Max({0, n - 1}) = IF n = 0 THEN 0 ELSE n - 1
<1>1. PICK m : m = IF n = 0 THEN 0 ELSE n - 1
  OBVIOUS
<1>2. m \in {0, n - 1} /\ \A y \in {0, n - 1} : m >= y
  BY <1>1
<1>3. \A x \in {0, n - 1} : (\A y \in {0, n - 1} : x >= y) => x = m
  BY <1>1
<1>4. QED
  BY <1>1, <1>2, <1>3 DEF Max

LEMMA TickStep ==
  ASSUME DynInv, Tick
  PROVE  DynInv'
<1>0. Good(dyn) /\ Ghosts /\ dyn.count <= DynMax + 1 /\ \A p \in Sessions : LetGo(p)
  BY DEF DynInv
<1>1. timer = 0 /\ timer' = KaPeriod /\ dyn' = dyn
  BY DEF Tick
<1>2. ASSUME NEW p \in Entries(dyn)
      PROVE  rounds[p] \in Nat /\ probed[p] \in BOOLEAN /\ Min({2, rounds[p] + 1}) \in {1, 2}
  <2>1. rounds[p] \in Nat /\ probed[p] \in BOOLEAN
    BY <1>0 DEF Ghosts
  <2>2. QED
    BY <2>1, MinTwo
<1>3. Ghosts'
  <2>1. rounds' \in [Entries(dyn) -> Nat]
    <3>1. /\ DOMAIN rounds' = Entries(dyn)
          /\ rounds' = [p \in DOMAIN rounds' |-> rounds'[p]]
      BY DEF Tick
    <3>2. ASSUME NEW p \in Entries(dyn) PROVE rounds'[p] \in Nat
      <4>1. rounds'[p] \in {rounds[p], Min({2, rounds[p] + 1})}
        BY DEF Tick
      <4>2. rounds[p] \in Nat /\ Min({2, rounds[p] + 1}) \in Nat
        BY <1>2
      <4>3. QED
        BY <4>1, <4>2
    <3>3. QED
      BY <3>1, <3>2
  <2>2. probed' \in [Entries(dyn) -> BOOLEAN]
    BY <1>2 DEF Tick
  <2>3. KaPeriod \in Nat
    BY DynAssumption
  <2>4. QED
    BY <1>1, <2>1, <2>2, <2>3 DEF Ghosts
<1>4. ASSUME NEW p \in Sessions PROVE LetGo(p)'
  <2>1. p \in Entries(dyn) /\ ~IsParent(dyn, p) /\ LetGo(p)
    BY <1>0 DEF Sessions
  <2>2. dyn.ent[p] \in EntryType /\ LifeOK(dyn.ent[p])
    BY <1>0, <2>1, SessionType
  <2>3. CASE p \in ToProbe(dyn) /\ Closed(dyn.ent[p].state)
    <3>1. dyn.ent[p].id.proto = "tcp" /\ dyn.ent[p].ttl # 0
      BY <2>3 DEF ToProbe, Expired
    <3>2. rounds[p] = 0
      BY <1>1, <2>1, <2>2, <3>1 DEF LetGo, EntryType
    <3>3. rounds'[p] = 1
      <4>1. rounds'[p] = Min({2, rounds[p] + 1})
        BY <2>1, <2>3 DEF Tick
      <4>2. PICK n \in Nat : n = rounds[p]
        BY <3>2
      <4>3. QED
        BY <3>2, <4>1, <4>2, MinTwo
    <3>4. dyn.ent[p].ttl <= KaPeriod - 1
      BY <2>1, <2>2, <2>3, <3>1 DEF LifeOK, IsParent
    <3>5. QED
      BY <1>1, <2>3, <3>1, <3>3, <3>4 DEF LetGo
  <2>4. CASE ~(p \in ToProbe(dyn) /\ Closed(dyn.ent[p].state))
    <3>1. rounds'[p] = rounds[p]
      BY <2>1, <2>4 DEF Tick
    <3>2. rounds[p] # 0 => dyn.ent[p].ttl = 0
      BY <1>1, <2>1, <2>2 DEF LetGo, EntryType
    <3>3. QED
      BY <1>1, <2>1, <3>1, <3>2 DEF LetGo
  <2>5. QED
    BY <2>3, <2>4
<1>5. Sessions' = Sessions
  BY <1>1 DEF Sessions
<1>6. QED
  BY <1>0, <1>1, <1>3, <1>4, <1>5 DEF DynInv

LEMMA TickAsked ==
  ASSUME KeepalivesInTime, DynInv, AskedInv, Tick
  PROVE  AskedInv'
<1>1. timer = 0 /\ timer' = KaPeriod /\ dyn' = dyn /\ Sessions' = Sessions
  BY DEF Tick, Sessions
<1>2. SUFFICES ASSUME NEW p \in Sessions, dyn.ent[p].id.proto = "tcp",
                      Established(dyn.ent[p].state), ~probed'[p]
               PROVE  dyn.ent[p].ttl + KaPeriod >= KaInterval + KaPeriod
  BY <1>1 DEF AskedInv, Asked
<1>3. p \in Entries(dyn) /\ ~IsParent(dyn, p) /\ Asked(p)
  BY DEF Sessions, AskedInv
<1>4. dyn.ent[p].ttl \in Nat
  BY <1>3, SessionType DEF DynInv, EntryType
<1>5. ~probed[p] /\ p \notin ToProbe(dyn)
  BY <1>2, <1>3 DEF Tick
<1>6. dyn.ent[p].ttl + KaPeriod >= KaInterval
  BY <1>1, <1>2, <1>3, <1>5, DynAssumption DEF Asked
<1>7. dyn.ent[p].ttl # 0
  BY <1>6, DynAssumption DEF KeepalivesInTime
<1>8. ~(dyn.ent[p].ttl < KaInterval)
  BY <1>2, <1>3, <1>5, <1>7 DEF ToProbe, Established, Expired
<1>9. QED
  BY <1>4, <1>8, DynAssumption

\* An entry that a second less is left of.
Older(e) == [e EXCEPT !.ttl = Max({0, @ - 1})]

LEMMA OlderOK ==
  ASSUME NEW e \in EntryType, LifeOK(e), NEW o, o = Older(e)
  PROVE  /\ o \in EntryType /\ LifeOK(o) /\ SamePlace(o, e)
         /\ o.state = e.state /\ o.ttl = IF e.ttl = 0 THEN 0 ELSE e.ttl - 1
<1>1. PICK t \in Nat : t = Max({0, e.ttl - 1}) /\ t = IF e.ttl = 0 THEN 0 ELSE e.ttl - 1
  BY MaxZero DEF EntryType
<1>2. o = [e EXCEPT !.ttl = t]
  BY <1>1 DEF Older
<1>3. /\ o \in EntryType /\ SamePlace(o, e) /\ o.ttl = t
      /\ o.state = e.state /\ o.acked = e.acked
  BY <1>2 DEF EntryType, SamePlace
<1>4. LifeOK(o)
  <2>1. e.ttl \in Nat /\ KaPeriod \in Nat /\ t <= e.ttl
    BY <1>1, DynAssumption DEF EntryType
  <2>2. QED
    BY <1>3, <2>1 DEF LifeOK, SamePlace
<1>5. QED
  BY <1>1, <1>3, <1>4

LEMMA AgeOK ==
  ASSUME NEW d, Good(d), NEW e, e = Age(d)
  PROVE  /\ Good(e) /\ Entries(e) = Entries(d) /\ e.count = d.count
         /\ \A p \in Entries(d) : e.ent[p] = Older(d.ent[p])
<1>0. Shape(d) /\ Lives(d)
  BY DEF Good
<1>1. /\ e = [n |-> e.n, want |-> e.want, chain |-> e.chain, ent |-> e.ent,
              count |-> e.count, swept |-> e.swept]
      /\ e.n = d.n /\ e.want = d.want /\ e.chain = d.chain /\ e.count = d.count
      /\ e.ent = [p \in Entries(d) |-> Older(d.ent[p])]
  BY <1>0 DEF Shape, Age, Older
<1>2. Entries(e) = Entries(d) /\ \A p \in Entries(d) : e.ent[p] = Older(d.ent[p])
  BY <1>1 DEF Entries
<1>3. ASSUME NEW p \in Entries(e)
      PROVE  e.ent[p] \in EntryType /\ SamePlace(e.ent[p], d.ent[p]) /\ LifeOK(e.ent[p])
  <2>1. PICK x \in EntryType : x = d.ent[p] /\ LifeOK(x)
    BY <1>0, <1>2 DEF Shape, Lives
  <2>2. QED
    BY <1>2, <2>1, OlderOK
<1>4. e.ent \in [Entries(e) -> EntryType]
  BY <1>1, <1>2, <1>3
<1>5. Good(e)
  BY <1>1, <1>2, <1>3, <1>4, RewriteOK
<1>6. QED
  BY <1>1, <1>2, <1>5

\* What is left of a session's life when it is less by one second.
LEMMA SecondSession ==
  ASSUME DynInv, Second, NEW p \in NextSessions
  PROVE  /\ p \in Sessions /\ rounds'[p] = rounds[p] /\ probed'[p] = probed[p]
         /\ dyn'.ent[p].id = dyn.ent[p].id /\ dyn'.ent[p].state = dyn.ent[p].state
         /\ dyn.ent[p].ttl \in Nat
         /\ dyn'.ent[p].ttl = IF dyn.ent[p].ttl = 0 THEN 0 ELSE dyn.ent[p].ttl - 1
<1>1. Good(dyn)
  BY DEF DynInv
<1>2. Entries(dyn') = Entries(dyn) /\ \A q \in Entries(dyn) : dyn'.ent[q] = Older(dyn.ent[q])
  BY <1>1, AgeOK DEF Second
<1>3. p \in Entries(dyn) /\ ~IsParent(dyn', p)
  BY <1>2 DEF NextSessions
<1>4. PICK x \in EntryType : x = dyn.ent[p] /\ LifeOK(x)
  BY <1>1, <1>3, SessionType
<1>5. PICK o : o = Older(x)
  OBVIOUS
<1>6. /\ SamePlace(o, x) /\ o.state = x.state
      /\ o.ttl = IF x.ttl = 0 THEN 0 ELSE x.ttl - 1
  BY <1>4, <1>5, OlderOK
<1>7. o = dyn'.ent[p] /\ x.ttl \in Nat
  BY <1>2, <1>3, <1>4, <1>5 DEF EntryType
<1>8. p \in Sessions
  BY <1>3, <1>4, <1>6, <1>7 DEF Sessions, IsParent, SamePlace
<1>9. QED
  BY <1>4, <1>6, <1>7, <1>8 DEF SamePlace, Second

LEMMA SecondStep ==
  ASSUME DynInv, Second
  PROVE  DynInv'
<1>0. Good(dyn) /\ Ghosts /\ dyn.count <= DynMax + 1 /\ \A p \in Sessions : LetGo(p)
  BY DEF DynInv
<1>1. Good(dyn') /\ Entries(dyn') = Entries(dyn) /\ dyn'.count = dyn.count
  BY <1>0, AgeOK DEF Second
<1>2. timer \in Nat /\ timer > 0 /\ timer <= KaPeriod /\ timer' = timer - 1 /\ KaPeriod \in Nat
  BY <1>0, DynAssumption DEF Ghosts, Second
<1>3. Ghosts'
  <2>1. rounds' = rounds /\ probed' = probed /\ answers' = {}
    BY DEF Second
  <2>2. timer' \in 0..KaPeriod
    BY <1>2
  <2>3. QED
    BY <1>0, <1>1, <2>1, <2>2 DEF Ghosts
<1>4. ASSUME NEW p \in NextSessions PROVE LetGo(p)'
  <2>1. /\ p \in Sessions /\ rounds'[p] = rounds[p]
        /\ dyn'.ent[p].id = dyn.ent[p].id /\ dyn'.ent[p].state = dyn.ent[p].state
        /\ dyn.ent[p].ttl \in Nat
        /\ dyn'.ent[p].ttl = IF dyn.ent[p].ttl = 0 THEN 0 ELSE dyn.ent[p].ttl - 1
    BY SecondSession
  <2>2. LetGo(p)
    BY <1>0, <2>1
  <2>3. SUFFICES ASSUME rounds[p] # 0, dyn.ent[p].ttl # 0
                 PROVE  dyn.ent[p].ttl - 1 <= timer - 2
    BY <1>2, <2>1, <2>2 DEF LetGo
  <2>4. dyn.ent[p].ttl <= timer - 1
    BY <2>2, <2>3 DEF LetGo
  <2>5. QED
    BY <1>2, <2>1, <2>4
<1>5. QED
  BY <1>0, <1>1, <1>3, <1>4 DEF DynInv, Sessions, NextSessions

LEMMA SecondAsked ==
  ASSUME KeepalivesInTime, DynInv, AskedInv, Second
  PROVE  AskedInv'
<1>1. timer \in Nat /\ timer > 0 /\ timer' = timer - 1
  BY DynAssumption DEF Second, DynInv, Ghosts
<1>2. ASSUME NEW p \in NextSessions PROVE Asked(p)'
  <2>1. /\ p \in Sessions /\ probed'[p] = probed[p]
        /\ dyn'.ent[p].id = dyn.ent[p].id /\ dyn'.ent[p].state = dyn.ent[p].state
        /\ dyn.ent[p].ttl \in Nat
        /\ dyn'.ent[p].ttl = IF dyn.ent[p].ttl = 0 THEN 0 ELSE dyn.ent[p].ttl - 1
    BY SecondSession
  <2>2. SUFFICES ASSUME dyn.ent[p].id.proto = "tcp", Established(dyn.ent[p].state), ~probed[p]
                 PROVE  dyn'.ent[p].ttl + KaPeriod >= KaInterval + (timer - 1)
    BY <1>1, <2>1 DEF Asked
  <2>3. dyn.ent[p].ttl + KaPeriod >= KaInterval + timer
    BY <2>1, <2>2 DEF AskedInv, Asked
  <2>4. dyn.ent[p].ttl # 0
    BY <1>1, <2>3, DynAssumption DEF KeepalivesInTime
  <2>5. dyn'.ent[p].ttl = dyn.ent[p].ttl - 1
    BY <2>1, <2>4
  <2>6. QED
    BY <1>1, <2>1, <2>3, <2>5, DynAssumption
<1>3. QED
  BY <1>2 DEF AskedInv, Sessions, NextSessions


-----------------------------------------------------------------------------
(***************************************************************************)
(* The invariant holds.                                                    *)
(***************************************************************************)

LEMMA InitOK ==
  ASSUME Init
  PROVE  DynInv /\ AskedInv
<1>1. PICK w \in Wanted \cap PowersOf2 : dyn = EmptyTable(w)
  BY DEF Init
<1>2. w \in Pos
  BY FlowAssumption DEF Pos
<1>3. /\ dyn = [n |-> dyn.n, want |-> dyn.want, chain |-> dyn.chain, ent |-> dyn.ent,
                count |-> dyn.count, swept |-> dyn.swept]
      /\ dyn.n = w /\ dyn.want = w /\ dyn.chain = << >> /\ dyn.ent = << >> /\ dyn.count = 0
  BY <1>1 DEF EmptyTable
<1>4. Entries(dyn) = {} /\ NoTable(dyn) /\ DOMAIN dyn.chain = {} /\ Sessions = {}
  BY <1>3 DEF Entries, NoTable, Sessions
<1>5. Shape(dyn)
  <2>1. dyn.chain = [b \in DOMAIN dyn.chain |-> dyn.chain[b]]
    BY <1>3
  <2>2. dyn.ent \in [Entries(dyn) -> EntryType]
    BY <1>3, <1>4
  <2>3. QED
    BY <1>2, <1>3, <1>4, <2>1, <2>2, FS_EmptySet DEF Shape
<1>6. Lists(dyn)
  BY <1>4 DEF Lists
<1>7. Counts(dyn)
  BY <1>3, <1>4, FS_EmptySet DEF Counts
<1>8. Families(dyn) /\ Unique(dyn) /\ Lives(dyn)
  BY <1>4 DEF Families, Unique, Lives
<1>9. Ghosts
  <2>1. rounds = << >> /\ probed = << >> /\ timer = 1 /\ answers = {}
    BY DEF Init
  <2>2. QED
    BY <1>4, <2>1, DynAssumption DEF Ghosts
<1>10. dyn.count <= DynMax + 1
  BY <1>3, DynAssumption
<1>11. QED
  BY <1>4, <1>5, <1>6, <1>7, <1>8, <1>9, <1>10 DEF Good, DynInv, AskedInv

\* A step that keeps the sessions or shows them a packet.
LEMMA PacketStep ==
  ASSUME DynInv, NEW pkt \in PktType, Good(dyn'), dyn'.count <= DynMax + 1, Ghosts',
         timer' = timer, \A p \in NextSessions : Kept(p) \/ Seen(p, pkt)
  PROVE  DynInv' /\ (KeepalivesInTime /\ AskedInv => AskedInv')
<1>1. ASSUME NEW p \in NextSessions
      PROVE  LetGo(p)' /\ (KeepalivesInTime /\ AskedInv => Asked(p)')
  <2>1. p \in Sessions => LetGo(p)
    BY DEF DynInv
  <2>2. timer \in 0..KaPeriod
    BY DEF DynInv, Ghosts
  <2>3. CASE Kept(p)
    <3>1. p \in Sessions
      BY <2>3 DEF Kept
    <3>2. QED
      BY <2>1, <2>3, <3>1, KeptOK DEF AskedInv
  <2>4. CASE Seen(p, pkt)
    <3>1. LetGo(p)'
      BY <2>1, <2>4, SeenLetGo
    <3>2. ASSUME KeepalivesInTime, AskedInv PROVE Asked(p)'
      <4>1. p \in Sessions => Asked(p)
        BY <3>2 DEF AskedInv
      <4>2. QED
        BY <2>2, <2>4, <3>2, <4>1, SeenAsked
    <3>3. QED
      BY <3>1, <3>2
  <2>5. QED
    BY <1>1, <2>3, <2>4
<1>2. DynInv'
  BY <1>1 DEF DynInv, Sessions, NextSessions
<1>3. KeepalivesInTime /\ AskedInv => AskedInv'
  BY <1>1 DEF AskedInv, Sessions, NextSessions
<1>4. QED
  BY <1>2, <1>3

LEMMA QuietStep ==
  ASSUME DynInv, Good(dyn'), dyn'.count <= DynMax + 1, Ghosts', timer' = timer,
         \A p \in NextSessions : Kept(p)
  PROVE  DynInv' /\ (KeepalivesInTime /\ AskedInv => AskedInv')
<1>1. ASSUME NEW p \in NextSessions PROVE LetGo(p)' /\ (AskedInv => Asked(p)')
  <2>1. p \in Sessions /\ Kept(p) /\ LetGo(p)
    BY DEF Kept, DynInv
  <2>2. QED
    BY <2>1, KeptOK DEF AskedInv
<1>2. DynInv'
  BY <1>1 DEF DynInv, Sessions, NextSessions
<1>3. AskedInv => AskedInv'
  BY <1>1 DEF AskedInv, Sessions, NextSessions
<1>4. QED
  BY <1>2, <1>3

LEMMA NextOK ==
  ASSUME DynInv, [Next]_vars
  PROVE  DynInv' /\ (KeepalivesInTime /\ AskedInv => AskedInv')
<1>1. ASSUME NEW pkt \in Pkts, LookupDynRule(pkt)
      PROVE  DynInv' /\ (KeepalivesInTime /\ AskedInv => AskedInv')
  <2>1. pkt \in PktType
    BY PktsTyped
  <2>2. QED
    BY <1>1, <2>1, LookupStep, PacketStep
<1>2. ASSUME NEW r \in Rules, NEW pkt \in Matching[r], InstallDynRule(r, pkt)
      PROVE  DynInv' /\ (KeepalivesInTime /\ AskedInv => AskedInv')
  <2>1. pkt \in Pkts
    BY FlowAssumption
  <2>2. PICK k \in PktType : k = Headless(pkt)
    BY <2>1, PktsTyped, HeadlessOK
  <2>3. /\ Good(dyn') /\ dyn'.count <= DynMax + 1 /\ Ghosts' /\ timer' = timer
        /\ \A p \in NextSessions : Kept(p) \/ Seen(p, k)
    BY <1>2, <2>1, <2>2, InstallStep
  <2>4. QED
    BY <2>3, PacketStep
<1>3. ASSUME NEW r \in Rules, DeleteRule(r)
      PROVE  DynInv' /\ (KeepalivesInTime /\ AskedInv => AskedInv')
  BY <1>3, DeleteStep, QuietStep
<1>4. ASSUME NEW w \in Wanted, SetBuckets(w)
      PROVE  DynInv' /\ (KeepalivesInTime /\ AskedInv => AskedInv')
  BY <1>4, SetBucketsStep, QuietStep
<1>5. CASE Tick
  BY <1>5, TickStep, TickAsked
<1>6. CASE Second
  BY <1>6, SecondStep, SecondAsked
<1>7. CASE UNCHANGED vars
  <2>1. /\ dyn' = dyn /\ timer' = timer /\ rounds' = rounds /\ probed' = probed
        /\ answers' = answers
    BY <1>7 DEF vars
  <2>2. Ghosts' /\ Sessions' = Sessions
    BY <2>1 DEF DynInv, Ghosts, Sessions
  <2>3. \A p \in Sessions : (LetGo(p)' <=> LetGo(p)) /\ (Asked(p)' <=> Asked(p))
    BY <2>1 DEF LetGo, Asked
  <2>4. QED
    BY <2>1, <2>2, <2>3 DEF DynInv, AskedInv
<1>8. QED
  BY <1>1, <1>2, <1>3, <1>4, <1>5, <1>6, <1>7 DEF Next

\* The invariant: the table is well formed, and a closed session that was probed
\* is let go (ip_fw_dynamic.c, every function that changes the table).
THEOREM DynInvariant == Spec => []DynInv
<1>1. Init => DynInv
  BY InitOK
<1>2. DynInv /\ [Next]_vars => DynInv'
  BY NextOK
<1>3. QED
  BY <1>1, <1>2, PTL DEF Spec

-----------------------------------------------------------------------------
(***************************************************************************)
(* What the invariant means.                                               *)
(***************************************************************************)

LEMMA GoodTable ==
  ASSUME DynInv
  PROVE  TableOK
<1>0. /\ Shape(dyn) /\ Lists(dyn) /\ Counts(dyn) /\ Families(dyn) /\ Unique(dyn)
      /\ dyn.count <= DynMax + 1
  BY DEF DynInv, Good
<1>1. ASSUME NEW p \in Entries(dyn)
      PROVE  {b \in DOMAIN dyn.chain : p \in Range(dyn.chain[b])} = {Hash(dyn.ent[p].id, dyn.n)}
  <2>1. Hash(dyn.ent[p].id, dyn.n) \in DOMAIN dyn.chain
    BY <1>0, HashIn
  <2>2. \A b \in DOMAIN dyn.chain :
          p \in Range(dyn.chain[b]) <=> b = Hash(dyn.ent[p].id, dyn.n)
    BY <1>0 DEF Lists
  <2>3. QED
    BY <2>1, <2>2
<1>2. ASSUME NEW p \in Entries(dyn)
      PROVE  /\ IsParent(dyn, p) => dyn.ent[p].count = Cardinality(Children(dyn, p))
             /\ dyn.ent[p].type = "limit" =>
                  /\ dyn.ent[p].parent \in Entries(dyn) /\ IsParent(dyn, dyn.ent[p].parent)
                  /\ dyn.ent[dyn.ent[p].parent].rule = dyn.ent[p].rule
  BY <1>0 DEF Counts, Families, Family
<1>3. \A b \in DOMAIN dyn.chain :
        IsInjective(dyn.chain[b]) /\ Range(dyn.chain[b]) \subseteq Entries(dyn)
  BY <1>0 DEF Lists
<1>4. \A p, q \in Sessions : p # q => ~SameFlow(dyn.ent[p].id, dyn.ent[q])
  BY <1>0 DEF Sessions, Unique
<1>5. dyn.count = Cardinality(Entries(dyn)) /\ Entries(dyn) \subseteq Ptrs
  BY <1>0 DEF Counts, Shape
<1>6. QED
  BY <1>0, <1>1, <1>2, <1>3, <1>4, <1>5 DEF TableOK

\* An entry is in the one list that its id hashes to, the counters count, no child
\* outlives its parent, and a flow has one session whatever its direction
\* (UNLINK_DYN_RULE, add_dyn_rule(), lookup_dyn_rule_locked(), remove_dyn_rule()).
THEOREM TableCorrect == Spec => []TableOK
BY DynInvariant, GoodTable, PTL

\* What the mask leaves of an id does not depend on the garbage, when it is defined.
LEMMA DefinedMask ==
  ASSUME NEW id \in FlowId, NEW mask, Defined(id, mask), NEW g
  PROVE  MaskedId(id, mask, g) = MaskedId(id, mask, 0)
BY DEF Defined, MaskedId

LEMMA MaskV6 ==
  ASSUME NEW id \in FlowId, NEW mask, NEW g
  PROVE  MaskedId(id, mask, g).v6 = id.v6
BY DEF MaskedId, FlowId

LEMMA LimitsAreKept ==
  ASSUME DynInv
  PROVE  LimitHolds
<1>0. Shape(dyn) /\ Counts(dyn) /\ Families(dyn) /\ Unique(dyn)
  BY DEF DynInv, Good
<1> SUFFICES ASSUME NEW r \in Rules, CmdOf[r].type = "limit", NEW p \in Sessions,
                    Defined(dyn.ent[p].id, CmdOf[r].mask)
             PROVE  Cardinality({q \in Sessions : dyn.ent[q].rule = r /\
                                   MaskedId(dyn.ent[q].id, CmdOf[r].mask, 0)
                                     = MaskedId(dyn.ent[p].id, CmdOf[r].mask, 0)}) <= CmdOf[r].n
  BY DEF LimitHolds
<1>1. PICK mask, key : mask = CmdOf[r].mask /\ key = MaskedId(dyn.ent[p].id, mask, 0)
  OBVIOUS
<1>2. PICK T : T = {q \in Sessions : dyn.ent[q].rule = r /\ MaskedId(dyn.ent[q].id, mask, 0) = key}
  OBVIOUS
<1>3. \A q \in Entries(dyn) : dyn.ent[q] \in EntryType /\ dyn.ent[q].id \in FlowId
  BY <1>0 DEF Shape, EntryType
<1>4. ASSUME NEW q \in T
      PROVE  /\ q \in Entries(dyn) /\ dyn.ent[q].type = "limit"
             /\ dyn.ent[q].parent \in Entries(dyn) /\ IsParent(dyn, dyn.ent[q].parent)
             /\ dyn.ent[dyn.ent[q].parent].rule = r /\ dyn.ent[dyn.ent[q].parent].id = key
  <2>1. q \in Entries(dyn) /\ ~IsParent(dyn, q) /\ dyn.ent[q].rule = r
        /\ MaskedId(dyn.ent[q].id, mask, 0) = key
    BY <1>2 DEF Sessions
  <2>2. Family(dyn, q)
    BY <1>0, <2>1 DEF Families
  <2>3. dyn.ent[q].type = "limit"
    BY <1>3, <2>1, <2>2 DEF Family, IsParent, EntryType
  <2>4. PICK g \in Garbage : dyn.ent[dyn.ent[q].parent].id = MaskedId(dyn.ent[q].id, mask, g)
    BY <1>1, <2>1, <2>2, <2>3 DEF Family
  <2>5. dyn.ent[q].id.v6 = dyn.ent[p].id.v6
    <3>1. key.v6 = dyn.ent[p].id.v6
      BY <1>1, <1>3, MaskV6 DEF Sessions
    <3>2. key.v6 = dyn.ent[q].id.v6
      BY <1>3, <2>1, MaskV6
    <3>3. QED
      BY <3>1, <3>2
  <2>6. MaskedId(dyn.ent[q].id, mask, g) = key
    <3>1. Defined(dyn.ent[q].id, mask)
      BY <1>1, <2>5 DEF Defined
    <3>2. QED
      BY <1>3, <2>1, <3>1, DefinedMask
  <2>7. QED
    BY <2>1, <2>2, <2>3, <2>4, <2>6 DEF Family
<1>5. CASE T = {}
  <2>1. Cardinality(T) = 0 /\ CmdOf[r].n \in Nat
    BY <1>5, FS_EmptySet, FlowAssumption
  <2>2. QED
    BY <1>1, <1>2, <2>1
<1>6. CASE T # {}
  <2>1. PICK q \in T : TRUE
    BY <1>6
  <2>2. PICK par : par = dyn.ent[q].parent
    OBVIOUS
  <2>3. /\ par \in Entries(dyn) /\ IsParent(dyn, par) /\ dyn.ent[par].rule = r
        /\ dyn.ent[par].id = key
    BY <1>4, <2>2
  <2>4. T \subseteq Children(dyn, par)
    <3> SUFFICES ASSUME NEW s \in T PROVE s \in Children(dyn, par)
      OBVIOUS
    <3>1. /\ s \in Entries(dyn) /\ dyn.ent[s].type = "limit"
          /\ dyn.ent[s].parent \in Entries(dyn) /\ IsParent(dyn, dyn.ent[s].parent)
          /\ dyn.ent[dyn.ent[s].parent].rule = r /\ dyn.ent[dyn.ent[s].parent].id = key
      BY <1>4
    <3>2. dyn.ent[s].parent = par
      BY <1>0, <2>3, <3>1 DEF Unique
    <3>3. QED
      BY <3>1, <3>2 DEF Children
  <2>5. IsFiniteSet(Children(dyn, par))
    BY <1>0, FS_Subset DEF Shape, Children
  <2>6. Cardinality(T) <= Cardinality(Children(dyn, par))
        /\ Cardinality(T) \in Nat /\ Cardinality(Children(dyn, par)) \in Nat
    BY <2>4, <2>5, FS_Subset, FS_CardinalityType
  <2>7. Cardinality(Children(dyn, par)) <= CmdOf[r].n
    BY <1>0, <2>3 DEF Counts, Families, Family, IsParent
  <2>8. CmdOf[r].n \in Nat
    BY FlowAssumption
  <2>9. QED
    BY <1>1, <1>2, <2>6, <2>7, <2>8
<1>7. QED
  BY <1>5, <1>6

\* A limit is never exceeded: not by an allocation that fails or succeeds between
\* two sweeps, nor by parents that expire or are deleted (ipfw_install_state()
\* for O_LIMIT, lookup_dyn_parent()).
THEOREM LimitNeverExceeded == Spec => []LimitHolds
BY DynInvariant, LimitsAreKept, PTL

\* Answers to keepalives do not keep a closed session: it is probed once at most
\* (ip_fw_dynamic.c:513 and 527, ipfw_tick()).
THEOREM ClosedSessionGoes == Spec => []ClosedIsLetGo
<1>1. DynInv => ClosedIsLetGo
  <2> SUFFICES ASSUME DynInv, NEW p \in Sessions PROVE rounds[p] <= 1
    BY DEF ClosedIsLetGo
  <2>1. LetGo(p)
    BY DEF DynInv
  <2>2. QED
    BY <2>1 DEF LetGo
<1>2. QED
  BY <1>1, DynInvariant, PTL

\* If the period of the keepalives is shorter than their interval, and that no
\* longer than the life of an established session, its peers are asked before it
\* expires (ipfw_tick(), with the defaults of dyn_keepalive_period,
\* dyn_keepalive_interval and dyn_ack_lifetime).
THEOREM PeersAreAsked == KeepalivesInTime => (Spec => []AskedBeforeExpiry)
<1> SUFFICES ASSUME KeepalivesInTime PROVE Spec => []AskedBeforeExpiry
  OBVIOUS
<1>1. Init => DynInv /\ AskedInv
  BY InitOK
<1>2. DynInv /\ AskedInv /\ [Next]_vars => (DynInv /\ AskedInv)'
  BY NextOK
<1>3. DynInv /\ AskedInv => AskedBeforeExpiry
  <2> SUFFICES ASSUME DynInv, AskedInv, NEW p \in Sessions, Established(dyn.ent[p].state),
                      dyn.ent[p].id.proto = "tcp", Expired(dyn, p), ~probed[p]
               PROVE  FALSE
    BY DEF AskedBeforeExpiry
  <2>1. KaPeriod >= KaInterval + timer /\ timer >= 0
    BY DynAssumption DEF AskedInv, Asked, Expired, DynInv, Ghosts
  <2>2. timer \in Int
    BY DynAssumption DEF DynInv, Ghosts
  <2>3. QED
    BY <2>1, <2>2, DynAssumption DEF KeepalivesInTime
<1>4. QED
  BY <1>1, <1>2, <1>3, PTL DEF Spec

=============================================================================
