---------------------------- MODULE ProofLemmas ----------------------------
(***************************************************************************)
(* Facts about numbers and finite sets that the proofs of several modules  *)
(* rest on.  The induction theorems of the library take an operator, which *)
(* the provers cannot instantiate; NatMin is used in their place: if some  *)
(* number were a counterexample there would be a smallest one.             *)
(***************************************************************************)
EXTENDS Integers, Sequences, FiniteSets, FiniteSetTheorems, WellFoundedInduction, TLAPS

\* A set of natural numbers has a smallest element.  (Intervals are finite sets,
\* for which strict inclusion is well founded.)
LEMMA NatMin ==
  ASSUME NEW T \in SUBSET Nat, T # {}
  PROVE  \E x \in T : \A y \in T : x <= y
<1> DEFINE U == {0..x : x \in T}
<1>1. U \subseteq FiniteSubsetsOf(Nat)
  <2> SUFFICES ASSUME NEW x \in T PROVE 0..x \in FiniteSubsetsOf(Nat)
    OBVIOUS
  <2>1. IsFiniteSet(0..x)
    BY FS_Interval
  <2>2. QED
    BY <2>1 DEF FiniteSubsetsOf
<1>2. U # {}
  OBVIOUS
<1>3. IsWellFoundedOn(StrictSubsetOrdering(Nat), FiniteSubsetsOf(Nat))
  BY FS_StrictSubsetOrderingWellFounded
<1>4. PICK u \in U : \A v \in U : <<v, u>> \notin StrictSubsetOrdering(Nat)
  <2> HIDE DEF U
  <2> QED BY <1>1, <1>2, <1>3, WFMin, Zenon
<1>5. PICK x \in T : u = 0..x
  OBVIOUS
<1>6. ASSUME NEW y \in T PROVE x <= y
  <2>1. SUFFICES ASSUME y < x PROVE FALSE
    OBVIOUS
  <2>2. 0..y \in U /\ 0..y \subseteq 0..x /\ 0..y # 0..x /\ 0..x \subseteq Nat
    BY <2>1
  <2>3. <<0..y, 0..x>> \in StrictSubsetOrdering(Nat)
    BY <2>2 DEF StrictSubsetOrdering
  <2>4. QED
    BY <1>4, <1>5, <2>2, <2>3
<1>7. QED
  BY <1>6

\* Induction over the natural numbers, for the set of those that have a property.
LEMMA NatSetInduction ==
  ASSUME NEW S, 0 \in S, \A n \in Nat : n \in S => n + 1 \in S
  PROVE  Nat \subseteq S
<1> DEFINE T == {n \in Nat : n \notin S}
<1>1. SUFFICES ASSUME T # {} PROVE FALSE
  OBVIOUS
<1>2. PICK x \in T : \A y \in T : x <= y
  <2> HIDE DEF T
  <2>1. T \in SUBSET Nat
    BY DEF T
  <2> QED BY <1>1, <2>1, NatMin
<1>3. x \in Nat /\ x # 0 /\ x - 1 \in Nat /\ x \notin S
  OBVIOUS
<1>4. x - 1 \in S
  BY <1>2, <1>3
<1>5. QED
  BY <1>3, <1>4

\* A finite set of natural numbers that is not empty has a largest element.
LEMMA FiniteMax ==
  ASSUME NEW T \in SUBSET Nat, T # {}, IsFiniteSet(T)
  PROVE  \E x \in T : \A y \in T : y <= x
<1> DEFINE Above(x) == {y \in T : y > x}
           U == {Above(x) : x \in T}
<1>1. U \subseteq FiniteSubsetsOf(Nat)
  <2> SUFFICES ASSUME NEW x \in T PROVE Above(x) \in FiniteSubsetsOf(Nat)
    OBVIOUS
  <2>1. IsFiniteSet(Above(x))
    BY FS_Subset
  <2>2. QED
    BY <2>1 DEF FiniteSubsetsOf
<1>2. U # {}
  OBVIOUS
<1>3. IsWellFoundedOn(StrictSubsetOrdering(Nat), FiniteSubsetsOf(Nat))
  BY FS_StrictSubsetOrderingWellFounded
<1>4. PICK u \in U : \A v \in U : <<v, u>> \notin StrictSubsetOrdering(Nat)
  <2> HIDE DEF U
  <2> QED BY <1>1, <1>2, <1>3, WFMin, Zenon
<1>5. PICK x \in T : u = Above(x)
  OBVIOUS
<1>6. ASSUME NEW y \in T PROVE y <= x
  <2>1. SUFFICES ASSUME y > x PROVE FALSE
    OBVIOUS
  <2>2. Above(y) \in U
    OBVIOUS
  <2>3. Above(y) \subseteq Above(x) /\ Above(x) \subseteq Nat
    <3>1. x \in Nat /\ y \in Nat
      OBVIOUS
    <3>2. ASSUME NEW z \in Nat, z > y PROVE z > x
      BY <2>1, <3>1, <3>2
    <3>3. QED
      BY <3>2
  <2>4. y \in Above(x) /\ y \notin Above(y)
    BY <2>1
  <2>5. <<Above(y), Above(x)>> \in StrictSubsetOrdering(Nat)
    BY <2>3, <2>4 DEF StrictSubsetOrdering
  <2>6. QED
    BY <1>4, <1>5, <2>2, <2>5
<1>7. QED
  BY <1>6

\* A set that is numbered from 1 to n without repetition has n elements.
LEMMA CountedSet ==
  ASSUME NEW n \in Nat, NEW S, NEW r \in [1..n -> S],
         \A i, j \in 1..n : r[i] = r[j] => i = j,
         \A x \in S : \E i \in 1..n : r[i] = x
  PROVE  Cardinality(S) = n /\ IsFiniteSet(S)
<1>1. r \in Bijection(1..n, S)
  BY DEF Bijection, Injection, Surjection, IsInjective
<1>2. ExistsBijection(1..n, S)
  BY <1>1 DEF ExistsBijection
<1>3. QED
  BY <1>2, FS_CountingElements, FS_NatBijection

\* The product with a number that is not negative preserves the order.
LEMMA MulMono ==
  ASSUME NEW a \in Int, NEW b \in Int, NEW c \in Nat, a <= b
  PROVE  c * a <= c * b /\ a * c <= b * c
<1>1. c * (b - a) >= 0
  OBVIOUS
<1>2. QED
  BY <1>1

-----------------------------------------------------------------------------
(***************************************************************************)
(* Lists that are copied without the elements of a set D: the copy has     *)
(* those that are left, in their order.                                    *)
(***************************************************************************)

\* g[i] is what has been copied of the first i elements of m.
IsCopy(m, D, n, g) ==
  g = [i \in 0..n |-> IF i = 0 THEN << >>
                      ELSE IF m[i] \in D THEN g[i - 1]
                      ELSE Append(g[i - 1], m[i])]

\* s is a part of the first i elements of m in their order, picked by e: all that
\* are not in D.
Picks(m, D, i, s, e) ==
  /\ e \in [1..Len(s) -> 1..i]
  /\ \A j, k \in 1..Len(s) : j < k => e[j] < e[k]
  /\ \A k \in 1..Len(s) : s[k] = m[e[k]] /\ m[e[k]] \notin D
  /\ \A j \in 1..i : m[j] \notin D => \E k \in 1..Len(s) : e[k] = j

Copied(m, D, i, s) == \E e : Picks(m, D, i, s, e)

LEMMA CopyExists ==
  ASSUME NEW n \in Nat, NEW m, NEW D
  PROVE  \E g : IsCopy(m, D, n, g)
<1> DEFINE S == {k \in Nat : \E g : IsCopy(m, D, k, g)}
<1>1. 0 \in S
  <2>1. IsCopy(m, D, 0, [i \in 0..0 |-> << >>])
    BY DEF IsCopy
  <2>2. QED
    BY <2>1
<1>2. ASSUME NEW k \in Nat, k \in S PROVE k + 1 \in S
  <2>1. PICK g : IsCopy(m, D, k, g)
    BY <1>2
  <2>2. PICK v : v = IF m[k + 1] \in D THEN g[k] ELSE Append(g[k], m[k + 1])
    OBVIOUS
  <2> DEFINE h == [i \in 0..k + 1 |-> IF i <= k THEN g[i] ELSE v]
  <2>3. \A i \in 0..k : h[i] = g[i]
    OBVIOUS
  <2>4. h[k + 1] = v /\ h[0] = << >>
    BY <2>1 DEF IsCopy
  <2>5. ASSUME NEW i \in 0..k + 1
        PROVE  h[i] = IF i = 0 THEN << >>
                      ELSE IF m[i] \in D THEN h[i - 1]
                      ELSE Append(h[i - 1], m[i])
    <3>1. CASE i = 0
      BY <2>4, <3>1
    <3>2. CASE i # 0 /\ i <= k
      <4>1. i \in 0..k /\ i - 1 \in 0..k
        BY <3>2
      <4>2. g[i] = IF m[i] \in D THEN g[i - 1] ELSE Append(g[i - 1], m[i])
        BY <2>1, <3>2, <4>1 DEF IsCopy
      <4>3. h[i] = g[i] /\ h[i - 1] = g[i - 1]
        BY <2>3, <4>1
      <4> HIDE DEF h
      <4>4. QED
        BY <3>2, <4>2, <4>3
    <3>3. CASE i = k + 1
      <4>1. h[i - 1] = g[k]
        BY <2>3, <3>3
      <4> HIDE DEF h
      <4>2. QED
        BY <2>2, <2>4, <3>3, <4>1
    <3>4. QED
      BY <3>1, <3>2, <3>3
  <2>6. h = [i \in 0..k + 1 |-> h[i]]
    OBVIOUS
  <2> HIDE DEF h
  <2>7. IsCopy(m, D, k + 1, h)
    BY <2>5, <2>6, Zenon DEF IsCopy
  <2>8. QED
    BY <2>7
<1>3. Nat \subseteq S
  <2> HIDE DEF S
  <2> QED BY <1>1, <1>2, NatSetInduction
<1>4. QED
  BY <1>3

LEMMA CopyStep ==
  ASSUME NEW T, NEW m \in Seq(T), NEW D, NEW i \in Nat, i + 1 <= Len(m), NEW s \in Seq(T),
         Copied(m, D, i, s)
  PROVE  /\ m[i + 1] \in D => Copied(m, D, i + 1, s)
         /\ m[i + 1] \notin D => Copied(m, D, i + 1, Append(s, m[i + 1]))
<1>1. PICK e : Picks(m, D, i, s, e)
  BY DEF Copied
<1>2. ASSUME m[i + 1] \in D PROVE Copied(m, D, i + 1, s)
  <2>1. Picks(m, D, i + 1, s, e)
    BY <1>1, <1>2 DEF Picks
  <2>2. QED
    BY <2>1 DEF Copied
<1>3. ASSUME m[i + 1] \notin D PROVE Copied(m, D, i + 1, Append(s, m[i + 1]))
  <2>1. PICK l \in Nat : l = Len(s)
    OBVIOUS
  <2>2. PICK u : u = Append(s, m[i + 1])
    OBVIOUS
  <2>3. m[i + 1] \in T
    OBVIOUS
  <2>4. u \in Seq(T) /\ Len(u) = l + 1 /\ u[l + 1] = m[i + 1] /\ \A k \in 1..l : u[k] = s[k]
    BY <2>1, <2>2, <2>3
  <2> DEFINE d == [k \in 1..l + 1 |-> IF k <= l THEN e[k] ELSE i + 1]
  <2>5. \A k \in 1..l : d[k] = e[k] /\ e[k] \in 1..i
    BY <1>1, <2>1 DEF Picks
  <2>6. d[l + 1] = i + 1 /\ d \in [1..l + 1 -> 1..i + 1]
    <3>1. d[l + 1] = i + 1
      OBVIOUS
    <3>2. \A k \in 1..l + 1 : k \in 1..l \/ k = l + 1
      OBVIOUS
    <3>3. d = [k \in 1..l + 1 |-> d[k]]
      OBVIOUS
    <3> HIDE DEF d
    <3>4. \A k \in 1..l + 1 : d[k] \in 1..i + 1
      BY <2>5, <3>1, <3>2
    <3>5. QED
      BY <3>1, <3>3, <3>4
  <2> HIDE DEF d
  <2>7. \A j, k \in 1..l + 1 : j < k => d[j] < d[k]
    <3> SUFFICES ASSUME NEW j \in 1..l + 1, NEW k \in 1..l + 1, j < k PROVE d[j] < d[k]
      OBVIOUS
    <3>1. CASE k <= l
      BY <1>1, <2>1, <2>5, <3>1, SMTT(40) DEF Picks
    <3>2. CASE k = l + 1
      <4>1. j \in 1..l
        BY <3>2
      <4>2. QED
        BY <2>5, <2>6, <3>2, <4>1
    <3>3. QED
      BY <3>1, <3>2
  <2>8. \A k \in 1..l + 1 : u[k] = m[d[k]] /\ m[d[k]] \notin D
    <3> SUFFICES ASSUME NEW k \in 1..l + 1 PROVE u[k] = m[d[k]] /\ m[d[k]] \notin D
      OBVIOUS
    <3>1. CASE k <= l
      <4>1. k \in 1..l
        BY <3>1
      <4>2. s[k] = m[e[k]] /\ m[e[k]] \notin D
        BY <1>1, <2>1, <4>1 DEF Picks
      <4>3. QED
        BY <2>4, <2>5, <4>1, <4>2
    <3>2. CASE k = l + 1
      BY <1>3, <2>4, <2>6, <3>2
    <3>3. QED
      BY <3>1, <3>2
  <2>9. \A j \in 1..i + 1 : m[j] \notin D => \E k \in 1..l + 1 : d[k] = j
    <3> SUFFICES ASSUME NEW j \in 1..i + 1, m[j] \notin D PROVE \E k \in 1..l + 1 : d[k] = j
      OBVIOUS
    <3>1. CASE j <= i
      <4>1. PICK k \in 1..l : e[k] = j
        BY <1>1, <2>1, <3>1 DEF Picks
      <4>2. QED
        BY <2>5, <4>1
    <3>2. CASE j = i + 1
      BY <2>6, <3>2
    <3>3. QED
      BY <3>1, <3>2
  <2>10. Picks(m, D, i + 1, u, d)
    BY <2>4, <2>6, <2>7, <2>8, <2>9 DEF Picks
  <2>11. QED
    BY <2>2, <2>10 DEF Copied
<1>4. QED
  BY <1>2, <1>3

LEMMA CopyIs ==
  ASSUME NEW T, NEW m \in Seq(T), NEW D, NEW g, IsCopy(m, D, Len(m), g)
  PROVE  g[Len(m)] \in Seq(T) /\ Copied(m, D, Len(m), g[Len(m)])
<1> DEFINE S == {i \in Nat : i <= Len(m) => g[i] \in Seq(T) /\ Copied(m, D, i, g[i])}
<1>1. 0 \in S
  <2>1. g[0] = << >>
    BY DEF IsCopy
  <2>2. Picks(m, D, 0, << >>, << >>)
    BY DEF Picks
  <2>3. Copied(m, D, 0, << >>) /\ << >> \in Seq(T)
    BY <2>2 DEF Copied
  <2>4. QED
    BY <2>1, <2>3
<1>2. ASSUME NEW i \in Nat, i \in S PROVE i + 1 \in S
  <2> SUFFICES ASSUME i + 1 <= Len(m)
               PROVE  g[i + 1] \in Seq(T) /\ Copied(m, D, i + 1, g[i + 1])
    OBVIOUS
  <2>1. PICK s \in Seq(T) : s = g[i] /\ Copied(m, D, i, s)
    BY <1>2
  <2>2. g[i + 1] = IF m[i + 1] \in D THEN s ELSE Append(s, m[i + 1])
    <3>1. PICK n \in Nat : n = Len(m)
      OBVIOUS
    <3>2. i + 1 \in 0..n /\ i + 1 # 0 /\ (i + 1) - 1 = i
      BY <3>1
    <3>3. g = [k \in 0..n |-> IF k = 0 THEN << >>
                               ELSE IF m[k] \in D THEN g[k - 1] ELSE Append(g[k - 1], m[k])]
      BY <3>1 DEF IsCopy
    <3>4. g[i + 1] = IF m[i + 1] \in D THEN g[(i + 1) - 1] ELSE Append(g[(i + 1) - 1], m[i + 1])
      BY <3>2, <3>3
    <3>5. QED
      BY <2>1, <3>2, <3>4
  <2>3. m[i + 1] \in T
    OBVIOUS
  <2>4. CASE m[i + 1] \in D
    BY <2>1, <2>2, <2>4, CopyStep
  <2>5. CASE m[i + 1] \notin D
    BY <2>1, <2>2, <2>3, <2>5, CopyStep
  <2>6. QED
    BY <2>4, <2>5
<1>3. Nat \subseteq S
  <2> HIDE DEF S
  <2> QED BY <1>1, <1>2, NatSetInduction
<1>4. Len(m) \in S
  BY <1>3
<1>5. QED
  BY <1>4
=============================================================================
