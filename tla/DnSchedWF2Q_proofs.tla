------------------------ MODULE DnSchedWF2Q_proofs -------------------------
(***************************************************************************)
(* Proofs about DnSchedWF2Q: the heaps, the timestamps and the sum of the  *)
(* weights agree, and the instance implements DnScheduler, as long as no   *)
(* time reaches half of the range of the counters; and a bound on the      *)
(* traffic under which none does.                                          *)
(***************************************************************************)
EXTENDS DnSchedWF2Q, ProofLemmas

(***************************************************************************)
(* Sums over finite sets.                                                  *)
(***************************************************************************)

\* The equation of a sum over the subsets of Dom, for the choice that the library makes.
Pick(s) == CHOOSE x \in s : TRUE
SumsTo(W, g, Dom) ==
  g = [s \in SUBSET Dom |-> IF s = {} THEN 0 ELSE W[Pick(s)] + g[s \ {Pick(s)}]]

LEMMA PickIn == ASSUME NEW s, s # {} PROVE Pick(s) \in s
BY DEF Pick

LEMMA SmallerCardinality ==
  ASSUME NEW s, IsFiniteSet(s), NEW x \in s
  PROVE  /\ IsFiniteSet(s \ {x}) /\ Cardinality(s) \in Nat \ {0}
         /\ Cardinality(s \ {x}) = Cardinality(s) - 1
<1>1. Cardinality(s) \in Nat /\ Cardinality(s) # 0
  BY FS_CardinalityType, FS_EmptySet
<1>2. QED
  BY <1>1, FS_RemoveElement

\* There is a function with that equation.
LEMMA SumExists ==
  ASSUME NEW W, NEW Dom, IsFiniteSet(Dom)
  PROVE  \E g : SumsTo(W, g, Dom)
<1> DEFINE Small(n) == {s \in SUBSET Dom : Cardinality(s) <= n}
           Solves(g, n) == g = [s \in Small(n) |->
                                  IF s = {} THEN 0 ELSE W[Pick(s)] + g[s \ {Pick(s)}]]
           I == {n \in Nat : \E g : Solves(g, n)}
<1>1. \A s \in SUBSET Dom : IsFiniteSet(s) /\ Cardinality(s) \in Nat
  BY FS_Subset, FS_CardinalityType
<1>2. \A s \in SUBSET Dom : s # {} => /\ s \ {Pick(s)} \in SUBSET Dom
                                    /\ Cardinality(s \ {Pick(s)}) = Cardinality(s) - 1
                                    /\ Cardinality(s) # 0
  BY <1>1, PickIn, SmallerCardinality
<1>3. 0 \in I
  <2>1. PICK g : g = [s \in Small(0) |-> 0]
    OBVIOUS
  <2>2. ASSUME NEW s \in Small(0) PROVE s = {}
    <3>1. Cardinality(s) \in Nat /\ Cardinality(s) <= 0
      BY <1>1
    <3>2. Cardinality(s) = 0
      BY <3>1
    <3>3. QED
      BY <1>1, <1>2, <3>2
  <2>3. Solves(g, 0)
    BY <2>1, <2>2
  <2>4. QED
    BY <2>3
<1>4. ASSUME NEW n \in Nat, n \in I PROVE n + 1 \in I
  <2>1. PICK g : Solves(g, n)
    BY <1>4
  <2>2. PICK h : h = [s \in Small(n + 1) |->
                        IF s = {} THEN 0 ELSE W[Pick(s)] + g[s \ {Pick(s)}]]
    OBVIOUS
  <2>3. \A s \in Small(n) : s \in Small(n + 1) /\ h[s] = g[s]
    <3>1. \A s \in Small(n) : s \in Small(n + 1)
      BY <1>1
    <3>2. QED
      BY <2>1, <2>2, <3>1
  <2>4. \A s \in Small(n + 1) : s # {} => s \ {Pick(s)} \in Small(n)
    BY <1>1, <1>2
  <2>5. Solves(h, n + 1)
    <3> HIDE DEF Small
    <3>1. \A s \in Small(n + 1) : s # {} => h[s \ {Pick(s)}] = g[s \ {Pick(s)}]
      BY <2>3, <2>4
    <3>2. h = [s \in Small(n + 1) |->
                 IF s = {} THEN 0 ELSE W[Pick(s)] + h[s \ {Pick(s)}]]
      BY <2>2, <3>1
    <3>3. QED
      BY <3>2
  <2>6. n + 1 \in Nat
    OBVIOUS
  <2>7. QED
    <3> HIDE DEF Solves
    <3> QED BY <2>5, <2>6
<1>5. Cardinality(Dom) \in I
  <2>1. Nat \subseteq I
    <3> HIDE DEF I
    <3> QED BY <1>3, <1>4, NatSetInduction
  <2>2. QED
    BY <2>1, <1>1
<1>6. Small(Cardinality(Dom)) = SUBSET Dom
  BY <1>1, FS_Subset
<1>7. QED
  BY <1>5, <1>6 DEF SumsTo

\* Functions with the equation agree.
LEMMA SumUnique ==
  ASSUME NEW W, NEW Dom, IsFiniteSet(Dom), NEW g, SumsTo(W, g, Dom),
         NEW T \in SUBSET Dom, NEW h, SumsTo(W, h, T)
  PROVE  \A s \in SUBSET T : h[s] = g[s]
<1> DEFINE I == {n \in Nat : \A s \in SUBSET T : Cardinality(s) = n => h[s] = g[s]}
<1>1. \A s \in SUBSET T : IsFiniteSet(s) /\ Cardinality(s) \in Nat /\ s \in SUBSET Dom
  BY FS_Subset, FS_CardinalityType
<1>2. \A s \in SUBSET T : s # {} => /\ s \ {Pick(s)} \in SUBSET T
                                    /\ Cardinality(s \ {Pick(s)}) = Cardinality(s) - 1
                                    /\ Cardinality(s) # 0
  BY <1>1, PickIn, SmallerCardinality
<1>3. /\ \A s \in SUBSET T : h[s] = IF s = {} THEN 0 ELSE W[Pick(s)] + h[s \ {Pick(s)}]
      /\ \A s \in SUBSET T : g[s] = IF s = {} THEN 0 ELSE W[Pick(s)] + g[s \ {Pick(s)}]
  BY <1>1 DEF SumsTo
<1>4. 0 \in I
  BY <1>2, <1>3
<1>5. ASSUME NEW n \in Nat, n \in I PROVE n + 1 \in I
  <2>1. ASSUME NEW s \in SUBSET T, Cardinality(s) = n + 1 PROVE h[s] = g[s]
    <3>1. s # {}
      BY <2>1, <1>4, FS_EmptySet
    <3>2. h[s \ {Pick(s)}] = g[s \ {Pick(s)}]
      BY <1>2, <1>5, <2>1, <3>1
    <3>3. QED
      BY <1>3, <3>1, <3>2
  <2>2. QED
    BY <2>1
<1>6. Nat \subseteq I
  <2> HIDE DEF I
  <2> QED BY <1>4, <1>5, NatSetInduction
<1>7. QED
  BY <1>1, <1>6

\* The sum of the library is such a function.
LEMMA SumIs ==
  ASSUME NEW W, NEW Dom, IsFiniteSet(Dom), NEW g, SumsTo(W, g, Dom)
  PROVE  \A T \in SUBSET Dom : SumFunctionOnSet(W, T) = g[T]
<1> SUFFICES ASSUME NEW T \in SUBSET Dom PROVE SumFunctionOnSet(W, T) = g[T]
  OBVIOUS
<1>1. PICK h : h = CHOOSE f : SumsTo(W, f, T)
  OBVIOUS
<1>2. SumsTo(W, h, T)
  BY <1>1, SumExists, FS_Subset
<1>3. SumFunctionOnSet(W, T) = h[T]
  BY <1>1, Zenon DEF SumFunctionOnSet, FoldFunctionOnSet, MapThenFoldSet, SumsTo, Pick
<1>4. T \in SUBSET T /\ (\A s \in SUBSET T : h[s] = g[s])
  BY <1>2, SumUnique
<1>5. QED
  BY <1>3, <1>4

\* The sum of the values of a function at the members of a finite set.
LEMMA SumFacts ==
  ASSUME NEW Dom, IsFiniteSet(Dom), NEW W \in [Dom -> Nat]
  PROVE  /\ SumFunctionOnSet(W, {}) = 0
         /\ \A T \in SUBSET Dom :
              /\ SumFunctionOnSet(W, T) \in Nat
              /\ \A x \in T : SumFunctionOnSet(W, T) = W[x] + SumFunctionOnSet(W, T \ {x})
<1>1. PICK g : SumsTo(W, g, Dom)
  BY SumExists
<1>2. \A T \in SUBSET Dom : SumFunctionOnSet(W, T) = g[T]
  BY <1>1, SumIs
<1> DEFINE Good(T) == g[T] \in Nat /\ \A x \in T : g[T] = W[x] + g[T \ {x}]
           I == {n \in Nat : \A T \in SUBSET Dom : Cardinality(T) <= n => Good(T)}
<1>3. \A T \in SUBSET Dom : g[T] = IF T = {} THEN 0 ELSE W[Pick(T)] + g[T \ {Pick(T)}]
  BY <1>1 DEF SumsTo
<1>4. \A T \in SUBSET Dom : IsFiniteSet(T) /\ Cardinality(T) \in Nat /\ (Cardinality(T) = 0 => T = {})
  BY FS_Subset, FS_CardinalityType, FS_EmptySet
<1>5. 0 \in I
  <2>1. ASSUME NEW T \in SUBSET Dom, Cardinality(T) <= 0 PROVE T = {}
    <3>1. Cardinality(T) = 0
      BY <1>4, <2>1
    <3>2. QED
      BY <1>4, <3>1
  <2>2. Good({})
    <3>1. {} \in SUBSET Dom
      OBVIOUS
    <3>2. g[{}] = 0
      BY <1>3, <3>1
    <3>3. QED
      BY <3>2
  <2>3. QED
    <3> HIDE DEF Good
    <3> QED BY <2>1, <2>2
<1>6. ASSUME NEW n \in Nat, n \in I PROVE n + 1 \in I
  <2>1. ASSUME NEW T \in SUBSET Dom, Cardinality(T) <= n + 1, T # {} PROVE Good(T)
    <3>1. PICK y \in T : y = Pick(T)
      BY <2>1, PickIn
    <3>2. \A x \in T : T \ {x} \in SUBSET Dom /\ Good(T \ {x})
      <4>1. \A x \in T : T \ {x} \in SUBSET Dom /\ Cardinality(T \ {x}) <= n
        BY <1>4, <2>1, SmallerCardinality
      <4>2. QED
        BY <1>6, <4>1
    <3>3. g[T] = W[y] + g[T \ {y}] /\ g[T \ {y}] \in Nat /\ W[y] \in Nat
      BY <1>3, <2>1, <3>1, <3>2
    <3>4. ASSUME NEW x \in T, x # y PROVE g[T] = W[x] + g[T \ {x}]
      <4>1. (T \ {y}) \ {x} = (T \ {x}) \ {y} /\ x \in T \ {y} /\ y \in T \ {x}
        BY <3>4
      <4>2. PICK U : U = (T \ {x}) \ {y} /\ U \in SUBSET Dom
        OBVIOUS
      <4>3. g[T \ {y}] = W[x] + g[U]
        BY <3>2, <4>1, <4>2
      <4>4. g[T \ {x}] = W[y] + g[U]
        BY <3>2, <4>1, <4>2
      <4>5. g[T \ {x}] \in Nat /\ W[x] \in Nat
        BY <3>2
      <4>6. g[U] \in Nat
        <5>1. IsFiniteSet(T \ {x}) /\ Cardinality(T \ {x}) \in Nat
          BY <1>4
        <5>2. Cardinality(T \ {x}) <= n
          BY <1>4, <2>1, SmallerCardinality
        <5>3. Cardinality(U) <= n
          BY <1>4, <4>1, <4>2, <5>1, <5>2, SmallerCardinality
        <5>4. QED
          BY <1>6, <4>2, <5>3
      <4>7. QED
        BY <3>3, <4>3, <4>4, <4>5, <4>6
    <3>5. ASSUME NEW x \in T PROVE g[T] = W[x] + g[T \ {x}]
      <4>1. CASE x = y
        BY <3>3, <4>1
      <4>2. CASE x # y
        BY <3>4, <4>2
      <4>3. QED
        BY <4>1, <4>2
    <3>6. g[T] \in Nat
      BY <3>3
    <3>7. QED
      BY <3>5, <3>6
  <2>2. Good({})
    <3>1. {} \in SUBSET Dom
      OBVIOUS
    <3>2. g[{}] = 0
      BY <1>3, <3>1
    <3>3. QED
      BY <3>2
  <2>3. n + 1 \in Nat
    OBVIOUS
  <2>4. QED
    <3> HIDE DEF Good
    <3> QED BY <2>1, <2>2, <2>3
<1>7. Nat \subseteq I
  <2> HIDE DEF I
  <2> QED BY <1>5, <1>6, NatSetInduction
<1>8. \A T \in SUBSET Dom : Good(T)
  <2> HIDE DEF Good
  <2>1. ASSUME NEW T \in SUBSET Dom PROVE Good(T)
    <3>1. PICK c \in Nat : c = Cardinality(T)
      BY <1>4
    <3>2. QED
      BY <3>1, <1>7
  <2>2. QED
    BY <2>1
<1>9. g[{}] = 0
  BY <1>3
<1>10. QED
  BY <1>2, <1>8, <1>9

\* Functions with the same values have the same sum.
LEMMA SumSame ==
  ASSUME NEW Dom, IsFiniteSet(Dom), NEW W \in [Dom -> Nat], NEW U \in [Dom -> Nat],
         NEW T \in SUBSET Dom, \A x \in T : W[x] = U[x]
  PROVE  SumFunctionOnSet(W, T) = SumFunctionOnSet(U, T)
<1> DEFINE I == {n \in Nat : \A R \in SUBSET T :
                   Cardinality(R) <= n => SumFunctionOnSet(W, R) = SumFunctionOnSet(U, R)}
<1>1. \A R \in SUBSET T : R \in SUBSET Dom /\ IsFiniteSet(R) /\ Cardinality(R) \in Nat
                          /\ (Cardinality(R) = 0 => R = {})
  BY FS_Subset, FS_CardinalityType, FS_EmptySet
<1>2. SumFunctionOnSet(W, {}) = SumFunctionOnSet(U, {})
  BY SumFacts
<1>3. 0 \in I
  <2>1. ASSUME NEW R \in SUBSET T, Cardinality(R) <= 0 PROVE R = {}
    <3>1. Cardinality(R) = 0
      BY <1>1, <2>1
    <3>2. QED
      BY <1>1, <3>1
  <2>2. QED
    BY <1>2, <2>1
<1>4. ASSUME NEW n \in Nat, n \in I PROVE n + 1 \in I
  <2>1. ASSUME NEW R \in SUBSET T, Cardinality(R) <= n + 1, R # {}
        PROVE  SumFunctionOnSet(W, R) = SumFunctionOnSet(U, R)
    <3>1. PICK x \in R : TRUE
      BY <2>1
    <3>2. R \ {x} \in SUBSET T /\ Cardinality(R \ {x}) <= n
      BY <1>1, <2>1, SmallerCardinality
    <3>3. SumFunctionOnSet(W, R \ {x}) = SumFunctionOnSet(U, R \ {x})
      BY <1>4, <3>2
    <3>4. SumFunctionOnSet(W, R) = W[x] + SumFunctionOnSet(W, R \ {x})
      BY <1>1, SumFacts
    <3>5. SumFunctionOnSet(U, R) = U[x] + SumFunctionOnSet(U, R \ {x})
      BY <1>1, SumFacts
    <3>6. QED
      BY <3>3, <3>4, <3>5
  <2>2. n + 1 \in Nat
    OBVIOUS
  <2>3. QED
    BY <1>2, <2>1, <2>2
<1>5. Nat \subseteq I
  <2> HIDE DEF I
  <2> QED BY <1>3, <1>4, NatSetInduction
<1>6. PICK c \in Nat : c = Cardinality(T)
  BY <1>1
<1>7. QED
  BY <1>5, <1>6

\* The sum of zeros.
LEMMA SumZero ==
  ASSUME NEW Dom, IsFiniteSet(Dom), NEW W \in [Dom -> Nat], \A x \in Dom : W[x] = 0
  PROVE  SumFunctionOnSet(W, Dom) = 0
<1> DEFINE I == {n \in Nat : \A R \in SUBSET Dom :
                   Cardinality(R) <= n => SumFunctionOnSet(W, R) = 0}
<1>1. \A R \in SUBSET Dom : IsFiniteSet(R) /\ Cardinality(R) \in Nat
                          /\ (Cardinality(R) = 0 => R = {})
  BY FS_Subset, FS_CardinalityType, FS_EmptySet
<1>2. SumFunctionOnSet(W, {}) = 0
  BY SumFacts
<1>3. 0 \in I
  <2>1. ASSUME NEW R \in SUBSET Dom, Cardinality(R) <= 0 PROVE R = {}
    <3>1. Cardinality(R) = 0
      BY <1>1, <2>1
    <3>2. QED
      BY <1>1, <3>1
  <2>2. QED
    BY <1>2, <2>1
<1>4. ASSUME NEW n \in Nat, n \in I PROVE n + 1 \in I
  <2>1. ASSUME NEW R \in SUBSET Dom, Cardinality(R) <= n + 1, R # {}
        PROVE  SumFunctionOnSet(W, R) = 0
    <3>1. PICK x \in R : TRUE
      BY <2>1
    <3>2. R \ {x} \in SUBSET Dom /\ Cardinality(R \ {x}) <= n
      BY <1>1, <2>1, SmallerCardinality
    <3>3. SumFunctionOnSet(W, R \ {x}) = 0
      BY <1>4, <3>2
    <3>4. SumFunctionOnSet(W, R) = W[x] + SumFunctionOnSet(W, R \ {x})
      BY SumFacts
    <3>5. QED
      BY <3>3, <3>4
  <2>2. n + 1 \in Nat
    OBVIOUS
  <2>3. QED
    BY <1>2, <2>1, <2>2
<1>5. Nat \subseteq I
  <2> HIDE DEF I
  <2> QED BY <1>3, <1>4, NatSetInduction
<1>6. PICK c \in Nat : c = Cardinality(Dom)
  BY <1>1
<1>7. QED
  BY <1>5, <1>6

\* One more member adds its value, and one less takes it away.
LEMMA SumWith ==
  ASSUME NEW Dom, IsFiniteSet(Dom), NEW W \in [Dom -> Nat], NEW T \in SUBSET Dom, NEW x \in Dom
  PROVE  /\ x \notin T => SumFunctionOnSet(W, T \cup {x}) = SumFunctionOnSet(W, T) + W[x]
         /\ x \in T => SumFunctionOnSet(W, T \ {x}) = SumFunctionOnSet(W, T) - W[x]
<1>1. SumFunctionOnSet(W, T) \in Nat /\ SumFunctionOnSet(W, T \ {x}) \in Nat /\ W[x] \in Nat
  BY SumFacts
<1>2. CASE x \notin T
  <2>1. T \cup {x} \in SUBSET Dom /\ x \in T \cup {x} /\ (T \cup {x}) \ {x} = T
    BY <1>2
  <2>2. PICK R \in SUBSET Dom : R = T \cup {x} /\ x \in R /\ R \ {x} = T
    BY <2>1
  <2>3. SumFunctionOnSet(W, R) = W[x] + SumFunctionOnSet(W, R \ {x})
    <3>1. \A y \in R : SumFunctionOnSet(W, R) = W[y] + SumFunctionOnSet(W, R \ {y})
      BY SumFacts
    <3>2. QED
      BY <2>2, <3>1
  <2>4. QED
    BY <1>1, <1>2, <2>2, <2>3
<1>3. CASE x \in T
  <2>1. SumFunctionOnSet(W, T) = W[x] + SumFunctionOnSet(W, T \ {x})
    BY <1>3, SumFacts
  <2>2. QED
    BY <1>1, <1>3, <2>1
<1>4. QED
  BY <1>2, <1>3

\* The sum after one value has changed.
LEMMA SumExcept ==
  ASSUME NEW Dom, IsFiniteSet(Dom), NEW W \in [Dom -> Nat], NEW U \in [Dom -> Nat], NEW x \in Dom,
         \A y \in Dom : y # x => U[y] = W[y]
  PROVE  SumFunctionOnSet(U, Dom) = SumFunctionOnSet(W, Dom) - W[x] + U[x]
<1>2. SumFunctionOnSet(U, Dom \ {x}) = SumFunctionOnSet(W, Dom \ {x})
  <2>1. Dom \ {x} \in SUBSET Dom /\ \A y \in Dom \ {x} : U[y] = W[y]
    OBVIOUS
  <2>2. QED
    BY <2>1, SumSame
<1>3. SumFunctionOnSet(U, Dom) = U[x] + SumFunctionOnSet(U, Dom \ {x})
  <2>1. Dom \in SUBSET Dom
    OBVIOUS
  <2>2. \A y \in Dom : SumFunctionOnSet(U, Dom) = U[y] + SumFunctionOnSet(U, Dom \ {y})
    BY <2>1, SumFacts
  <2>3. QED
    BY <2>1, <2>2
<1>4. /\ SumFunctionOnSet(W, Dom) = W[x] + SumFunctionOnSet(W, Dom \ {x})
      /\ SumFunctionOnSet(W, Dom \ {x}) \in Nat /\ W[x] \in Nat
  BY SumFacts
<1>5. U[x] \in Nat
  OBVIOUS
<1>6. QED
  BY <1>2, <1>3, <1>4, <1>5

\* A sum of which no value is greater than K times that of another one.
LEMMA SumScaled ==
  ASSUME NEW Dom, IsFiniteSet(Dom), NEW W \in [Dom -> Nat], NEW U \in [Dom -> Nat],
         NEW T \in SUBSET Dom, NEW K \in Nat, \A x \in T : U[x] <= W[x] * K
  PROVE  SumFunctionOnSet(U, T) <= SumFunctionOnSet(W, T) * K
<1> DEFINE I == {n \in Nat : \A R \in SUBSET T :
                   Cardinality(R) <= n => SumFunctionOnSet(U, R) <= SumFunctionOnSet(W, R) * K}
<1>1. \A R \in SUBSET T : R \in SUBSET Dom /\ IsFiniteSet(R) /\ Cardinality(R) \in Nat
                          /\ (Cardinality(R) = 0 => R = {})
  BY FS_Subset, FS_CardinalityType, FS_EmptySet
<1>2. SumFunctionOnSet(U, {}) <= SumFunctionOnSet(W, {}) * K
  <2>1. SumFunctionOnSet(U, {}) = 0 /\ SumFunctionOnSet(W, {}) = 0
    BY SumFacts
  <2>2. QED
    BY <2>1
<1>3. 0 \in I
  <2>1. ASSUME NEW R \in SUBSET T, Cardinality(R) <= 0 PROVE R = {}
    <3>1. Cardinality(R) = 0
      BY <1>1, <2>1
    <3>2. QED
      BY <1>1, <3>1
  <2>2. QED
    BY <1>2, <2>1
<1>4. ASSUME NEW n \in Nat, n \in I PROVE n + 1 \in I
  <2>1. ASSUME NEW R \in SUBSET T, Cardinality(R) <= n + 1, R # {}
        PROVE  SumFunctionOnSet(U, R) <= SumFunctionOnSet(W, R) * K
    <3>1. PICK x \in R : TRUE
      BY <2>1
    <3>2. R \ {x} \in SUBSET T /\ Cardinality(R \ {x}) <= n
      BY <1>1, <2>1, SmallerCardinality
    <3>3. SumFunctionOnSet(U, R \ {x}) <= SumFunctionOnSet(W, R \ {x}) * K
      BY <1>4, <3>2
    <3>4. /\ SumFunctionOnSet(W, R) = W[x] + SumFunctionOnSet(W, R \ {x})
          /\ SumFunctionOnSet(W, R \ {x}) \in Nat
      BY <1>1, <3>2, SumFacts
    <3>5. /\ SumFunctionOnSet(U, R) = U[x] + SumFunctionOnSet(U, R \ {x})
          /\ SumFunctionOnSet(U, R \ {x}) \in Nat
      BY <1>1, <3>2, SumFacts
    <3>6. PICK a \in Nat, b \in Nat, c \in Nat, d \in Nat :
            /\ a = SumFunctionOnSet(W, R \ {x}) /\ b = SumFunctionOnSet(U, R \ {x})
            /\ c = W[x] /\ d = U[x]
      BY <3>4, <3>5
    <3>7. b <= a * K /\ d <= c * K
      BY <3>3, <3>6
    <3>8. d + b <= (c + a) * K
      BY <3>7
    <3>9. QED
      BY <3>4, <3>5, <3>6, <3>8
  <2>2. n + 1 \in Nat
    OBVIOUS
  <2>3. QED
    BY <1>2, <2>1, <2>2
<1>5. Nat \subseteq I
  <2> HIDE DEF I
  <2> QED BY <1>3, <1>4, NatSetInduction
<1>6. PICK c \in Nat : c = Cardinality(T)
  BY <1>1
<1>7. QED
  BY <1>5, <1>6

\* A sum of smaller values is smaller.
LEMMA SumMono ==
  ASSUME NEW Dom, IsFiniteSet(Dom), NEW W \in [Dom -> Nat], NEW U \in [Dom -> Nat],
         NEW T \in SUBSET Dom, \A x \in T : U[x] <= W[x]
  PROVE  SumFunctionOnSet(U, T) <= SumFunctionOnSet(W, T)
<1>1. \A x \in T : U[x] <= W[x] * 1
  OBVIOUS
<1>2. SumFunctionOnSet(U, T) <= SumFunctionOnSet(W, T) * 1
  BY <1>1, SumScaled
<1>3. SumFunctionOnSet(W, T) \in Nat
  BY SumFacts
<1>4. QED
  BY <1>2, <1>3

\* What has no value does not count.
LEMMA SumWithin ==
  ASSUME NEW Dom, IsFiniteSet(Dom), NEW W \in [Dom -> Nat], NEW T \in SUBSET Dom,
         \A x \in Dom : x \notin T => W[x] = 0
  PROVE  SumFunctionOnSet(W, Dom) = SumFunctionOnSet(W, T)
<1> DEFINE I == {n \in Nat : \A R \in SUBSET Dom :
                   Cardinality(R) <= n => SumFunctionOnSet(W, R) = SumFunctionOnSet(W, R \cap T)}
<1>1. \A R \in SUBSET Dom : IsFiniteSet(R) /\ Cardinality(R) \in Nat
                          /\ (Cardinality(R) = 0 => R = {})
  BY FS_Subset, FS_CardinalityType, FS_EmptySet
<1>2. {} \cap T = {}
  OBVIOUS
<1>3. 0 \in I
  <2>1. ASSUME NEW R \in SUBSET Dom, Cardinality(R) <= 0 PROVE R = {}
    <3>1. Cardinality(R) = 0
      BY <1>1, <2>1
    <3>2. QED
      BY <1>1, <3>1
  <2>2. QED
    BY <1>2, <2>1
<1>4. ASSUME NEW n \in Nat, n \in I PROVE n + 1 \in I
  <2>1. ASSUME NEW R \in SUBSET Dom, Cardinality(R) <= n + 1, R # {}
        PROVE  SumFunctionOnSet(W, R) = SumFunctionOnSet(W, R \cap T)
    <3>1. PICK x \in R : TRUE
      BY <2>1
    <3>2. R \ {x} \in SUBSET Dom /\ Cardinality(R \ {x}) <= n
      BY <1>1, <2>1, SmallerCardinality
    <3>3. SumFunctionOnSet(W, R \ {x}) = SumFunctionOnSet(W, (R \ {x}) \cap T)
      BY <1>4, <3>2
    <3>4. SumFunctionOnSet(W, R) = W[x] + SumFunctionOnSet(W, R \ {x})
      BY SumFacts
    <3>5. CASE x \in T
      <4>1. PICK Z \in SUBSET Dom : Z = R \cap T /\ x \in Z /\ Z \ {x} = (R \ {x}) \cap T
        <5>1. /\ R \cap T \in SUBSET Dom /\ x \in R \cap T
              /\ (R \cap T) \ {x} = (R \ {x}) \cap T
          BY <3>1, <3>5
        <5>2. QED
          BY <5>1
      <4>2. SumFunctionOnSet(W, Z) = W[x] + SumFunctionOnSet(W, Z \ {x})
        BY <4>1, SumFacts
      <4>3. QED
        BY <3>3, <3>4, <4>1, <4>2
    <3>6. CASE x \notin T
      <4>1. (R \ {x}) \cap T = R \cap T
        BY <3>6
      <4>2. W[x] = 0
        BY <3>6
      <4>3. SumFunctionOnSet(W, R \ {x}) \in Nat
        BY <3>2, SumFacts
      <4>4. SumFunctionOnSet(W, R) = SumFunctionOnSet(W, R \ {x})
        BY <3>4, <4>2, <4>3
      <4>5. QED
        BY <3>3, <4>1, <4>4
    <3>7. QED
      BY <3>5, <3>6
  <2>2. n + 1 \in Nat
    OBVIOUS
  <2>3. QED
    BY <1>2, <2>1, <2>2
<1>5. Nat \subseteq I
  <2> HIDE DEF I
  <2> QED BY <1>3, <1>4, NatSetInduction
<1>6. PICK c \in Nat : c = Cardinality(Dom)
  BY <1>1
<1>7. Dom \cap T = T
  OBVIOUS
<1>8. QED
  BY <1>5, <1>6, <1>7

\* If a value falls by d at least and no other one grows, the sum falls by d.
LEMMA SumFalls ==
  ASSUME NEW Dom, IsFiniteSet(Dom), NEW W \in [Dom -> Nat], NEW U \in [Dom -> Nat], NEW q \in Dom,
         NEW d \in Nat, U[q] + d <= W[q], \A x \in Dom : x # q => U[x] <= W[x]
  PROVE  SumFunctionOnSet(U, Dom) + d <= SumFunctionOnSet(W, Dom)
<1>1. PICK R \in SUBSET Dom : R = Dom \ {q}
  OBVIOUS
<1>2. SumFunctionOnSet(U, R) <= SumFunctionOnSet(W, R)
  BY <1>1, SumMono
<1>3. /\ SumFunctionOnSet(U, Dom) = U[q] + SumFunctionOnSet(U, R)
      /\ SumFunctionOnSet(W, Dom) = W[q] + SumFunctionOnSet(W, R)
      /\ SumFunctionOnSet(U, R) \in Nat /\ SumFunctionOnSet(W, R) \in Nat
  BY <1>1, SumFacts
<1>4. PICK a \in Nat, b \in Nat, c \in Nat, e \in Nat :
        /\ a = U[q] /\ b = W[q] /\ c = SumFunctionOnSet(U, R) /\ e = SumFunctionOnSet(W, R)
  BY <1>3
<1>5. QED
  BY <1>2, <1>3, <1>4

(***************************************************************************)
(* Times below half of the range: comparisons and sums are those of the    *)
(* integers.                                                               *)
(***************************************************************************)

Half == KeyMod \div 2

Early == 0..(Half - 1)

\* A packet can be added to time t, and t can be marked as invalid.
Fits(t) == t + 1 < Half /\ \A l \in Lens : t + l * ONE_FP < Half

\* No time has come close to half of the range.
NoWrap == Fits(V) /\ \A q \in Queues : Fits(F[q])

LEMMA KeyOrder ==
  ASSUME NEW a \in Early, NEW b \in Early
  PROVE  /\ DN_KEY_LT(a, b) <=> a < b
         /\ MAX64(a, b) = IF a < b THEN b ELSE a
<1>1. KeyMod \in Nat \ {0} /\ Half \in Nat /\ Half <= KeyMod /\ 2 * Half <= KeyMod
  BY WF2QAssumption DEF Half
<1>2. a \in Nat /\ b \in Nat /\ a < Half /\ b < Half
  BY <1>1 DEF Early
<1>3. CASE a < b
  <2>1. a - b \in Int /\ -Half < a - b /\ a - b < 0
    BY <1>1, <1>2, <1>3
  <2>2. (a - b) % KeyMod = (a - b) + KeyMod
    BY <1>1, <2>1
  <2>3. (a - b) % KeyMod >= Half
    BY <1>1, <2>1, <2>2
  <2>4. QED
    BY <1>3, <2>3 DEF DN_KEY_LT, MAX64, Half
<1>4. CASE ~ (a < b)
  <2>1. a - b \in Nat /\ a - b < Half
    BY <1>1, <1>2, <1>4
  <2>2. (a - b) % KeyMod = a - b
    BY <1>1, <2>1
  <2>3. ~ ((a - b) % KeyMod >= Half)
    BY <1>1, <2>1, <2>2
  <2>4. QED
    BY <1>4, <2>3 DEF DN_KEY_LT, MAX64, Half
<1>5. QED
  BY <1>3, <1>4

LEMMA PlusEarly ==
  ASSUME NEW a \in Nat, NEW b \in Nat, a + b < Half
  PROVE  Plus(a, b) = a + b /\ a + b \in Early
<1>1. KeyMod \in Nat \ {0} /\ Half \in Nat /\ Half <= KeyMod
  BY WF2QAssumption DEF Half
<1>2. (a + b) % KeyMod = a + b
  BY <1>1
<1>3. QED
  BY <1>1, <1>2 DEF Plus, Early

\* What a packet of length l adds, at the rate 1/x.
LEMMA Stretch ==
  ASSUME NEW l \in Lens, NEW x \in Nat \ {0}
  PROVE  l * (ONE_FP \div x) \in Nat /\ l * (ONE_FP \div x) <= l * ONE_FP
<1>1. ONE_FP \in Nat /\ l \in Nat
  BY WF2QAssumption
<1>2. PICK k \in Nat : k = ONE_FP \div x /\ k <= ONE_FP
  BY <1>1
<1>3. l * k <= l * ONE_FP /\ l * k \in Nat
  BY <1>1, <1>2, MulMono
<1>4. QED
  BY <1>2, <1>3

\* A time that fits can take a packet.
LEMMA FitsPlus ==
  ASSUME NEW t \in Nat, Fits(t), NEW l \in Lens, NEW x \in Nat \ {0}
  PROVE  /\ t \in Early /\ t + 1 \in Early /\ Plus(t, 1) = t + 1
         /\ Plus(t, l * (ONE_FP \div x)) = t + l * (ONE_FP \div x)
         /\ t + l * (ONE_FP \div x) \in Early
         /\ l * (ONE_FP \div x) \in Nat
         /\ t + l * (ONE_FP \div x) <= t + l * ONE_FP
<1>1. Half \in Nat
  BY WF2QAssumption DEF Half
<1>2. PICK d \in Nat : d = l * (ONE_FP \div x) /\ d <= l * ONE_FP
  BY Stretch
<1>3. l * ONE_FP \in Nat
  BY WF2QAssumption
<1>4. t + d < Half /\ t + 1 < Half
  BY <1>1, <1>2, <1>3 DEF Fits
<1>5. Plus(t, d) = t + d /\ t + d \in Early
  BY <1>4, PlusEarly
<1>6. Plus(t, 1) = t + 1 /\ t + 1 \in Early
  BY <1>4, PlusEarly
<1>7. t \in Early
  BY <1>1, <1>4 DEF Early
<1>8. t + d <= t + l * ONE_FP
  BY <1>2, <1>3
<1>9. QED
  BY <1>2, <1>5, <1>6, <1>7, <1>8

\* What is not later than a time that fits, fits.
LEMMA FitsLess ==
  ASSUME NEW t \in Nat, Fits(t), NEW u \in Nat, u <= t
  PROVE  Fits(u)
<1>1. Half \in Nat /\ ONE_FP \in Nat /\ Lens \subseteq Nat
  BY WF2QAssumption DEF Half
<1>2. \A l \in Lens : l * ONE_FP \in Nat
  BY <1>1
<1>3. QED
  BY <1>1, <1>2 DEF Fits

(***************************************************************************)
(* Heaps that hold one entry for each queue of a set.                      *)
(***************************************************************************)

Keyed(f, Q) == {Entry(f[q], q) : q \in Q}

LEMMA KeyedSame ==
  ASSUME NEW Q, NEW f, NEW g, \A q \in Q : f[q] = g[q]
  PROVE  Keyed(f, Q) = Keyed(g, Q)
BY DEF Keyed

LEMMA KeyedMember ==
  ASSUME NEW Q, NEW f, NEW e \in Keyed(f, Q)
  PROVE  e.object \in Q /\ e = Entry(f[e.object], e.object) /\ e.key = f[e.object]
BY DEF Keyed, Entry

LEMMA KeyedEmpty ==
  ASSUME NEW Q, NEW f
  PROVE  Keyed(f, Q) = {} <=> Q = {}
BY DEF Keyed

LEMMA KeyedIn ==
  ASSUME NEW Q, NEW f, NEW q
  PROVE  In(q, Keyed(f, Q)) <=> q \in Q
<1>1. \A e \in Keyed(f, Q) : e.object \in Q
  BY KeyedMember
<1>2. q \in Q => Entry(f[q], q) \in Keyed(f, Q) /\ Entry(f[q], q).object = q
  BY DEF Keyed, Entry
<1>3. QED
  BY <1>1, <1>2 DEF In

LEMMA KeyedWithout ==
  ASSUME NEW Q, NEW f, NEW q
  PROVE  Without(Keyed(f, Q), q) = Keyed(f, Q \ {q})
BY DEF Without, Keyed, Entry

LEMMA KeyedMinus ==
  ASSUME NEW Q, NEW f, NEW q \in Q
  PROVE  Keyed(f, Q) \ {Entry(f[q], q)} = Keyed(f, Q \ {q})
BY DEF Keyed, Entry

LEMMA KeyedPlus ==
  ASSUME NEW Q, NEW f, NEW q, NEW k, k = f[q]
  PROVE  Keyed(f, Q) \cup {Entry(k, q)} = Keyed(f, Q \cup {q})
BY DEF Keyed

\* The entries of one queue.
LEMMA KeyedOf ==
  ASSUME NEW Q, NEW f, NEW q
  PROVE  {e \in Keyed(f, Q) : e.object = q} = IF q \in Q THEN {Entry(f[q], q)} ELSE {}
<1>1. \A e \in Keyed(f, Q) : e.object = q => q \in Q /\ e = Entry(f[q], q)
  BY KeyedMember
<1>2. q \in Q => Entry(f[q], q) \in Keyed(f, Q) /\ Entry(f[q], q).object = q
  BY DEF Keyed, Entry
<1>3. QED
  BY <1>1, <1>2

LEMMA KeyedTyped ==
  ASSUME NEW Q \in SUBSET Queues, NEW f \in [Queues -> Times]
  PROVE  Keyed(f, Q) \subseteq Entries
BY DEF Keyed, Entry, Entries

\* HEAP_TOP() of a heap that is not empty is one of its entries.
LEMMA TopExists ==
  ASSUME NEW Q \in SUBSET Queues, NEW f \in [Queues -> Early], Q # {}
  PROVE  Tops(Keyed(f, Q)) # {}
<1>1. Half \in Nat /\ Early \subseteq Nat
  BY WF2QAssumption DEF Half, Early
<1>2. PICK T : T = {f[q] : q \in Q}
  OBVIOUS
<1>3. T \in SUBSET Nat /\ T # {}
  BY <1>1, <1>2
<1>4. PICK t \in T : \A u \in T : t <= u
  BY <1>3, NatMin
<1>5. PICK q \in Q : t = f[q]
  BY <1>2
<1>6. Entry(f[q], q) \in Keyed(f, Q)
  BY DEF Keyed
<1>7. ASSUME NEW e \in Keyed(f, Q) PROVE ~ DN_KEY_LT(e.key, Entry(f[q], q).key)
  <2>1. e.object \in Q /\ e.key = f[e.object]
    BY KeyedMember
  <2>2. f[q] <= e.key /\ e.key \in Early /\ f[q] \in Early
    BY <1>2, <1>4, <1>5, <2>1
  <2>3. ~ DN_KEY_LT(e.key, f[q])
    <3>1. \A k \in Early, m \in Early : DN_KEY_LT(k, m) <=> k < m
      BY KeyOrder
    <3>2. \A k \in Early, m \in Early : m <= k => ~ (k < m)
      BY <1>1
    <3>3. QED
      BY <2>2, <3>1, <3>2
  <2>4. QED
    BY <2>3 DEF Entry
<1>8. QED
  BY <1>6, <1>7 DEF Tops

(***************************************************************************)
(* The loop of wf2qp_dequeue() that lets V reach the first start time and  *)
(* moves the queues that have become eligible.                             *)
(***************************************************************************)

\* The virtual time v0 stays, or becomes the first start time of N if A is empty.
Jumped(v, v0, A, N, g) ==
  v = v0 \/ (A = {} /\ (\E x \in N : v = g[x]) /\ \A x \in N : v <= g[x])

LEMMA AdvanceTime ==
  ASSUME NEW A \in SUBSET Queues, NEW N \in SUBSET Queues,
         NEW f \in [Queues -> Early], NEW g \in [Queues -> Early], NEW v0 \in Early,
         NEW v, v = Advanced(Keyed(f, A), Keyed(g, N), v0)
  PROVE  v \in Early /\ v0 <= v /\ Jumped(v, v0, A, N, g)
<1>1. Half \in Nat /\ Early \subseteq Nat
  BY WF2QAssumption DEF Half, Early
<1>2. /\ v \in Early /\ v0 <= v
      /\ v = v0 \/ (A = {} /\ (\E q \in N : v = g[q]) /\ \A q \in N : v <= g[q])
  <2>1. CASE Keyed(f, A) = {} /\ Keyed(g, N) # {}
    <3>1. Tops(Keyed(g, N)) # {}
      BY <2>1, KeyedEmpty, TopExists
    <3>2. PICK e \in Tops(Keyed(g, N)) : e = CHOOSE x \in Tops(Keyed(g, N)) : TRUE
      BY <3>1
    <3>3. e.object \in N /\ e.key = g[e.object]
      BY KeyedMember DEF Tops
    <3>31. \A q \in N : g[q] \in Early /\ ~ DN_KEY_LT(g[q], e.key)
      <4>1. \A q \in N : Entry(g[q], q) \in Keyed(g, N)
        BY DEF Keyed
      <4>2. QED
        BY <4>1 DEF Tops, Entry
    <3>32. \A q \in N : e.key <= g[q]
      <4> SUFFICES ASSUME NEW q \in N PROVE e.key <= g[q]
        OBVIOUS
      <4>1. PICK k \in Early, j \in Early : k = e.key /\ j = g[q]
        BY <3>3
      <4>2. ~ (j < k)
        BY <3>31, <4>1, KeyOrder
      <4>3. QED
        BY <1>1, <4>1, <4>2
    <3>4. PICK k \in Early : k = e.key /\ (\E q \in N : k = g[q]) /\ \A q \in N : k <= g[q]
      BY <3>3, <3>32
    <3>41. A = {}
      BY <2>1, KeyedEmpty
    <3>5. v = MAX64(v0, k)
      BY <2>1, <3>2, <3>4 DEF Advanced
    <3>6. v = IF v0 < k THEN k ELSE v0
      BY <3>5, KeyOrder
    <3>7. v0 \in Nat /\ k \in Nat
      BY <1>1
    <3>8. CASE v0 < k
      <4>1. v = k
        BY <3>6, <3>8
      <4>2. v0 <= v
        BY <3>7, <3>8, <4>1
      <4>3. QED
        BY <3>4, <3>41, <4>1, <4>2
    <3>9. CASE ~ (v0 < k)
      BY <3>6, <3>7, <3>9
    <3>10. QED
      BY <3>8, <3>9
  <2>2. CASE ~ (Keyed(f, A) = {} /\ Keyed(g, N) # {})
    BY <1>1, <2>2 DEF Advanced
  <2>3. QED
    BY <2>1, <2>2
<1>3. QED
  BY <1>2 DEF Jumped

\* What sch_heap and ne_heap become when V is v.
Joined(s, n, v, f) == s \cup Moved(Eligible(n, v), f)

Left(n, v) == n \ Eligible(n, v)

\* The queues of Q that start at v or before, and those that start later.
UpTo(Q, g, v) == {q \in Q : g[q] <= v}

Beyond(Q, g, v) == {q \in Q : g[q] > v}

\* Eligible queues A and others N, with finish times f and start times g: if none of A
\* starts after v, the heaps are divided by v afterwards.
LEMMA AdvanceKeyed ==
  ASSUME NEW A \in SUBSET Queues, NEW N \in SUBSET Queues,
         NEW f \in [Queues -> Early], NEW g \in [Queues -> Early], NEW v \in Early,
         \A q \in A : g[q] <= v
  PROVE  /\ Joined(Keyed(f, A), Keyed(g, N), v, f) = Keyed(f, UpTo(A \cup N, g, v))
         /\ Left(Keyed(g, N), v) = Keyed(g, Beyond(A \cup N, g, v))
<1> DEFINE Q1 == UpTo(A \cup N, g, v)
           Q2 == Beyond(A \cup N, g, v)
<1>1. Half \in Nat /\ Early \subseteq Nat
  BY WF2QAssumption DEF Half, Early
<1>2. v \in Early
  OBVIOUS
<1>3. \A q \in N : ~ DN_KEY_LT(v, g[q]) <=> g[q] <= v
  <2> SUFFICES ASSUME NEW q \in N PROVE ~ DN_KEY_LT(v, g[q]) <=> g[q] <= v
    OBVIOUS
  <2>1. PICK k \in Early : k = g[q]
    OBVIOUS
  <2>2. DN_KEY_LT(v, k) <=> v < k
    BY <1>2, KeyOrder
  <2>3. QED
    BY <1>1, <1>2, <2>1, <2>2
<1>4. \A e \in Keyed(g, N) : e.object \in N /\ e = Entry(g[e.object], e.object) /\ e.key = g[e.object]
  BY KeyedMember
<1>5. \A q \in N : Entry(g[q], q) \in Keyed(g, N) /\ Entry(g[q], q).key = g[q] /\ Entry(g[q], q).object = q
  BY DEF Keyed, Entry
<1>6. PICK R : R = {q \in N : g[q] <= v}
  OBVIOUS
<1>7. Eligible(Keyed(g, N), v) = Keyed(g, R)
  <2>1. ASSUME NEW e \in Eligible(Keyed(g, N), v) PROVE e \in Keyed(g, R)
    <3>1. e \in Keyed(g, N) /\ ~ DN_KEY_LT(v, e.key)
      BY DEF Eligible
    <3>2. e.object \in R /\ e = Entry(g[e.object], e.object)
      BY <1>3, <1>4, <1>6, <3>1
    <3>3. QED
      BY <3>2 DEF Keyed
  <2>2. ASSUME NEW e \in Keyed(g, R) PROVE e \in Eligible(Keyed(g, N), v)
    <3>1. PICK q \in R : e = Entry(g[q], q)
      BY DEF Keyed
    <3>2. QED
      BY <1>3, <1>5, <1>6, <3>1 DEF Eligible
  <2>3. QED
    BY <2>1, <2>2
<1>8. Moved(Keyed(g, R), f) = Keyed(f, R)
  <2>1. ASSUME NEW x \in Moved(Keyed(g, R), f) PROVE x \in Keyed(f, R)
    <3>1. PICK e \in Keyed(g, R) : x = Entry(f[e.object], e.object)
      BY DEF Moved
    <3>2. e.object \in R
      BY KeyedMember
    <3>3. QED
      BY <3>1, <3>2 DEF Keyed
  <2>2. ASSUME NEW x \in Keyed(f, R) PROVE x \in Moved(Keyed(g, R), f)
    <3>1. PICK q \in R : x = Entry(f[q], q)
      BY DEF Keyed
    <3>2. Entry(g[q], q) \in Keyed(g, R) /\ Entry(g[q], q).object = q
      BY DEF Keyed, Entry
    <3>3. QED
      BY <3>1, <3>2 DEF Moved
  <2>3. QED
    BY <2>1, <2>2
<1>9. Q1 = A \cup R
  BY <1>6 DEF UpTo
<1>10. Q2 = N \ R
  <2>1. \A q \in A \cup N : g[q] \in Nat /\ v \in Nat
    BY <1>1, <1>2
  <2>2. \A q \in A \cup N : g[q] > v <=> ~ (g[q] <= v)
    BY <2>1
  <2>3. QED
    BY <1>6, <1>9, <2>2 DEF UpTo, Beyond
<1>11. Keyed(f, A) \cup Keyed(f, R) = Keyed(f, A \cup R)
  BY DEF Keyed
<1>12. Keyed(g, N) \ Keyed(g, R) = Keyed(g, N \ R)
  <2>1. ASSUME NEW q \in N, q \notin R PROVE Entry(g[q], q) \notin Keyed(g, R)
    <3>1. Entry(g[q], q).object = q
      BY DEF Entry
    <3>2. QED
      BY <2>1, <3>1, KeyedMember
  <2>2. QED
    BY <1>6, <2>1 DEF Keyed
<1>13. Keyed(f, Q1) = Keyed(f, A \cup R) /\ Keyed(g, Q2) = Keyed(g, N \ R)
  BY <1>9, <1>10
<1>14. QED
  BY <1>7, <1>8, <1>11, <1>12, <1>13 DEF Joined, Left
(***************************************************************************)
(* The inductive invariant, with the queues of each heap as sets.          *)
(***************************************************************************)

Busy == {q \in Queues : mq[q] # <<>>}

\* The timestamps of q mean something: it is in a heap.
Valid == {q \in alive : S[q] <= F[q]}

Ready == {q \in Busy : S[q] <= V}

Waiting == {q \in Busy : S[q] > V}

Idle == Valid \ Busy

Types ==
  /\ alive \subseteq Queues
  /\ mq \in [Queues -> Seq(Pkts)]
  /\ S \in [Queues -> Times] /\ F \in [Queues -> Times] /\ V \in Times
  /\ ret \in Pkts \cup {NULL}
  /\ nextid \in 1..(MaxPkts + 1)
  /\ lead \in [Queues -> [Queues -> Int]] /\ cut \in BOOLEAN

Stamps ==
  /\ \A q \in Queues : S[q] <= F[q] + 1
  /\ Busy \subseteq Valid

InHeaps ==
  /\ sch_heap = Keyed(F, Ready)
  /\ ne_heap = Keyed(S, Waiting)
  /\ idle_heap = Keyed(F, Idle)

Weights == wsum = SumFunctionOnSet(WeightOf, Valid)

WInv == Types /\ Stamps /\ InHeaps /\ Weights

LEMMA ConstantFacts ==
  /\ KeyMod \in Nat \ {0} /\ Half \in Nat /\ Early \subseteq Nat /\ Early \subseteq Times
  /\ WeightOf \in [Queues -> Nat \ {0}] /\ ONE_FP \in Nat \ {0}
  /\ IsFiniteSet(Queues) /\ WeightOf \in [Queues -> Nat]
  /\ Lens \subseteq Nat \ {0} /\ Lens # {}
  /\ 0 \in Times /\ (Queues # {} => 1 \in Times)
<1>1. /\ KeyMod \in Nat \ {0} /\ Half \in Nat /\ Half <= KeyMod
      /\ WeightOf \in [Queues -> Nat \ {0}] /\ ONE_FP \in Nat \ {0}
      /\ IsFiniteSet(Queues) /\ WeightOf \in [Queues -> Nat]
      /\ Lens \subseteq Nat \ {0} /\ Lens # {}
  BY WF2QAssumption DEF Half
<1>2. ASSUME NEW q \in Queues PROVE 1 \in Times
  <2>1. PICK l \in Lens : l \in Nat \ {0}
    BY <1>1
  <2>2. 2 * (l * ONE_FP) < KeyMod
    BY <1>1, <2>1, WF2QAssumption
  <2>3. l * ONE_FP \in Nat /\ l * ONE_FP >= 1
    BY <1>1, <2>1
  <2>4. 1 < KeyMod
    BY <1>1, <2>2, <2>3
  <2>5. QED
    BY <1>1, <2>4 DEF Times
<1>3. QED
  BY <1>1, <1>2 DEF Early, Times

\* The tests of the code, as long as no time has wrapped.
LEMMA EarlyTimes ==
  ASSUME Types, Stamps, NoWrap
  PROVE  /\ V \in Early /\ F \in [Queues -> Early] /\ S \in [Queues -> Early]
         /\ \A q \in Queues :
              /\ F[q] + 1 \in Early /\ Plus(F[q], 1) = F[q] + 1
              /\ Invalid(q) <=> ~ (S[q] <= F[q])
              /\ NotInAnyHeap(q) <=> ~ (S[q] <= F[q])
              /\ DN_KEY_LT(V, S[q]) <=> S[q] > V
<1>1. Times \subseteq Nat
  BY ConstantFacts DEF Times
<1>2. V \in Early
  BY <1>1, ConstantFacts DEF NoWrap, Fits, Types, Early
<1>3. ASSUME NEW q \in Queues
      PROVE  /\ F[q] \in Early /\ S[q] \in Early /\ F[q] + 1 \in Early
             /\ Plus(F[q], 1) = F[q] + 1 /\ S[q] <= F[q] + 1
  <2>1. F[q] \in Nat /\ S[q] \in Nat /\ S[q] <= F[q] + 1 /\ F[q] + 1 < Half
    BY <1>1 DEF NoWrap, Fits, Types, Stamps
  <2>2. F[q] \in Early /\ S[q] \in Early /\ F[q] + 1 \in Early
    BY <2>1, ConstantFacts DEF Early
  <2>3. QED
    BY <2>1, <2>2, PlusEarly
<1>4. ASSUME NEW q \in Queues
      PROVE  /\ Invalid(q) <=> ~ (S[q] <= F[q])
             /\ NotInAnyHeap(q) <=> ~ (S[q] <= F[q])
             /\ DN_KEY_LT(V, S[q]) <=> S[q] > V
  <2>1. F[q] \in Nat /\ S[q] \in Nat /\ V \in Nat
    BY <1>1 DEF Types
  <2>2. DN_KEY_LT(F[q], S[q]) <=> F[q] < S[q]
    BY <1>3, KeyOrder
  <2>3. DN_KEY_LT(V, S[q]) <=> V < S[q]
    BY <1>2, <1>3, KeyOrder
  <2>4. QED
    BY <1>3, <2>1, <2>2, <2>3 DEF Invalid, NotInAnyHeap
<1>5. QED
  BY <1>2, <1>3, <1>4 DEF Types

\* The invariant is WF2QOK.
LEMMA WInvOK ==
  ASSUME WInv, NoWrap
  PROVE  WF2QOK
<1> USE DEF WInv
<1>1. /\ V \in Early /\ F \in [Queues -> Early] /\ S \in [Queues -> Early]
      /\ \A q \in Queues : /\ Invalid(q) <=> ~ (S[q] <= F[q])
                           /\ DN_KEY_LT(V, S[q]) <=> S[q] > V
  BY EarlyTimes
<1>2. Valid = {q \in alive : ~ Invalid(q)} /\ Valid \in SUBSET Queues
  BY <1>1 DEF Valid, Types
<1>3. wsum \in Nat /\ WsumOK
  BY <1>2, ConstantFacts, SumFacts DEF Weights, WsumOK
<1>4. Ready \in SUBSET Queues /\ Waiting \in SUBSET Queues /\ Idle \in SUBSET Queues
  BY <1>2 DEF Ready, Waiting, Idle, Busy
<1>5. sch_heap \subseteq Entries /\ ne_heap \subseteq Entries /\ idle_heap \subseteq Entries
  BY <1>4, KeyedTyped DEF InHeaps, Types
<1>6. TypeOK
  BY <1>3, <1>5 DEF TypeOK, Types
<1>7. InRightHeap
  <2> SUFFICES ASSUME NEW q \in Queues
               PROVE  LET valid == q \in alive /\ ~ Invalid(q)
                          busy == mq[q] # <<>>
                      IN  /\ busy => valid
                          /\ {e \in sch_heap : e.object = q} =
                               IF valid /\ busy /\ ~ DN_KEY_LT(V, S[q]) THEN {Entry(F[q], q)} ELSE {}
                          /\ {e \in ne_heap : e.object = q} =
                               IF valid /\ busy /\ DN_KEY_LT(V, S[q]) THEN {Entry(S[q], q)} ELSE {}
                          /\ {e \in idle_heap : e.object = q} =
                               IF valid /\ ~ busy THEN {Entry(F[q], q)} ELSE {}
    BY DEF InRightHeap
  <2>1. V \in Nat /\ S[q] \in Nat
    BY <1>1, ConstantFacts
  <2>2. /\ q \in Busy <=> mq[q] # <<>>
        /\ q \in Valid <=> q \in alive /\ ~ Invalid(q)
        /\ q \in Busy => q \in Valid
        /\ q \in Ready <=> q \in Busy /\ ~ DN_KEY_LT(V, S[q])
        /\ q \in Waiting <=> q \in Busy /\ DN_KEY_LT(V, S[q])
        /\ q \in Idle <=> q \in Valid /\ q \notin Busy
    BY <1>1, <1>2, <2>1 DEF Busy, Ready, Waiting, Idle, Stamps
  <2>3. {e \in sch_heap : e.object = q} = IF q \in Ready THEN {Entry(F[q], q)} ELSE {}
    <3>1. {e \in Keyed(F, Ready) : e.object = q} = IF q \in Ready THEN {Entry(F[q], q)} ELSE {}
      BY KeyedOf
    <3>2. QED
      BY <3>1 DEF InHeaps
  <2>4. {e \in ne_heap : e.object = q} = IF q \in Waiting THEN {Entry(S[q], q)} ELSE {}
    <3>1. {e \in Keyed(S, Waiting) : e.object = q} = IF q \in Waiting THEN {Entry(S[q], q)} ELSE {}
      BY KeyedOf
    <3>2. QED
      BY <3>1 DEF InHeaps
  <2>5. {e \in idle_heap : e.object = q} = IF q \in Idle THEN {Entry(F[q], q)} ELSE {}
    <3>1. {e \in Keyed(F, Idle) : e.object = q} = IF q \in Idle THEN {Entry(F[q], q)} ELSE {}
      BY KeyedOf
    <3>2. QED
      BY <3>1 DEF InHeaps
  <2>6. QED
    BY <2>2, <2>3, <2>4, <2>5
<1>8. QED
  BY <1>3, <1>6, <1>7 DEF WF2QOK

LEMMA WInvInit == Init => WInv
<1> SUFFICES ASSUME Init PROVE WInv
  OBVIOUS
<1> USE DEF Init
<1>1. Busy = {} /\ Valid = {}
  BY DEF Busy, Valid
<1>2. Ready = {} /\ Waiting = {} /\ Idle = {}
  BY <1>1 DEF Ready, Waiting, Idle
<1>3. Types
  <2>1. nextid \in 1..(MaxPkts + 1)
    BY WF2QAssumption
  <2>2. lead \in [Queues -> [Queues -> Int]]
    OBVIOUS
  <2>3. cut \in BOOLEAN
    OBVIOUS
  <2>4. QED
    BY <2>1, <2>2, <2>3, ConstantFacts DEF Types
<1>4. InHeaps
  BY <1>2, KeyedEmpty DEF InHeaps
<1>5. Weights
  BY <1>1, ConstantFacts, SumFacts DEF Weights
<1>6. QED
  BY <1>1, <1>3, <1>4, <1>5 DEF WInv, Stamps

(***************************************************************************)
(* The operations preserve the invariant.                                  *)
(***************************************************************************)

\* A change of the timestamps of a queue that is in no heap leaves the heaps alone.
LEMMA StepOutside ==
  ASSUME WInv, NEW q \in Queues, q \notin Valid, mq'[q] = <<>>, \A x \in Queues : x # q => mq'[x] = mq[x],
         V' = V, \A x \in Queues : x # q => F'[x] = F[x] /\ S'[x] = S[x],
         alive' \ {q} = alive \ {q}, q \in alive' => ~ (S'[q] <= F'[q]),
         UNCHANGED heaps, wsum' = wsum
  PROVE  Busy' = Busy /\ Valid' = Valid /\ InHeaps' /\ Weights'
<1>1. q \notin Busy /\ Busy \subseteq Valid /\ Valid \subseteq alive /\ alive \subseteq Queues
  BY DEF WInv, Stamps, Valid, Types
<1>2. Busy' = Busy
  BY <1>1 DEF Busy
<1>3. Valid' = Valid
  <2>1. \A x : x \in Valid' => x \in Valid
    BY <1>1 DEF Valid
  <2>2. \A x : x \in Valid => x \in Valid'
    BY <1>1 DEF Valid
  <2>3. QED
    BY <2>1, <2>2
<1>4. Ready' = Ready /\ Waiting' = Waiting /\ Idle' = Idle
  BY <1>1, <1>2, <1>3 DEF Ready, Waiting, Idle
<1>5. q \notin Ready /\ q \notin Waiting /\ q \notin Idle
      /\ Ready \subseteq Queues /\ Waiting \subseteq Queues /\ Idle \subseteq Queues
  BY <1>1 DEF Ready, Waiting, Idle
<1>6. Keyed(F', Ready) = Keyed(F, Ready) /\ Keyed(S', Waiting) = Keyed(S, Waiting)
      /\ Keyed(F', Idle) = Keyed(F, Idle)
  <2>1. /\ \A x \in Ready : F'[x] = F[x]
        /\ \A x \in Waiting : S'[x] = S[x]
        /\ \A x \in Idle : F'[x] = F[x]
    BY <1>5
  <2>2. Keyed(F', Ready) = Keyed(F, Ready)
    BY <2>1, KeyedSame
  <2>3. Keyed(S', Waiting) = Keyed(S, Waiting)
    BY <2>1, KeyedSame
  <2>4. Keyed(F', Idle) = Keyed(F, Idle)
    BY <2>1, KeyedSame
  <2>5. QED
    BY <2>2, <2>3, <2>4
<1>7. InHeaps'
  BY <1>4, <1>6 DEF WInv, InHeaps, heaps
<1>8. Weights'
  BY <1>3 DEF WInv, Weights
<1>9. QED
  BY <1>2, <1>3, <1>7, <1>8

LEMMA WInvNewQueue ==
  ASSUME WInv, NoWrap, NEW q \in Queues, NewQueue(q)
  PROVE  WInv'
<1> USE DEF WInv
<1>1. Types'
  BY ConstantFacts DEF NewQueue, Types, heaps
<1>2. mq[q] = <<>> /\ q \notin Valid
  BY DEF NewQueue, Stamps, Busy, Valid
<1>3. F'[q] = 0 /\ S'[q] = 1 /\ \A x \in Queues : x # q => F'[x] = F[x] /\ S'[x] = S[x]
  BY DEF NewQueue, Types
<1>4. Busy' = Busy /\ Valid' = Valid /\ InHeaps' /\ Weights'
  <2>1. /\ mq' = mq /\ V' = V /\ wsum' = wsum /\ UNCHANGED heaps /\ alive' = alive \cup {q}
    BY DEF NewQueue
  <2>2. QED
    BY <1>2, <1>3, <2>1, StepOutside
<1>5. Stamps'
  BY <1>3, <1>4 DEF Stamps
<1>6. QED
  BY <1>1, <1>4, <1>5

LEMMA WInvDrainQueue ==
  ASSUME WInv, NoWrap, NEW q \in Queues, DrainQueue(q)
  PROVE  WInv'
<1> USE DEF WInv
<1>1. Types'
  BY ConstantFacts DEF DrainQueue, Freed, Types, heaps
<1>2. mq[q] = <<>> /\ q \notin Valid
  BY EarlyTimes DEF DrainQueue, Valid
<1>3. F'[q] = 0 /\ S'[q] = 1 /\ \A x \in Queues : x # q => F'[x] = F[x] /\ S'[x] = S[x]
  BY DEF DrainQueue, Freed, Types
<1>4. Busy' = Busy /\ Valid' = Valid /\ InHeaps' /\ Weights'
  <2>1. /\ mq'[q] = <<>> /\ \A x \in Queues : x # q => mq'[x] = mq[x]
        /\ V' = V /\ wsum' = wsum /\ UNCHANGED heaps /\ alive' = alive \ {q}
    BY DEF DrainQueue, Freed, Types
  <2>2. QED
    BY <1>2, <1>3, <2>1, StepOutside
<1>5. Stamps'
  BY <1>3, <1>4 DEF Stamps
<1>6. QED
  BY <1>1, <1>4, <1>5

LEMMA WInvDeleteQueue ==
  ASSUME WInv, NoWrap, NEW q \in Queues, DeleteQueue(q)
  PROVE  WInv'
<1> USE DEF WInv
<1>1. Types'
  <2>1. lead' \in [Queues -> [Queues -> Int]] /\ cut' \in BOOLEAN
    BY DEF DeleteQueue, Types
  <2>2. QED
    BY <2>1, ConstantFacts DEF DeleteQueue, Freed, Types
<1>2. /\ F'[q] = 0 /\ S'[q] = 1 /\ \A x \in Queues : x # q => F'[x] = F[x] /\ S'[x] = S[x]
      /\ mq'[q] = <<>> /\ \A x \in Queues : x # q => mq'[x] = mq[x]
      /\ V' = V /\ alive' = alive \ {q} /\ q \in alive
  BY DEF DeleteQueue, Freed, Types
<1>3. NotInAnyHeap(q) <=> q \notin Valid
  BY <1>2, EarlyTimes DEF Valid
<1>4. DN_KEY_LT(V, S[q]) <=> S[q] > V
  BY EarlyTimes
<1>5. CASE NotInAnyHeap(q)
  <2>1. UNCHANGED <<heaps, wsum>>
    BY <1>5 DEF DeleteQueue, LeaveHeaps
  <2>2. Busy' = Busy /\ Valid' = Valid /\ InHeaps' /\ Weights'
    BY <1>2, <1>3, <1>5, <2>1, StepOutside
  <2>3. Stamps'
    BY <1>2, <2>2 DEF Stamps
  <2>4. QED
    BY <1>1, <2>2, <2>3
<1>6. CASE ~ NotInAnyHeap(q)
  <2>1. q \in Valid /\ Valid \in SUBSET Queues /\ Busy \subseteq Valid
    BY <1>3, <1>6 DEF Valid, Types, Stamps
  <2>2. Busy' = Busy \ {q} /\ Valid' = Valid \ {q}
    <3>1. Busy' = Busy \ {q}
      BY <1>2 DEF Busy
    <3>2. \A x \in alive \ {q} : F'[x] = F[x] /\ S'[x] = S[x]
      BY <1>2 DEF Types
    <3>3. Valid' = Valid \ {q}
      BY <1>2, <3>2 DEF Valid
    <3>4. QED
      BY <3>1, <3>3
  <2>3. Ready' = Ready \ {q} /\ Waiting' = Waiting \ {q} /\ Idle' = Idle \ {q}
    BY <1>2, <2>1, <2>2 DEF Ready, Waiting, Idle, Busy
  <2>4. Weights'
    <3>1. wsum' = wsum - WeightOf[q]
      BY <1>6 DEF DeleteQueue, LeaveHeaps
    <3>2. SumFunctionOnSet(WeightOf, Valid \ {q}) = SumFunctionOnSet(WeightOf, Valid) - WeightOf[q]
      BY <2>1, ConstantFacts, SumWith
    <3>3. QED
      BY <2>2, <3>1, <3>2 DEF Weights
  <2>5. /\ sch_heap' = Without(sch_heap, q)
        /\ ne_heap' = Without(ne_heap, q)
        /\ idle_heap' = Without(idle_heap, q)
    <3>1. V \in Nat /\ S[q] \in Nat
      BY EarlyTimes, ConstantFacts
    <3>2. /\ q \in Busy <=> mq[q] # <<>>
          /\ q \in Ready <=> mq[q] # <<>> /\ ~ (S[q] > V)
          /\ q \in Waiting <=> mq[q] # <<>> /\ S[q] > V
          /\ q \in Idle <=> mq[q] = <<>>
      BY <2>1, <3>1 DEF Busy, Ready, Waiting, Idle
    <3>3. /\ q \notin Ready => Without(sch_heap, q) = sch_heap
          /\ q \notin Waiting => Without(ne_heap, q) = ne_heap
          /\ q \notin Idle => Without(idle_heap, q) = idle_heap
      <4>1. /\ q \notin Ready => Ready \ {q} = Ready
            /\ q \notin Waiting => Waiting \ {q} = Waiting
            /\ q \notin Idle => Idle \ {q} = Idle
        OBVIOUS
      <4>2. /\ Without(sch_heap, q) = Keyed(F, Ready \ {q})
            /\ Without(ne_heap, q) = Keyed(S, Waiting \ {q})
            /\ Without(idle_heap, q) = Keyed(F, Idle \ {q})
        BY KeyedWithout DEF InHeaps
      <4>3. QED
        BY <4>1, <4>2 DEF InHeaps
    <3>4. LeaveHeaps(q)
      BY DEF DeleteQueue
    <3>5. QED
      BY <1>4, <1>6, <3>2, <3>3, <3>4 DEF LeaveHeaps
  <2>6. InHeaps'
    <3>1. /\ Without(sch_heap, q) = Keyed(F, Ready \ {q})
          /\ Without(ne_heap, q) = Keyed(S, Waiting \ {q})
          /\ Without(idle_heap, q) = Keyed(F, Idle \ {q})
      BY KeyedWithout DEF InHeaps
    <3>2. /\ \A x \in Ready \ {q} : F'[x] = F[x]
          /\ \A x \in Waiting \ {q} : S'[x] = S[x]
          /\ \A x \in Idle \ {q} : F'[x] = F[x]
      BY <1>2, <2>1 DEF Ready, Waiting, Idle, Busy
    <3>3. Keyed(F', Ready \ {q}) = Keyed(F, Ready \ {q})
      BY <3>2, KeyedSame
    <3>4. Keyed(S', Waiting \ {q}) = Keyed(S, Waiting \ {q})
      BY <3>2, KeyedSame
    <3>5. Keyed(F', Idle \ {q}) = Keyed(F, Idle \ {q})
      BY <3>2, KeyedSame
    <3>6. QED
      BY <2>3, <2>5, <3>1, <3>3, <3>4, <3>5 DEF InHeaps
  <2>7. Stamps'
    BY <1>2, <2>1, <2>2 DEF Stamps
  <2>8. QED
    BY <1>1, <2>4, <2>6, <2>7
<1>7. QED
  BY <1>5, <1>6

\* Nothing changes for a packet that finds its queue busy, or is dropped.
LEMMA WInvSame ==
  ASSUME WInv, Types', Busy' = Busy, UNCHANGED <<alive, S, F, heaps, V, wsum>>
  PROVE  WInv'
<1>1. Valid' = Valid
  BY DEF Valid
<1>2. Ready' = Ready /\ Waiting' = Waiting /\ Idle' = Idle
  BY <1>1 DEF Ready, Waiting, Idle
<1>3. QED
  BY <1>1, <1>2 DEF WInv, Stamps, InHeaps, Weights, heaps

LEMMA WInvEnqueueDrop ==
  ASSUME WInv, NoWrap, NEW q \in Queues, EnqueueDrop(q)
  PROVE  WInv'
<1>1. nextid + 1 \in 1..(MaxPkts + 1)
  BY WF2QAssumption DEF WInv, Types, EnqueueDrop
<1>2. Types'
  BY <1>1 DEF WInv, Types, EnqueueDrop, heaps
<1>3. Busy' = Busy
  BY DEF Busy, EnqueueDrop
<1>4. QED
  BY <1>2, <1>3, WInvSame DEF EnqueueDrop

Later(a, b) == IF a < b THEN b ELSE a

\* The packet that finds queue q empty gives it the times s and f.
BackloggedAt(q, len, s, f) ==
  /\ s = IF q \in Valid THEN Later(F[q], V) ELSE V
  /\ f = s + len * InvW(q) /\ s <= f
  /\ S' = [S EXCEPT ![q] = s] /\ F' = [F EXCEPT ![q] = f]
  /\ V' = V \/ (Busy = {} /\ V' = s)
  /\ Busy' = Busy \cup {q} /\ Valid' = Valid \cup {q} /\ q \notin Busy

\* wf2qp_enqueue() of a packet that finds the queue empty.
LEMMA WInvBacklogged ==
  ASSUME WInv, NoWrap, NEW q \in Queues, NEW len \in Lens, q \in alive, mq[q] = <<>>,
         Backlogged(q, len), alive' = alive,
         mq'[q] # <<>>, \A x \in Queues : x # q => mq'[x] = mq[x]
  PROVE  /\ S' \in [Queues -> Times] /\ F' \in [Queues -> Times] /\ V' \in Times
         /\ Stamps' /\ InHeaps' /\ Weights'
         /\ \E s, f \in Nat : /\ s = V \/ s = F[q]
                              /\ f <= s + len * ONE_FP
                              /\ F' = [F EXCEPT ![q] = f] /\ (V' = V \/ V' = s)
                              /\ BackloggedAt(q, len, s, f)
<1> USE DEF WInv
<1>1. /\ V \in Early /\ F \in [Queues -> Early] /\ S \in [Queues -> Early]
      /\ Early \subseteq Nat /\ Early \subseteq Times
      /\ Invalid(q) <=> q \notin Valid
  BY EarlyTimes, ConstantFacts DEF Valid
<1>2. Valid \in SUBSET Queues /\ Busy \subseteq Valid /\ q \notin Busy
  BY DEF Valid, Types, Stamps, Busy
<1>3. PICK s \in Early : /\ s = StartTime(q) /\ V <= s /\ Fits(s) /\ (s = V \/ s = F[q])
                         /\ s = IF q \in Valid THEN Later(F[q], V) ELSE V
  <2>1. Fits(V) /\ Fits(F[q])
    BY DEF NoWrap
  <2>2. CASE Invalid(q)
    BY <1>1, <2>1, <2>2 DEF StartTime
  <2>3. CASE ~ Invalid(q)
    <3>1. StartTime(q) = MAX64(F[q], V)
      BY <2>3 DEF StartTime
    <3>2. PICK k \in Early : k = F[q] /\ Fits(k)
      BY <1>1, <2>1
    <3>3. StartTime(q) = IF k < V THEN V ELSE k
      BY <1>1, <3>1, <3>2, KeyOrder
    <3>4. V \in Nat /\ k \in Nat
      BY <1>1
    <3>5. StartTime(q) = Later(F[q], V)
      BY <3>2, <3>3 DEF Later
    <3>6. QED
      BY <1>1, <2>1, <2>3, <3>2, <3>3, <3>4, <3>5
  <2>4. QED
    BY <2>2, <2>3
<1>4. PICK f \in Early : /\ f = Plus(s, len * InvW(q)) /\ s <= f /\ f <= s + len * ONE_FP
                         /\ f = s + len * InvW(q)
  <2>1. WeightOf[q] \in Nat \ {0} /\ s \in Nat
    BY <1>1, ConstantFacts
  <2>2. PICK d \in Nat : d = len * (ONE_FP \div WeightOf[q]) /\ Plus(s, d) = s + d /\ s + d \in Early
                         /\ s + d <= s + len * ONE_FP
    BY <1>3, <2>1, FitsPlus
  <2>3. s <= s + d
    BY <2>1, <2>2
  <2>4. QED
    BY <2>2, <2>3 DEF InvW
<1>5. /\ S' = [S EXCEPT ![q] = s] /\ F' = [F EXCEPT ![q] = f]
      /\ S' \in [Queues -> Early] /\ F' \in [Queues -> Early]
  BY <1>1, <1>3, <1>4 DEF Backlogged
<1>6. Busy' = Busy \cup {q} /\ Valid' = Valid \cup {q}
  <2>1. Busy' = Busy \cup {q}
    BY DEF Busy
  <2>2. S'[q] <= F'[q]
    BY <1>1, <1>4, <1>5
  <2>3. \A x \in alive : x # q => S'[x] = S[x] /\ F'[x] = F[x]
    BY <1>1, <1>5 DEF Types
  <2>4. Valid' = Valid \cup {q}
    BY <2>2, <2>3 DEF Valid
  <2>5. QED
    BY <2>1, <2>4
<1>7. Stamps'
  <2>1. \A x \in Queues : S'[x] <= F'[x] + 1
    <3> SUFFICES ASSUME NEW x \in Queues PROVE S'[x] <= F'[x] + 1
      OBVIOUS
    <3>1. CASE x = q
      <4>1. S'[x] = s /\ F'[x] = f /\ s \in Nat /\ f \in Nat
        BY <1>1, <1>5, <3>1
      <4>2. QED
        BY <1>4, <4>1
    <3>2. CASE x # q
      BY <1>1, <1>5, <3>2 DEF Stamps
    <3>3. QED
      BY <3>1, <3>2
  <2>2. QED
    BY <1>2, <1>6, <2>1 DEF Stamps
<1>8. Weights'
  <2>1. CASE Invalid(q)
    <3>1. wsum' = wsum + WeightOf[q] /\ q \notin Valid
      BY <1>1, <2>1 DEF Backlogged
    <3>2. SumFunctionOnSet(WeightOf, Valid \cup {q}) = SumFunctionOnSet(WeightOf, Valid) + WeightOf[q]
      BY <1>2, <3>1, ConstantFacts, SumWith
    <3>3. QED
      BY <1>6, <3>1, <3>2 DEF Weights
  <2>2. CASE ~ Invalid(q)
    <3>1. wsum' = wsum /\ Valid \cup {q} = Valid
      BY <1>1, <2>2 DEF Backlogged
    <3>2. QED
      BY <1>6, <3>1 DEF Weights
  <2>3. QED
    BY <2>1, <2>2
<1>9. idle_heap' = Keyed(F', Idle')
  <2>1. Idle' = Idle \ {q}
    BY <1>6 DEF Idle
  <2>2. Keyed(F', Idle \ {q}) = Keyed(F, Idle \ {q})
    <3>1. \A x \in Idle \ {q} : F'[x] = F[x]
      BY <1>2, <1>5 DEF Idle
    <3>2. QED
      BY <3>1, KeyedSame
  <2>3. idle_heap' = Keyed(F, Idle \ {q})
    <3>1. CASE Invalid(q)
      <4>1. Idle \ {q} = Idle
        BY <1>1, <3>1 DEF Idle
      <4>2. QED
        BY <3>1, <4>1 DEF Backlogged, InHeaps
    <3>2. CASE ~ Invalid(q)
      BY <3>2, KeyedWithout DEF Backlogged, InHeaps
    <3>3. QED
      BY <3>1, <3>2
  <2>4. QED
    BY <2>1, <2>2, <2>3
<1>10. /\ V' = BumpV(s) /\ V' \in Early /\ V <= V' /\ V' <= s
       /\ V' = V \/ Busy = {}
       /\ V' = V \/ V' = s
  <2>1. V' = BumpV(s)
    BY <1>3 DEF Backlogged
  <2>2. V \in Nat /\ s \in Nat
    BY <1>1
  <2>3. CASE ne_heap = {} /\ sch_heap = {}
    <3>1. Ready = {} /\ Waiting = {}
      BY <2>3, KeyedEmpty DEF InHeaps
    <3>2. \A x \in Queues : S[x] \in Nat
      BY <1>1
    <3>3. Busy = {}
      BY <2>2, <3>1, <3>2 DEF Ready, Waiting, Busy
    <3>4. V' = MAX64(s, V)
      BY <2>1, <2>3 DEF BumpV
    <3>5. V' = s
      BY <1>1, <1>3, <2>2, <3>4, KeyOrder
    <3>6. QED
      BY <1>3, <2>1, <2>2, <3>3, <3>5
  <2>4. CASE ~ (ne_heap = {} /\ sch_heap = {})
    <3>1. V' = V
      BY <2>1, <2>4 DEF BumpV
    <3>2. QED
      BY <1>1, <1>3, <2>1, <2>2, <3>1
  <2>5. QED
    BY <2>3, <2>4
<1>11. \A x \in Busy : x # q /\ S'[x] = S[x] /\ F'[x] = F[x] /\ (S[x] <= V' <=> S[x] <= V)
  BY <1>2, <1>5, <1>10
<1>12. /\ Ready' = IF s <= V' THEN Ready \cup {q} ELSE Ready
       /\ Waiting' = IF s <= V' THEN Waiting ELSE Waiting \cup {q}
  <2>1. S'[q] = s
    BY <1>1, <1>5
  <2>2. V \in Nat /\ V' \in Nat /\ s \in Nat /\ \A x \in Busy : S[x] \in Nat
    BY <1>1, <1>2, <1>3, <1>10
  <2>3. Ready' = {x \in Busy \cup {q} : S'[x] <= V'} /\ Waiting' = {x \in Busy \cup {q} : S'[x] > V'}
    BY <1>6 DEF Ready, Waiting
  <2>4. \A x \in Busy : (S'[x] <= V' <=> S[x] <= V) /\ (S'[x] > V' <=> S[x] > V)
    <3> SUFFICES ASSUME NEW x \in Busy PROVE (S'[x] <= V' <=> S[x] <= V) /\ (S'[x] > V' <=> S[x] > V)
      OBVIOUS
    <3>1. S'[x] = S[x] /\ S[x] \in Nat /\ (S[x] <= V' <=> S[x] <= V)
      BY <1>11, <2>2
    <3>2. QED
      BY <2>2, <3>1
  <2>5. CASE s <= V'
    <3>1. ~ (S'[q] > V') /\ S'[q] <= V'
      BY <2>1, <2>2, <2>5
    <3>2. QED
      BY <2>3, <2>4, <2>5, <3>1 DEF Ready, Waiting
  <2>6. CASE ~ (s <= V')
    <3>1. S'[q] > V' /\ ~ (S'[q] <= V')
      BY <2>1, <2>2, <2>6
    <3>2. QED
      BY <2>3, <2>4, <2>6, <3>1 DEF Ready, Waiting
  <2>7. QED
    BY <2>5, <2>6
<1>13. Keyed(F', Ready) = Keyed(F, Ready) /\ Keyed(S', Waiting) = Keyed(S, Waiting)
  <2>1. (\A x \in Ready : F'[x] = F[x]) /\ (\A x \in Waiting : S'[x] = S[x])
    BY <1>11 DEF Ready, Waiting
  <2>2. Keyed(F', Ready) = Keyed(F, Ready)
    BY <2>1, KeyedSame
  <2>3. Keyed(S', Waiting) = Keyed(S, Waiting)
    BY <2>1, KeyedSame
  <2>4. QED
    BY <2>2, <2>3
<1>14. DN_KEY_LT(BumpV(s), s) <=> ~ (s <= V')
  <2>1. DN_KEY_LT(V', s) <=> V' < s
    BY <1>3, <1>10, KeyOrder
  <2>2. V' \in Nat /\ s \in Nat
    BY <1>1, <1>3, <1>10
  <2>3. QED
    BY <1>10, <2>1, <2>2
<1>15. sch_heap' = Keyed(F', Ready') /\ ne_heap' = Keyed(S', Waiting')
  <2>1. CASE s <= V'
    <3>1. sch_heap' = sch_heap \cup {Entry(f, q)} /\ ne_heap' = ne_heap
      BY <1>3, <1>4, <1>14, <2>1 DEF Backlogged
    <3>2. F'[q] = f
      BY <1>1, <1>5
    <3>3. Keyed(F', Ready) \cup {Entry(f, q)} = Keyed(F', Ready \cup {q})
      BY <3>2, KeyedPlus
    <3>4. QED
      BY <1>12, <1>13, <2>1, <3>1, <3>3 DEF InHeaps
  <2>2. CASE ~ (s <= V')
    <3>1. ne_heap' = ne_heap \cup {Entry(s, q)} /\ sch_heap' = sch_heap
      BY <1>3, <1>4, <1>14, <2>2 DEF Backlogged
    <3>2. S'[q] = s
      BY <1>1, <1>5
    <3>3. Keyed(S', Waiting) \cup {Entry(s, q)} = Keyed(S', Waiting \cup {q})
      BY <3>2, KeyedPlus
    <3>4. QED
      BY <1>12, <1>13, <2>2, <3>1, <3>3 DEF InHeaps
  <2>3. QED
    BY <2>1, <2>2
<1>16. f <= s + len * ONE_FP /\ s \in Nat /\ f \in Nat
  BY <1>1, <1>4
<1>17. BackloggedAt(q, len, s, f)
  BY <1>2, <1>3, <1>4, <1>5, <1>6, <1>10 DEF BackloggedAt
<1>18. QED
  BY <1>1, <1>3, <1>5, <1>7, <1>8, <1>9, <1>10, <1>15, <1>16, <1>17 DEF InHeaps

LEMMA WInvEnqueue ==
  ASSUME WInv, NoWrap, NEW q \in Queues, NEW len \in Lens, Enqueue(q, len)
  PROVE  WInv'
<1> USE DEF WInv
<1>1. nextid + 1 \in 1..(MaxPkts + 1) /\ [id |-> nextid, len |-> len] \in Pkts
  BY WF2QAssumption DEF Types, Enqueue, Pkts
<1>2. PICK p \in Pkts : mq' = [mq EXCEPT ![q] = Append(@, p)]
  BY <1>1 DEF Enqueue
<1>3. /\ mq' \in [Queues -> Seq(Pkts)]
      /\ mq'[q] # <<>> /\ \A x \in Queues : x # q => mq'[x] = mq[x]
  <2>1. PICK c \in Seq(Pkts) : c = mq[q]
    BY DEF Types
  <2>2. Append(c, p) \in Seq(Pkts) /\ Append(c, p) # <<>>
    BY <2>1
  <2>3. QED
    BY <1>2, <2>1, <2>2 DEF Types
<1>4. CASE mq[q] = <<>>
  <2>1. Backlogged(q, len) /\ q \in alive /\ alive' = alive
    BY <1>4 DEF Enqueue
  <2>2. /\ S' \in [Queues -> Times] /\ F' \in [Queues -> Times] /\ V' \in Times
        /\ Stamps' /\ InHeaps' /\ Weights'
    BY <1>3, <1>4, <2>1, WInvBacklogged
  <2>3. Types'
    BY <1>1, <1>3, <2>2 DEF Types, Enqueue
  <2>4. QED
    BY <2>2, <2>3
<1>5. CASE mq[q] # <<>>
  <2>1. UNCHANGED <<alive, S, F, heaps, V, wsum>> /\ Types'
    BY <1>1, <1>3, <1>5 DEF Enqueue, Types
  <2>2. Busy' = Busy
    BY <1>3, <1>5 DEF Busy
  <2>3. QED
    BY <2>1, <2>2, WInvSame
<1>6. QED
  BY <1>4, <1>5

LEMMA NothingBusy ==
  ASSUME WInv, NoWrap
  PROVE  NothingBacklogged <=> Busy = {}
<1>1. NothingBacklogged <=> Ready = {} /\ Waiting = {}
  BY KeyedEmpty DEF NothingBacklogged, WInv, InHeaps
<1>2. V \in Nat /\ \A x \in Queues : S[x] \in Nat
  BY EarlyTimes, ConstantFacts DEF WInv
<1>3. Busy = Ready \cup Waiting
  BY <1>2 DEF Busy, Ready, Waiting
<1>4. QED
  BY <1>1, <1>3

LEMMA WInvDequeueIdle ==
  ASSUME WInv, NoWrap, DequeueIdle
  PROVE  WInv'
<1> USE DEF WInv
<1>1. /\ S \in [Queues -> Early] /\ Early \subseteq Times /\ 0 \in Times /\ Early \subseteq Nat
      /\ F \in [Queues -> Early]
      /\ \A x \in Queues : F[x] + 1 \in Early /\ Plus(F[x], 1) = F[x] + 1
  BY EarlyTimes, ConstantFacts
<1>2. Busy = {} /\ Valid \in SUBSET Queues
  BY NothingBusy DEF DequeueIdle, Valid, Types
<1>3. \A x \in Queues : In(x, idle_heap) <=> x \in Valid
  <2>1. \A x : In(x, Keyed(F, Idle)) <=> x \in Idle
    BY KeyedIn
  <2>2. QED
    BY <1>2, <2>1 DEF InHeaps, Idle
<1>4. /\ S' = [x \in Queues |-> IF x \in Valid THEN F[x] + 1 ELSE S[x]]
      /\ F' = F /\ alive' = alive /\ mq' = mq /\ V' = 0 /\ wsum' = 0
      /\ sch_heap' = {} /\ ne_heap' = {} /\ idle_heap' = {}
  BY <1>1, <1>3 DEF DequeueIdle, NothingBacklogged
<1>5. S' \in [Queues -> Times]
  BY <1>1, <1>4
<1>6. Types'
  BY <1>1, <1>4, <1>5 DEF Types, DequeueIdle
<1>7. Valid' = {} /\ Busy' = {}
  <2>1. ASSUME NEW x \in alive PROVE ~ (S'[x] <= F'[x])
    <3>1. x \in Queues /\ F[x] \in Nat /\ S[x] \in Nat
      BY <1>1 DEF Types
    <3>2. CASE x \in Valid
      BY <1>4, <3>1, <3>2
    <3>3. CASE x \notin Valid
      BY <1>4, <3>1, <3>3 DEF Valid
    <3>4. QED
      BY <3>2, <3>3
  <2>2. Valid' = {}
    BY <1>4, <2>1 DEF Valid
  <2>3. QED
    BY <1>2, <1>4, <2>2 DEF Busy
<1>8. Ready' = {} /\ Waiting' = {} /\ Idle' = {}
  BY <1>7 DEF Ready, Waiting, Idle
<1>9. InHeaps'
  BY <1>4, <1>8, KeyedEmpty DEF InHeaps
<1>10. Weights'
  BY <1>4, <1>7, ConstantFacts, SumFacts DEF Weights
<1>11. Stamps'
  <2>1. ASSUME NEW x \in Queues PROVE S'[x] <= F'[x] + 1
    <3>1. F[x] \in Nat /\ S[x] \in Nat /\ S[x] <= F[x] + 1
      BY <1>1 DEF Stamps
    <3>2. QED
      BY <1>4, <3>1
  <2>2. QED
    BY <1>7, <2>1 DEF Stamps
<1>12. QED
  BY <1>6, <1>9, <1>10, <1>11

\* What wf2qp_dequeue() does with a backlog: queue q is served, the queues of G (one
\* or none) leave the idle heap, and v is the virtual time when q is served.
DequeueOf(q, G, v, v1, w, rest, f) ==
  LET s1 == Keyed(F', {x \in Busy : S[x] <= v /\ x # q} \cup (IF rest # <<>> /\ F[q] <= v1 THEN {q} ELSE {}))
      n1 == Keyed(S', {x \in Busy : S[x] > v} \cup (IF rest # <<>> /\ F[q] > v1 THEN {q} ELSE {}))
      v2 == Advanced(s1, n1, v1)
  IN  /\ q \in Busy /\ S[q] <= v /\ \A x \in Busy : S[x] <= v => F[q] <= F[x]
      /\ G \subseteq Idle /\ (G = {} \/ \E x \in Idle : G = {x}) /\ \A x \in G : F[x] < V
      /\ v \in Early /\ V <= v /\ (v = V \/ \E x \in Busy : v = S[x])
      /\ v = V \/ \A x \in Busy : v <= S[x]
      /\ v1 \in Early /\ v <= v1
      /\ w = SumFunctionOnSet(WeightOf, Valid \ G) /\ w \in Nat \ {0}
      /\ rest = Tail(mq[q]) /\ rest \in Seq(Pkts) /\ Head(mq[q]) \in Pkts
      /\ v1 = v + Head(mq[q]).len * InvWsum(w)
      /\ f = IF rest = <<>> THEN F[q] ELSE F[q] + Head(rest).len * InvW(q)
      /\ f \in Early /\ F[q] <= f
      /\ ret' = Head(mq[q]) /\ mq' = [mq EXCEPT ![q] = rest]
      /\ F' = [F EXCEPT ![q] = f]
      /\ S' = [x \in Queues |-> IF x = q THEN F[q] ELSE IF x \in G THEN F[x] + 1 ELSE S[x]]
      /\ V' = v2 /\ wsum' = w /\ alive' = alive /\ nextid' = nextid
      /\ sch_heap' = s1 \cup Moved(Eligible(n1, v2), F')
      /\ ne_heap' = n1 \ Eligible(n1, v2)
      /\ idle_heap' = Keyed(F, Idle \ G) \cup (IF rest = <<>> THEN {Entry(F[q], q)} ELSE {})
      /\ lead' = Leads(q, Head(mq[q]).len, rest) /\ lead' \in [Queues -> [Queues -> Int]]
      /\ cut' = cut

\* Expired: an entry of the idle heap, or none.
LEMMA ExpiredOne ==
  ASSUME WInv, NoWrap, NEW gone \in Expired
  PROVE  \/ gone = {}
         \/ \E x \in Idle : /\ gone = {Entry(F[x], x)} /\ F[x] < V
                            /\ (CHOOSE e \in gone : TRUE).object = x
<1>1. CASE gone # {}
  <2>01. \E y \in Tops(idle_heap) : DN_KEY_LT(y.key, V)
    BY <1>1 DEF Expired
  <2>02. PICK y \in Tops(idle_heap) : DN_KEY_LT(y.key, V)
    BY <2>01
  <2>1. PICK e \in Tops(idle_heap) : gone = {e}
    BY <1>1, <2>01 DEF Expired
  <2>2. e \in Keyed(F, Idle)
    BY <2>1 DEF Tops, WInv, InHeaps
  <2>3. e.object \in Idle /\ e = Entry(F[e.object], e.object)
    BY <2>2, KeyedMember
  <2>4. (CHOOSE d \in gone : TRUE) = e
    BY <2>1
  <2>5. /\ V \in Early /\ F \in [Queues -> Early] /\ Early \subseteq Nat
        /\ Idle \subseteq Queues
    BY EarlyTimes, ConstantFacts DEF WInv, Types, Idle, Valid
  <2>6. y \in Keyed(F, Idle)
    BY <2>02 DEF Tops, WInv, InHeaps
  <2>7. PICK k \in Early, j \in Early : k = e.key /\ j = y.key /\ k = F[e.object]
    BY <2>3, <2>5, <2>6, KeyedMember DEF Entry
  <2>8. ~ DN_KEY_LT(j, k)
    BY <2>02, <2>1, <2>7 DEF Tops
  <2>9. ~ (j < k) /\ j < V
    BY <2>02, <2>5, <2>7, <2>8, KeyOrder
  <2>10. F[e.object] < V
    BY <2>5, <2>7, <2>9
  <2>11. QED
    BY <2>1, <2>3, <2>4, <2>10
<1>2. QED
  BY <1>1

LEMMA LeadsTyped ==
  ASSUME Types, NEW q \in Queues, NEW len \in Lens, NEW rest
  PROVE  Leads(q, len, rest) \in [Queues -> [Queues -> Int]]
<1>1. ASSUME NEW a \in Queues, NEW b \in Queues
      PROVE  Leads(q, len, rest)[a][b] \in Int
  <2>1. lead[a][b] \in Int /\ WeightOf[a] \in Int /\ WeightOf[b] \in Int /\ len \in Int
    BY ConstantFacts DEF Types
  <2>2. len * WeightOf[b] \in Int /\ len * WeightOf[a] \in Int
    BY <2>1
  <2>3. /\ lead[a][b] + len * WeightOf[b] \in Int
        /\ lead[a][b] - len * WeightOf[a] \in Int
    BY <2>1, <2>2
  <2>4. QED
    BY <2>1, <2>3 DEF Leads
<1>2. QED
  BY <1>1 DEF Leads

LEMMA DequeueParts ==
  ASSUME WInv, NoWrap, Dequeue
  PROVE  \E q, G, v, v1, w, rest, f : DequeueOf(q, G, v, v1, w, rest, f)
<1> USE DEF WInv
<1>1. /\ V \in Early /\ F \in [Queues -> Early] /\ S \in [Queues -> Early]
      /\ Early \subseteq Nat
      /\ \A x \in Queues : F[x] + 1 \in Early /\ Plus(F[x], 1) = F[x] + 1
  BY EarlyTimes, ConstantFacts
<1>101. PICK gone \in Expired :
       LET idle == idle_heap \ gone
           w == IF gone = {} THEN wsum
                ELSE wsum - WeightOf[(CHOOSE e \in gone : TRUE).object]
           v == Advanced(sch_heap, ne_heap, V)
           s == sch_heap \cup Moved(Eligible(ne_heap, v), F)
           n == ne_heap \ Eligible(ne_heap, v)
       IN  \E top \in Tops(s) :
             /\ Served(top.object, s, n, v, w, idle)
             /\ wsum' = w
             /\ S' = [q \in Queues |-> IF q = top.object THEN F[q]
                                       ELSE IF In(q, gone) THEN Plus(F[q], 1)
                                       ELSE S[q]]
  BY Zenon DEF Dequeue
<1> DEFINE idle == idle_heap \ gone
           w == IF gone = {} THEN wsum
                ELSE wsum - WeightOf[(CHOOSE e \in gone : TRUE).object]
           v == Advanced(sch_heap, ne_heap, V)
           s == sch_heap \cup Moved(Eligible(ne_heap, v), F)
           n == ne_heap \ Eligible(ne_heap, v)
<1>102. PICK top \in Tops(s) :
          /\ Served(top.object, s, n, v, w, idle)
          /\ wsum' = w
          /\ S' = [q \in Queues |-> IF q = top.object THEN F[q]
                                    ELSE IF In(q, gone) THEN Plus(F[q], 1)
                                    ELSE S[q]]
  BY <1>101, Zenon
<1>2. /\ gone \in Expired
      /\ v = Advanced(sch_heap, ne_heap, V)
      /\ s = sch_heap \cup Moved(Eligible(ne_heap, v), F)
      /\ n = ne_heap \ Eligible(ne_heap, v)
      /\ w = IF gone = {} THEN wsum
             ELSE wsum - WeightOf[(CHOOSE e \in gone : TRUE).object]
      /\ idle = idle_heap \ gone
      /\ top \in Tops(s)
      /\ Served(top.object, s, n, v, w, idle)
      /\ wsum' = w
      /\ S' = [q \in Queues |-> IF q = top.object THEN F[q]
                                ELSE IF In(q, gone) THEN Plus(F[q], 1)
                                ELSE S[q]]
  BY <1>102, Zenon
<1> HIDE DEF idle, w, v, s, n
<1>3. /\ Busy \in SUBSET Queues /\ Valid \in SUBSET Queues /\ Busy \subseteq Valid
      /\ Ready \in SUBSET Queues /\ Waiting \in SUBSET Queues /\ Ready \cup Waiting = Busy
      /\ Idle \subseteq Valid
  <2>1. \A x \in Queues : S[x] \in Nat /\ V \in Nat
    BY <1>1
  <2>2. QED
    BY <2>1 DEF Busy, Valid, Ready, Waiting, Idle, Types, Stamps
<1>4. /\ v \in Early /\ V <= v /\ (v = V \/ \E x \in Waiting : v = S[x])
      /\ v = V \/ \A x \in Busy : v <= S[x]
      /\ s = Keyed(F, {x \in Busy : S[x] <= v})
      /\ n = Keyed(S, {x \in Busy : S[x] > v})
  <2>1. \A x \in Ready : S[x] <= V
    BY DEF Ready
  <2>2. v = Advanced(Keyed(F, Ready), Keyed(S, Waiting), V)
    BY <1>2 DEF InHeaps
  <2>3. /\ v \in Early /\ V <= v
        /\ v = V \/ (Ready = {} /\ (\E x \in Waiting : v = S[x]) /\ \A x \in Waiting : v <= S[x])
    <3>1. v \in Early /\ V <= v /\ Jumped(v, V, Ready, Waiting, S)
      BY <1>1, <1>3, <2>2, AdvanceTime
    <3>2. QED
      BY <3>1 DEF Jumped
  <2>4. \A x \in Ready : S[x] <= v
    <3> SUFFICES ASSUME NEW x \in Ready PROVE S[x] <= v
      OBVIOUS
    <3>1. S[x] \in Nat /\ V \in Nat /\ v \in Nat
      BY <1>1, <1>3, <2>3
    <3>2. QED
      BY <2>1, <2>3, <3>1
  <2>5. /\ Joined(Keyed(F, Ready), Keyed(S, Waiting), v, F) = Keyed(F, UpTo(Ready \cup Waiting, S, v))
        /\ Left(Keyed(S, Waiting), v) = Keyed(S, Beyond(Ready \cup Waiting, S, v))
    <3>1. Ready \in SUBSET Queues /\ Waiting \in SUBSET Queues
      BY <1>3
    <3>2. F \in [Queues -> Early] /\ S \in [Queues -> Early] /\ v \in Early
      BY <1>1, <2>3
    <3>3. QED
      BY <2>4, <3>1, <3>2, AdvanceKeyed
  <2>6. QED
    BY <1>2, <1>3, <2>3, <2>5 DEF InHeaps, UpTo, Beyond, Joined, Left
<1>5. PICK q \in Busy : q = top.object /\ S[q] <= v /\ top = Entry(F[q], q)
  <2>1. top \in Keyed(F, {x \in Busy : S[x] <= v})
    BY <1>2, <1>4 DEF Tops
  <2>2. top.object \in {x \in Busy : S[x] <= v} /\ top = Entry(F[top.object], top.object)
    BY <2>1, KeyedMember
  <2>3. QED
    BY <2>2
<1>51. \A x \in Busy : S[x] <= v => F[q] <= F[x]
  <2> SUFFICES ASSUME NEW x \in Busy, S[x] <= v PROVE F[q] <= F[x]
    OBVIOUS
  <2>1. Entry(F[x], x) \in s
    BY <1>4 DEF Keyed
  <2>2. ~ DN_KEY_LT(F[x], F[q])
    BY <1>2, <1>5, <2>1 DEF Tops, Entry
  <2>3. PICK j \in Early, k \in Early : j = F[x] /\ k = F[q]
    BY <1>1, <1>3
  <2>4. ~ (j < k)
    BY <2>2, <2>3, KeyOrder
  <2>5. j \in Nat /\ k \in Nat
    BY <1>1
  <2>6. QED
    BY <2>3, <2>4, <2>5
<1>6. PICK G : /\ G \subseteq Idle /\ (G = {} \/ \E x \in Idle : G = {x})
               /\ idle = Keyed(F, Idle \ G) /\ (\A x \in G : F[x] < V)
               /\ w = SumFunctionOnSet(WeightOf, Valid \ G)
               /\ \A x : In(x, gone) <=> x \in G
  <2>1. CASE gone = {}
    <3>1. idle = Keyed(F, Idle \ {}) /\ w = SumFunctionOnSet(WeightOf, Valid \ {})
      <4>1. Idle \ {} = Idle /\ Valid \ {} = Valid
        OBVIOUS
      <4>2. QED
        BY <1>2, <2>1, <4>1 DEF InHeaps, Weights
    <3>2. \A x : In(x, gone) <=> x \in {}
      BY <2>1 DEF In
    <3>3. PICK G : G = {}
      OBVIOUS
    <3>4. G \subseteq Idle /\ idle = Keyed(F, Idle \ G) /\ w = SumFunctionOnSet(WeightOf, Valid \ G)
          /\ \A x : In(x, gone) <=> x \in G
      BY <3>1, <3>2, <3>3
    <3>5. QED
      BY <3>3, <3>4
  <2>2. ASSUME NEW x \in Idle, gone = {Entry(F[x], x)}, (CHOOSE e \in gone : TRUE).object = x
        PROVE  /\ idle = Keyed(F, Idle \ {x})
               /\ w = SumFunctionOnSet(WeightOf, Valid \ {x})
               /\ \A y : In(y, gone) <=> y \in {x}
    <3>1. idle = Keyed(F, Idle \ {x})
      BY <1>2, <2>2, KeyedMinus DEF InHeaps
    <3>2. w = wsum - WeightOf[x]
      BY <1>2, <2>2
    <3>3. SumFunctionOnSet(WeightOf, Valid \ {x}) = SumFunctionOnSet(WeightOf, Valid) - WeightOf[x]
      BY <1>3, ConstantFacts, SumWith
    <3>4. \A y : In(y, gone) <=> y \in {x}
      BY <2>2 DEF In, Entry
    <3>5. QED
      BY <3>1, <3>2, <3>3, <3>4 DEF Weights
  <2>3. CASE gone # {}
    <3>1. PICK x \in Idle : gone = {Entry(F[x], x)} /\ F[x] < V /\ (CHOOSE e \in gone : TRUE).object = x
      BY <1>2, <2>3, ExpiredOne
    <3>2. {x} \subseteq Idle /\ (\E y \in Idle : {x} = {y})
      OBVIOUS
    <3>3. /\ idle = Keyed(F, Idle \ {x})
          /\ w = SumFunctionOnSet(WeightOf, Valid \ {x})
          /\ \A y : In(y, gone) <=> y \in {x}
      BY <2>2, <3>1
    <3>4. PICK G : G = {x}
      OBVIOUS
    <3>5. QED
      BY <3>1, <3>2, <3>3, <3>4
  <2>4. QED
    BY <2>1, <2>3
<1>7. w \in Nat \ {0}
  <2>1. q \in Valid \ G /\ Valid \ G \in SUBSET Queues
    BY <1>3, <1>5, <1>6 DEF Idle
  <2>2. PICK T \in SUBSET Queues : T = Valid \ G /\ q \in T
    BY <2>1
  <2>3. T \ {q} \in SUBSET Queues
    OBVIOUS
  <2>4. /\ SumFunctionOnSet(WeightOf, T \ {q}) \in Nat
        /\ \A x \in T : SumFunctionOnSet(WeightOf, T) = WeightOf[x] + SumFunctionOnSet(WeightOf, T \ {x})
    BY <2>3, ConstantFacts, SumFacts
  <2>5. WeightOf[q] \in Nat \ {0}
    BY <2>2, ConstantFacts
  <2>6. w = WeightOf[q] + SumFunctionOnSet(WeightOf, T \ {q})
    BY <1>6, <2>2, <2>4
  <2>7. QED
    BY <2>4, <2>5, <2>6
<1>8. PICK rest : rest = Tail(mq[q]) /\ rest \in Seq(Pkts) /\ Head(mq[q]) \in Pkts
                  /\ (rest # <<>> => Head(rest) \in Pkts)
  <2>1. PICK c \in Seq(Pkts) : c = mq[q] /\ c # <<>>
    BY <1>3, <1>5 DEF Busy, Types
  <2>2. Tail(c) \in Seq(Pkts) /\ Head(c) \in Pkts
    BY <2>1
  <2>3. Tail(c) # <<>> => Head(Tail(c)) \in Pkts
    BY <2>2
  <2>4. QED
    BY <2>1, <2>2, <2>3
<1>9. Fits(v) /\ Fits(F[q]) /\ v \in Nat /\ F[q] \in Nat
  <2>1. v \in Nat /\ F[q] \in Nat /\ Fits(F[q]) /\ Fits(V)
    BY <1>1, <1>3, <1>4, <1>5 DEF NoWrap
  <2>2. ASSUME NEW x \in Waiting, v = S[x] PROVE Fits(v)
    <3>1. S[x] <= F[x] /\ Fits(F[x]) /\ F[x] \in Nat
      BY <1>1, <1>3 DEF Valid, NoWrap
    <3>2. QED
      BY <2>1, <2>2, <3>1, FitsLess
  <2>3. QED
    BY <1>4, <2>1, <2>2
<1>10. PICK v1 \in Early : /\ v1 = Plus(v, Head(mq[q]).len * InvWsum(w))
                           /\ v1 = v + Head(mq[q]).len * InvWsum(w) /\ v <= v1
  <2>1. Head(mq[q]).len \in Lens
    BY <1>8 DEF Pkts
  <2>2. PICK l \in Lens : l = Head(mq[q]).len
    BY <2>1
  <2>3. PICK d \in Nat : d = l * (ONE_FP \div w) /\ Plus(v, d) = v + d /\ v + d \in Early
    BY <1>7, <1>9, FitsPlus
  <2>4. v <= v + d
    BY <1>9
  <2>5. QED
    BY <2>2, <2>3, <2>4 DEF InvWsum
<1>11. PICK f \in Early : /\ f = IF rest = <<>> THEN F[q] ELSE Plus(F[q], Head(rest).len * InvW(q))
                          /\ f = IF rest = <<>> THEN F[q] ELSE F[q] + Head(rest).len * InvW(q)
                          /\ F[q] <= f
  <2>1. CASE rest = <<>>
    <3>1. F[q] \in Early /\ F[q] <= F[q]
      BY <1>1, <1>3, <1>5, <1>9
    <3>2. QED
      BY <2>1, <3>1
  <2>2. CASE rest # <<>>
    <3>1. Head(rest).len \in Lens
      BY <1>8, <2>2 DEF Pkts
    <3>2. PICK l \in Lens : l = Head(rest).len
      BY <3>1
    <3>3. WeightOf[q] \in Nat \ {0}
      BY <1>3, <1>5, ConstantFacts
    <3>4. PICK d \in Nat : d = l * (ONE_FP \div WeightOf[q]) /\ Plus(F[q], d) = F[q] + d
                           /\ F[q] + d \in Early
      BY <1>9, <3>3, FitsPlus
    <3>5. F[q] <= F[q] + d
      BY <1>9
    <3>6. QED
      BY <2>2, <3>2, <3>4, <3>5 DEF InvW
  <2>3. QED
    BY <2>1, <2>2
<1>12. DN_KEY_LT(v1, F[q]) <=> F[q] > v1
  <2>1. F[q] \in Early
    BY <1>1, <1>3, <1>5
  <2>2. DN_KEY_LT(v1, F[q]) <=> v1 < F[q]
    BY <2>1, KeyOrder
  <2>3. v1 \in Nat /\ F[q] \in Nat
    BY <1>1, <2>1
  <2>4. QED
    BY <2>2, <2>3
<1> DEFINE now == rest # <<>> /\ ~ DN_KEY_LT(v1, F[q])
           later == rest # <<>> /\ DN_KEY_LT(v1, F[q])
           s1 == Without(s, q) \cup (IF now THEN {Entry(f, q)} ELSE {})
           n1 == n \cup (IF later THEN {Entry(F[q], q)} ELSE {})
           v2 == Advanced(s1, n1, v1)
<1>13. /\ ret' = Head(mq[q]) /\ mq' = [mq EXCEPT ![q] = rest] /\ F' = [F EXCEPT ![q] = f]
       /\ V' = v2
       /\ sch_heap' = s1 \cup Moved(Eligible(n1, v2), F')
       /\ ne_heap' = n1 \ Eligible(n1, v2)
       /\ idle_heap' = idle \cup (IF rest = <<>> THEN {Entry(F[q], q)} ELSE {})
       /\ lead' = Leads(q, Head(mq[q]).len, rest)
  <2>1. Served(q, s, n, v, w, idle)
    BY <1>2, <1>5
  <2>2. rest = Tail(mq[q]) /\ v1 = Plus(v, Head(mq[q]).len * InvWsum(w))
        /\ f = IF rest = <<>> THEN F[q] ELSE Plus(F[q], Head(rest).len * InvW(q))
    BY <1>8, <1>10, <1>11
  <2>3. QED
    BY <2>1, <2>2 DEF Served
<1>131. /\ now <=> rest # <<>> /\ ~ DN_KEY_LT(v1, F[q])
        /\ later <=> rest # <<>> /\ DN_KEY_LT(v1, F[q])
        /\ s1 = Without(s, q) \cup (IF now THEN {Entry(f, q)} ELSE {})
        /\ n1 = n \cup (IF later THEN {Entry(F[q], q)} ELSE {})
        /\ v2 = Advanced(s1, n1, v1)
  OBVIOUS
<1> HIDE DEF now, later, s1, n1, v2
<1>14. S' = [x \in Queues |-> IF x = q THEN F[q] ELSE IF x \in G THEN F[x] + 1 ELSE S[x]]
  <2>1. \A x \in Queues : (IF x = top.object THEN F[x] ELSE IF In(x, gone) THEN Plus(F[x], 1) ELSE S[x])
                          = IF x = q THEN F[q] ELSE IF x \in G THEN F[x] + 1 ELSE S[x]
    BY <1>1, <1>5, <1>6
  <2>2. QED
    BY <1>2, <2>1
<1>15. s1 = Keyed(F', {x \in Busy : S[x] <= v /\ x # q} \cup (IF rest # <<>> /\ F[q] <= v1 THEN {q} ELSE {}))
  <2>1. PICK R : R = {x \in Busy : S[x] <= v}
    OBVIOUS
  <2>2. Without(s, q) = Keyed(F, R \ {q})
    BY <1>4, <2>1, KeyedWithout
  <2>3. Keyed(F', R \ {q}) = Keyed(F, R \ {q})
    <3>1. PICK T : T = R \ {q}
      OBVIOUS
    <3>2. \A x \in T : F'[x] = F[x]
      BY <1>1, <1>3, <1>13, <2>1, <3>1
    <3>3. Keyed(F', T) = Keyed(F, T)
      BY <3>2, KeyedSame
    <3>4. QED
      BY <3>1, <3>3
  <2>4. R \ {q} = {x \in Busy : S[x] <= v /\ x # q}
    BY <2>1
  <2>5. now <=> rest # <<>> /\ F[q] <= v1
    <3>1. F[q] \in Nat /\ v1 \in Nat
      BY <1>1, <1>9
    <3>2. QED
      BY <1>12, <1>131, <3>1
  <2>6. F'[q] = f
    BY <1>1, <1>3, <1>5, <1>13
  <2>7. Keyed(F', R \ {q}) \cup {Entry(f, q)} = Keyed(F', (R \ {q}) \cup {q})
    <3>1. \A g, k : k = g[q] => Keyed(g, R \ {q}) \cup {Entry(k, q)} = Keyed(g, (R \ {q}) \cup {q})
      BY KeyedPlus
    <3>2. QED
      BY <2>6, <3>1
  <2>8. CASE now
    BY <1>131, <2>2, <2>3, <2>4, <2>5, <2>7, <2>8
  <2>9. CASE ~ now
    <3>1. s1 = Keyed(F', R \ {q})
      BY <1>131, <2>2, <2>3, <2>9
    <3>2. (R \ {q}) \cup {} = R \ {q}
      OBVIOUS
    <3>3. QED
      BY <2>4, <2>5, <2>9, <3>1, <3>2
  <2>10. QED
    BY <2>8, <2>9
<1>16. n1 = Keyed(S', {x \in Busy : S[x] > v} \cup (IF rest # <<>> /\ F[q] > v1 THEN {q} ELSE {}))
  <2>1. PICK R : R = {x \in Busy : S[x] > v}
    OBVIOUS
  <2>2. \A x \in R : x \in Queues /\ x # q /\ x \notin G
    <3>1. S[q] \in Nat /\ v \in Nat
      BY <1>1, <1>3, <1>4, <1>5
    <3>2. QED
      BY <1>3, <1>5, <1>6, <2>1, <3>1 DEF Idle
  <2>3. Keyed(S', R) = Keyed(S, R)
    <3>1. \A x \in R : S'[x] = S[x]
      BY <1>14, <2>2
    <3>2. QED
      BY <3>1, KeyedSame
  <2>4. later <=> rest # <<>> /\ F[q] > v1
    BY <1>12, <1>131
  <2>5. S'[q] = F[q]
    BY <1>3, <1>5, <1>14
  <2>6. Keyed(S', R) \cup {Entry(F[q], q)} = Keyed(S', R \cup {q})
    <3>1. \A g, k : k = g[q] => Keyed(g, R) \cup {Entry(k, q)} = Keyed(g, R \cup {q})
      BY KeyedPlus
    <3>2. QED
      BY <2>5, <3>1
  <2>7. CASE later
    BY <1>4, <1>131, <2>1, <2>3, <2>4, <2>6, <2>7
  <2>8. CASE ~ later
    <3>1. n1 = Keyed(S', R)
      BY <1>4, <1>131, <2>1, <2>3, <2>8
    <3>2. R \cup {} = R
      OBVIOUS
    <3>3. QED
      BY <2>1, <2>4, <2>8, <3>1, <3>2
  <2>9. QED
    BY <2>7, <2>8
<1>17. lead' \in [Queues -> [Queues -> Int]]
  <2>1. Head(mq[q]).len \in Lens /\ q \in Queues
    BY <1>3, <1>5, <1>8 DEF Pkts
  <2>2. QED
    BY <1>13, <2>1, LeadsTyped
<1>18. alive' = alive /\ nextid' = nextid /\ cut' = cut
  BY DEF Dequeue
<1>19. (v = V \/ \E x \in Busy : v = S[x])
  BY <1>3, <1>4
<1>20. DequeueOf(q, G, v, v1, w, rest, f)
  BY <1>2, <1>4, <1>5, <1>51, <1>6, <1>7, <1>8, <1>10, <1>11, <1>13, <1>131, <1>14, <1>15, <1>16, <1>17, <1>18,
     <1>19 DEF DequeueOf
<1>21. QED
  BY <1>20

LEMMA WInvServed ==
  ASSUME WInv, NoWrap, NEW q, NEW G, NEW v, NEW v1, NEW w, NEW rest, NEW f,
         DequeueOf(q, G, v, v1, w, rest, f)
  PROVE  /\ WInv'
         /\ v1 <= V'
         /\ V' = v1 \/ ((\E x \in Busy' : V' = S'[x]) /\ \A x \in Busy' : V' <= S'[x])
         /\ Valid' = Valid \ G /\ Busy' = IF rest = <<>> THEN Busy \ {q} ELSE Busy
<1> USE DEF WInv
<1>1. /\ V \in Early /\ F \in [Queues -> Early] /\ S \in [Queues -> Early]
      /\ Early \subseteq Nat /\ Early \subseteq Times
      /\ \A x \in Queues : F[x] + 1 \in Early
  BY EarlyTimes, ConstantFacts
<1>2. PICK A : A = {x \in Busy : S[x] <= v /\ x # q} \cup (IF rest # <<>> /\ F[q] <= v1 THEN {q} ELSE {})
  OBVIOUS
<1>3. PICK N : N = {x \in Busy : S[x] > v} \cup (IF rest # <<>> /\ F[q] > v1 THEN {q} ELSE {})
  OBVIOUS
<1>4. /\ q \in Busy /\ S[q] <= v
      /\ G \subseteq Idle /\ (G = {} \/ \E x \in Idle : G = {x})
      /\ v \in Early /\ v1 \in Early /\ v <= v1
      /\ w = SumFunctionOnSet(WeightOf, Valid \ G) /\ w \in Nat \ {0}
      /\ rest \in Seq(Pkts) /\ Head(mq[q]) \in Pkts
      /\ f \in Early /\ F[q] <= f /\ (rest = <<>> => f = F[q])
      /\ ret' = Head(mq[q]) /\ mq' = [mq EXCEPT ![q] = rest]
      /\ F' = [F EXCEPT ![q] = f]
      /\ S' = [x \in Queues |-> IF x = q THEN F[q] ELSE IF x \in G THEN F[x] + 1 ELSE S[x]]
      /\ V' = Advanced(Keyed(F', A), Keyed(S', N), v1)
      /\ wsum' = w /\ alive' = alive /\ nextid' = nextid
      /\ sch_heap' = Joined(Keyed(F', A), Keyed(S', N), V', F')
      /\ ne_heap' = Left(Keyed(S', N), V')
      /\ idle_heap' = Keyed(F, Idle \ G) \cup (IF rest = <<>> THEN {Entry(F[q], q)} ELSE {})
      /\ lead' \in [Queues -> [Queues -> Int]] /\ cut' = cut
  BY <1>2, <1>3 DEF DequeueOf, Joined, Left
<1>5. /\ Busy \in SUBSET Queues /\ Valid \in SUBSET Queues /\ Busy \subseteq Valid
      /\ G \subseteq Valid /\ G \cap Busy = {} /\ q \in Queues
  BY <1>4 DEF Busy, Valid, Types, Stamps, Idle
<1>6. F' \in [Queues -> Early] /\ S' \in [Queues -> Early]
  BY <1>1, <1>4, <1>5
<1>7. /\ F'[q] = f /\ S'[q] = F[q] /\ \A x \in Queues : x # q => F'[x] = F[x]
      /\ \A x \in Queues : x # q /\ x \notin G => S'[x] = S[x]
      /\ \A x \in G : S'[x] = F[x] + 1 /\ x # q
  BY <1>1, <1>4, <1>5
<1>8. Busy' = IF rest = <<>> THEN Busy \ {q} ELSE Busy
  <2>1. \A x \in Queues : mq'[x] = IF x = q THEN rest ELSE mq[x]
    BY <1>4, <1>5 DEF Types
  <2>2. QED
    BY <1>4, <2>1 DEF Busy
<1>9. Valid' = Valid \ G
  <2>1. ASSUME NEW x \in alive PROVE x \in Valid' <=> x \in Valid \ G
    <3>1. x \in Queues /\ F[x] \in Nat /\ S[x] \in Nat /\ f \in Nat
      BY <1>1, <1>4 DEF Types
    <3>2. x \in Valid' <=> S'[x] <= F'[x]
      BY <1>4 DEF Valid
    <3>3. CASE x = q
      BY <1>4, <1>5, <1>7, <3>2, <3>3
    <3>4. CASE x \in G
      BY <1>7, <3>1, <3>2, <3>4
    <3>5. CASE x # q /\ x \notin G
      BY <1>7, <3>1, <3>2, <3>5 DEF Valid
    <3>6. QED
      BY <3>3, <3>4, <3>5
  <2>2. (\A x \in Valid' : x \in alive) /\ (\A x \in Valid : x \in alive)
    BY <1>4 DEF Valid
  <2>3. QED
    BY <2>1, <2>2
<1>10. /\ A \in SUBSET Queues /\ N \in SUBSET Queues /\ A \cup N = Busy'
  <2>1. A \in SUBSET Queues /\ N \in SUBSET Queues
    BY <1>2, <1>3, <1>5
  <2>2. \A x \in Busy : S[x] \in Nat /\ v \in Nat /\ F[x] \in Nat /\ v1 \in Nat
    BY <1>1, <1>4, <1>5
  <2>3. \A x \in Busy : (S[x] <= v \/ S[x] > v) /\ ~ (S[x] <= v /\ S[x] > v) /\ (F[q] <= v1 \/ F[q] > v1)
    BY <1>4, <2>2
  <2>4. CASE rest = <<>>
    <3>1. A = {x \in Busy : S[x] <= v /\ x # q} /\ N = {x \in Busy : S[x] > v}
      BY <1>2, <1>3, <2>4
    <3>2. Busy' = Busy \ {q} /\ ~ (S[q] > v)
      BY <1>4, <1>8, <2>3, <2>4
    <3>3. QED
      BY <2>1, <2>3, <3>1, <3>2
  <2>5. CASE rest # <<>>
    <3>1. Busy' = Busy
      BY <1>8, <2>5
    <3>2. q \in A \cup N
      BY <1>2, <1>3, <1>4, <2>3, <2>5
    <3>3. \A x \in Busy : x # q => x \in A \cup N
      BY <1>2, <1>3, <2>3
    <3>4. \A x \in A \cup N : x \in Busy
      BY <1>2, <1>3, <1>4
    <3>5. QED
      BY <2>1, <3>1, <3>2, <3>3, <3>4
  <2>6. QED
    BY <2>1, <2>4, <2>5
<1> PICK f1 \in [Queues -> Early] : f1 = F'
  BY <1>6
<1> PICK g1 \in [Queues -> Early] : g1 = S'
  BY <1>6
<1>11. /\ V' \in Early /\ v1 <= V'
       /\ V' = v1 \/ (A = {} /\ (\E x \in N : V' = S'[x]) /\ \A x \in N : V' <= S'[x])
  <2>1. PICK u : u = Advanced(Keyed(f1, A), Keyed(g1, N), v1)
    OBVIOUS
  <2>2. /\ u \in Early /\ v1 <= u
        /\ u = v1 \/ (A = {} /\ (\E x \in N : u = g1[x]) /\ \A x \in N : u <= g1[x])
    <3>1. v1 \in Early /\ A \in SUBSET Queues /\ N \in SUBSET Queues
      BY <1>4, <1>10
    <3>2. PICK B \in SUBSET Queues, M \in SUBSET Queues, c \in Early :
            B = A /\ M = N /\ c = v1
      BY <3>1
    <3>3. u = Advanced(Keyed(f1, B), Keyed(g1, M), c)
      BY <2>1, <3>2
    <3>4. u \in Early /\ c <= u /\ Jumped(u, c, B, M, g1)
      BY <3>3, AdvanceTime
    <3>5. QED
      BY <3>2, <3>4 DEF Jumped
  <2>3. u = V'
    BY <1>4, <2>1
  <2>4. QED
    BY <2>2, <2>3
<1>12. \A x \in A : S'[x] <= V'
  <2> SUFFICES ASSUME NEW x \in A PROVE S'[x] <= V'
    OBVIOUS
  <2>1. S'[x] \in Nat /\ v \in Nat /\ v1 \in Nat /\ V' \in Nat
    BY <1>1, <1>4, <1>6, <1>10, <1>11
  <2>2. S'[x] <= v1
    <3>1. CASE x = q
      BY <1>2, <1>7, <3>1
    <3>2. CASE x # q
      <4>1. x \in Busy /\ S[x] <= v /\ x \notin G
        BY <1>2, <1>5, <3>2
      <4>2. S'[x] = S[x]
        BY <1>5, <1>7, <3>2, <4>1
      <4>3. QED
        BY <1>4, <2>1, <4>1, <4>2
    <3>3. QED
      BY <3>1, <3>2
  <2>3. QED
    BY <1>11, <2>1, <2>2
<1>13. sch_heap' = Keyed(F', Ready') /\ ne_heap' = Keyed(S', Waiting')
  <2>1. /\ Joined(Keyed(F', A), Keyed(S', N), V', F') = Keyed(F', UpTo(A \cup N, S', V'))
        /\ Left(Keyed(S', N), V') = Keyed(S', Beyond(A \cup N, S', V'))
    <3>1. PICK u \in Early : u = V'
      BY <1>11
    <3>2. \A x \in A : g1[x] <= u
      BY <1>12, <3>1
    <3>3. /\ Joined(Keyed(f1, A), Keyed(g1, N), u, f1) = Keyed(f1, UpTo(A \cup N, g1, u))
          /\ Left(Keyed(g1, N), u) = Keyed(g1, Beyond(A \cup N, g1, u))
      BY <1>10, <3>2, AdvanceKeyed
    <3>4. QED
      BY <3>1, <3>3
  <2>2. Ready' = UpTo(A \cup N, S', V') /\ Waiting' = Beyond(A \cup N, S', V')
    BY <1>10 DEF Ready, Waiting, UpTo, Beyond
  <2>3. QED
    BY <1>4, <2>1, <2>2
<1>14. idle_heap' = Keyed(F', Idle')
  <2>1. PICK R : R = Idle \ G
    OBVIOUS
  <2>2. Idle' = IF rest = <<>> THEN R \cup {q} ELSE R
    BY <1>4, <1>5, <1>8, <1>9, <2>1 DEF Idle
  <2>3. Keyed(F', R) = Keyed(F, R)
    <3>1. \A x \in R : F'[x] = F[x]
      BY <1>4, <1>5, <1>7, <2>1 DEF Idle
    <3>2. QED
      BY <3>1, KeyedSame
  <2>4. CASE rest = <<>>
    <3>1. F'[q] = F[q]
      BY <1>4, <1>7, <2>4
    <3>2. Keyed(F', R) \cup {Entry(F[q], q)} = Keyed(F', R \cup {q})
      <4>1. \A g, k : k = g[q] => Keyed(g, R) \cup {Entry(k, q)} = Keyed(g, R \cup {q})
        BY KeyedPlus
      <4>2. QED
        BY <3>1, <4>1
    <3>3. QED
      BY <1>4, <2>1, <2>2, <2>3, <2>4, <3>2
  <2>5. CASE rest # <<>>
    <3>1. Keyed(F, R) \cup {} = Keyed(F, R)
      OBVIOUS
    <3>2. QED
      BY <1>4, <2>1, <2>2, <2>3, <2>5, <3>1
  <2>6. QED
    BY <2>4, <2>5
<1>15. Stamps'
  <2>1. ASSUME NEW x \in Queues PROVE S'[x] <= F'[x] + 1
    <3>1. F[x] \in Nat /\ S[x] \in Nat /\ S[x] <= F[x] + 1 /\ f \in Nat /\ F[q] \in Nat
      BY <1>1, <1>4, <1>5 DEF Stamps
    <3>2. CASE x = q
      BY <1>4, <1>7, <3>1, <3>2
    <3>3. CASE x # q
      BY <1>7, <3>1, <3>3
    <3>4. QED
      BY <3>2, <3>3
  <2>2. Busy' \subseteq Valid'
    BY <1>5, <1>8, <1>9
  <2>3. QED
    BY <2>1, <2>2 DEF Stamps
<1>16. Types'
  <2>1. mq' \in [Queues -> Seq(Pkts)]
    BY <1>4 DEF Types
  <2>2. S' \in [Queues -> Times] /\ F' \in [Queues -> Times] /\ V' \in Times
    BY <1>1, <1>6, <1>11
  <2>3. QED
    BY <1>4, <2>1, <2>2 DEF Types
<1>17. Weights'
  BY <1>4, <1>9 DEF Weights
<1>18. V' = v1 \/ ((\E x \in Busy' : V' = S'[x]) /\ \A x \in Busy' : V' <= S'[x])
  BY <1>10, <1>11
<1>19. WInv'
  BY <1>10, <1>11, <1>13, <1>14, <1>15, <1>16, <1>17 DEF InHeaps
<1>20. QED
  BY <1>8, <1>9, <1>11, <1>18, <1>19

LEMMA WInvDequeue ==
  ASSUME WInv, NoWrap, Dequeue
  PROVE  WInv'
BY DequeueParts, WInvServed

LEMMA WInvNext ==
  ASSUME WInv, NoWrap, [Next]_vars
  PROVE  WInv'
<1>1. CASE UNCHANGED vars
  <2>1. Types' /\ Busy' = Busy
    BY <1>1 DEF WInv, Types, Busy, vars, heaps
  <2>2. QED
    BY <1>1, <2>1, WInvSame DEF vars
<1>2. CASE Next
  BY <1>2, WInvNewQueue, WInvEnqueueDrop, WInvDrainQueue, WInvDeleteQueue, WInvEnqueue,
     WInvDequeueIdle, WInvDequeue DEF Next
<1>3. QED
  BY <1>1, <1>2

(***************************************************************************)
(* A bound on the times: each call of the scheduler that keeps or sends a  *)
(* packet lets the latest time grow by a packet of the greatest length at  *)
(* most, and there are not more such calls than twice the packets.         *)
(***************************************************************************)

Lengths == [q \in Queues |-> Len(mq[q])]

\* The number of packets that wait.
Queued == SumFunctionOnSet(Lengths, Queues)

\* Twice the packets that have arrived, less those that wait: what has been kept and
\* what has been sent, at least.
Calls == 2 * (nextid - 1) - Queued

Within(b) == V <= b /\ \A q \in Queues : F[q] <= b

Bounded(L) == Within((L * ONE_FP) * Calls)

\* The traffic is too small to move a time to half of the range.
Enough == \A l \in Lens : (2 * MaxPkts + 1) * (l * ONE_FP) < Half

LEMMA QueuedChange ==
  ASSUME Types, NEW q \in Queues, NEW c \in Seq(Pkts), mq' = [mq EXCEPT ![q] = c]
  PROVE  Queued \in Nat /\ Queued' = Queued - Len(mq[q]) + Len(c)
<1>1. Lengths \in [Queues -> Nat] /\ Len(c) \in Nat
  BY DEF Lengths, Types
<1>2. Lengths' = [Lengths EXCEPT ![q] = Len(c)]
  BY DEF Lengths, Types
<1>3. Queued \in Nat
  <2>1. PICK W \in [Queues -> Nat] : W = Lengths
    BY <1>1
  <2>2. SumFunctionOnSet(W, Queues) \in Nat
    BY ConstantFacts, SumFacts
  <2>3. QED
    BY <2>1, <2>2 DEF Queued
<1>4. Queued' = Queued - Lengths[q] + Len(c)
  <2>1. PICK W \in [Queues -> Nat] : W = Lengths
    BY <1>1
  <2>2. PICK U \in [Queues -> Nat] : U = [W EXCEPT ![q] = Len(c)]
    BY <1>1
  <2>3. U[q] = Len(c) /\ \A x \in Queues : x # q => U[x] = W[x]
    BY <2>2
  <2>4. IsFiniteSet(Queues)
    BY ConstantFacts
  <2>5. SumFunctionOnSet(U, Queues) = SumFunctionOnSet(W, Queues) - W[q] + U[q]
    <3>1. PICK Q : Q = Queues
      OBVIOUS
    <3>2. /\ IsFiniteSet(Q) /\ W \in [Q -> Nat] /\ U \in [Q -> Nat] /\ q \in Q
          /\ \A y \in Q : y # q => U[y] = W[y]
      BY <2>3, <2>4, <3>1
    <3>3. SumFunctionOnSet(U, Q) = SumFunctionOnSet(W, Q) - W[q] + U[q]
      BY <3>2, SumExcept
    <3>4. QED
      BY <3>1, <3>3
  <2>6. QED
    BY <1>2, <2>1, <2>2, <2>3, <2>5 DEF Queued
<1>5. QED
  BY <1>3, <1>4 DEF Lengths

\* The bound leaves room for one more packet.
LEMMA BoundedNoWrap ==
  ASSUME Types, Enough, NEW L \in Lens, \A l \in Lens : l <= L, Queued \in Nat, Bounded(L)
  PROVE  NoWrap
<1>1. PICK K \in Nat \ {0} : K = L * ONE_FP /\ \A l \in Lens : l * ONE_FP <= K /\ l * ONE_FP \in Nat
  <2>1. L \in Nat \ {0} /\ ONE_FP \in Nat \ {0} /\ Lens \subseteq Nat
    BY ConstantFacts
  <2>2. L * ONE_FP \in Nat \ {0}
    BY <2>1
  <2>3. \A l \in Lens : l * ONE_FP <= L * ONE_FP /\ l * ONE_FP \in Nat
    BY <2>1, MulMono
  <2>4. QED
    BY <2>2, <2>3
<1>2. /\ MaxPkts \in Nat /\ Calls \in Int /\ Calls <= 2 * MaxPkts /\ Half \in Nat
      /\ (2 * MaxPkts + 1) * K < Half
  <2>1. nextid \in Nat /\ nextid - 1 <= MaxPkts /\ MaxPkts \in Nat
    BY WF2QAssumption DEF Types
  <2>2. QED
    BY <1>1, <2>1, ConstantFacts DEF Calls, Enough
<1>3. K * Calls + K < Half /\ K * Calls \in Int
  <2>1. K * (Calls + 1) <= K * (2 * MaxPkts + 1)
    BY <1>2, MulMono
  <2>2. K * (Calls + 1) = K * Calls + K
    BY <1>2
  <2>3. K * (2 * MaxPkts + 1) < Half
    BY <1>2
  <2>4. QED
    BY <1>2, <2>1, <2>2, <2>3
<1>4. ASSUME NEW t \in Nat, t <= K * Calls PROVE Fits(t)
  <2>1. t + K < Half /\ t + 1 <= t + K
    BY <1>2, <1>3, <1>4
  <2>2. ASSUME NEW l \in Lens PROVE t + l * ONE_FP < Half
    <3>1. PICK d \in Nat : d = l * ONE_FP /\ d <= K
      BY <1>1
    <3>2. QED
      BY <1>2, <2>1, <3>1
  <2>3. QED
    BY <1>2, <2>1, <2>2 DEF Fits
<1>5. V \in Nat /\ \A q \in Queues : F[q] \in Nat
  BY DEF Types, Times
<1>6. V <= K * Calls /\ \A q \in Queues : F[q] <= K * Calls
  BY <1>1 DEF Bounded, Within
<1>7. QED
  BY <1>4, <1>5, <1>6 DEF NoWrap

\* A bound holds after more calls.
LEMMA BoundGrows ==
  ASSUME NEW K \in Nat, NEW c \in Int, NEW d \in Int
  PROVE  /\ c <= d => K * c <= K * d
         /\ c + 1 <= d => K * c + K <= K * d
<1>1. c <= d => K * c <= K * d
  BY MulMono
<1>2. c + 1 <= d => K * (c + 1) <= K * d
  BY MulMono
<1>3. K * (c + 1) = K * c + K
  OBVIOUS
<1>4. QED
  BY <1>1, <1>2, <1>3

\* The times of the next state are not greater than b2.
LEMMA WithinKept ==
  ASSUME WInv, NEW b \in Int, NEW b2 \in Int, Within(b), b <= b2, NEW q \in Queues, NEW f \in Nat,
         f <= b2, F' = [F EXCEPT ![q] = f], V' <= b2
  PROVE  Within(b2)'
<1>1. \A x \in Queues : F[x] \in Nat /\ F[x] <= b
  BY DEF WInv, Types, Times, Within
<1>2. ASSUME NEW x \in Queues PROVE F'[x] <= b2
  <2>1. F'[x] = IF x = q THEN f ELSE F[x]
    BY DEF WInv, Types
  <2>2. F[x] <= b2
    BY <1>1
  <2>3. QED
    BY <2>1, <2>2
<1>3. QED
  BY <1>2 DEF Within

\* The bound is kept.  (L is the greatest length.)
LEMMA BoundedNext ==
  ASSUME WInv, Enough, NEW L \in Lens, \A l \in Lens : l <= L, Queued \in Nat, Bounded(L), [Next]_vars
  PROVE  Queued' \in Nat /\ Bounded(L)'
<1>1. NoWrap /\ WInv'
  BY BoundedNoWrap, WInvNext DEF WInv
<1> USE DEF WInv
<1>2. PICK K \in Nat : K = L * ONE_FP /\ \A l \in Lens : l * ONE_FP <= K /\ l * ONE_FP \in Nat
  <2>1. L \in Nat /\ ONE_FP \in Nat /\ Lens \subseteq Nat
    BY ConstantFacts
  <2>2. \A l \in Lens : l * ONE_FP <= L * ONE_FP /\ l * ONE_FP \in Nat
    BY <2>1, MulMono
  <2>3. L * ONE_FP \in Nat
    BY <2>1
  <2>4. QED
    BY <2>2, <2>3
<1>3. /\ Calls \in Int /\ Calls = 2 * (nextid - 1) - Queued /\ nextid \in Nat
      /\ K * Calls \in Int
      /\ V \in Nat /\ V' \in Nat /\ V <= K * Calls
      /\ \A x \in Queues : F[x] \in Nat /\ F[x] <= K * Calls /\ S[x] \in Nat
  <2>1. nextid \in Nat /\ Calls \in Int
    BY DEF Types, Calls
  <2>2. V \in Nat /\ V' \in Nat /\ \A x \in Queues : F[x] \in Nat /\ S[x] \in Nat
    BY <1>1 DEF Types, Times
  <2>3. QED
    BY <1>2, <2>1, <2>2 DEF Calls, Bounded, Within
<1>30. PICK n0 \in Nat, q0 \in Nat, k0 \in Int : n0 = nextid /\ q0 = Queued /\ k0 = Calls /\ k0 = 2 * (n0 - 1) - q0
  BY <1>3
<1>4. SUFFICES Queued' \in Nat /\ Within(K * Calls)'
  <2>1. ASSUME Within(K * Calls)' PROVE Bounded(L)'
    BY <1>2, <2>1 DEF Bounded
  <2>2. QED
    BY <2>1
\* Without a change of the packets and of the times.
<1>5. ASSUME mq' = mq, NEW n1 \in Nat, nextid' = n1, n1 >= n0, F' = F, V' = V \/ V' = 0
      PROVE  Queued' \in Nat /\ Within(K * Calls)'
  <2>1. Queued' = Queued
    BY <1>5 DEF Queued, Lengths
  <2>2. Calls' \in Int /\ Calls <= Calls'
    <3>1. Calls' = 2 * (n1 - 1) - q0
      BY <1>5, <1>30, <2>1 DEF Calls
    <3>2. 2 * (n1 - 1) - q0 \in Int /\ k0 <= 2 * (n1 - 1) - q0
      BY <1>5, <1>30
    <3>3. QED
      BY <1>30, <3>1, <3>2
  <2>3. PICK d \in Int : d = Calls'
    BY <2>2
  <2>4. K * Calls <= K * d
    BY <1>3, <2>2, <2>3, BoundGrows
  <2>5. K * d \in Int
    OBVIOUS
  <2>6. V' <= K * d /\ \A x \in Queues : F[x] <= K * d
    BY <1>3, <1>5, <2>4, <2>5
  <2>7. QED
    BY <1>5, <2>1, <2>3, <2>6 DEF Within
\* With a change of one queue that is counted by Calls, or that is its end.
<1>6. ASSUME NEW q \in Queues, NEW c \in Seq(Pkts), mq' = [mq EXCEPT ![q] = c],
             NEW f \in Nat, F' = [F EXCEPT ![q] = f], NEW n1 \in Nat, nextid' = n1,
             NEW i \in Nat, NEW j \in Nat, i = Len(c), j = Len(mq[q]),
             \/ 2 * n1 - i > 2 * n0 - j /\ f <= K * Calls + K /\ V' <= K * Calls + K
             \/ 2 * n1 - i >= 2 * n0 - j /\ f = 0 /\ V' = V
      PROVE  Queued' \in Nat /\ Within(K * Calls)'
  <2>1. Queued' = Queued - Len(mq[q]) + Len(c)
    BY <1>6, QueuedChange
  <2>2. Queued' \in Nat
    <3>1. PICK d \in Seq(Pkts) : d = mq'[q]
      BY <1>1 DEF Types
    <3>2. mq' = [mq' EXCEPT ![q] = d]
      BY <1>1, <3>1 DEF Types
    <3>3. Lengths' \in [Queues -> Nat]
      BY <1>1 DEF Types, Lengths
    <3>4. PICK W \in [Queues -> Nat] : W = Lengths'
      BY <3>3
    <3>5. SumFunctionOnSet(W, Queues) \in Nat
      BY ConstantFacts, SumFacts
    <3>6. QED
      BY <3>4, <3>5 DEF Queued
  <2>4. PICK d \in Int : d = Calls' /\ d = k0 + (2 * n1 - i) - (2 * n0 - j)
    <3>1. Queued' = q0 - j + i
      BY <1>6, <1>30, <2>1
    <3>2. Calls' = 2 * (n1 - 1) - (q0 - j + i)
      BY <1>6, <3>1 DEF Calls
    <3>3. /\ 2 * (n1 - 1) - (q0 - j + i) \in Int
          /\ 2 * (n1 - 1) - (q0 - j + i) = k0 + (2 * n1 - i) - (2 * n0 - j)
      BY <1>30
    <3>4. QED
      BY <3>2, <3>3
  <2>5. K * d \in Int
    OBVIOUS
  <2>6. CASE 2 * n1 - i > 2 * n0 - j /\ f <= K * Calls + K /\ V' <= K * Calls + K
    <3>1. Calls + 1 <= d
      <4>1. k0 + 1 <= d
        BY <2>4, <2>6
      <4>2. QED
        BY <1>30, <4>1
    <3>2. K * Calls + K <= K * d
      BY <1>3, <3>1, BoundGrows
    <3>3. f <= K * d /\ V' <= K * d /\ K * Calls <= K * d
      BY <1>3, <2>5, <2>6, <3>2
    <3>4. Within(K * Calls)
      BY <1>3 DEF Within
    <3>5. Within(K * d)'
      BY <1>3, <1>6, <2>5, <3>3, <3>4, WithinKept
    <3>6. QED
      BY <2>2, <2>4, <3>5
  <2>7. CASE 2 * n1 - i >= 2 * n0 - j /\ f = 0 /\ V' = V
    <3>1. Calls <= d
      <4>1. k0 <= d
        BY <2>4, <2>7
      <4>2. QED
        BY <1>30, <4>1
    <3>2. K * Calls <= K * d
      BY <1>3, <3>1, BoundGrows
    <3>3. f <= K * d /\ V' <= K * d
      BY <1>3, <2>5, <2>7, <3>2
    <3>4. Within(K * Calls)
      BY <1>3 DEF Within
    <3>5. Within(K * d)'
      BY <1>3, <1>6, <2>5, <3>2, <3>3, <3>4, WithinKept
    <3>6. QED
      BY <2>2, <2>4, <3>5
  <2>8. QED
    BY <1>6, <2>6, <2>7
<1>7. ASSUME NEW q \in Queues, NewQueue(q) PROVE Queued' \in Nat /\ Within(K * Calls)'
  <2>1. mq[q] \in Seq(Pkts) /\ mq' = [mq EXCEPT ![q] = mq[q]] /\ V' = V /\ nextid' = nextid
    BY <1>7 DEF NewQueue, Types
  <2>2. PICK c \in Seq(Pkts) : c = mq[q] /\ Len(c) \in Nat
    BY <2>1
  <2>3. F' = [F EXCEPT ![q] = 0]
    BY <1>7 DEF NewQueue
  <2>4. PICK i \in Nat : i = Len(c) /\ i = Len(mq[q])
    BY <2>2
  <2>5. 2 * n0 - i >= 2 * n0 - i /\ nextid' = n0
    BY <1>30, <2>1
  <2>6. QED
    BY <1>6, <2>1, <2>2, <2>3, <2>4, <2>5
<1>8. ASSUME NEW q \in Queues, DrainQueue(q) \/ DeleteQueue(q)
      PROVE  Queued' \in Nat /\ Within(K * Calls)'
  <2>1. mq' = [mq EXCEPT ![q] = <<>>] /\ F' = [F EXCEPT ![q] = 0] /\ V' = V /\ nextid' = nextid
    BY <1>8 DEF DrainQueue, DeleteQueue, Freed
  <2>2. Len(mq[q]) \in Nat /\ <<>> \in Seq(Pkts) /\ Len(<<>>) = 0
    BY DEF Types
  <2>3. PICK c \in Seq(Pkts) : c = <<>> /\ Len(c) = 0
    BY <2>2
  <2>4. PICK j \in Nat : j = Len(mq[q])
    BY <2>2
  <2>5. 2 * n0 - 0 >= 2 * n0 - j /\ nextid' = n0
    BY <1>30, <2>1
  <2>6. QED
    BY <1>6, <2>1, <2>3, <2>4, <2>5
<1>9. ASSUME NEW q \in Queues, EnqueueDrop(q) PROVE Queued' \in Nat /\ Within(K * Calls)'
  <2>1. mq' = mq /\ nextid' = n0 + 1 /\ F' = F /\ V' = V
    BY <1>9, <1>30 DEF EnqueueDrop
  <2>2. n0 + 1 \in Nat /\ n0 + 1 >= n0
    OBVIOUS
  <2>3. QED
    BY <1>5, <2>1, <2>2
<1>10. ASSUME NEW q \in Queues, NEW len \in Lens, Enqueue(q, len)
       PROVE  Queued' \in Nat /\ Within(K * Calls)'
  <2>1. [id |-> nextid, len |-> len] \in Pkts
    BY <1>10, WF2QAssumption DEF Types, Enqueue, Pkts
  <2>2. PICK c \in Seq(Pkts) : mq' = [mq EXCEPT ![q] = c] /\ Len(c) = Len(mq[q]) + 1 /\ c # <<>>
    <3>1. PICK p \in Pkts : mq' = [mq EXCEPT ![q] = Append(@, p)]
      BY <1>10, <2>1 DEF Enqueue
    <3>2. PICK d \in Seq(Pkts) : d = mq[q]
      BY DEF Types
    <3>3. Append(d, p) \in Seq(Pkts) /\ Len(Append(d, p)) = Len(d) + 1 /\ Append(d, p) # <<>>
      BY <3>2
    <3>4. QED
      BY <3>1, <3>2, <3>3
  <2>3. nextid' = nextid + 1 /\ Len(mq[q]) \in Nat
    BY <1>10 DEF Enqueue, Types
  <2>4. PICK j \in Nat, i \in Nat, n1 \in Nat :
          i = Len(c) /\ j = Len(mq[q]) /\ nextid' = n1 /\ 2 * n1 - i > 2 * n0 - j
    <3>1. PICK j \in Nat : j = Len(mq[q])
      BY <2>3
    <3>2. Len(c) = j + 1 /\ nextid' = n0 + 1
      BY <1>30, <2>2, <2>3, <3>1
    <3>3. j + 1 \in Nat /\ n0 + 1 \in Nat /\ 2 * (n0 + 1) - (j + 1) > 2 * n0 - j
      OBVIOUS
    <3>4. QED
      BY <3>1, <3>2, <3>3
  <2>5. PICK f \in Nat : F' = [F EXCEPT ![q] = f] /\ f <= K * Calls + K /\ V' <= K * Calls + K
    <3>1. CASE mq[q] # <<>>
      <4>1. F' = F /\ V' = V /\ F[q] \in Nat
        BY <1>3, <1>10, <3>1 DEF Enqueue
      <4>2. F' = [F EXCEPT ![q] = F[q]]
        BY <4>1 DEF Types
      <4>3. F[q] <= K * Calls + K /\ V' <= K * Calls + K
        BY <1>3, <4>1
      <4>4. QED
        BY <4>1, <4>2, <4>3
    <3>2. CASE mq[q] = <<>>
      <4>1. /\ Backlogged(q, len) /\ q \in alive /\ alive' = alive
            /\ mq'[q] # <<>> /\ \A x \in Queues : x # q => mq'[x] = mq[x]
        BY <1>10, <2>2, <3>2 DEF Enqueue, Types
      <4>2. PICK s, f \in Nat : /\ s = V \/ s = F[q]
                                /\ f <= s + len * ONE_FP
                                /\ F' = [F EXCEPT ![q] = f] /\ (V' = V \/ V' = s)
        BY <1>1, <3>2, <4>1, WInvBacklogged
      <4>3. PICK d \in Nat : d = len * ONE_FP /\ d <= K
        BY <1>2
      <4>4. s <= K * Calls
        BY <1>3, <4>2
      <4>5. f <= K * Calls + K /\ V' <= K * Calls + K
        BY <1>3, <4>2, <4>3, <4>4
      <4>6. QED
        BY <4>2, <4>5
    <3>3. QED
      BY <3>1, <3>2
  <2>6. QED
    BY <1>6, <2>2, <2>4, <2>5
<1>11. ASSUME DequeueIdle PROVE Queued' \in Nat /\ Within(K * Calls)'
  <2>1. mq' = mq /\ nextid' = n0 /\ F' = F /\ V' = 0
    BY <1>11, <1>30 DEF DequeueIdle
  <2>2. n0 >= n0
    OBVIOUS
  <2>3. QED
    BY <1>5, <2>1, <2>2
<1>12. ASSUME Dequeue PROVE Queued' \in Nat /\ Within(K * Calls)'
  <2>1. PICK q, G, v, v1, w, rest, f : DequeueOf(q, G, v, v1, w, rest, f)
    BY <1>1, <1>12, DequeueParts
  <2>2. /\ q \in Busy /\ v \in Early /\ v1 \in Early /\ f \in Early
        /\ v = V \/ \E x \in Busy : v = S[x]
        /\ w \in Nat \ {0} /\ rest = Tail(mq[q]) /\ rest \in Seq(Pkts) /\ Head(mq[q]) \in Pkts
        /\ v1 = v + Head(mq[q]).len * InvWsum(w)
        /\ f = IF rest = <<>> THEN F[q] ELSE F[q] + Head(rest).len * InvW(q)
        /\ mq' = [mq EXCEPT ![q] = rest] /\ F' = [F EXCEPT ![q] = f] /\ nextid' = nextid
    BY <2>1 DEF DequeueOf
  <2>3. q \in Queues /\ mq[q] # <<>> /\ Busy \subseteq Queues /\ Early \subseteq Nat
        /\ \A x \in Busy : S[x] <= F[x]
    BY <2>2, ConstantFacts DEF Busy, Stamps, Valid
  <2>4. v <= K * Calls
    <3>1. PICK k \in Int : k = K * Calls
      BY <1>3
    <3>2. ASSUME NEW x \in Busy, v = S[x] PROVE v <= k
      <4>1. S[x] \in Nat /\ F[x] \in Nat /\ F[x] <= k /\ S[x] <= F[x]
        BY <1>3, <2>3, <3>1
      <4>2. QED
        BY <3>2, <4>1
    <3>3. V <= k
      BY <1>3, <3>1
    <3>4. QED
      BY <2>2, <3>1, <3>2, <3>3
  <2>5. v1 <= K * Calls + K
    <3>1. PICK l \in Lens : l = Head(mq[q]).len
      BY <2>2 DEF Pkts
    <3>2. PICK d \in Nat : d = l * (ONE_FP \div w) /\ d <= l * ONE_FP
      BY <2>2, Stretch
    <3>3. PICK e \in Nat : e = l * ONE_FP /\ e <= K
      BY <1>2
    <3>4. v1 = v + d
      BY <2>2, <3>1, <3>2 DEF InvWsum
    <3>5. v \in Nat
      BY <2>2, <2>3
    <3>6. QED
      BY <1>3, <2>4, <3>2, <3>3, <3>4, <3>5
  <2>6. f <= K * Calls + K
    <3>1. F[q] \in Nat /\ F[q] <= K * Calls
      BY <1>3, <2>3
    <3>2. CASE rest = <<>>
      <4>1. PICK k \in Int, n \in Nat : k = K * Calls /\ n = K
        BY <1>3
      <4>2. f = F[q]
        BY <2>2, <3>2
      <4>3. f <= k + n
        BY <3>1, <4>1, <4>2
      <4>4. QED
        BY <4>1, <4>3
    <3>3. CASE rest # <<>>
      <4>1. PICK l \in Lens : l = Head(rest).len
        <5>1. Head(rest) \in Pkts
          BY <2>2, <3>3
        <5>2. QED
          BY <5>1 DEF Pkts
      <4>2. WeightOf[q] \in Nat \ {0}
        BY <2>3, ConstantFacts
      <4>3. PICK d \in Nat : d = l * (ONE_FP \div WeightOf[q]) /\ d <= l * ONE_FP
        BY <4>2, Stretch
      <4>4. PICK e \in Nat : e = l * ONE_FP /\ e <= K
        BY <1>2
      <4>5. f = F[q] + d
        BY <2>2, <3>3, <4>1, <4>3 DEF InvW
      <4>6. QED
        BY <1>3, <3>1, <4>3, <4>4, <4>5
    <3>4. QED
      BY <3>2, <3>3
  <2>7. V' <= K * Calls + K
    <3>1. CASE V' = v1
      BY <2>5, <3>1
    <3>2. ASSUME NEW x \in Busy', V' = S'[x] PROVE V' <= K * Calls + K
      <4>1. x \in Queues /\ S'[x] <= F'[x]
        BY <1>1 DEF Busy, Stamps, Valid
      <4>2. F'[x] = IF x = q THEN f ELSE F[x]
        BY <2>2, <4>1 DEF Types
      <4>3. F'[x] <= K * Calls + K /\ F'[x] \in Nat
        <5>1. PICK k \in Int : k = K * Calls
          BY <1>3
        <5>2. f \in Nat /\ f <= k + K
          BY <2>2, <2>3, <2>6, <5>1
        <5>3. F[x] \in Nat /\ F[x] <= k + K
          BY <1>3, <4>1, <5>1
        <5>4. F'[x] \in Nat /\ F'[x] <= k + K
          BY <4>2, <5>2, <5>3
        <5>5. QED
          BY <5>1, <5>4
      <4>4. QED
        BY <1>3, <3>2, <4>1, <4>3
    <3>3. V' = v1 \/ \E x \in Busy' : V' = S'[x]
      BY <1>1, <2>1, WInvServed
    <3>4. QED
      BY <3>1, <3>2, <3>3
  <2>8. Len(rest) = Len(mq[q]) - 1 /\ Len(mq[q]) \in Nat
    <3>1. PICK c \in Seq(Pkts) : c = mq[q] /\ c # <<>>
      BY <2>3 DEF Types
    <3>2. Len(Tail(c)) = Len(c) - 1 /\ Len(c) \in Nat
      BY <3>1
    <3>3. QED
      BY <2>2, <3>1, <3>2
  <2>9. PICK j \in Nat, i \in Nat : i = Len(rest) /\ j = Len(mq[q]) /\ 2 * n0 - i > 2 * n0 - j
    <3>1. PICK j \in Nat : j = Len(mq[q])
      BY <2>8
    <3>2. PICK i \in Nat : i = Len(rest)
      <4>1. rest \in Seq(Pkts)
        BY <2>2
      <4>2. Len(rest) \in Nat
        BY <4>1
      <4>3. QED
        BY <4>2
    <3>3. i = j - 1
      BY <2>8, <3>1, <3>2
    <3>4. QED
      BY <3>1, <3>2, <3>3
  <2>10. f \in Nat /\ nextid' = n0
    BY <1>30, <2>2, <2>3
  <2>11. QED
    BY <1>6, <2>2, <2>3, <2>6, <2>7, <2>9, <2>10
<1>13. ASSUME UNCHANGED vars PROVE Queued' \in Nat /\ Within(K * Calls)'
  <2>1. mq' = mq /\ nextid' = n0 /\ F' = F /\ V' = V
    BY <1>13, <1>30 DEF vars
  <2>2. n0 >= n0
    OBVIOUS
  <2>3. QED
    BY <1>5, <2>1, <2>2
<1>14. QED
  BY <1>7, <1>8, <1>9, <1>10, <1>11, <1>12, <1>13 DEF Next

(***************************************************************************)
(* The theorems.                                                           *)
(***************************************************************************)

\* As long as no time comes to half of the range, each queue of the instance is in the
\* one heap that its timestamps and its packets say, under the right key, and wsum is
\* the sum of the weights of the queues in the heaps.
THEOREM WF2QConsistent == Spec /\ []NoWrap => []WF2QOK
<1>1. WInv /\ NoWrap /\ [Next]_vars => WInv'
  BY WInvNext
<1>2. WInv /\ NoWrap => WF2QOK
  BY WInvOK
<1>3. QED
  BY <1>1, <1>2, WInvInit, PTL DEF Spec

\* No time comes to half of the range if twice as many packets of the greatest length
\* as are offered, and one more, do not at the least weight.
THEOREM NoTimeWraps ==
  ASSUME Enough
  PROVE  Spec => []NoWrap
<1>1. PICK L \in Lens : \A l \in Lens : l <= L
  <2>1. Lens \in SUBSET Nat /\ Lens # {} /\ IsFiniteSet(Lens)
    BY WF2QAssumption
  <2>2. QED
    BY <2>1, FiniteMax
<1>2. Init => WInv /\ Queued \in Nat /\ Bounded(L)
  <2> SUFFICES ASSUME Init PROVE WInv /\ Queued \in Nat /\ Bounded(L)
    OBVIOUS
  <2>1. WInv
    BY WInvInit
  <2>2. Lengths \in [Queues -> Nat] /\ \A q \in Queues : Lengths[q] = 0
    BY DEF Init, Lengths
  <2>3. Queued \in Nat
    <3>1. PICK W \in [Queues -> Nat] : W = Lengths
      BY <2>2
    <3>2. SumFunctionOnSet(W, Queues) \in Nat
      BY ConstantFacts, SumFacts
    <3>3. QED
      BY <3>1, <3>2 DEF Queued
  <2>4. Queued = 0
    BY <2>2, SumZero, ConstantFacts DEF Queued
  <2>5. Calls = 0
    BY <2>4 DEF Calls, Init
  <2>6. (L * ONE_FP) * 0 = 0
    BY ConstantFacts
  <2>7. Bounded(L)
    BY <2>5, <2>6 DEF Bounded, Within, Init
  <2>8. QED
    BY <2>1, <2>3, <2>7
<1>3. WInv /\ Queued \in Nat /\ Bounded(L) /\ [Next]_vars => (WInv /\ Queued \in Nat /\ Bounded(L))'
  <2> SUFFICES ASSUME WInv, Queued \in Nat, Bounded(L), [Next]_vars
               PROVE  (WInv /\ Queued \in Nat /\ Bounded(L))'
    OBVIOUS
  <2>1. NoWrap
    BY <1>1, BoundedNoWrap DEF WInv
  <2>2. WInv'
    BY <2>1, WInvNext
  <2>3. Queued' \in Nat /\ Bounded(L)'
    BY <1>1, BoundedNext
  <2>4. QED
    BY <2>2, <2>3
<1>4. WInv /\ Queued \in Nat /\ Bounded(L) => NoWrap
  BY <1>1, BoundedNoWrap DEF WInv
<1>5. QED
  BY <1>2, <1>3, <1>4, PTL DEF Spec

\* The same for the constants: the scheduler is consistent whatever the queues, the
\* weights and the packets, if the range of the times is wide enough for the traffic.
THEOREM WF2QCorrect ==
  ASSUME Enough
  PROVE  Spec => []WF2QOK
BY WF2QConsistent, NoTimeWraps, PTL

\* The instance implements dn_sched.h: packets leave their queue in the order they
\* came, and wf2qp_dequeue() returns NULL only when no packet waits.
THEOREM WF2QRefinement == Spec /\ []NoWrap => SchedSpec
<1>1. Init => Sched!Init
  BY DEF Init, Sched!Init
<1>2. WInv /\ NoWrap /\ [Next]_vars => [Sched!Next]_<<mq, ret>>
  <2> SUFFICES ASSUME WInv, NoWrap, [Next]_vars, ~ UNCHANGED <<mq, ret>> PROVE Sched!Next
    OBVIOUS
  <2>1. ASSUME NEW q \in Queues, NEW len \in Lens, Enqueue(q, len) PROVE Sched!Enqueue(q)
    <3>1. [id |-> nextid, len |-> len] \in Pkts
      BY <2>1, WF2QAssumption DEF WInv, Types, Enqueue, Pkts
    <3>2. QED
      BY <2>1, <3>1 DEF Enqueue, Sched!Enqueue
  <2>2. CASE Dequeue
    <3>1. PICK q, G, v, v1, w, rest, f : DequeueOf(q, G, v, v1, w, rest, f)
      BY <2>2, DequeueParts
    <3>2. /\ q \in Busy /\ rest = Tail(mq[q])
          /\ ret' = Head(mq[q]) /\ mq' = [mq EXCEPT ![q] = rest]
      BY <3>1 DEF DequeueOf
    <3>3. q \in Queues /\ Sched!Dequeue(q)
      BY <3>2 DEF Busy, Sched!Dequeue
    <3>4. QED
      BY <3>3 DEF Sched!Next
  <2>3. CASE DequeueIdle
    <3>1. \A q \in Queues : mq[q] = <<>>
      BY <2>3, NothingBusy DEF DequeueIdle, Busy
    <3>2. QED
      BY <2>3, <3>1 DEF DequeueIdle, Sched!DequeueNone, Sched!Next
  <2>4. ASSUME NEW q \in Queues, DeleteQueue(q) \/ DrainQueue(q) PROVE Sched!FreeQueue(q)
    BY <2>4 DEF DeleteQueue, DrainQueue, Freed, Sched!FreeQueue
  <2>5. CASE \/ \E q \in Queues : NewQueue(q) \/ EnqueueDrop(q)
             \/ UNCHANGED vars
    BY <2>5 DEF NewQueue, EnqueueDrop, vars
  <2>6. QED
    BY <2>1, <2>2, <2>3, <2>4, <2>5 DEF Next, Sched!Next
<1>3. WInv /\ NoWrap /\ [Next]_vars => WInv'
  BY WInvNext
<1>4. QED
  BY <1>1, <1>2, <1>3, WInvInit, PTL DEF Spec, SchedSpec, Sched!Spec


(***************************************************************************)
(* The shares.  Each queue of the heaps has a claim on the link: at the    *)
(* virtual time T the queue x that is backlogged may have sent all that    *)
(* its weight gives it from S[x] to T, if its packet is due by then; an    *)
(* idle one will not claim before its finish time.  The claims until T are *)
(* never more than what the instance sends from V to T, and a packet.  A   *)
(* queue that is served loses as much of its claim as V costs the sum; a   *)
(* queue of the idle heap that V has passed takes its claim and its weight *)
(* with it.  So V does not run away from the start time of a backlogged    *)
(* queue, and two backlogged queues cannot come far apart.                 *)
(*                                                                         *)
(* The weights divide ONE_FP: the rounding of inv_w would add up.          *)
(***************************************************************************)

Exact == \A q \in Queues : ONE_FP % WeightOf[q] = 0

Longest == Max(Lens)

\* Queues A are in the heaps and B of them are backlogged, with start times s and finish
\* times f, at virtual time v.
Stamped(A, B, s, f, v) ==
  /\ A \in SUBSET Queues /\ B \subseteq A
  /\ s \in [Queues -> Nat] /\ f \in [Queues -> Nat] /\ v \in Nat
  /\ \A x \in A : s[x] <= f[x]

\* The claims until T.
Claims(A, B, s, f, v, T) ==
  [x \in Queues |-> IF x \notin A \/ f[x] > T THEN 0
                    ELSE WeightOf[x] * (T - (IF x \in B THEN s[x] ELSE Later(f[x], v)))]

Balanced(A, B, s, f, v) ==
  \A T \in Nat : v <= T =>
    SumFunctionOnSet(Claims(A, B, s, f, v, T), Queues)
      <= SumFunctionOnSet(WeightOf, A) * (T - v) + Longest * ONE_FP

LEMMA LongestIs == Longest \in Lens /\ Longest \in Nat /\ \A l \in Lens : l <= Longest
<1>1. PICK L \in Lens : \A l \in Lens : l <= L
  <2>1. Lens \in SUBSET Nat /\ Lens # {} /\ IsFiniteSet(Lens)
    BY WF2QAssumption
  <2>2. QED
    BY <2>1, FiniteMax
<1>2. Lens \subseteq Nat
  BY WF2QAssumption
<1>3. \E x \in Lens : \A y \in Lens : x >= y
  BY <1>1, <1>2
<1>4. Longest \in Lens /\ \A y \in Lens : Longest >= y
  BY <1>3 DEF Longest, Max
<1>5. QED
  BY <1>2, <1>4

\* The rates are exact for the queues, and V is not too fast.
LEMMA Rates ==
  ASSUME Exact
  PROVE  /\ \A q \in Queues : InvW(q) \in Nat /\ WeightOf[q] * InvW(q) = ONE_FP
         /\ \A w \in Nat \ {0} : InvWsum(w) \in Nat /\ w * InvWsum(w) <= ONE_FP
<1>1. ASSUME NEW w \in Nat \ {0}
      PROVE  ONE_FP \div w \in Nat /\ ONE_FP = w * (ONE_FP \div w) + (ONE_FP % w) /\ ONE_FP % w \in Nat
  BY ConstantFacts
<1>2. ASSUME NEW w \in Nat \ {0}
      PROVE  InvWsum(w) \in Nat /\ w * InvWsum(w) <= ONE_FP
  <2>1. PICK d \in Nat, r \in Nat, o \in Nat : d = ONE_FP \div w /\ r = ONE_FP % w /\ o = ONE_FP
    BY <1>1, ConstantFacts
  <2>2. o = w * d + r /\ w * d \in Nat
    BY <1>1, <2>1
  <2>3. QED
    BY <2>1, <2>2 DEF InvWsum
<1>3. ASSUME NEW q \in Queues PROVE InvW(q) \in Nat /\ WeightOf[q] * InvW(q) = ONE_FP
  <2>1. PICK w \in Nat \ {0} : w = WeightOf[q]
    BY ConstantFacts
  <2>2. ONE_FP % w = 0
    BY <2>1 DEF Exact
  <2>3. PICK d \in Nat, o \in Nat : d = ONE_FP \div w /\ o = ONE_FP
    BY <1>1, ConstantFacts
  <2>4. o = w * d + 0 /\ w * d \in Nat
    BY <1>1, <2>2, <2>3
  <2>5. QED
    BY <2>1, <2>3, <2>4 DEF InvW
<1>4. QED
  BY <1>2, <1>3

LEMMA ClaimsType ==
  ASSUME NEW A, NEW B, NEW s, NEW f, NEW v, Stamped(A, B, s, f, v), NEW T \in Nat, v <= T
  PROVE  /\ Claims(A, B, s, f, v, T) \in [Queues -> Nat]
         /\ \A x \in Queues : x \notin A \/ f[x] > T => Claims(A, B, s, f, v, T)[x] = 0
         /\ \A x \in B : f[x] <= T => Claims(A, B, s, f, v, T)[x] = WeightOf[x] * (T - s[x])
         /\ \A x \in A : x \notin B /\ f[x] <= T =>
              Claims(A, B, s, f, v, T)[x] = WeightOf[x] * (T - Later(f[x], v))
<1> DEFINE U == Claims(A, B, s, f, v, T)
<1>1. \A x \in Queues : U[x] = IF x \notin A \/ f[x] > T THEN 0
                    ELSE WeightOf[x] * (T - (IF x \in B THEN s[x] ELSE Later(f[x], v)))
  BY DEF Claims
<1>2. DOMAIN U = Queues /\ U = [x \in Queues |-> U[x]]
  BY DEF Claims
<1> HIDE DEF U
<1>3. ASSUME NEW x \in Queues PROVE U[x] \in Nat
  <2>1. CASE x \notin A \/ f[x] > T
    BY <1>1, <2>1
  <2>2. CASE x \in A /\ ~ (f[x] > T)
    <3>1. PICK a \in Nat, b \in Nat, w \in Nat : a = s[x] /\ b = f[x] /\ w = WeightOf[x] /\ a <= b
      BY <2>2, ConstantFacts DEF Stamped
    <3>2. v \in Nat /\ b <= T
      BY <2>2, <3>1 DEF Stamped
    <3>3. PICK d \in Nat : d = T - (IF x \in B THEN s[x] ELSE Later(f[x], v))
      BY <3>1, <3>2 DEF Later
    <3>4. U[x] = w * d
      BY <1>1, <2>2, <3>1, <3>3
    <3>5. QED
      BY <3>1, <3>3, <3>4
  <2>3. QED
    BY <2>1, <2>2
<1>4. \A x \in A : x \in Queues /\ f[x] \in Nat
  BY DEF Stamped
<1>5. \A x \in A : f[x] <= T => ~ (f[x] > T)
  BY <1>4
<1>6. B \subseteq A
  BY DEF Stamped
<1>7. U \in [Queues -> Nat]
  BY <1>2, <1>3
<1>8. \A x \in B : f[x] <= T => U[x] = WeightOf[x] * (T - s[x])
  BY <1>1, <1>4, <1>5, <1>6
<1>9. \A x \in A : x \notin B /\ f[x] <= T => U[x] = WeightOf[x] * (T - Later(f[x], v))
  BY <1>1, <1>4, <1>5
<1>10. QED
  BY <1>1, <1>7, <1>8, <1>9 DEF U

\* Claims that are not more than the weights give from v to T.
LEMMA ClaimsUpTo ==
  ASSUME NEW A, NEW U \in [Queues -> Nat], NEW d \in Nat, A \in SUBSET Queues,
         \A x \in Queues : x \notin A => U[x] = 0,
         \A x \in A : U[x] <= WeightOf[x] * d
  PROVE  SumFunctionOnSet(U, Queues) <= SumFunctionOnSet(WeightOf, A) * d
<1>1. PICK Q : Q = Queues
  OBVIOUS
<1>2. IsFiniteSet(Q) /\ U \in [Q -> Nat] /\ WeightOf \in [Q -> Nat] /\ A \in SUBSET Q
  BY <1>1, ConstantFacts
<1>3. SumFunctionOnSet(U, Q) = SumFunctionOnSet(U, A)
  BY <1>1, <1>2, SumWithin
<1>4. SumFunctionOnSet(U, A) <= SumFunctionOnSet(WeightOf, A) * d
  BY <1>2, SumScaled
<1>5. QED
  BY <1>1, <1>3, <1>4

LEMMA WeightSum ==
  ASSUME NEW A \in SUBSET Queues
  PROVE  /\ SumFunctionOnSet(WeightOf, A) \in Nat
         /\ \A x \in A : SumFunctionOnSet(WeightOf, A) \in Nat \ {0}
<1>1. PICK Q : Q = Queues
  OBVIOUS
<1>2. IsFiniteSet(Q) /\ WeightOf \in [Q -> Nat] /\ A \in SUBSET Q
  BY <1>1, ConstantFacts
<1>3. SumFunctionOnSet(WeightOf, A) \in Nat
  BY <1>2, SumFacts
<1>4. ASSUME NEW x \in A PROVE SumFunctionOnSet(WeightOf, A) # 0
  <2>1. SumFunctionOnSet(WeightOf, A) = WeightOf[x] + SumFunctionOnSet(WeightOf, A \ {x})
    BY <1>2, SumFacts
  <2>2. A \ {x} \in SUBSET Q
    BY <1>2
  <2>3. SumFunctionOnSet(WeightOf, A \ {x}) \in Nat
    BY <1>2, <2>2, SumFacts
  <2>4. WeightOf[x] \in Nat \ {0}
    BY ConstantFacts
  <2>5. QED
    BY <2>1, <2>3, <2>4
<1>5. QED
  BY <1>3, <1>4

\* When no backlogged queue starts before v, as after V has moved to a start time.
LEMMA BalancedFresh ==
  ASSUME NEW A, NEW B, NEW s, NEW f, NEW v, Stamped(A, B, s, f, v), \A x \in B : v <= s[x]
  PROVE  Balanced(A, B, s, f, v)
<1> SUFFICES ASSUME NEW T \in Nat, v <= T
             PROVE  SumFunctionOnSet(Claims(A, B, s, f, v, T), Queues)
                      <= SumFunctionOnSet(WeightOf, A) * (T - v) + Longest * ONE_FP
  BY DEF Balanced
<1>1. PICK U \in [Queues -> Nat] : U = Claims(A, B, s, f, v, T)
  BY ClaimsType
<1>2. PICK d \in Nat : d = T - v
  BY DEF Stamped
<1>3. \A x \in Queues : x \notin A => U[x] = 0
  BY <1>1, ClaimsType
<1>4. ASSUME NEW x \in A PROVE U[x] <= WeightOf[x] * d
  <2>1. PICK a \in Nat, b \in Nat, w \in Nat, u \in Nat :
          a = s[x] /\ b = f[x] /\ w = WeightOf[x] /\ u = U[x]
    BY ConstantFacts DEF Stamped
  <2>2. v \in Nat /\ x \in Queues /\ w * d \in Nat
    BY <2>1 DEF Stamped
  <2>3. CASE b > T
    <3>1. u = 0
      BY <1>1, <2>1, <2>2, <2>3, ClaimsType
    <3>2. QED
      BY <2>1, <2>2, <3>1
  <2>4. CASE b <= T /\ x \in B
    <3>1. u = w * (T - a)
      BY <1>1, <2>1, <2>4, ClaimsType
    <3>2. T - a <= d /\ T - a \in Int
      BY <1>2, <2>1, <2>2, <2>4
    <3>3. QED
      BY <2>1, <3>1, <3>2, MulMono
  <2>5. CASE b <= T /\ x \notin B
    <3>1. u = w * (T - Later(b, v))
      BY <1>1, <2>1, <2>5, ClaimsType
    <3>2. T - Later(b, v) <= d /\ T - Later(b, v) \in Int
      BY <1>2, <2>1, <2>2 DEF Later
    <3>3. QED
      BY <2>1, <3>1, <3>2, MulMono
  <2>6. QED
    BY <2>1, <2>3, <2>4, <2>5
<1>5. SumFunctionOnSet(U, Queues) <= SumFunctionOnSet(WeightOf, A) * d
  BY <1>3, <1>4, ClaimsUpTo DEF Stamped
<1>6. PICK a \in Nat, b \in Nat, c \in Nat :
        /\ a = SumFunctionOnSet(U, Queues) /\ b = SumFunctionOnSet(WeightOf, A) * d
        /\ c = Longest * ONE_FP
  <2>1. SumFunctionOnSet(WeightOf, A) \in Nat
    BY WeightSum DEF Stamped
  <2>2. PICK Q : Q = Queues
    OBVIOUS
  <2>3. SumFunctionOnSet(U, Q) \in Nat
    BY <2>2, SumFacts, ConstantFacts
  <2>4. Longest * ONE_FP \in Nat
    BY LongestIs, ConstantFacts
  <2>5. QED
    BY <2>1, <2>2, <2>3, <2>4
<1>7. a <= b + c
  BY <1>5, <1>6
<1>8. QED
  BY <1>1, <1>2, <1>6, <1>7


LEMMA ClaimsSum ==
  ASSUME NEW U \in [Queues -> Nat]
  PROVE  SumFunctionOnSet(U, Queues) \in Nat
<1>1. PICK Q : Q = Queues
  OBVIOUS
<1>2. SumFunctionOnSet(U, Q) \in Nat
  BY <1>1, SumFacts, ConstantFacts
<1>3. QED
  BY <1>1, <1>2

\* The inequality at T, in numbers.
LEMMA BalancedAt ==
  ASSUME NEW A, NEW B, NEW s, NEW f, NEW v, Stamped(A, B, s, f, v), Balanced(A, B, s, f, v),
         NEW T \in Nat, v <= T
  PROVE  /\ SumFunctionOnSet(Claims(A, B, s, f, v, T), Queues) \in Nat
         /\ SumFunctionOnSet(Claims(A, B, s, f, v, T), Queues)
              <= SumFunctionOnSet(WeightOf, A) * (T - v) + Longest * ONE_FP
         /\ SumFunctionOnSet(WeightOf, A) \in Nat /\ Longest * ONE_FP \in Nat /\ T - v \in Nat
<1>1. PICK U \in [Queues -> Nat] : U = Claims(A, B, s, f, v, T)
  BY ClaimsType
<1>2. SumFunctionOnSet(U, Queues) \in Nat
  BY ClaimsSum
<1>3. v \in Nat /\ SumFunctionOnSet(WeightOf, A) \in Nat
  BY WeightSum DEF Stamped
<1>4. Longest * ONE_FP \in Nat
  BY LongestIs, ConstantFacts
<1>5. QED
  BY <1>1, <1>2, <1>3, <1>4 DEF Balanced

\* Queues that are in no heap have no claim.
LEMMA BalancedSame ==
  ASSUME NEW A, NEW B, NEW s, NEW f, NEW v, Stamped(A, B, s, f, v), Balanced(A, B, s, f, v),
         NEW s2, NEW f2, \A x \in A : s2[x] = s[x] /\ f2[x] = f[x]
  PROVE  Balanced(A, B, s2, f2, v)
<1> SUFFICES ASSUME NEW T \in Nat, v <= T
             PROVE  SumFunctionOnSet(Claims(A, B, s2, f2, v, T), Queues)
                      <= SumFunctionOnSet(WeightOf, A) * (T - v) + Longest * ONE_FP
  BY DEF Balanced
<1>1. Claims(A, B, s2, f2, v, T) = Claims(A, B, s, f, v, T)
  BY DEF Claims
<1>2. QED
  BY <1>1 DEF Balanced

\* A queue of the idle heap that V has passed leaves with its weight.
LEMMA BalancedExpire ==
  ASSUME NEW A, NEW B, NEW s, NEW f, NEW v, Stamped(A, B, s, f, v), Balanced(A, B, s, f, v),
         NEW x \in A, x \notin B, f[x] < v
  PROVE  Stamped(A \ {x}, B, s, f, v) /\ Balanced(A \ {x}, B, s, f, v)
<1>1. Stamped(A \ {x}, B, s, f, v)
  BY DEF Stamped
<1>2. ASSUME NEW T \in Nat, v <= T
      PROVE  SumFunctionOnSet(Claims(A \ {x}, B, s, f, v, T), Queues)
               <= SumFunctionOnSet(WeightOf, A \ {x}) * (T - v) + Longest * ONE_FP
  <2>1. PICK U \in [Queues -> Nat] : U = Claims(A, B, s, f, v, T)
    BY <1>2, ClaimsType
  <2>2. PICK Y \in [Queues -> Nat] : Y = Claims(A \ {x}, B, s, f, v, T)
    BY <1>1, <1>2, ClaimsType
  <2>3. x \in Queues /\ v \in Nat /\ f[x] \in Nat /\ WeightOf[x] \in Nat
    BY ConstantFacts DEF Stamped
  <2>4. \A y \in Queues : y # x => Y[y] = U[y]
    BY <2>1, <2>2 DEF Claims
  <2>5. Y[x] = 0
    BY <2>2, <2>3 DEF Claims
  <2>6. U[x] = WeightOf[x] * (T - v)
    <3>1. f[x] <= T /\ Later(f[x], v) = v
      BY <1>2, <2>3 DEF Later
    <3>2. QED
      BY <1>2, <2>1, <3>1, ClaimsType
  <2>7. SumFunctionOnSet(Y, Queues) = SumFunctionOnSet(U, Queues) - U[x] + Y[x]
    <3>1. PICK Q : Q = Queues
      OBVIOUS
    <3>2. /\ IsFiniteSet(Q) /\ U \in [Q -> Nat] /\ Y \in [Q -> Nat] /\ x \in Q
          /\ \A y \in Q : y # x => Y[y] = U[y]
      BY <2>3, <2>4, <3>1, ConstantFacts
    <3>3. SumFunctionOnSet(Y, Q) = SumFunctionOnSet(U, Q) - U[x] + Y[x]
      BY <3>2, SumExcept
    <3>4. QED
      BY <3>1, <3>3
  <2>8. SumFunctionOnSet(WeightOf, A \ {x}) = SumFunctionOnSet(WeightOf, A) - WeightOf[x]
    <3>1. PICK Q : Q = Queues
      OBVIOUS
    <3>2. IsFiniteSet(Q) /\ WeightOf \in [Q -> Nat] /\ A \in SUBSET Q /\ x \in Q
      BY <2>3, <3>1, ConstantFacts DEF Stamped
    <3>3. QED
      BY <3>2, SumWith
  <2>9. PICK p \in Nat, a \in Nat, c \in Nat, d \in Nat, w \in Nat :
          /\ p = SumFunctionOnSet(U, Queues) /\ a = SumFunctionOnSet(WeightOf, A)
          /\ c = Longest * ONE_FP /\ d = T - v /\ w = WeightOf[x] /\ p <= a * d + c
    BY <1>2, <2>1, <2>3, BalancedAt
  <2>10. SumFunctionOnSet(Y, Queues) = p - w * d
    BY <2>5, <2>6, <2>7, <2>9
  <2>11. p - w * d <= (a - w) * d + c
    BY <2>9
  <2>12. QED
    BY <2>2, <2>8, <2>9, <2>10, <2>11
<1>3. QED
  BY <1>1, <1>2 DEF Balanced

\* A queue becomes backlogged, from the idle heap or from outside of the heaps.
LEMMA BalancedStart ==
  ASSUME NEW A, NEW B, NEW s, NEW f, NEW v, Stamped(A, B, s, f, v), Balanced(A, B, s, f, v),
         NEW q \in Queues, q \notin B, NEW A2, NEW B2, NEW s2, NEW f2,
         A2 = A \cup {q}, B2 = B \cup {q}, Stamped(A2, B2, s2, f2, v),
         s2[q] = IF q \in A THEN Later(f[q], v) ELSE v,
         \A x \in Queues : x # q => s2[x] = s[x] /\ f2[x] = f[x]
  PROVE  Balanced(A2, B2, s2, f2, v)
<1> SUFFICES ASSUME NEW T \in Nat, v <= T
             PROVE  SumFunctionOnSet(Claims(A2, B2, s2, f2, v, T), Queues)
                      <= SumFunctionOnSet(WeightOf, A2) * (T - v) + Longest * ONE_FP
  BY DEF Balanced
<1>1. PICK U \in [Queues -> Nat] : U = Claims(A, B, s, f, v, T)
  BY ClaimsType
<1>2. PICK Y \in [Queues -> Nat] : Y = Claims(A2, B2, s2, f2, v, T)
  BY ClaimsType
<1>3. PICK a \in Nat, b \in Nat, g \in Nat, w \in Nat :
        a = s2[q] /\ b = f2[q] /\ g = f[q] /\ w = WeightOf[q]
  BY ConstantFacts DEF Stamped
<1>4. v \in Nat /\ a <= b /\ q \in A2 /\ q \in B2
  BY <1>3 DEF Stamped
<1>5. \A x \in Queues : x # q => Y[x] = U[x]
  <2>1. \A x \in Queues : x # q => (x \in A2 <=> x \in A) /\ (x \in B2 <=> x \in B)
    OBVIOUS
  <2>2. QED
    BY <1>1, <1>2, <2>1 DEF Claims
<1>6. Y[q] = IF b > T THEN 0 ELSE w * (T - a)
  <2>1. CASE b > T
    BY <1>2, <1>3, <2>1, ClaimsType
  <2>2. CASE ~ (b > T)
    BY <1>2, <1>3, <1>4, <2>2, ClaimsType
  <2>3. QED
    BY <2>1, <2>2
<1>7. PICK p \in Nat, k \in Nat, c \in Nat, d \in Nat :
        /\ p = SumFunctionOnSet(U, Queues) /\ k = SumFunctionOnSet(WeightOf, A)
        /\ c = Longest * ONE_FP /\ d = T - v /\ p <= k * d + c
  BY <1>1, BalancedAt
<1>8. CASE q \in A
  <2>1. a = Later(g, v) /\ g <= a
    BY <1>3, <1>4, <1>8 DEF Later
  <2>2. Y[q] <= U[q]
    <3>1. CASE b > T
      <4>1. U[q] \in Nat
        OBVIOUS
      <4>2. QED
        BY <1>6, <3>1, <4>1
    <3>2. CASE ~ (b > T)
      <4>1. g <= T
        BY <1>3, <1>4, <2>1, <3>2
      <4>2. U[q] = w * (T - a)
        BY <1>1, <1>3, <1>8, <2>1, <4>1, ClaimsType
      <4>3. U[q] \in Nat /\ Y[q] = U[q]
        BY <1>6, <3>2, <4>2
      <4>4. QED
        BY <4>3
    <3>3. QED
      BY <3>1, <3>2
  <2>3. \A x \in Queues : Y[x] <= U[x]
    <3>1. \A x \in Queues : U[x] \in Nat
      OBVIOUS
    <3>2. \A x \in Queues : x # q => Y[x] <= U[x]
      BY <1>5, <3>1
    <3>3. QED
      BY <2>2, <3>2
  <2>4. SumFunctionOnSet(Y, Queues) <= SumFunctionOnSet(U, Queues)
    <3>1. PICK Q : Q = Queues
      OBVIOUS
    <3>2. IsFiniteSet(Q) /\ U \in [Q -> Nat] /\ Y \in [Q -> Nat] /\ Q \in SUBSET Q /\ \A y \in Q : Y[y] <= U[y]
      BY <2>3, <3>1, ConstantFacts
    <3>3. SumFunctionOnSet(Y, Q) <= SumFunctionOnSet(U, Q)
      BY <3>2, SumMono
    <3>4. QED
      BY <3>1, <3>3
  <2>5. A2 = A
    BY <1>8
  <2>6. SumFunctionOnSet(Y, Queues) \in Nat
    BY ClaimsSum
  <2>7. SumFunctionOnSet(Y, Queues) <= k * d + c
    BY <1>7, <2>4, <2>6
  <2>8. QED
    BY <1>2, <1>7, <2>5, <2>7
<1>9. CASE q \notin A
  <2>1. a = v /\ U[q] = 0
    BY <1>1, <1>3, <1>9, ClaimsType
  <2>2. Y[q] <= w * d
    <3>1. w * d \in Nat
      BY <1>3, <1>7
    <3>2. QED
      BY <1>6, <1>7, <2>1, <3>1
  <2>3. SumFunctionOnSet(Y, Queues) = SumFunctionOnSet(U, Queues) - U[q] + Y[q]
    <3>1. PICK Q : Q = Queues
      OBVIOUS
    <3>2. /\ IsFiniteSet(Q) /\ U \in [Q -> Nat] /\ Y \in [Q -> Nat] /\ q \in Q
          /\ \A y \in Q : y # q => Y[y] = U[y]
      BY <1>5, <3>1, ConstantFacts
    <3>3. SumFunctionOnSet(Y, Q) = SumFunctionOnSet(U, Q) - U[q] + Y[q]
      BY <3>2, SumExcept
    <3>4. QED
      BY <3>1, <3>3
  <2>4. SumFunctionOnSet(WeightOf, A2) = k + w
    <3>1. PICK Q : Q = Queues
      OBVIOUS
    <3>2. IsFiniteSet(Q) /\ WeightOf \in [Q -> Nat] /\ A \in SUBSET Q /\ q \in Q
      BY <3>1, ConstantFacts DEF Stamped
    <3>3. SumFunctionOnSet(WeightOf, A \cup {q}) = SumFunctionOnSet(WeightOf, A) + WeightOf[q]
      BY <1>9, <3>2, SumWith
    <3>4. QED
      BY <1>3, <1>7, <3>3
  <2>5. PICK y \in Nat : y = Y[q]
    OBVIOUS
  <2>6. SumFunctionOnSet(Y, Queues) = p + y
    BY <1>7, <2>1, <2>3, <2>5
  <2>7. p + y <= (k + w) * d + c
    BY <1>3, <1>7, <2>2, <2>5
  <2>8. QED
    BY <1>2, <1>7, <2>4, <2>6, <2>7
<1>10. QED
  BY <1>8, <1>9


\* Queue q is served: a packet of length m, at the virtual time v, with the smallest
\* finish time of those that start by v.
LEMMA BalancedServe ==
  ASSUME Exact, NEW A, NEW B, NEW s, NEW f, NEW v, Stamped(A, B, s, f, v), Balanced(A, B, s, f, v),
         NEW q \in B, s[q] <= v, \A x \in B : s[x] <= v => f[q] <= f[x],
         NEW m \in Lens, f[q] = s[q] + m * InvW(q),
         NEW v1, v1 = v + m * InvWsum(SumFunctionOnSet(WeightOf, A)),
         NEW B2, NEW s2, NEW f2, B2 = B \/ B2 = B \ {q}, Stamped(A, B2, s2, f2, v1),
         s2[q] = f[q], \A x \in Queues : x # q => s2[x] = s[x] /\ f2[x] = f[x]
  PROVE  Balanced(A, B2, s2, f2, v1)
<1> SUFFICES ASSUME NEW T \in Nat, v1 <= T
             PROVE  SumFunctionOnSet(Claims(A, B2, s2, f2, v1, T), Queues)
                      <= SumFunctionOnSet(WeightOf, A) * (T - v1) + Longest * ONE_FP
  BY DEF Balanced
<1>1. PICK k \in Nat \ {0}, l \in Nat, o \in Nat, r \in Nat :
        /\ k = SumFunctionOnSet(WeightOf, A) /\ l = m /\ o = ONE_FP /\ r = InvWsum(k)
        /\ k * r <= o /\ l <= Longest
  <2>1. m \in Nat /\ m <= Longest /\ ONE_FP \in Nat
    BY LongestIs, ConstantFacts
  <2>2. SumFunctionOnSet(WeightOf, A) \in Nat \ {0}
    BY WeightSum DEF Stamped
  <2>3. QED
    BY <2>1, <2>2, Rates
<1>2. PICK a \in Nat, b \in Nat, b2 \in Nat, w \in Nat, i \in Nat :
        /\ a = s[q] /\ b = f[q] /\ b2 = f2[q] /\ w = WeightOf[q] /\ i = InvW(q)
        /\ w * i = o /\ b = a + l * i /\ b <= b2
  <2>1. q \in Queues /\ q \in A
    BY DEF Stamped
  <2>2. s2[q] <= f2[q] /\ s[q] \in Nat /\ f[q] \in Nat /\ f2[q] \in Nat
    BY <2>1 DEF Stamped
  <2>3. InvW(q) \in Nat /\ WeightOf[q] \in Nat /\ WeightOf[q] * InvW(q) = ONE_FP
    BY <2>1, Rates, ConstantFacts
  <2>4. f[q] = s[q] + l * InvW(q) /\ f[q] <= f2[q]
    BY <1>1, <2>2
  <2>5. QED
    BY <1>1, <2>2, <2>3, <2>4
<1>3. v \in Nat /\ v1 \in Nat /\ v <= v1 /\ v1 = v + l * r /\ v <= T
  <2>1. v \in Nat /\ v1 = v + l * r
    BY <1>1 DEF Stamped
  <2>2. l * r \in Nat
    BY <1>1
  <2>3. QED
    BY <2>1, <2>2
<1>4. PICK U \in [Queues -> Nat] : U = Claims(A, B, s, f, v, T)
  BY <1>3, ClaimsType
<1>5. PICK Y \in [Queues -> Nat] : Y = Claims(A, B2, s2, f2, v1, T)
  BY ClaimsType
<1>6. PICK p \in Nat, y \in Nat, c \in Nat, d \in Nat, d1 \in Nat :
        /\ p = SumFunctionOnSet(U, Queues) /\ y = SumFunctionOnSet(Y, Queues)
        /\ c = Longest * ONE_FP /\ d = T - v /\ d1 = T - v1 /\ p <= k * d + c
  <2>1. T - v1 \in Nat
    BY <1>3
  <2>2. SumFunctionOnSet(Y, Queues) \in Nat
    BY ClaimsSum
  <2>3. QED
    BY <1>1, <1>3, <1>4, <2>1, <2>2, BalancedAt
<1>7. k * d <= k * d1 + l * o /\ l * o <= c
  <2>1. d = d1 + l * r
    BY <1>1, <1>3, <1>6
  <2>2. k * d = k * d1 + l * (k * r)
    BY <1>1, <1>6, <2>1
  <2>3. l * (k * r) <= l * o
    BY <1>1, MulMono
  <2>4. l * o <= Longest * o
    BY <1>1, LongestIs, MulMono
  <2>5. k * d \in Nat /\ k * d1 \in Nat /\ l * (k * r) \in Nat /\ l * o \in Nat
    BY <1>1, <1>6
  <2>6. QED
    BY <1>1, <1>6, <2>2, <2>3, <2>4, <2>5
<1>8. \A x \in B : x # q => x \in B2
  OBVIOUS
<1>9. \A x \in Queues : x \notin A => Y[x] = 0
  BY <1>5, ClaimsType
<1>10. \A x \in A : x \notin B => x \notin B2 /\ x # q
  OBVIOUS
<1>11. CASE b <= T
  <2>1. U[q] = w * (T - a)
    BY <1>2, <1>3, <1>4, <1>11, ClaimsType
  <2>2. Y[q] <= w * (T - b)
    <3>1. w * (T - b) \in Nat
      <4>1. T - b \in Nat
        BY <1>2, <1>11
      <4>2. QED
        BY <1>2, <4>1
    <3>2. CASE b2 > T
      <4>1. Y[q] = 0
        BY <1>2, <1>5, <3>2, ClaimsType DEF Stamped
      <4>2. QED
        BY <3>1, <4>1
    <3>3. CASE b2 <= T /\ q \in B2
      <4>1. Y[q] = w * (T - b)
        BY <1>2, <1>5, <3>3, ClaimsType
      <4>2. QED
        BY <3>1, <4>1
    <3>4. CASE b2 <= T /\ q \notin B2
      <4>1. q \in A
        BY DEF Stamped
      <4>2. Y[q] = w * (T - Later(b2, v1))
        BY <1>2, <1>5, <3>4, <4>1, ClaimsType
      <4>3. T - Later(b2, v1) <= T - b /\ T - Later(b2, v1) \in Int /\ T - b \in Int
        BY <1>2, <1>3 DEF Later
      <4>4. QED
        BY <1>2, <4>2, <4>3, MulMono
    <3>5. QED
      BY <1>2, <3>2, <3>3, <3>4
  <2>3. Y[q] + l * o <= U[q]
    <3>1. w * (T - a) = w * (T - b) + l * (w * i)
      <4>1. PICK e \in Nat : e = l * i
        BY <1>1, <1>2
      <4>2. T - a = (T - b) + e /\ T - b \in Int
        BY <1>2, <4>1
      <4>3. w * (T - a) = w * (T - b) + w * e
        BY <1>2, <4>1, <4>2
      <4>4. w * e = l * (w * i)
        BY <1>1, <1>2, <4>1
      <4>5. QED
        BY <4>3, <4>4
    <3>2. w * (T - b) \in Int /\ l * o \in Int /\ Y[q] \in Nat
      BY <1>1, <1>2 DEF Stamped
    <3>3. QED
      BY <1>2, <2>1, <2>2, <3>1, <3>2
  <2>4. ASSUME NEW x \in Queues, x # q PROVE Y[x] <= U[x]
    <3>1. PICK g \in Nat, h \in Nat, u \in Nat, z \in Nat, e \in Nat :
            g = s[x] /\ h = f[x] /\ u = U[x] /\ z = Y[x] /\ e = WeightOf[x]
      BY ConstantFacts DEF Stamped
    <3>2. s2[x] = g /\ f2[x] = h
      BY <2>4, <3>1
    <3>3. CASE x \notin A \/ h > T
      <4>1. z = 0
        BY <1>5, <3>1, <3>2, <3>3, ClaimsType
      <4>2. QED
        BY <3>1, <4>1
    <3>4. CASE x \in B /\ h <= T
      <4>1. u = e * (T - g)
        BY <1>3, <1>4, <3>1, <3>4, ClaimsType
      <4>2. z = e * (T - g)
        BY <1>5, <1>8, <2>4, <3>1, <3>2, <3>4, ClaimsType
      <4>3. QED
        BY <3>1, <4>1, <4>2
    <3>5. CASE x \in A /\ x \notin B /\ h <= T
      <4>1. u = e * (T - Later(h, v))
        BY <1>3, <1>4, <3>1, <3>5, ClaimsType
      <4>2. z = e * (T - Later(h, v1))
        BY <1>5, <1>10, <3>1, <3>2, <3>5, ClaimsType
      <4>3. T - Later(h, v1) <= T - Later(h, v) /\ T - Later(h, v1) \in Int /\ T - Later(h, v) \in Int
        BY <1>3, <3>1 DEF Later
      <4>4. QED
        BY <3>1, <4>1, <4>2, <4>3, MulMono
    <3>6. QED
      BY <3>1, <3>3, <3>4, <3>5
  <2>5. y + l * o <= p
    <3>1. PICK Q : Q = Queues
      OBVIOUS
    <3>2. PICK n \in Nat : n = l * o
      BY <1>1
    <3>3. /\ IsFiniteSet(Q) /\ U \in [Q -> Nat] /\ Y \in [Q -> Nat] /\ q \in Q
          /\ Y[q] + n <= U[q] /\ \A x \in Q : x # q => Y[x] <= U[x]
      BY <2>3, <2>4, <3>1, <3>2, ConstantFacts DEF Stamped
    <3>4. SumFunctionOnSet(Y, Q) + n <= SumFunctionOnSet(U, Q)
      BY <3>3, SumFalls
    <3>5. QED
      BY <1>6, <3>1, <3>2, <3>4
  <2>6. l * o \in Nat /\ k * d \in Nat /\ k * d1 \in Nat
    BY <1>1, <1>6
  <2>7. y <= k * d1 + c
    BY <1>6, <1>7, <2>5, <2>6
  <2>8. QED
    BY <1>1, <1>5, <1>6, <2>7
<1>12. CASE b > T
  <2>1. ASSUME NEW x \in A PROVE Y[x] <= WeightOf[x] * d
    <3>1. PICK g \in Nat, h \in Nat, z \in Nat, e \in Nat :
            g = s[x] /\ h = f[x] /\ z = Y[x] /\ e = WeightOf[x] /\ e * d \in Nat
      <4>1. x \in Queues /\ s[x] \in Nat /\ f[x] \in Nat
        BY DEF Stamped
      <4>2. WeightOf[x] \in Nat /\ WeightOf[x] * d \in Nat
        BY <1>6, <4>1, ConstantFacts
      <4>3. QED
        BY <4>1, <4>2
    <3>2. x \in Queues
      BY DEF Stamped
    <3>3. CASE x = q
      <4>1. f2[q] > T
        BY <1>2, <1>12
      <4>2. z = 0
        BY <1>5, <3>1, <3>2, <3>3, <4>1, ClaimsType
      <4>3. QED
        BY <3>1, <4>2
    <3>4. CASE x # q /\ h > T
      <4>1. z = 0
        BY <1>5, <3>1, <3>2, <3>4, ClaimsType
      <4>2. QED
        BY <3>1, <4>1
    <3>5. CASE x # q /\ h <= T /\ x \in B
      <4>1. z = e * (T - g)
        BY <1>5, <1>8, <3>1, <3>2, <3>5, ClaimsType
      <4>2. ~ (g <= v)
        <5>1. g <= v => b <= h
          BY <1>2, <3>1, <3>5
        <5>2. QED
          BY <1>2, <1>12, <3>1, <3>5, <5>1
      <4>3. T - g <= d /\ T - g \in Int
        BY <1>3, <1>6, <3>1, <4>2
      <4>4. QED
        BY <3>1, <4>1, <4>3, MulMono
    <3>6. CASE x # q /\ h <= T /\ x \notin B
      <4>1. z = e * (T - Later(h, v1))
        BY <1>5, <1>10, <3>1, <3>2, <3>6, ClaimsType
      <4>2. T - Later(h, v1) <= d /\ T - Later(h, v1) \in Int
        BY <1>3, <1>6, <3>1 DEF Later
      <4>3. QED
        BY <3>1, <4>1, <4>2, MulMono
    <3>7. QED
      BY <3>1, <3>3, <3>4, <3>5, <3>6
  <2>2. A \in SUBSET Queues
    BY DEF Stamped
  <2>3. SumFunctionOnSet(Y, Queues) <= SumFunctionOnSet(WeightOf, A) * d
    BY <1>9, <2>1, <2>2, ClaimsUpTo
  <2>4. y <= k * d
    BY <1>1, <1>6, <2>3
  <2>5. l * o \in Nat /\ k * d \in Nat /\ k * d1 \in Nat
    BY <1>1, <1>6
  <2>6. y <= k * d1 + c
    BY <1>6, <1>7, <2>4, <2>5
  <2>7. QED
    BY <1>1, <1>5, <1>6, <2>6
<1>13. QED
  BY <1>2, <1>11, <1>12

\* V does not run away from the start time of a backlogged queue.
LEMMA BalancedLag ==
  ASSUME Exact, NEW A, NEW B, NEW s, NEW f, NEW v, Stamped(A, B, s, f, v), Balanced(A, B, s, f, v),
         NEW q \in B, f[q] <= s[q] + Longest * InvW(q)
  PROVE  v <= s[q] + Longest * InvW(q)
<1>1. PICK a \in Nat, b \in Nat, w \in Nat \ {0}, i \in Nat, o \in Nat, n \in Nat :
        /\ a = s[q] /\ b = f[q] /\ w = WeightOf[q] /\ i = InvW(q) /\ o = ONE_FP /\ n = Longest
        /\ w * i = o /\ b <= a + n * i
  <2>1. q \in Queues
    BY DEF Stamped
  <2>2. QED
    BY <2>1, Rates, ConstantFacts, LongestIs DEF Stamped
<1>2. v \in Nat /\ q \in Queues
  BY DEF Stamped
<1>3. CASE v <= b
  <2>1. n * i \in Nat
    BY <1>1
  <2>2. QED
    BY <1>1, <1>2, <1>3, <2>1
<1>4. CASE b < v
  <2>1. PICK U \in [Queues -> Nat] : U = Claims(A, B, s, f, v, v)
    BY <1>2, ClaimsType
  <2>2. PICK k \in Nat, p \in Nat :
          /\ p = SumFunctionOnSet(U, Queues) /\ k = SumFunctionOnSet(WeightOf, A)
          /\ p <= k * (v - v) + n * o
    BY <1>1, <1>2, <2>1, BalancedAt
  <2>3. p <= n * o
    BY <1>1, <1>2, <2>2
  <2>4. U[q] = w * (v - a)
    BY <1>1, <1>2, <1>4, <2>1, ClaimsType
  <2>5. U[q] <= p
    <3>1. PICK Q : Q = Queues
      OBVIOUS
    <3>2. /\ SumFunctionOnSet(U, Q) = U[q] + SumFunctionOnSet(U, Q \ {q})
          /\ SumFunctionOnSet(U, Q \ {q}) \in Nat
      <4>1. IsFiniteSet(Q) /\ U \in [Q -> Nat] /\ q \in Q /\ Q \ {q} \in SUBSET Q /\ Q \in SUBSET Q
        BY <1>2, <3>1, ConstantFacts
      <4>2. QED
        BY <4>1, SumFacts
    <3>3. PICK u \in Nat, e \in Nat : u = U[q] /\ e = SumFunctionOnSet(U, Q \ {q})
      BY <1>2, <3>2
    <3>4. p = u + e
      BY <2>2, <3>1, <3>2, <3>3
    <3>5. QED
      BY <3>3, <3>4
  <2>6. w * (v - a) <= n * (w * i)
    <3>1. n * o \in Nat /\ w * (v - a) \in Int
      BY <1>1, <1>2
    <3>2. QED
      BY <1>1, <2>2, <2>3, <2>4, <2>5, <3>1
  <2>7. w * (v - a) <= w * (n * i)
    BY <1>1, <2>6
  <2>8. ASSUME v - a > n * i PROVE FALSE
    <3>1. PICK e \in Nat : e = n * i
      BY <1>1
    <3>2. e + 1 <= v - a /\ v - a \in Int
      BY <1>1, <1>2, <2>8, <3>1
    <3>3. w * (e + 1) <= w * (v - a)
      <4>1. e + 1 \in Int /\ w \in Nat
        BY <1>1, <3>1
      <4>2. QED
        BY <3>2, <4>1, MulMono
    <3>4. w * (e + 1) = w * e + w
      BY <1>1, <3>1
    <3>5. w * e \in Nat /\ w * (v - a) \in Int
      BY <1>1, <1>2, <3>1
    <3>6. QED
      BY <1>1, <2>7, <3>1, <3>3, <3>4, <3>5
  <2>9. PICK e \in Nat : e = n * i
    BY <1>1
  <2>10. v <= a + e
    BY <1>1, <1>2, <2>8, <2>9
  <2>11. QED
    BY <1>1, <2>9, <2>10
<1>5. QED
  BY <1>1, <1>2, <1>3, <1>4


-----------------------------------------------------------------------------
(* Two queues of weights a and b, at the rates i and j.                    *)

LEMMA Cancel ==
  ASSUME NEW x \in Int, NEW y \in Int, NEW o \in Nat \ {0}, x * o <= y * o
  PROVE  x <= y
<1>1. ASSUME y + 1 <= x PROVE FALSE
  <2>1. y + 1 \in Int /\ o \in Nat
    OBVIOUS
  <2>2. (y + 1) * o <= x * o
    BY <1>1, <2>1, MulMono
  <2>3. (y + 1) * o = y * o + o /\ x * o \in Int /\ y * o \in Int
    OBVIOUS
  <2>4. PICK p \in Int, q \in Int : p = x * o /\ q = y * o
    BY <2>3
  <2>5. q + o <= p /\ p <= q
    BY <2>2, <2>3, <2>4
  <2>6. QED
    BY <2>5
<1>2. QED
  BY <1>1

\* They come together: b starts not long after v, and a not long before.
LEMMA ShareStart ==
  ASSUME NEW a \in Nat, NEW b \in Nat, NEW i \in Nat, NEW j \in Nat, NEW o \in Nat, NEW L \in Nat,
         a * i = o, b * j = o, NEW s \in Nat, NEW t \in Nat, NEW v \in Nat,
         t <= v + L * j, v <= s + L * i
  PROVE  0 * o <= (a * b) * (s - t) + (L * o) * (a + b)
<1>1. PICK n \in Nat, k \in Nat : n = L * j /\ k = L * i
  OBVIOUS
<1>2. t - s <= n + k /\ t - s \in Int /\ n + k \in Int /\ a * b \in Nat
  BY <1>1
<1>3. (a * b) * (t - s) <= (a * b) * (n + k)
  BY <1>2, MulMono
<1>4. (a * b) * (n + k) = (a * b) * n + (a * b) * k
  BY <1>1
<1>5. (a * b) * n = (L * o) * a
  <2>1. (a * b) * (L * j) = (L * (b * j)) * a
    OBVIOUS
  <2>2. QED
    BY <1>1, <2>1
<1>6. (a * b) * k = (L * o) * b
  <2>1. (a * b) * (L * i) = (L * (a * i)) * b
    OBVIOUS
  <2>2. QED
    BY <1>1, <2>1
<1>7. PICK c \in Nat : c = L * o
  OBVIOUS
<1>8. c * (a + b) = c * a + c * b
  BY <1>7
<1>9. (a * b) * (t - s) = - ((a * b) * (s - t))
  OBVIOUS
<1>10. PICK p \in Int, q \in Int : p = (a * b) * (s - t) /\ q = c * (a + b)
  BY <1>7
<1>11. - p <= q
  BY <1>3, <1>4, <1>5, <1>6, <1>7, <1>8, <1>9, <1>10
<1>12. 0 <= p + q
  BY <1>10, <1>11
<1>13. QED
  BY <1>7, <1>10, <1>12

\* A packet of length m of the first queue, or of the second.
LEMMA ShareServed ==
  ASSUME NEW a \in Nat, NEW b \in Nat, NEW i \in Nat, NEW j \in Nat, NEW o \in Nat, NEW c \in Int,
         a * i = o, b * j = o, NEW s \in Nat, NEW t \in Nat, NEW m \in Nat, NEW d \in Int,
         d * o <= (a * b) * (s - t) + c
  PROVE  /\ (d + m * b) * o <= (a * b) * ((s + m * i) - t) + c
         /\ (d - m * a) * o <= (a * b) * (s - (t + m * j)) + c
<1>1. PICK p \in Int, q \in Int : p = d * o /\ q = (a * b) * (s - t) /\ p <= q + c
  OBVIOUS
<1>2. (d + m * b) * o = p + (m * b) * o /\ (m * b) * o \in Int
  <2>1. PICK e \in Int : e = m * b
    OBVIOUS
  <2>2. (d + e) * o = d * o + e * o /\ e * o \in Int
    BY <2>1
  <2>3. QED
    BY <1>1, <2>1, <2>2
<1>3. (a * b) * ((s + m * i) - t) = q + (m * b) * o
  <2>1. PICK e \in Int, w \in Nat : e = m * i /\ w = a * b
    OBVIOUS
  <2>2. w * ((s + e) - t) = w * (s - t) + w * e
    BY <2>1
  <2>3. (a * b) * (m * i) = (m * b) * (a * i)
    OBVIOUS
  <2>4. QED
    BY <1>1, <2>1, <2>2, <2>3
<1>4. (d - m * a) * o = p - (m * a) * o /\ (m * a) * o \in Int
  <2>1. PICK e \in Int : e = m * a
    OBVIOUS
  <2>2. (d - e) * o = d * o - e * o /\ e * o \in Int
    BY <2>1
  <2>3. QED
    BY <1>1, <2>1, <2>2
<1>5. (a * b) * (s - (t + m * j)) = q - (m * a) * o
  <2>1. PICK e \in Int, w \in Nat : e = m * j /\ w = a * b
    OBVIOUS
  <2>2. w * (s - (t + e)) = w * (s - t) - w * e
    BY <2>1
  <2>3. (a * b) * (m * j) = (m * a) * (b * j)
    OBVIOUS
  <2>4. QED
    BY <1>1, <2>1, <2>2, <2>3
<1>6. PICK x \in Int, y \in Int : x = (m * b) * o /\ y = (m * a) * o
  BY <1>2, <1>4
<1>7. QED
  BY <1>1, <1>2, <1>3, <1>4, <1>5, <1>6

\* The first queue is ahead of the second by a packet at most, on the axis of V.
LEMMA ShareLimit ==
  ASSUME NEW a \in Nat, NEW b \in Nat, NEW i \in Nat, NEW j \in Nat, NEW o \in Nat \ {0}, NEW L \in Nat,
         a * i = o, b * j = o, NEW s \in Nat, NEW t \in Nat, NEW d \in Int,
         d * o <= (a * b) * (s - t) + (L * o) * (a + b),
         s - t <= L * i \/ s - t <= L * j,
         NEW x \in Nat, a <= x, b <= x
  PROVE  d <= L * (a + b + x)
<1>1. (a * b) * (s - t) <= (L * o) * x
  <2>1. a * b \in Nat /\ s - t \in Int /\ L * i \in Int /\ L * j \in Int /\ L * o \in Nat
    OBVIOUS
  <2>2. CASE s - t <= L * i
    <3>1. (a * b) * (s - t) <= (a * b) * (L * i)
      BY <2>1, <2>2, MulMono
    <3>2. (a * b) * (L * i) = (L * (a * i)) * b
      OBVIOUS
    <3>3. (L * o) * b <= (L * o) * x
      BY <2>1, MulMono
    <3>4. PICK p \in Int, q \in Int, r \in Int :
            p = (a * b) * (s - t) /\ q = (L * o) * b /\ r = (L * o) * x
      BY <2>1
    <3>5. p <= q /\ q <= r
      BY <3>1, <3>2, <3>3, <3>4
    <3>6. QED
      BY <3>4, <3>5
  <2>3. CASE s - t <= L * j
    <3>1. (a * b) * (s - t) <= (a * b) * (L * j)
      BY <2>1, <2>3, MulMono
    <3>2. (a * b) * (L * j) = (L * (b * j)) * a
      OBVIOUS
    <3>3. (L * o) * a <= (L * o) * x
      BY <2>1, MulMono
    <3>4. PICK p \in Int, q \in Int, r \in Int :
            p = (a * b) * (s - t) /\ q = (L * o) * a /\ r = (L * o) * x
      BY <2>1
    <3>5. p <= q /\ q <= r
      BY <3>1, <3>2, <3>3, <3>4
    <3>6. QED
      BY <3>4, <3>5
  <2>4. QED
    BY <2>2, <2>3
<1>2. PICK c \in Nat : c = L * o
  OBVIOUS
<1>3. c * (a + b) + c * x = c * (a + b + x)
  BY <1>2
<1>4. c * (a + b + x) = (L * (a + b + x)) * o
  BY <1>2
<1>5. PICK p \in Int, q \in Int, r \in Int, y \in Int, z \in Int :
        p = d * o /\ q = (a * b) * (s - t) /\ r = c * (a + b) /\ y = c * x /\ z = c * (a + b + x)
  BY <1>2
<1>6. p <= q + r /\ q <= y /\ r + y = z
  BY <1>1, <1>2, <1>3, <1>5
<1>7. p <= z
  BY <1>5, <1>6
<1>8. L * (a + b + x) \in Int
  OBVIOUS
<1>9. d * o <= (L * (a + b + x)) * o
  BY <1>4, <1>5, <1>7
<1>10. QED
  BY <1>8, <1>9, Cancel


-----------------------------------------------------------------------------
(* The state of the instance: what holds when no queue has been deleted    *)
(* from a heap, with what always holds.                                    *)

\* The finish time of a backlogged queue is that of its first packet.
Heads == \A q \in Busy : F[q] = S[q] + Head(mq[q]).len * InvW(q)

\* Only two different queues that are backlogged have a lead.
NoLead == \A a, b \in Queues : a = b \/ a \notin Busy \/ b \notin Busy => lead[a][b] = 0

\* No queue starts, or has finished, more than a packet after V.
Near == \A q \in Valid : (IF q \in Busy THEN S[q] ELSE F[q]) <= V + Longest * InvW(q)

\* A lead is a distance of start times, but for a packet of each of the two queues.
Shares ==
  \A a, b \in Busy : a # b =>
    lead[a][b] * ONE_FP <= (WeightOf[a] * WeightOf[b]) * (S[a] - S[b])
                             + (Longest * ONE_FP) * (WeightOf[a] + WeightOf[b])

ShareMax(a, b) == Max(Lens) * (WeightOf[a] + WeightOf[b] + Max({WeightOf[a], WeightOf[b]}))

Leading == \A a, b \in Queues : lead[a][b] <= ShareMax(a, b)

Fair == Balanced(Valid, Busy, S, F, V) /\ Near /\ Shares /\ Leading

FairInv == Heads /\ NoLead /\ (~ cut => Fair)

LEMMA StampedNow ==
  ASSUME WInv, NoWrap
  PROVE  /\ Stamped(Valid, Busy, S, F, V)
         /\ S \in [Queues -> Nat] /\ F \in [Queues -> Nat] /\ V \in Nat
         /\ Busy \subseteq Valid /\ Valid \subseteq Queues
         /\ \A q \in Busy : /\ mq[q] \in Seq(Pkts) /\ mq[q] # <<>>
                            /\ Head(mq[q]) \in Pkts /\ Head(mq[q]).len \in Lens
<1> USE DEF WInv
<1>1. S \in [Queues -> Nat] /\ F \in [Queues -> Nat] /\ V \in Nat
  BY EarlyTimes, ConstantFacts
<1>2. Busy \subseteq Valid /\ Valid \subseteq Queues /\ \A x \in Valid : S[x] <= F[x]
  BY DEF Valid, Types, Stamps
<1>3. ASSUME NEW q \in Busy
      PROVE  /\ mq[q] \in Seq(Pkts) /\ mq[q] # <<>>
             /\ Head(mq[q]) \in Pkts /\ Head(mq[q]).len \in Lens
  <2>1. mq[q] \in Seq(Pkts) /\ mq[q] # <<>>
    BY <1>2 DEF Busy, Types
  <2>2. Head(mq[q]) \in Pkts
    BY <2>1
  <2>3. QED
    BY <2>1, <2>2 DEF Pkts
<1>4. QED
  BY <1>1, <1>2, <1>3 DEF Stamped

LEMMA StampedNext ==
  ASSUME WInv', NoWrap'
  PROVE  /\ Stamped(Valid', Busy', S', F', V')
         /\ S' \in [Queues -> Nat] /\ F' \in [Queues -> Nat] /\ V' \in Nat
         /\ Busy' \subseteq Valid' /\ Valid' \subseteq Queues
<1> USE DEF WInv
<1>1. Times \subseteq Nat
  BY ConstantFacts DEF Times
<1>2. S' \in [Queues -> Nat] /\ F' \in [Queues -> Nat] /\ V' \in Nat
  BY <1>1 DEF Types
<1>3. Busy' \subseteq Valid' /\ Valid' \subseteq Queues /\ \A x \in Valid' : S'[x] <= F'[x]
  BY DEF Valid, Types, Stamps
<1>4. QED
  BY <1>2, <1>3 DEF Stamped

\* V is not more than a packet ahead of the start time of a backlogged queue.
LEMMA Lag ==
  ASSUME Exact, WInv, NoWrap, Heads, Balanced(Valid, Busy, S, F, V), NEW q \in Busy
  PROVE  /\ F[q] <= S[q] + Longest * InvW(q)
         /\ V <= S[q] + Longest * InvW(q)
<1>1. PICK m \in Nat, i \in Nat, n \in Nat, s \in Nat :
        /\ m = Head(mq[q]).len /\ i = InvW(q) /\ n = Longest /\ s = S[q] /\ m <= n
  <2>1. Head(mq[q]).len \in Lens /\ S[q] \in Nat /\ q \in Queues
    BY StampedNow
  <2>2. Head(mq[q]).len \in Nat /\ Longest \in Nat /\ Head(mq[q]).len <= Longest
    BY <2>1, LongestIs, ConstantFacts
  <2>3. QED
    BY <2>1, <2>2, Rates
<1>2. m * i <= n * i /\ m * i \in Nat /\ n * i \in Nat
  BY <1>1, MulMono
<1>3. F[q] = s + m * i
  BY <1>1 DEF Heads
<1>4. F[q] <= S[q] + Longest * InvW(q)
  BY <1>1, <1>2, <1>3
<1>5. Stamped(Valid, Busy, S, F, V)
  BY StampedNow
<1>6. QED
  BY <1>4, <1>5, BalancedLag

LEMMA ShareMaxNat ==
  ASSUME NEW a \in Queues, NEW b \in Queues
  PROVE  /\ Max({WeightOf[a], WeightOf[b]}) \in Nat
         /\ WeightOf[a] <= Max({WeightOf[a], WeightOf[b]})
         /\ WeightOf[b] <= Max({WeightOf[a], WeightOf[b]})
         /\ ShareMax(a, b) = Longest * (WeightOf[a] + WeightOf[b] + Max({WeightOf[a], WeightOf[b]}))
         /\ 0 <= ShareMax(a, b) /\ ShareMax(a, b) \in Nat
<1>1. PICK x \in Nat, y \in Nat : x = WeightOf[a] /\ y = WeightOf[b]
  BY ConstantFacts
<1>2. Max({x, y}) = IF x >= y THEN x ELSE y
  <2>1. \E z \in {x, y} : \A u \in {x, y} : z >= u
    BY <1>1
  <2>2. Max({x, y}) \in {x, y} /\ \A u \in {x, y} : Max({x, y}) >= u
    BY <2>1 DEF Max
  <2>3. QED
    BY <1>1, <2>2
<1>3. PICK k \in Nat : k = x + y + Max({x, y})
  BY <1>1, <1>2
<1>4. Longest \in Nat
  BY LongestIs
<1>5. ShareMax(a, b) = Longest * k /\ Longest * k \in Nat
  BY <1>1, <1>3, <1>4 DEF ShareMax, Longest
<1>6. QED
  BY <1>1, <1>2, <1>3, <1>5

\* The queues of the heaps and their times stay as they are.
LEMMA FairSame ==
  ASSUME WInv, NoWrap, FairInv, Valid' = Valid, Busy' = Busy, V' = V, cut' = cut,
         \A x \in Valid : S'[x] = S[x] /\ F'[x] = F[x],
         \A x \in Busy : Head(mq'[x]) = Head(mq[x]),
         \A a, b \in Queues : lead'[a][b] = lead[a][b]
  PROVE  FairInv'
<1>1. /\ Stamped(Valid, Busy, S, F, V) /\ Busy \subseteq Valid /\ Valid \subseteq Queues
  BY StampedNow
<1>2. Heads'
  BY <1>1 DEF FairInv, Heads, InvW
<1>3. NoLead'
  BY DEF FairInv, NoLead
<1>4. ASSUME ~ cut' PROVE Fair'
  <2>1. Fair
    BY <1>4 DEF FairInv
  <2>2. Balanced(Valid, Busy, S', F', V)
    BY <1>1, <2>1, BalancedSame DEF Fair
  <2>3. Balanced(Valid', Busy', S', F', V')
    BY <2>2
  <2>4. Near'
    <3>1. \A x \in Valid : (IF x \in Busy THEN S'[x] ELSE F'[x]) = (IF x \in Busy THEN S[x] ELSE F[x])
      OBVIOUS
    <3>2. QED
      BY <2>1, <3>1 DEF Fair, Near, InvW
  <2>5. Shares'
    BY <1>1, <2>1 DEF Fair, Shares
  <2>6. Leading'
    BY <2>1 DEF Fair, Leading, ShareMax
  <2>7. QED
    BY <2>3, <2>4, <2>5, <2>6 DEF Fair
<1>5. QED
  BY <1>2, <1>3, <1>4 DEF FairInv

LEMMA FairOutside ==
  ASSUME WInv, NoWrap, FairInv, NEW q \in Queues,
         NewQueue(q) \/ EnqueueDrop(q) \/ DrainQueue(q)
  PROVE  FairInv'
<1>1. Busy \subseteq Valid /\ Valid \subseteq Queues /\ Types
  BY StampedNow DEF WInv
<1>2. CASE EnqueueDrop(q)
  <2>1. UNCHANGED <<alive, mq, S, F, V, lead, cut>>
    BY <1>2 DEF EnqueueDrop
  <2>2. Valid' = Valid /\ Busy' = Busy
    BY <2>1 DEF Valid, Busy
  <2>3. QED
    BY <2>1, <2>2, FairSame
<1>3. CASE NewQueue(q) \/ DrainQueue(q)
  <2>1. /\ q \notin Valid /\ mq'[q] = <<>> /\ \A x \in Queues : x # q => mq'[x] = mq[x]
        /\ \A x \in Queues : x # q => F'[x] = F[x] /\ S'[x] = S[x]
        /\ F'[q] = 0 /\ S'[q] = 1 /\ alive' \ {q} = alive \ {q}
        /\ UNCHANGED <<heaps, V, wsum, lead, cut>>
    <3>1. CASE NewQueue(q)
      BY <1>1, <3>1 DEF NewQueue, Types, Valid, Busy
    <3>2. CASE DrainQueue(q)
      <4>1. q \notin Valid
        BY <3>2, EarlyTimes DEF DrainQueue, Valid, WInv
      <4>2. QED
        BY <1>1, <3>2, <4>1 DEF DrainQueue, Freed, Types
    <3>3. QED
      BY <1>3, <3>1, <3>2
  <2>2. Busy' = Busy /\ Valid' = Valid
    BY <2>1, StepOutside
  <2>3. \A x \in Valid : x # q /\ x \in Queues
    BY <1>1, <2>1
  <2>4. QED
    BY <1>1, <2>1, <2>2, <2>3, FairSame
<1>4. QED
  BY <1>2, <1>3

\* A packet that finds its queue busy.
LEMMA FairKept ==
  ASSUME WInv, NoWrap, FairInv, NEW q \in Queues, NEW len \in Lens, Enqueue(q, len), mq[q] # <<>>
  PROVE  FairInv'
<1>1. Types /\ Busy \subseteq Queues /\ UNCHANGED <<alive, S, F, V, lead, cut>>
  BY DEF WInv, Busy, Enqueue
<1>2. PICK p \in Pkts : mq' = [mq EXCEPT ![q] = Append(@, p)]
  <2>1. [id |-> nextid, len |-> len] \in Pkts
    BY <1>1, WF2QAssumption DEF Types, Enqueue, Pkts
  <2>2. QED
    BY <2>1 DEF Enqueue
<1>3. PICK c \in Seq(Pkts) : c = mq[q] /\ c # <<>>
  BY <1>1 DEF Types
<1>4. Append(c, p) # <<>> /\ Head(Append(c, p)) = Head(c)
  BY <1>3
<1>5. mq'[q] # <<>> /\ Head(mq'[q]) = Head(mq[q]) /\ \A x \in Queues : x # q => mq'[x] = mq[x]
  BY <1>1, <1>2, <1>3, <1>4 DEF Types
<1>6. Busy' = Busy
  BY <1>3, <1>5 DEF Busy
<1>7. Valid' = Valid
  BY <1>1 DEF Valid
<1>8. \A x \in Busy : Head(mq'[x]) = Head(mq[x])
  BY <1>1, <1>5
<1>9. QED
  BY <1>1, <1>6, <1>7, <1>8, FairSame

LEMMA FairDeleteQueue ==
  ASSUME WInv, NoWrap, FairInv, NEW q \in Queues, DeleteQueue(q)
  PROVE  FairInv'
<1>1. Busy \subseteq Valid /\ Valid \subseteq Queues /\ Types
  BY StampedNow DEF WInv
<1>2. /\ \A x \in Queues : x # q => F'[x] = F[x] /\ S'[x] = S[x] /\ mq'[x] = mq[x]
      /\ mq'[q] = <<>> /\ V' = V /\ alive' = alive \ {q} /\ q \in alive /\ S'[q] = 1 /\ F'[q] = 0
      /\ \A a, b \in Queues : lead'[a][b] = IF q \in {a, b} THEN 0 ELSE lead[a][b]
      /\ cut' = (cut \/ ~ NotInAnyHeap(q))
  BY <1>1 DEF DeleteQueue, Freed, Types
<1>3. NotInAnyHeap(q) <=> q \notin Valid
  BY <1>2, EarlyTimes DEF Valid, WInv
<1>4. CASE q \notin Valid
  <2>1. UNCHANGED <<heaps, wsum>> /\ (cut' <=> cut)
    BY <1>2, <1>3, <1>4 DEF DeleteQueue, LeaveHeaps
  <2>2. Busy' = Busy /\ Valid' = Valid
    BY <1>2, <1>4, <2>1, StepOutside
  <2>3. \A x \in Valid : x # q /\ x \in Queues
    BY <1>1, <1>4
  <2>4. \A a, b \in Queues : lead'[a][b] = lead[a][b]
    BY <1>1, <1>2, <1>4 DEF FairInv, NoLead
  <2>5. cut' = cut
    <3>1. cut \in BOOLEAN /\ cut' \in BOOLEAN
      BY <1>1, <1>2 DEF Types
    <3>2. QED
      BY <2>1, <3>1
  <2>6. QED
    BY <1>1, <1>2, <2>2, <2>3, <2>4, <2>5, FairSame
<1>5. CASE q \in Valid
  <2>1. cut' /\ Busy' = Busy \ {q}
    BY <1>2, <1>3, <1>5 DEF Busy
  <2>2. \A x \in Busy' : x \in Queues /\ x # q /\ x \in Busy
    BY <1>1, <2>1
  <2>3. Heads'
    BY <1>2, <2>2 DEF FairInv, Heads, InvW
  <2>4. NoLead'
    BY <1>2, <2>1 DEF FairInv, NoLead
  <2>5. QED
    BY <2>1, <2>3, <2>4 DEF FairInv
<1>6. QED
  BY <1>4, <1>5

\* wf2qp_dequeue() without backlog: all the queues leave the heaps.
LEMMA FairDequeueIdle ==
  ASSUME WInv, NoWrap, FairInv, WInv', NoWrap', DequeueIdle
  PROVE  FairInv'
<1>1. Busy = {} /\ Busy' = {} /\ lead' = lead
  BY NothingBusy DEF DequeueIdle, Busy
<1>2. /\ S \in [Queues -> Nat] /\ F \in [Queues -> Nat] /\ Valid \subseteq Queues
      /\ \A x \in Queues : Plus(F[x], 1) = F[x] + 1
  BY StampedNow, EarlyTimes DEF WInv
<1>3. Idle = Valid /\ \A x \in Queues : In(x, idle_heap) <=> x \in Valid
  <2>1. \A x : In(x, Keyed(F, Idle)) <=> x \in Idle
    BY KeyedIn
  <2>2. QED
    BY <1>1, <2>1 DEF WInv, InHeaps, Idle
<1>4. Valid' = {}
  <2>1. S' = [x \in Queues |-> IF x \in Valid THEN F[x] + 1 ELSE S[x]] /\ F' = F /\ alive' = alive
    BY <1>2, <1>3 DEF DequeueIdle
  <2>2. ASSUME NEW x \in alive PROVE ~ (S'[x] <= F'[x])
    <3>1. x \in Queues /\ F[x] \in Nat /\ S[x] \in Nat
      BY <1>2 DEF WInv, Types
    <3>2. CASE x \in Valid
      BY <2>1, <3>1, <3>2
    <3>3. CASE x \notin Valid
      BY <2>1, <3>1, <3>3 DEF Valid
    <3>4. QED
      BY <3>2, <3>3
  <2>3. QED
    BY <2>1, <2>2 DEF Valid
<1>5. \A a, b \in Queues : lead'[a][b] = 0
  BY <1>1 DEF FairInv, NoLead
<1>6. Heads' /\ NoLead' /\ Near' /\ Shares'
  BY <1>1, <1>4, <1>5 DEF Heads, NoLead, Near, Shares
<1>7. Balanced(Valid', Busy', S', F', V')
  <2>1. Stamped(Valid', Busy', S', F', V')
    BY StampedNext
  <2>2. QED
    BY <1>1, <2>1, BalancedFresh
<1>8. Leading'
  BY <1>5, ShareMaxNat DEF Leading, ShareMax
<1>9. QED
  BY <1>6, <1>7, <1>8 DEF FairInv, Fair

LEMMA MoreRoom ==
  ASSUME NEW v \in Nat, NEW v2 \in Nat, v <= v2
  PROVE  \A t, k \in Nat : t <= v + k => t <= v2 + k
OBVIOUS

\* wf2qp_enqueue() of a packet that finds the queue empty: the queue starts within a
\* packet of V, as each of those that are backlogged.
LEMMA FairBacklogged ==
  ASSUME Exact, WInv, NoWrap, FairInv, WInv', NoWrap',
         NEW q \in Queues, NEW len \in Lens, Enqueue(q, len), mq[q] = <<>>
  PROVE  FairInv'
<1>1. /\ Stamped(Valid, Busy, S, F, V)
      /\ S \in [Queues -> Nat] /\ F \in [Queues -> Nat] /\ V \in Nat
      /\ Busy \subseteq Valid /\ Valid \subseteq Queues /\ Types
  BY StampedNow DEF WInv
<1>2. /\ Stamped(Valid', Busy', S', F', V')
      /\ S' \in [Queues -> Nat] /\ F' \in [Queues -> Nat] /\ V' \in Nat
  BY StampedNext
<1>3. /\ mq'[q] # <<>> /\ Head(mq'[q]).len = len /\ \A x \in Queues : x # q => mq'[x] = mq[x]
      /\ UNCHANGED <<lead, cut, alive>> /\ q \in alive
  <2>1. [id |-> nextid, len |-> len] \in Pkts
    BY <1>1, WF2QAssumption DEF Types, Enqueue, Pkts
  <2>2. PICK p \in Pkts : mq' = [mq EXCEPT ![q] = Append(@, p)] /\ p.len = len
    BY <2>1 DEF Enqueue
  <2>3. mq'[q] = Append(<<>>, p) /\ \A x \in Queues : x # q => mq'[x] = mq[x]
    BY <1>1, <2>2 DEF Types
  <2>4. Append(<<>>, p) # <<>> /\ Head(Append(<<>>, p)) = p
    OBVIOUS
  <2>5. QED
    BY <2>2, <2>3, <2>4 DEF Enqueue
<1>4. PICK s \in Nat, f \in Nat : BackloggedAt(q, len, s, f)
  <2>1. Backlogged(q, len)
    BY DEF Enqueue
  <2>2. QED
    BY <1>3, <2>1, WInvBacklogged
<1>5. /\ S'[q] = s /\ F'[q] = f /\ \A x \in Queues : x # q => S'[x] = S[x] /\ F'[x] = F[x]
      /\ q \notin Busy /\ Busy' = Busy \cup {q} /\ Valid' = Valid \cup {q}
      /\ V' = V \/ (Busy = {} /\ V' = s)
      /\ f = s + len * InvW(q) /\ s = IF q \in Valid THEN Later(F[q], V) ELSE V
  BY <1>1, <1>4 DEF BackloggedAt
<1>6. V <= s /\ V <= V' /\ (s = V \/ (q \in Valid /\ s = F[q]))
  <2>1. PICK k \in Nat : k = F[q]
    BY <1>1
  <2>2. V <= s /\ (s = V \/ (q \in Valid /\ s = F[q]))
    BY <1>1, <1>5, <2>1 DEF Later
  <2>3. QED
    BY <1>1, <1>5, <2>2
<1>7. \A x \in Busy : x # q /\ x \in Queues /\ S'[x] = S[x] /\ F'[x] = F[x] /\ mq'[x] = mq[x]
  BY <1>1, <1>3, <1>5
<1>8. Heads'
  <2>1. \A x \in Busy : F'[x] = S'[x] + Head(mq'[x]).len * InvW(x)
    BY <1>7 DEF FairInv, Heads
  <2>2. F'[q] = S'[q] + Head(mq'[q]).len * InvW(q)
    BY <1>3, <1>5
  <2>3. QED
    BY <1>5, <2>1, <2>2 DEF Heads, InvW
<1>9. NoLead'
  BY <1>3, <1>5 DEF FairInv, NoLead
<1>10. ASSUME ~ cut' PROVE Fair'
  <2>1. Heads /\ Balanced(Valid, Busy, S, F, V) /\ Near /\ Shares /\ Leading
    BY <1>3, <1>10 DEF FairInv, Fair
  <2>2. Balanced(Valid', Busy', S', F', V')
    <3>1. CASE V' = V
      <4>1. PICK A, B, g, h : A = Valid' /\ B = Busy' /\ g = S' /\ h = F'
        OBVIOUS
      <4>2. /\ A = Valid \cup {q} /\ B = Busy \cup {q} /\ q \notin Busy
            /\ g[q] = IF q \in Valid THEN Later(F[q], V) ELSE V
            /\ \A x \in Queues : x # q => g[x] = S[x] /\ h[x] = F[x]
        BY <1>5, <4>1
      <4>3. Stamped(Valid, Busy, S, F, V) /\ Stamped(A, B, g, h, V) /\ Balanced(Valid, Busy, S, F, V)
        BY <1>1, <1>2, <2>1, <3>1, <4>1
      <4>4. Balanced(A, B, g, h, V)
        BY <4>2, <4>3, BalancedStart
      <4>5. QED
        BY <3>1, <4>1, <4>4
    <3>2. CASE Busy = {} /\ V' = s
      <4>1. \A x \in Busy' : V' <= S'[x]
        BY <1>2, <1>5, <3>2
      <4>2. QED
        BY <1>2, <4>1, BalancedFresh
    <3>3. QED
      BY <1>5, <3>1, <3>2
  <2>3. \A x \in Queues : Longest * InvW(x) \in Nat
    BY Rates, LongestIs
  <2>4. s <= V + Longest * InvW(q)
    <3>1. CASE s = V
      BY <1>1, <2>3, <3>1
    <3>2. CASE q \in Valid /\ s = F[q]
      BY <1>5, <2>1, <3>2 DEF Near
    <3>3. QED
      BY <1>6, <3>1, <3>2
  <2>5. Near'
    <3>1. \A t, k \in Nat : t <= V + k => t <= V' + k
      BY <1>1, <1>2, <1>6, MoreRoom
    <3>2. ASSUME NEW x \in Valid'
          PROVE  (IF x \in Busy' THEN S'[x] ELSE F'[x]) <= V' + Longest * InvW(x)
      <4>1. PICK t \in Nat, k \in Nat :
              t = (IF x \in Busy' THEN S'[x] ELSE F'[x]) /\ k = Longest * InvW(x)
        BY <1>1, <1>2, <1>5, <2>3
      <4>2. t <= V + k
        <5>1. CASE x = q
          BY <1>5, <2>4, <4>1, <5>1
        <5>2. CASE x # q
          <6>1. x \in Valid /\ t = IF x \in Busy THEN S[x] ELSE F[x]
            BY <1>1, <1>5, <4>1, <5>2
          <6>2. QED
            BY <2>1, <4>1, <6>1 DEF Near
        <5>3. QED
          BY <5>1, <5>2
      <4>3. t <= V' + k
        BY <3>1, <4>2
      <4>4. QED
        BY <4>1, <4>3
    <3>3. QED
      BY <3>2 DEF Near, InvW
  <2>6. Shares'
    <3>1. ASSUME NEW a \in Busy', NEW b \in Busy', a # b
          PROVE  lead[a][b] * ONE_FP <= (WeightOf[a] * WeightOf[b]) * (S'[a] - S'[b])
                             + (Longest * ONE_FP) * (WeightOf[a] + WeightOf[b])
      <4>1. a \in Queues /\ b \in Queues
        BY <1>1, <1>5
      <4>2. PICK wa \in Nat, wb \in Nat, i \in Nat, j \in Nat, o \in Nat, L \in Nat, u \in Nat, t \in Nat :
              /\ wa = WeightOf[a] /\ wb = WeightOf[b] /\ i = InvW(a) /\ j = InvW(b) /\ o = ONE_FP
              /\ L = Longest /\ u = S'[a] /\ t = S'[b] /\ wa * i = o /\ wb * j = o
        BY <1>2, <4>1, Rates, ConstantFacts, LongestIs
      <4>3. CASE a = q
        <5>1. b \in Busy /\ lead[a][b] = 0
          BY <1>5, <3>1, <4>1, <4>3 DEF FairInv, NoLead
        <5>2. t <= V + L * j
          BY <1>1, <1>7, <2>1, <4>2, <5>1 DEF Near
        <5>3. V <= u + L * i
          <6>1. L * i \in Nat /\ u = s
            BY <1>5, <4>2, <4>3
          <6>2. QED
            BY <1>1, <1>6, <6>1
        <5>4. 0 * o <= (wa * wb) * (u - t) + (L * o) * (wa + wb)
          BY <1>1, <4>2, <5>2, <5>3, ShareStart
        <5>5. QED
          BY <4>2, <5>1, <5>4
      <4>4. CASE b = q
        <5>1. a \in Busy /\ lead[a][b] = 0
          BY <1>5, <3>1, <4>1, <4>4 DEF FairInv, NoLead
        <5>2. t <= V + L * j
          BY <1>5, <2>4, <4>2, <4>4
        <5>3. V <= u + L * i
          <6>1. V <= S[a] + Longest * InvW(a)
            BY <2>1, <5>1, Lag
          <6>2. QED
            BY <1>7, <4>2, <5>1, <6>1
        <5>4. 0 * o <= (wa * wb) * (u - t) + (L * o) * (wa + wb)
          BY <1>1, <4>2, <5>2, <5>3, ShareStart
        <5>5. QED
          BY <4>2, <5>1, <5>4
      <4>5. CASE a # q /\ b # q
        <5>1. a \in Busy /\ b \in Busy
          BY <1>5, <4>5
        <5>2. QED
          BY <1>7, <2>1, <3>1, <5>1 DEF Shares
      <4>6. QED
        BY <4>3, <4>4, <4>5
    <3>2. QED
      BY <1>3, <3>1 DEF Shares
  <2>7. Leading'
    BY <1>3, <2>1 DEF Leading, ShareMax
  <2>8. QED
    BY <2>2, <2>5, <2>6, <2>7 DEF Fair
<1>11. QED
  BY <1>8, <1>9, <1>10 DEF FairInv

\* What wf2qp_dequeue() does with a backlog to the times: q is served, a packet of length
\* m, at virtual time v, which is v1 afterwards.
ServedOf(q, G, v, v1, m) ==
  /\ q \in Busy /\ S[q] <= v /\ \A x \in Busy : S[x] <= v => F[q] <= F[x]
  /\ G \cap Busy = {} /\ (G = {} \/ \E x \in Valid : G = {x} /\ F[x] < V)
  /\ v \in Nat /\ V <= v /\ (v = V \/ \A x \in Busy : v <= S[x])
  /\ m \in Lens /\ F[q] = S[q] + m * InvW(q)
  /\ v1 \in Nat /\ v1 = v + m * InvWsum(SumFunctionOnSet(WeightOf, Valid \ G))
  /\ v <= v1 /\ v1 <= V' /\ (V' = v1 \/ \A x \in Busy' : V' <= S'[x])
  /\ Valid' = Valid \ G /\ (Busy' = Busy \/ Busy' = Busy \ {q})
  /\ S'[q] = F[q] /\ F[q] <= F'[q] /\ (q \notin Busy' => F'[q] = F[q])
  /\ q \in Busy' => F'[q] = F[q] + Head(mq'[q]).len * InvW(q)
  /\ \A x \in Queues : x # q => F'[x] = F[x] /\ mq'[x] = mq[x]
  /\ \A x \in Queues : x # q /\ x \notin G => S'[x] = S[x]
  /\ \A a, b \in Queues :
       lead'[a][b] = IF a = b \/ a \notin Busy' \/ b \notin Busy' THEN 0
                     ELSE IF a = q THEN lead[a][b] + m * WeightOf[b]
                     ELSE IF b = q THEN lead[a][b] - m * WeightOf[a]
                     ELSE lead[a][b]
  /\ cut' = cut

LEMMA ServedParts ==
  ASSUME WInv, NoWrap, Heads, Dequeue
  PROVE  \E q, G, v, v1, m : ServedOf(q, G, v, v1, m)
<1>1. PICK q, G, v, v1, w, rest, f : DequeueOf(q, G, v, v1, w, rest, f)
  BY DequeueParts
<1>2. PICK m : m = Head(mq[q]).len
  OBVIOUS
<1>3. /\ S \in [Queues -> Nat] /\ F \in [Queues -> Nat] /\ V \in Nat
      /\ Busy \subseteq Valid /\ Valid \subseteq Queues /\ Types
  BY StampedNow DEF WInv
<1>4. /\ v1 <= V'
      /\ V' = v1 \/ \A x \in Busy' : V' <= S'[x]
      /\ Valid' = Valid \ G /\ Busy' = IF rest = <<>> THEN Busy \ {q} ELSE Busy
  BY <1>1, WInvServed
<1>5. /\ q \in Busy /\ S[q] <= v /\ \A x \in Busy : S[x] <= v => F[q] <= F[x]
      /\ G \subseteq Idle /\ (G = {} \/ \E x \in Idle : G = {x}) /\ \A x \in G : F[x] < V
      /\ v \in Early /\ V <= v /\ v1 \in Early /\ v <= v1 /\ (v = V \/ \A x \in Busy : v <= S[x])
      /\ v1 = v + m * InvWsum(SumFunctionOnSet(WeightOf, Valid \ G))
      /\ f = IF rest = <<>> THEN F[q] ELSE F[q] + Head(rest).len * InvW(q)
      /\ F[q] <= f /\ mq' = [mq EXCEPT ![q] = rest] /\ F' = [F EXCEPT ![q] = f]
      /\ S' = [x \in Queues |-> IF x = q THEN F[q] ELSE IF x \in G THEN F[x] + 1 ELSE S[x]]
      /\ lead' = Leads(q, m, rest) /\ cut' = cut
  BY <1>1, <1>2 DEF DequeueOf
<1>6. v \in Nat /\ v1 \in Nat
  BY <1>5, ConstantFacts
<1>7. G \cap Busy = {} /\ (G = {} \/ \E x \in Valid : G = {x} /\ F[x] < V)
  BY <1>5 DEF Idle
<1>8. m \in Lens /\ F[q] = S[q] + m * InvW(q)
  BY <1>2, <1>5, StampedNow DEF Heads
<1>9. /\ mq'[q] = rest /\ F'[q] = f /\ S'[q] = F[q]
      /\ \A x \in Queues : x # q => F'[x] = F[x] /\ mq'[x] = mq[x]
      /\ \A x \in Queues : x # q /\ x \notin G => S'[x] = S[x]
  BY <1>3, <1>5 DEF Types
<1>10. Busy' = Busy \/ Busy' = Busy \ {q}
  BY <1>4
<1>11. /\ q \notin Busy' => F'[q] = F[q]
       /\ q \in Busy' => F'[q] = F[q] + Head(mq'[q]).len * InvW(q)
       /\ F[q] <= F'[q]
  BY <1>4, <1>5, <1>9
<1>12. \A a, b \in Queues :
         lead'[a][b] = IF a = b \/ a \notin Busy' \/ b \notin Busy' THEN 0
                       ELSE IF a = q THEN lead[a][b] + m * WeightOf[b]
                       ELSE IF b = q THEN lead[a][b] - m * WeightOf[a]
                       ELSE lead[a][b]
  <2> SUFFICES ASSUME NEW a \in Queues, NEW b \in Queues
               PROVE  lead'[a][b] = IF a = b \/ a \notin Busy' \/ b \notin Busy' THEN 0
                                    ELSE IF a = q THEN lead[a][b] + m * WeightOf[b]
                                    ELSE IF b = q THEN lead[a][b] - m * WeightOf[a]
                                    ELSE lead[a][b]
    OBVIOUS
  <2>1. /\ a \in Busy <=> mq[a] # <<>>
        /\ b \in Busy <=> mq[b] # <<>>
    BY DEF Busy
  <2>2. (a = b \/ mq[a] = <<>> \/ mq[b] = <<>> \/ (q \in {a, b} /\ rest = <<>>))
          <=> (a = b \/ a \notin Busy' \/ b \notin Busy')
    BY <1>4, <1>5, <2>1
  <2>3. lead'[a][b] = IF a = b \/ mq[a] = <<>> \/ mq[b] = <<>> \/ (q \in {a, b} /\ rest = <<>>) THEN 0
                      ELSE IF a = q THEN lead[a][b] + m * WeightOf[b]
                      ELSE IF b = q THEN lead[a][b] - m * WeightOf[a]
                      ELSE lead[a][b]
    BY <1>5 DEF Leads
  <2>4. QED
    BY <2>2, <2>3
<1>13. ServedOf(q, G, v, v1, m)
  BY <1>4, <1>5, <1>6, <1>7, <1>8, <1>9, <1>10, <1>11, <1>12 DEF ServedOf
<1>14. QED
  BY <1>13

LEMMA ServedBalanced ==
  ASSUME Exact, WInv, NoWrap, Balanced(Valid, Busy, S, F, V), WInv', NoWrap',
         NEW q, NEW G, NEW v, NEW v1, NEW m, ServedOf(q, G, v, v1, m)
  PROVE  Balanced(Valid', Busy', S', F', V')
<1>1. /\ Stamped(Valid, Busy, S, F, V) /\ Stamped(Valid', Busy', S', F', V')
      /\ S \in [Queues -> Nat] /\ F \in [Queues -> Nat] /\ V \in Nat
      /\ S' \in [Queues -> Nat] /\ F' \in [Queues -> Nat] /\ V' \in Nat
      /\ Busy \subseteq Valid /\ Valid \subseteq Queues
  BY StampedNow, StampedNext
<1>2. /\ q \in Busy /\ S[q] <= v /\ \A x \in Busy : S[x] <= v => F[q] <= F[x]
      /\ G \cap Busy = {} /\ (G = {} \/ \E x \in Valid : G = {x} /\ F[x] < V)
      /\ v \in Nat /\ V <= v /\ (v = V \/ \A x \in Busy : v <= S[x])
      /\ m \in Lens /\ F[q] = S[q] + m * InvW(q)
      /\ v1 \in Nat /\ v1 = v + m * InvWsum(SumFunctionOnSet(WeightOf, Valid \ G))
      /\ (V' = v1 \/ \A x \in Busy' : V' <= S'[x])
      /\ Valid' = Valid \ G /\ (Busy' = Busy \/ Busy' = Busy \ {q})
      /\ S'[q] = F[q] /\ F[q] <= F'[q]
      /\ \A x \in Queues : x # q => F'[x] = F[x]
      /\ \A x \in Queues : x # q /\ x \notin G => S'[x] = S[x]
  BY DEF ServedOf
<1>3. Stamped(Valid, Busy, S, F, v) /\ Balanced(Valid, Busy, S, F, v)
  <2>1. Stamped(Valid, Busy, S, F, v)
    BY <1>1, <1>2 DEF Stamped
  <2>2. CASE v = V
    BY <2>1, <2>2
  <2>3. CASE \A x \in Busy : v <= S[x]
    BY <2>1, <2>3, BalancedFresh
  <2>4. QED
    BY <1>2, <2>1, <2>2, <2>3
<1>4. PICK A : A = Valid \ G
  OBVIOUS
<1>5. Stamped(A, Busy, S, F, v) /\ Balanced(A, Busy, S, F, v)
  <2>1. CASE G = {}
    <3>1. A = Valid
      BY <1>4, <2>1
    <3>2. QED
      BY <1>3, <3>1
  <2>2. CASE \E x \in Valid : G = {x} /\ F[x] < V
    <3>1. PICK x \in Valid : G = {x} /\ F[x] < V
      BY <2>2
    <3>2. A = Valid \ {x} /\ x \notin Busy
      BY <1>2, <1>4, <3>1
    <3>3. F[x] < v
      <4>1. F[x] \in Nat
        BY <1>1
      <4>2. QED
        BY <1>1, <1>2, <3>1, <4>1
    <3>4. Stamped(Valid \ {x}, Busy, S, F, v) /\ Balanced(Valid \ {x}, Busy, S, F, v)
      BY <1>3, <3>2, <3>3, BalancedExpire
    <3>5. QED
      BY <3>2, <3>4
  <2>3. QED
    BY <1>2, <2>1, <2>2
<1>6. PICK s2 : s2 = [S EXCEPT ![q] = F[q]]
  OBVIOUS
<1>7. PICK f2, g2, B2 : f2 = F' /\ g2 = S' /\ B2 = Busy'
  OBVIOUS
<1>8. /\ q \in Queues /\ F[q] <= f2[q]
      /\ s2[q] = F[q] /\ \A x \in Queues : x # q => s2[x] = S[x] /\ f2[x] = F[x]
      /\ s2 \in [Queues -> Nat] /\ f2 \in [Queues -> Nat] /\ B2 \subseteq A /\ A \in SUBSET Queues
  BY <1>1, <1>2, <1>4, <1>6, <1>7
<1>9. Stamped(A, B2, s2, f2, v1)
  <2>1. ASSUME NEW x \in A PROVE s2[x] <= f2[x]
    <3>1. CASE x = q
      BY <1>8, <3>1
    <3>2. CASE x # q
      <4>1. S[x] <= F[x] /\ x \in Queues
        BY <1>1, <1>4 DEF Stamped
      <4>2. QED
        BY <1>8, <3>2, <4>1
    <3>3. QED
      BY <3>1, <3>2
  <2>2. QED
    BY <1>2, <1>8, <2>1 DEF Stamped
<1>10. Balanced(A, B2, s2, f2, v1)
  <2>1. v1 = v + m * InvWsum(SumFunctionOnSet(WeightOf, A))
    BY <1>2, <1>4
  <2>2. B2 = Busy \/ B2 = Busy \ {q}
    BY <1>2, <1>7
  <2>3. QED
    BY <1>2, <1>5, <1>8, <1>9, <2>1, <2>2, BalancedServe
<1>11. Balanced(A, B2, g2, f2, v1)
  <2>1. \A x \in A : g2[x] = s2[x] /\ f2[x] = f2[x]
    BY <1>1, <1>2, <1>4, <1>7, <1>8
  <2>2. QED
    BY <1>9, <1>10, <2>1, BalancedSame
<1>12. Balanced(Valid', Busy', S', F', v1)
  BY <1>2, <1>4, <1>7, <1>11
<1>13. CASE V' = v1
  BY <1>12, <1>13
<1>14. CASE \A x \in Busy' : V' <= S'[x]
  BY <1>1, <1>14, BalancedFresh
<1>15. QED
  BY <1>2, <1>13, <1>14

\* wf2qp_dequeue() with a backlog.  The queue that is served has finished within a packet
\* of V, and has the first finish time of those that may have started: it comes not more
\* than a packet ahead of another.
LEMMA FairDequeue ==
  ASSUME Exact, WInv, NoWrap, FairInv, WInv', NoWrap', Dequeue
  PROVE  FairInv'
<1>1. /\ S \in [Queues -> Nat] /\ F \in [Queues -> Nat] /\ V \in Nat
      /\ S' \in [Queues -> Nat] /\ F' \in [Queues -> Nat] /\ V' \in Nat
      /\ Busy \subseteq Valid /\ Valid \subseteq Queues
      /\ lead \in [Queues -> [Queues -> Int]]
  BY StampedNow, StampedNext DEF WInv, Types
<1>2. PICK q, G, v, v1, m : ServedOf(q, G, v, v1, m)
  BY ServedParts DEF FairInv
<1>3. /\ q \in Busy /\ S[q] <= v /\ \A x \in Busy : S[x] <= v => F[q] <= F[x]
      /\ G \cap Busy = {} /\ v \in Nat /\ V <= v /\ m \in Lens /\ F[q] = S[q] + m * InvW(q)
      /\ v1 \in Nat /\ v <= v1 /\ v1 <= V'
      /\ Valid' = Valid \ G /\ (Busy' = Busy \/ Busy' = Busy \ {q})
      /\ S'[q] = F[q] /\ (q \notin Busy' => F'[q] = F[q])
      /\ q \in Busy' => F'[q] = F[q] + Head(mq'[q]).len * InvW(q)
      /\ cut' = cut
  BY <1>2 DEF ServedOf
<1>4. /\ \A x \in Queues : x # q => F'[x] = F[x] /\ mq'[x] = mq[x]
      /\ \A x \in Queues : x # q /\ x \notin G => S'[x] = S[x]
  BY <1>2 DEF ServedOf
<1>5. \A a, b \in Queues :
         lead'[a][b] = IF a = b \/ a \notin Busy' \/ b \notin Busy' THEN 0
                       ELSE IF a = q THEN lead[a][b] + m * WeightOf[b]
                       ELSE IF b = q THEN lead[a][b] - m * WeightOf[a]
                       ELSE lead[a][b]
  BY <1>2 DEF ServedOf
<1>6. \A x \in Busy' : x \in Busy /\ x \in Queues /\ (x # q => S'[x] = S[x] /\ F'[x] = F[x] /\ mq'[x] = mq[x])
  BY <1>1, <1>3, <1>4
<1>7. Heads'
  <2>1. ASSUME NEW x \in Busy' PROVE F'[x] = S'[x] + Head(mq'[x]).len * InvW(x)
    <3>1. CASE x = q
      BY <1>3, <2>1, <3>1
    <3>2. CASE x # q
      BY <1>6, <2>1, <3>2 DEF FairInv, Heads
    <3>3. QED
      BY <3>1, <3>2
  <2>2. QED
    BY <2>1 DEF Heads, InvW
<1>8. NoLead'
  BY <1>5 DEF NoLead
<1>9. ASSUME ~ cut' PROVE Fair'
  <2>1. Heads /\ Balanced(Valid, Busy, S, F, V) /\ Near /\ Shares /\ Leading
    BY <1>3, <1>9 DEF FairInv, Fair
  <2>2. Balanced(Valid', Busy', S', F', V')
    BY <1>2, <2>1, ServedBalanced
  <2>3. \A x \in Queues : Longest * InvW(x) \in Nat
    BY Rates, LongestIs
  <2>4. \A x \in Busy : F[x] <= S[x] + Longest * InvW(x)
    BY <2>1, Lag
  <2>5. Near'
    <3>1. \A t, k \in Nat : t <= V + k => t <= V' + k
      <4>1. V <= V'
        BY <1>1, <1>3
      <4>2. QED
        BY <1>1, <4>1, MoreRoom
    <3>2. \A t, k \in Nat : t <= S[q] + k => t <= V' + k
      <4>1. S[q] \in Nat /\ S[q] <= V'
        BY <1>1, <1>3
      <4>2. QED
        BY <1>1, <4>1, MoreRoom
    <3>3. ASSUME NEW x \in Valid'
          PROVE  (IF x \in Busy' THEN S'[x] ELSE F'[x]) <= V' + Longest * InvW(x)
      <4>1. x \in Valid /\ x \in Queues /\ x \notin G
        BY <1>1, <1>3, <3>3
      <4>2. PICK t \in Nat, k \in Nat :
              t = (IF x \in Busy' THEN S'[x] ELSE F'[x]) /\ k = Longest * InvW(x)
        BY <1>1, <2>3, <4>1
      <4>3. CASE x = q
        <5>1. t = F[q]
          BY <1>3, <4>2, <4>3
        <5>2. t <= S[q] + k
          BY <1>3, <2>4, <4>2, <4>3, <5>1
        <5>3. QED
          BY <3>2, <4>2, <5>2
      <4>4. CASE x # q
        <5>1. t = IF x \in Busy THEN S[x] ELSE F[x]
          BY <1>3, <1>4, <4>1, <4>2, <4>4
        <5>2. t <= V + k
          BY <2>1, <4>1, <4>2, <5>1 DEF Near
        <5>3. QED
          BY <3>1, <4>2, <5>2
      <4>5. QED
        BY <4>3, <4>4
    <3>4. QED
      BY <3>3 DEF Near, InvW
  <2>6. ASSUME NEW a \in Busy', NEW b \in Busy', a # b
        PROVE  lead'[a][b] * ONE_FP <= (WeightOf[a] * WeightOf[b]) * (S'[a] - S'[b])
                           + (Longest * ONE_FP) * (WeightOf[a] + WeightOf[b])
    <3>1. a \in Busy /\ b \in Busy /\ a \in Queues /\ b \in Queues
      BY <1>6
    <3>2. PICK wa \in Nat, wb \in Nat, i \in Nat, j \in Nat, o \in Nat, c \in Int, s \in Nat, t \in Nat,
               d \in Int, l \in Nat :
            /\ wa = WeightOf[a] /\ wb = WeightOf[b] /\ i = InvW(a) /\ j = InvW(b) /\ o = ONE_FP
            /\ c = (Longest * ONE_FP) * (WeightOf[a] + WeightOf[b]) /\ s = S[a] /\ t = S[b]
            /\ wa * i = o /\ wb * j = o /\ d = lead[a][b] /\ l = m
      <4>1. WeightOf[a] \in Nat /\ WeightOf[b] \in Nat /\ ONE_FP \in Nat /\ Longest \in Nat /\ m \in Nat
        BY <1>3, <3>1, ConstantFacts, LongestIs
      <4>2. (Longest * ONE_FP) * (WeightOf[a] + WeightOf[b]) \in Int
        BY <4>1
      <4>3. S[a] \in Nat /\ S[b] \in Nat /\ lead[a][b] \in Int
        BY <1>1, <3>1
      <4>4. QED
        BY <3>1, <4>1, <4>2, <4>3, Rates
    <3>3. wa * i = o /\ wb * j = o /\ d * o <= (wa * wb) * (s - t) + c
      BY <2>1, <2>6, <3>1, <3>2 DEF Shares
    <3>4. /\ (d + l * wb) * o <= (wa * wb) * ((s + l * i) - t) + c
          /\ (d - l * wa) * o <= (wa * wb) * (s - (t + l * j)) + c
      BY <3>3, ShareServed
    <3>5. CASE a = q
      <4>1. lead'[a][b] = d + l * wb
        BY <1>5, <2>6, <3>1, <3>2, <3>5
      <4>2. S'[a] = s + l * i /\ S'[b] = t
        BY <1>3, <1>6, <2>6, <3>2, <3>5
      <4>3. QED
        BY <3>2, <3>4, <4>1, <4>2
    <3>6. CASE b = q
      <4>1. lead'[a][b] = d - l * wa
        BY <1>5, <2>6, <3>1, <3>2, <3>6
      <4>2. S'[b] = t + l * j /\ S'[a] = s
        BY <1>3, <1>6, <2>6, <3>2, <3>6
      <4>3. QED
        BY <3>2, <3>4, <4>1, <4>2
    <3>7. CASE a # q /\ b # q
      <4>1. lead'[a][b] = d /\ S'[a] = s /\ S'[b] = t
        BY <1>5, <1>6, <2>6, <3>1, <3>2, <3>7
      <4>2. QED
        BY <3>2, <3>3, <4>1
    <3>8. QED
      BY <3>5, <3>6, <3>7
  <2>7. Shares'
    BY <2>6 DEF Shares
  <2>8. ASSUME NEW a \in Queues, NEW b \in Queues PROVE lead'[a][b] <= ShareMax(a, b)
    <3>1. lead[a][b] <= ShareMax(a, b) /\ lead[a][b] \in Int
      BY <1>1, <2>1 DEF Leading
    <3>2. CASE a = b \/ a \notin Busy' \/ b \notin Busy'
      BY <1>5, <3>2, ShareMaxNat
    <3>3. CASE a \in Busy' /\ b \in Busy' /\ a # b /\ a = q
      <4>1. a \in Busy /\ b \in Busy /\ S'[a] = F[q] /\ S'[b] = S[b]
        BY <1>3, <1>6, <3>3
      <4>2. PICK wa \in Nat, wb \in Nat, i \in Nat, j \in Nat, o \in Nat \ {0}, L \in Nat, s \in Nat,
                 t \in Nat, d \in Int, x \in Nat :
              /\ wa = WeightOf[a] /\ wb = WeightOf[b] /\ i = InvW(a) /\ j = InvW(b) /\ o = ONE_FP
              /\ L = Longest /\ s = S'[a] /\ t = S'[b] /\ wa * i = o /\ wb * j = o
              /\ d = lead'[a][b] /\ x = Max({WeightOf[a], WeightOf[b]})
        <5>1. lead'[a][b] \in Int
          <6>1. m \in Int /\ WeightOf[b] \in Int
            BY <1>3, ConstantFacts
          <6>2. lead'[a][b] = lead[a][b] + m * WeightOf[b]
            BY <1>5, <3>3
          <6>3. QED
            BY <3>1, <6>1, <6>2
        <5>2. S'[a] \in Nat /\ S'[b] \in Nat /\ ONE_FP \in Nat \ {0}
          BY <1>1, ConstantFacts
        <5>3. QED
          BY <5>1, <5>2, Rates, ConstantFacts, LongestIs, ShareMaxNat
      <4>3. s - t <= L * i \/ s - t <= L * j
        <5>1. PICK sa \in Nat, fb \in Nat, p \in Nat, r \in Nat :
                sa = S[a] /\ fb = F[b] /\ p = L * i /\ r = L * j
          <6>1. S[a] \in Nat /\ F[b] \in Nat
            BY <1>1
          <6>2. L * i \in Nat /\ L * j \in Nat
            OBVIOUS
          <6>3. QED
            BY <6>1, <6>2
        <5>2. s <= sa + p /\ fb <= t + r
          BY <2>4, <3>3, <4>1, <4>2, <5>1
        <5>3. CASE t <= v
          <6>1. s <= fb
            BY <1>3, <4>1, <4>2, <5>1, <5>3
          <6>2. QED
            BY <4>2, <5>1, <5>2, <6>1
        <5>4. CASE ~ (t <= v)
          <6>1. sa <= t
            BY <1>3, <3>3, <4>2, <5>1, <5>4
          <6>2. QED
            BY <4>2, <5>1, <5>2, <6>1
        <5>5. QED
          BY <5>3, <5>4
      <4>4. d * o <= (wa * wb) * (s - t) + (L * o) * (wa + wb)
        BY <2>6, <3>3, <4>2
      <4>5. wa * i = o /\ wb * j = o /\ wa <= x /\ wb <= x
        BY <4>2, ShareMaxNat
      <4>6. d <= L * (wa + wb + x)
        BY <4>3, <4>4, <4>5, ShareLimit
      <4>7. QED
        BY <4>2, <4>6, ShareMaxNat
    <3>4. CASE a \in Busy' /\ b \in Busy' /\ a # b /\ a # q /\ b = q
      <4>1. lead'[a][b] = lead[a][b] - m * WeightOf[a]
        BY <1>5, <3>4
      <4>2. PICK p \in Nat : p = m * WeightOf[a]
        <5>1. m \in Nat /\ WeightOf[a] \in Nat
          BY <1>3, ConstantFacts
        <5>2. QED
          BY <5>1
      <4>3. ShareMax(a, b) \in Nat
        BY ShareMaxNat
      <4>4. QED
        BY <3>1, <4>1, <4>2, <4>3
    <3>5. CASE a \in Busy' /\ b \in Busy' /\ a # b /\ a # q /\ b # q
      <4>1. lead'[a][b] = lead[a][b]
        BY <1>5, <3>5
      <4>2. QED
        BY <3>1, <4>1
    <3>6. QED
      BY <3>2, <3>3, <3>4, <3>5
  <2>9. Leading'
    BY <2>8 DEF Leading, ShareMax
  <2>10. QED
    BY <2>2, <2>5, <2>7, <2>9 DEF Fair
<1>10. QED
  BY <1>7, <1>8, <1>9 DEF FairInv

LEMMA FairInit == Init => FairInv
<1> SUFFICES ASSUME Init PROVE FairInv
  OBVIOUS
<1>1. Busy = {} /\ Valid = {} /\ \A a, b \in Queues : lead[a][b] = 0
  BY DEF Init, Busy, Valid
<1>2. S \in [Queues -> Nat] /\ F \in [Queues -> Nat] /\ V \in Nat
  BY DEF Init
<1>3. Stamped(Valid, Busy, S, F, V)
  BY <1>1, <1>2 DEF Stamped
<1>4. Balanced(Valid, Busy, S, F, V)
  BY <1>1, <1>3, BalancedFresh
<1>5. Heads /\ NoLead /\ Near /\ Shares
  BY <1>1 DEF Heads, NoLead, Near, Shares
<1>6. Leading
  BY <1>1, ShareMaxNat DEF Leading
<1>7. QED
  BY <1>4, <1>5, <1>6 DEF FairInv, Fair

LEMMA FairNext ==
  ASSUME Exact, WInv, NoWrap, FairInv, WInv', NoWrap', [Next]_vars
  PROVE  FairInv'
<1>1. CASE UNCHANGED vars
  <2>1. UNCHANGED <<alive, mq, S, F, V, lead, cut>>
    BY <1>1 DEF vars
  <2>2. Valid' = Valid /\ Busy' = Busy
    BY <2>1 DEF Valid, Busy
  <2>3. QED
    BY <2>1, <2>2, FairSame
<1>2. ASSUME NEW q \in Queues, NewQueue(q) \/ EnqueueDrop(q) \/ DrainQueue(q) PROVE FairInv'
  BY <1>2, FairOutside
<1>3. ASSUME NEW q \in Queues, DeleteQueue(q) PROVE FairInv'
  BY <1>3, FairDeleteQueue
<1>4. ASSUME NEW q \in Queues, NEW len \in Lens, Enqueue(q, len) PROVE FairInv'
  BY <1>4, FairKept, FairBacklogged
<1>5. CASE DequeueIdle
  BY <1>5, FairDequeueIdle
<1>6. CASE Dequeue
  BY <1>6, FairDequeue
<1>7. QED
  BY <1>1, <1>2, <1>3, <1>4, <1>5, <1>6 DEF Next

\* Two queues that are backlogged share the link by their weights, whatever the other
\* queues do and however many there are: as long as no queue is deleted from a heap, the
\* one is never ahead of the other by more than a packet of each, and one of the lighter.
THEOREM FairShares ==
  ASSUME Enough, Exact
  PROVE  Spec => []FairShare
<1>1. Exact
  OBVIOUS
<1>2. WInv /\ NoWrap /\ [Next]_vars => WInv'
  BY WInvNext
<1>3. WInv /\ NoWrap /\ WInv' /\ NoWrap' /\ FairInv /\ [Next]_vars => FairInv'
  BY <1>1, FairNext
<1>4. FairInv => FairShare
  BY DEF FairInv, Fair, Leading, ShareMax, FairShare
<1>5. Spec => []NoWrap
  BY NoTimeWraps
<1>6. QED
  BY <1>2, <1>3, <1>4, <1>5, WInvInit, FairInit, PTL DEF Spec

=============================================================================
