-------------------------- MODULE DnSchedRR_proofs --------------------------
(***************************************************************************)
(* Proofs about the deficit round robin scheduler, for any number of       *)
(* queues, any quanta, and packets of any length.                          *)
(***************************************************************************)
EXTENDS DnSchedRR, ProofLemmas

\* The queues of the list in the order in which they will be served: r[1] is
\* head, r[n] is tail.
IsRing(n, r) ==
  /\ \A i, j \in 1..n : r[i] = r[j] => i = j
  /\ \A q \in Queues : q \in status <=> \E i \in 1..n : r[i] = q
  /\ head = IF n = 0 THEN NULL ELSE r[1]
  /\ tail = IF n = 0 THEN NULL ELSE r[n]
  /\ \A i \in 1..(n - 1) : qnext[r[i]] = r[i + 1]
  /\ n > 0 => qnext[r[n]] = r[1]

MaxLen == MaxOf(Lens)

\* What a queue may still send counts as sent: this changes only when a queue
\* gets the credit of another round.
Account(a, b) ==
  lead[a][b] + credit[a] * QuantumOf[b] - credit[b] * QuantumOf[a]

\* A queue that waits for its turn has the credit of one round, and at most what
\* was too little for a packet besides.
CreditOK ==
  \A q \in status : /\ credit[q] < QuantumOf[q] + MaxLen
                    /\ q # head => credit[q] >= QuantumOf[q]

\* Of two queues, b will be served after a: a has had a round less.
InTurn(a, b) ==
  /\ Account(a, b) <= QuantumOf[b] * (MaxLen - 1)
  /\ Account(b, a) <= QuantumOf[a] * QuantumOf[b] + QuantumOf[a] * (MaxLen - 1)

Shares(n, r) == \A i, j \in 1..n : i < j => InTurn(r[i], r[j])

NoLead ==
  \A a, b \in Queues : a = b \/ mq[a] = <<>> \/ mq[b] = <<>> => lead[a][b] = 0

RingShares == \E n \in Nat : \E r \in [1..n -> Queues] : IsRing(n, r) /\ Shares(n, r)

\* The inductive invariant.
RRInv ==
  /\ TypeOK
  /\ status \subseteq alive
  /\ \A q \in Queues : mq[q] # <<>> => q \in status
  /\ NoLead
  /\ CreditOK
  /\ RingShares

-----------------------------------------------------------------------------
\* The longest packet.
LEMMA MaxLenType == MaxLen \in Nat \ {0} /\ \A l \in Lens : l \in Nat \ {0} /\ l <= MaxLen
<1>1. Lens \in SUBSET Nat /\ Lens # {} /\ IsFiniteSet(Lens) /\ Lens \subseteq Nat \ {0}
  BY RRAssumption
<1>2. \E x \in Lens : \A y \in Lens : y <= x
  BY <1>1, FiniteMax
<1>3. MaxLen \in Lens /\ \A y \in Lens : y <= MaxLen
  BY <1>2 DEF MaxLen, MaxOf
<1>4. QED
  BY <1>1, <1>3

\* The accounts of two queues that have just become backlogged together: the
\* first of them has at most the credit of a round and the rest of another, the
\* second has the credit of a round at least.
LEMMA FreshShares ==
  ASSUME NEW ca \in Int, NEW cb \in Int, NEW qa \in Nat, NEW qb \in Nat, NEW m \in Nat,
         0 <= ca, ca < qa + m, qb <= cb, cb < qb + m
  PROVE  /\ 0 + ca * qb - cb * qa <= qb * (m - 1)
         /\ 0 + cb * qa - ca * qb <= qa * qb + qa * (m - 1)
<1>1. ca * qb <= (qa + m - 1) * qb /\ 0 * qb <= ca * qb
  BY MulMono
<1>2. qb * qa <= cb * qa /\ cb * qa <= (qb + m - 1) * qa
  BY MulMono
<1>3. QED
  BY <1>1, <1>2

\* The accounts of two queues when the first of them gets the credit of a round
\* and becomes the second.
LEMMA TurnShares ==
  ASSUME NEW la \in Int, NEW lb \in Int, NEW ca \in Int, NEW cb \in Int,
         NEW qa \in Nat, NEW qb \in Nat, NEW m \in Nat,
         la + ca * qb - cb * qa <= qb * (m - 1),
         lb + cb * qa - ca * qb <= qa * qb + qa * (m - 1)
  PROVE  /\ lb + cb * qa - (ca + qa) * qb <= qa * (m - 1)
         /\ la + (ca + qa) * qb - cb * qa <= qb * qa + qb * (m - 1)
<1>1. (ca + qa) * qb = ca * qb + qa * qb /\ qb * qa = qa * qb
  OBVIOUS
<1>2. QED
  BY <1>1

\* What the accounts say of the leads: a, with the credit ca, has sent no more than
\* its share and the bound, whether it is before b in the list or after it.
LEMMA LeadBound ==
  ASSUME NEW l \in Int, NEW ca \in Nat, NEW cb \in Nat, NEW qa \in Nat, NEW qb \in Nat,
         NEW m \in Nat, cb < qb + m,
         \/ l + ca * qb - cb * qa <= qb * (m - 1)
         \/ qa <= ca /\ l + ca * qb - cb * qa <= qb * qa + qb * (m - 1)
  PROVE  l <= qa * qb + (m - 1) * (qa + qb)
<1>1. cb * qa <= (qb + m - 1) * qa
  BY MulMono
<1>2. PICK x \in Int : x = ca * qb
  OBVIOUS
<1>3. PICK y \in Int : y = cb * qa
  OBVIOUS
<1>4. PICK z \in Int : z = qa * qb
  OBVIOUS
<1>5. PICK u \in Int : u = qb * (m - 1)
  OBVIOUS
<1>6. PICK v \in Int : v = qa * (m - 1)
  OBVIOUS
<1>7. (qb + m - 1) * qa = z + v /\ (m - 1) * (qa + qb) = u + v /\ qb * qa = z
  BY <1>4, <1>5, <1>6
<1>8. 0 <= x /\ (qa <= ca => z <= x)
  <2>1. qa <= ca => qa * qb <= ca * qb
    BY MulMono
  <2>2. QED
    BY <1>2, <1>4, <2>1
<1>9. y <= z + v /\ (l + x - y <= u \/ (z <= x /\ l + x - y <= z + u))
  BY <1>1, <1>2, <1>3, <1>5, <1>7, <1>8
<1>10. l <= z + (u + v)
  BY <1>8, <1>9
<1>11. QED
  BY <1>4, <1>7, <1>10

LEMMA InitRR == Init => RRInv
<1> SUFFICES ASSUME Init PROVE RRInv
  OBVIOUS
<1> USE DEF Init
<1>1. TypeOK
  <2>1. mq \in [Queues -> Seq(Pkts)] /\ lead \in [Queues -> [Queues -> Int]]
    OBVIOUS
  <2>2. nextid \in 1..(MaxPkts + 1)
    BY RRAssumption
  <2>3. QED
    BY <2>1, <2>2 DEF TypeOK
<1>2. NoLead /\ CreditOK
  BY DEF NoLead, CreditOK
<1>3. \E n \in Nat : \E r \in [1..n -> Queues] : IsRing(n, r) /\ Shares(n, r)
  <2> DEFINE r == [i \in 1..0 |-> CHOOSE q \in Queues : TRUE]
  <2>1. r \in [1..0 -> Queues] /\ IsRing(0, r) /\ Shares(0, r)
    BY DEF IsRing, Shares
  <2>2. QED
    BY <2>1
<1>4. QED
  BY <1>1, <1>2, <1>3 DEF RRInv, RingShares

-----------------------------------------------------------------------------
\* The list without its k-th queue.
Without(n, r, k) == [i \in 1..(n - 1) |-> IF i < k THEN r[i] ELSE r[i + 1]]

\* What RemoveHead and RemoveMiddle do to the list.
CutsOut(n, r, k) ==
  /\ status' = status \ {r[k]}
  /\ head' = IF n = 1 THEN NULL ELSE IF k = 1 THEN r[2] ELSE r[1]
  /\ tail' = IF n = 1 THEN NULL ELSE IF k = n THEN r[n - 1] ELSE r[n]
  /\ n > 1 => qnext' = [qnext EXCEPT ![IF k = 1 THEN r[n] ELSE r[k - 1]] = qnext[r[k]]]

\* The list is still a ring when a queue has been taken out.
LEMMA CutRing ==
  ASSUME TypeOK, NEW n \in Nat, NEW r \in [1..n -> Queues], IsRing(n, r), NEW k \in 1..n,
         CutsOut(n, r, k)
  PROVE  /\ Without(n, r, k) \in [1..(n - 1) -> Queues]
         /\ IsRing(n - 1, Without(n, r, k))'
<1> DEFINE w == Without(n, r, k)
           m == n - 1
<1>1. m \in Nat /\ n = m + 1 /\ k \in 1..(m + 1)
  OBVIOUS
<1>2. w \in [1..m -> Queues] /\ \A i \in 1..m : w[i] = IF i < k THEN r[i] ELSE r[i + 1]
  BY DEF Without
<1>3. ASSUME NEW i \in 1..m, NEW j \in 1..m, w[i] = w[j] PROVE i = j
  <2> DEFINE f(x) == IF x < k THEN x ELSE x + 1
  <2>1. f(i) \in 1..n /\ f(j) \in 1..n /\ (f(i) = f(j) => i = j)
    BY <1>1
  <2>2. w[i] = r[f(i)] /\ w[j] = r[f(j)]
    BY <1>2
  <2> HIDE DEF f, w
  <2>3. QED
    BY <1>3, <2>1, <2>2 DEF IsRing
<1>4. \A q \in Queues : q \in status' <=> \E i \in 1..m : w[i] = q
  <2> SUFFICES ASSUME NEW q \in Queues
               PROVE  q \in status' <=> \E i \in 1..m : w[i] = q
    OBVIOUS
  <2>1. ASSUME q \in status' PROVE \E i \in 1..m : w[i] = q
    <3>1. PICK i \in 1..n : r[i] = q
      BY <2>1 DEF IsRing, CutsOut
    <3>2. i # k
      BY <2>1, <3>1 DEF CutsOut
    <3>3. CASE i < k
      BY <1>1, <1>2, <3>1, <3>3
    <3>4. CASE i > k
      <4>1. i - 1 \in 1..m /\ ~(i - 1 < k) /\ (i - 1) + 1 = i
        BY <1>1, <3>4
      <4>2. QED
        BY <1>2, <3>1, <4>1
    <3>5. QED
      BY <3>2, <3>3, <3>4
  <2>2. ASSUME NEW i \in 1..m, w[i] = q PROVE q \in status'
    <3>1. PICK j \in 1..n : j # k /\ r[j] = q
      BY <1>1, <1>2, <2>2
    <3>2. q \in status /\ q # r[k]
      BY <3>1 DEF IsRing
    <3>3. QED
      BY <3>2 DEF CutsOut
  <2>3. QED
    BY <2>1, <2>2
<1>5. head' = (IF m = 0 THEN NULL ELSE w[1]) /\ tail' = (IF m = 0 THEN NULL ELSE w[m])
  BY <1>1, <1>2 DEF CutsOut
<1>6. ASSUME NEW i \in 1..(m - 1) PROVE qnext'[w[i]] = w[i + 1]
  <2>1. m > 0 /\ i \in 1..m /\ i + 1 \in 1..m /\ i \in 1..(n - 1) /\ i + 1 \in 1..(n - 1) /\ n > 1
    BY <1>1
  <2> DEFINE p == IF k = 1 THEN r[n] ELSE r[k - 1]
  <2>2. qnext' = [qnext EXCEPT ![p] = qnext[r[k]]] /\ qnext \in [Queues -> Queues \cup {NULL}]
    BY <2>1 DEF CutsOut, TypeOK
  <2>3. CASE i = k - 1
    <3>1. w[i] = r[k - 1] /\ w[i + 1] = r[k + 1] /\ k # 1 /\ k \in 1..(n - 1)
      BY <1>1, <1>2, <2>1, <2>3
    <3>2. qnext[r[k]] = r[k + 1] /\ r[k - 1] \in Queues
      BY <2>1, <2>3, <3>1 DEF IsRing
    <3>3. QED
      BY <2>2, <3>1, <3>2
  <2>4. CASE i # k - 1
    <3> DEFINE j == IF i < k THEN i ELSE i + 1
    <3>1. w[i] = r[j] /\ w[i + 1] = r[j + 1] /\ j \in 1..(n - 1) /\ j # k - 1
      BY <1>1, <1>2, <2>1, <2>4
    <3> HIDE DEF j
    <3>2. r[j] # p
      BY <3>1 DEF IsRing
    <3>3. qnext[r[j]] = r[j + 1] /\ r[j] \in Queues
      BY <3>1 DEF IsRing
    <3>4. QED
      BY <2>2, <3>1, <3>2, <3>3
  <2>5. QED
    BY <2>3, <2>4
<1>7. ASSUME m > 0 PROVE qnext'[w[m]] = w[1]
  <2>1. n > 1
    BY <1>1, <1>7
  <2> DEFINE p == IF k = 1 THEN r[n] ELSE r[k - 1]
  <2>2. qnext' = [qnext EXCEPT ![p] = qnext[r[k]]] /\ qnext \in [Queues -> Queues \cup {NULL}]
    BY <2>1 DEF CutsOut, TypeOK
  <2>3. CASE k = n
    <3>1. w[m] = r[k - 1] /\ w[1] = r[1] /\ p = r[k - 1] /\ r[k - 1] \in Queues
      BY <1>1, <1>2, <1>7, <2>3
    <3>2. qnext[r[k]] = r[1]
      BY <2>3 DEF IsRing
    <3>3. QED
      BY <2>2, <3>1, <3>2
  <2>4. CASE k = 1
    <3>1. w[m] = r[n] /\ w[1] = r[2] /\ p = r[n] /\ r[n] \in Queues
      BY <1>1, <1>2, <1>7, <2>4
    <3>2. qnext[r[k]] = r[2]
      BY <2>1, <2>4 DEF IsRing
    <3>3. QED
      BY <2>2, <3>1, <3>2
  <2>5. CASE k # 1 /\ k # n
    <3>1. w[m] = r[n] /\ w[1] = r[1] /\ p = r[k - 1] /\ r[n] \in Queues /\ r[n] # p
      BY <1>1, <1>2, <1>7, <2>5 DEF IsRing
    <3>2. qnext[r[n]] = r[1]
      BY <2>1 DEF IsRing
    <3>3. QED
      BY <2>2, <3>1, <3>2
  <2>6. QED
    BY <2>3, <2>4, <2>5
<1>8. QED
  BY <1>2, <1>3, <1>4, <1>5, <1>6, <1>7 DEF IsRing

\* A queue that joins the list becomes its tail.
LEMMA AppendRing ==
  ASSUME TypeOK, NEW n \in Nat, NEW r \in [1..n -> Queues], IsRing(n, r),
         NEW q \in Queues, q \notin status, RRAppend(q)
  PROVE  LET w == [i \in 1..(n + 1) |-> IF i = n + 1 THEN q ELSE r[i]]
         IN  w \in [1..(n + 1) -> Queues] /\ IsRing(n + 1, w)'
<1> DEFINE w == [i \in 1..(n + 1) |-> IF i = n + 1 THEN q ELSE r[i]]
<1>1. w \in [1..(n + 1) -> Queues] /\ w[n + 1] = q /\ \A i \in 1..n : w[i] = r[i]
  OBVIOUS
<1> HIDE DEF w
<1>2. \A i \in 1..n : r[i] # q /\ r[i] \in Queues
  BY DEF IsRing
<1>3. \A i \in 1..(n + 1) : i = n + 1 \/ i \in 1..n
  OBVIOUS
<1>4. \A i, j \in 1..(n + 1) : w[i] = w[j] => i = j
  BY <1>1, <1>2, <1>3 DEF IsRing
<1>5. \A x \in Queues : x \in status' <=> \E i \in 1..(n + 1) : w[i] = x
  <2>1. n + 1 \in 1..(n + 1) /\ \A i \in 1..n : i \in 1..(n + 1)
    OBVIOUS
  <2>2. status' = status \cup {q}
    BY DEF RRAppend
  <2>3. \A x \in Queues : x \in status <=> \E i \in 1..n : r[i] = x
    BY DEF IsRing
  <2>4. QED
    BY <1>1, <1>3, <2>1, <2>2, <2>3, Zenon
<1>6. head' = w[1] /\ tail' = w[n + 1]
  <2>1. CASE n = 0
    BY <1>1, <2>1 DEF IsRing, RRAppend
  <2>2. CASE n # 0
    <3>1. head = r[1] /\ r[1] # NULL /\ w[1] = r[1]
      BY <1>1, <1>2, <2>2, RRAssumption DEF IsRing
    <3>2. QED
      BY <1>1, <3>1 DEF RRAppend
  <2>3. QED
    BY <2>1, <2>2
<1>7. (\A i \in 1..n : qnext'[w[i]] = w[i + 1]) /\ qnext'[w[n + 1]] = w[1]
  <2>1. qnext \in [Queues -> Queues \cup {NULL}] /\ qnext' = LinkLast(q)
    BY DEF TypeOK, RRAppend
  <2>2. CASE n = 0
    <3>1. qnext' = [qnext EXCEPT ![q] = q] /\ w[1] = q
      BY <1>1, <2>1, <2>2 DEF LinkLast, IsRing
    <3>2. QED
      BY <1>1, <2>1, <2>2, <3>1
  <2>3. CASE n # 0
    <3>1. head = r[1] /\ tail = r[n] /\ r[1] # NULL /\ w[1] = r[1] /\ w[n] = r[n]
      BY <1>1, <1>2, <2>3, RRAssumption DEF IsRing
    <3>2. qnext' = [qnext EXCEPT ![r[n]] = q, ![q] = r[1]]
      BY <2>1, <3>1 DEF LinkLast
    <3>3. r[n] # q /\ r[n] \in Queues
      BY <1>2, <2>3
    <3>4. qnext'[q] = r[1] /\ qnext'[r[n]] = q /\ \A x \in Queues : x # q /\ x # r[n] => qnext'[x] = qnext[x]
      BY <2>1, <3>2, <3>3
    <3>5. ASSUME NEW i \in 1..n PROVE qnext'[w[i]] = w[i + 1]
      <4>1. CASE i = n
        BY <1>1, <3>1, <3>4, <4>1
      <4>2. CASE i # n
        <5>1. i \in 1..(n - 1) /\ i + 1 \in 1..n
          BY <4>2
        <5>2. r[i] # r[n] /\ qnext[r[i]] = r[i + 1]
          BY <2>3, <4>2, <5>1 DEF IsRing
        <5>3. QED
          BY <1>1, <1>2, <3>4, <5>1, <5>2
      <4>3. QED
        BY <4>1, <4>2
    <3>6. QED
      BY <1>1, <3>1, <3>4, <3>5
  <2>4. QED
    BY <2>2, <2>3
<1>8. IsRing(n + 1, w)'
  BY <1>4, <1>5, <1>6, <1>7, SMTT(40) DEF IsRing
<1>9. QED
  BY <1>1, <1>8 DEF w

\* Skipping the head of the list makes it the tail.
LEMMA TurnRing ==
  ASSUME TypeOK, NEW n \in Nat, NEW r \in [1..n -> Queues], IsRing(n, r), n > 0,
         head' = qnext[head], tail' = qnext[tail], UNCHANGED <<status, qnext>>
  PROVE  LET w == [i \in 1..n |-> IF i = n THEN r[1] ELSE r[i + 1]]
         IN  w \in [1..n -> Queues] /\ IsRing(n, w)'
<1> DEFINE w == [i \in 1..n |-> IF i = n THEN r[1] ELSE r[i + 1]]
<1>1. w \in [1..n -> Queues] /\ w[n] = r[1] /\ \A i \in 1..(n - 1) : w[i] = r[i + 1]
  OBVIOUS
<1> HIDE DEF w
<1>2. \A i \in 1..n : i = n \/ i \in 1..(n - 1)
  OBVIOUS
<1>3. ASSUME NEW i \in 1..n, NEW j \in 1..n, w[i] = w[j] PROVE i = j
  <2>1. CASE i = n /\ j # n
    <3>1. r[1] = r[j + 1] /\ j + 1 \in 1..n /\ j + 1 # 1
      BY <1>1, <1>3, <2>1
    <3>2. QED
      BY <3>1 DEF IsRing
  <2>2. CASE i # n /\ j = n
    <3>1. r[1] = r[i + 1] /\ i + 1 \in 1..n /\ i + 1 # 1
      BY <1>1, <1>3, <2>2
    <3>2. QED
      BY <3>1 DEF IsRing
  <2>3. CASE i # n /\ j # n
    <3>1. r[i + 1] = r[j + 1] /\ i + 1 \in 1..n /\ j + 1 \in 1..n
      BY <1>1, <1>3, <2>3
    <3>2. i + 1 = j + 1
      BY <3>1 DEF IsRing
    <3>3. QED
      BY <3>2
  <2>4. QED
    BY <2>1, <2>2, <2>3
<1>4. \A q \in Queues : q \in status' <=> \E i \in 1..n : w[i] = q
  <2>1. ASSUME NEW i \in 1..n PROVE \E j \in 1..n : w[j] = r[i]
    <3>1. CASE i = 1
      BY <1>1, <3>1
    <3>2. CASE i # 1
      <4>1. i - 1 \in 1..(n - 1) /\ i - 1 \in 1..n /\ (i - 1) + 1 = i
        BY <3>2
      <4>2. QED
        BY <1>1, <4>1
    <3>3. QED
      BY <3>1, <3>2
  <2>2. ASSUME NEW i \in 1..n PROVE \E j \in 1..n : r[j] = w[i]
    <3>1. CASE i = n
      BY <1>1, <3>1
    <3>2. CASE i # n
      <4>1. i \in 1..(n - 1) /\ i + 1 \in 1..n
        BY <3>2
      <4>2. QED
        BY <1>1, <4>1
    <3>3. QED
      BY <3>1, <3>2
  <2>3. status' = status /\ \A q \in Queues : q \in status <=> \E i \in 1..n : r[i] = q
    BY DEF IsRing
  <2>4. QED
    BY <2>1, <2>2, <2>3, ZenonT(40)
<1>5. head = r[1] /\ tail = r[n] /\ qnext[r[n]] = r[1]
  BY DEF IsRing
<1>6. head' = w[1] /\ tail' = w[n]
  <2>1. CASE n = 1
    BY <1>1, <1>5, <2>1
  <2>2. CASE n # 1
    <3>1. qnext[r[1]] = r[2] /\ w[1] = r[2]
      BY <1>1, <2>2 DEF IsRing
    <3>2. QED
      BY <1>1, <1>5, <3>1
  <2>3. QED
    BY <2>1, <2>2
<1>7. ASSUME NEW i \in 1..(n - 1) PROVE qnext'[w[i]] = w[i + 1]
  <2>1. w[i] = r[i + 1] /\ qnext' = qnext
    BY <1>1
  <2>2. CASE i = n - 1
    BY <1>1, <1>5, <2>1, <2>2
  <2>3. CASE i # n - 1
    <3>1. i + 1 \in 1..(n - 1) /\ w[i + 1] = r[(i + 1) + 1]
      BY <1>1, <2>3
    <3>2. QED
      BY <2>1, <3>1 DEF IsRing
  <2>4. QED
    BY <2>2, <2>3
<1>8. qnext'[w[n]] = w[1]
  <2>1. CASE n = 1
    BY <1>1, <1>5, <2>1
  <2>2. CASE n # 1
    <3>1. qnext[r[1]] = r[2] /\ w[1] = r[2] /\ w[n] = r[1]
      BY <1>1, <2>2 DEF IsRing
    <3>2. QED
      BY <3>1
  <2>3. QED
    BY <2>1, <2>2
<1>9. IsRing(n, w)'
  BY <1>3, <1>4, <1>6, <1>7, <1>8 DEF IsRing
<1>10. QED
  BY <1>1, <1>9 DEF w

-----------------------------------------------------------------------------
\* A walk from head meets the queues of the ring in their order, again and again.
LEMMA WalkRing ==
  ASSUME TypeOK, NEW n \in Nat, NEW r \in [1..n -> Queues], IsRing(n, r), n > 0
  PROVE  /\ DOMAIN Walk = 0..Cardinality(Queues)
         /\ n = Cardinality(status) /\ n - 1 \in DOMAIN Walk
         /\ \A k \in DOMAIN Walk : Walk[k] \in status
         /\ \A k \in 0..(n - 1) : Walk[k] = r[k + 1]
<1> DEFINE C == Cardinality(Queues)
           Def(f) == [k \in 0..C |-> IF k = 0 THEN head
                                     ELSE IF f[k - 1] = NULL THEN NULL ELSE qnext[f[k - 1]]]
<1>1. /\ C \in Nat /\ n = Cardinality(status) /\ n <= C
      /\ \A i \in 1..n : r[i] \in status /\ r[i] \in Queues /\ r[i] # NULL
  <2>1. \A i \in 1..n : r[i] \in status /\ r[i] \in Queues
    BY DEF IsRing
  <2>2. r \in [1..n -> status] /\ status \subseteq Queues /\ IsFiniteSet(Queues)
    BY <2>1, RRAssumption DEF TypeOK
  <2>3. n = Cardinality(status)
    BY <2>2, CountedSet DEF IsRing
  <2>4. C \in Nat /\ Cardinality(status) <= C
    BY <2>2, FS_Subset, FS_CardinalityType
  <2>5. QED
    BY <2>1, <2>3, <2>4, RRAssumption
\* The queue after each one of the ring is in the ring.
<1>2. ASSUME NEW q \in status PROVE qnext[q] \in status /\ q # NULL
  <2>1. PICK i \in 1..n : r[i] = q
    BY DEF IsRing, TypeOK
  <2>2. CASE i = n
    BY <1>1, <2>1, <2>2 DEF IsRing
  <2>3. CASE i # n
    <3>1. i \in 1..(n - 1) /\ i + 1 \in 1..n
      BY <2>3
    <3>2. QED
      BY <1>1, <2>1, <3>1 DEF IsRing
  <2>4. QED
    BY <2>2, <2>3
\* There is a walk of any length ...
<1>3. \E f : f = Def(f)
  <2> DEFINE S == {m \in Nat : \E f \in [0..m -> status] :
                                 f[0] = head /\ \A k \in 1..m : f[k] = qnext[f[k - 1]]}
  <2>1. 0 \in S
    <3>1. head \in status
      BY <1>1 DEF IsRing
    <3> DEFINE f == [k \in 0..0 |-> head]
    <3>2. f \in [0..0 -> status] /\ f[0] = head /\ \A k \in 1..0 : f[k] = qnext[f[k - 1]]
      BY <3>1
    <3> HIDE DEF f
    <3>3. QED
      BY <3>2
  <2>2. ASSUME NEW m \in Nat, m \in S PROVE m + 1 \in S
    <3>1. PICK f \in [0..m -> status] : f[0] = head /\ \A k \in 1..m : f[k] = qnext[f[k - 1]]
      BY <2>2
    <3> DEFINE g == [k \in 0..(m + 1) |-> IF k = m + 1 THEN qnext[f[m]] ELSE f[k]]
    <3>2. f[m] \in status
      BY <3>1
    <3>3. g \in [0..(m + 1) -> status]
      BY <1>2, <3>2
    <3>4. g[m + 1] = qnext[f[m]] /\ \A k \in 0..m : g[k] = f[k]
      OBVIOUS
    <3> HIDE DEF g
    <3>5. g[0] = head
      BY <3>1, <3>4
    <3>6. ASSUME NEW k \in 1..(m + 1) PROVE g[k] = qnext[g[k - 1]]
      <4>1. k - 1 \in 0..m /\ (k = m + 1 \/ k \in 1..m)
        OBVIOUS
      <4>2. CASE k = m + 1
        BY <3>4, <4>1, <4>2
      <4>3. CASE k \in 1..m
        BY <3>1, <3>4, <4>1, <4>3
      <4>4. QED
        BY <4>1, <4>2, <4>3
    <3>7. \E h \in [0..(m + 1) -> status] :
             h[0] = head /\ \A k \in 1..(m + 1) : h[k] = qnext[h[k - 1]]
      BY <3>3, <3>5, <3>6, Zenon
    <3>8. m + 1 \in Nat
      OBVIOUS
    <3>9. QED
      BY <3>7, <3>8, Zenon
  <2>3. C \in S
    <3> HIDE DEF S
    <3>1. Nat \subseteq S
      BY <2>1, <2>2, NatSetInduction
    <3>2. QED
      BY <1>1, <3>1
  <2>4. PICK f \in [0..C -> status] : f[0] = head /\ \A k \in 1..C : f[k] = qnext[f[k - 1]]
    BY <2>3
  <2>5. ASSUME NEW k \in 0..C PROVE f[k] = Def(f)[k]
    <3>1. CASE k = 0
      BY <2>4, <3>1
    <3>2. CASE k # 0
      <4>1. k \in 1..C /\ k - 1 \in 0..C /\ f[k - 1] # NULL
        BY <1>1, <1>2, <3>2
      <4>2. QED
        BY <2>4, <3>2, <4>1
    <3>3. QED
      BY <3>1, <3>2
  <2>6. f = Def(f)
    BY <2>5
  <2>7. QED
    BY <2>6
\* ... so that Walk is one.
<1>4. Walk = Def(Walk)
  <2> DEFINE node == CHOOSE f : f = Def(f)
  <2>1. Walk = node
    BY DEF Walk
  <2> HIDE DEF Def
  <2>2. node = Def(node)
    BY <1>3, Zenon
  <2>3. QED
    BY <2>1, <2>2
<1>5. /\ DOMAIN Walk = 0..C /\ Walk[0] = head
      /\ \A k \in 1..C : Walk[k] = IF Walk[k - 1] = NULL THEN NULL ELSE qnext[Walk[k - 1]]
  <2>1. /\ DOMAIN Def(Walk) = 0..C
        /\ \A k \in 0..C : Def(Walk)[k] = IF k = 0 THEN head
                                ELSE IF Walk[k - 1] = NULL THEN NULL ELSE qnext[Walk[k - 1]]
    OBVIOUS
  <2> HIDE DEF Def, C
  <2>2. 0 \in 0..C /\ \A k \in 1..C : k \in 0..C /\ k # 0
    BY <1>1
  <2>3. QED
    BY <1>4, <2>1, <2>2
<1> HIDE DEF Def, C
<1>6. \A k \in 0..C : Walk[k] \in status
  <2> DEFINE S == {m \in Nat : m \in 0..C => Walk[m] \in status}
  <2>1. 0 \in S
    BY <1>1, <1>5 DEF IsRing
  <2>2. ASSUME NEW m \in Nat, m \in S PROVE m + 1 \in S
    <3>1. SUFFICES ASSUME m + 1 \in 0..C PROVE Walk[m + 1] \in status
      OBVIOUS
    <3>2. m + 1 \in 1..C /\ m \in 0..C /\ (m + 1) - 1 = m
      BY <1>1, <3>1
    <3>3. Walk[m] \in status
      BY <2>2, <3>2
    <3>4. QED
      BY <1>2, <1>5, <3>2, <3>3
  <2>3. Nat \subseteq S
    <3> HIDE DEF S
    <3>1. QED
      BY <2>1, <2>2, NatSetInduction
  <2>4. QED
    BY <1>1, <2>3
<1>7. \A k \in 0..(n - 1) : Walk[k] = r[k + 1]
  <2> DEFINE S == {m \in Nat : m \in 0..(n - 1) => Walk[m] = r[m + 1]}
  <2>1. 0 \in S
    BY <1>5 DEF IsRing
  <2>2. ASSUME NEW m \in Nat, m \in S PROVE m + 1 \in S
    <3>1. SUFFICES ASSUME m + 1 \in 0..(n - 1) PROVE Walk[m + 1] = r[(m + 1) + 1]
      OBVIOUS
    <3>2. m + 1 \in 1..C /\ m \in 0..(n - 1) /\ (m + 1) - 1 = m /\ m + 1 \in 1..(n - 1)
      BY <1>1, <3>1
    <3>3. Walk[m] = r[m + 1] /\ r[m + 1] # NULL
      BY <1>1, <2>2, <3>2
    <3>4. Walk[m + 1] = qnext[r[m + 1]]
      BY <1>5, <3>2, <3>3
    <3>5. QED
      BY <3>2, <3>4 DEF IsRing
  <2>3. Nat \subseteq S
    <3> HIDE DEF S
    <3>1. QED
      BY <2>1, <2>2, NatSetInduction
  <2>4. QED
    BY <2>3
<1>8. n - 1 \in 0..C
  BY <1>1
<1>9. QED
  BY <1>1, <1>5, <1>6, <1>7, <1>8 DEF C

-----------------------------------------------------------------------------
\* The first queue of the list is the one that rr_remove_head() takes out ...
LEMMA RemoveHeadCuts ==
  ASSUME TypeOK, NEW n \in Nat, NEW r \in [1..n -> Queues], IsRing(n, r), n > 0, RemoveHead
  PROVE  CutsOut(n, r, 1)
<1>1. head = r[1] /\ tail = r[n]
  BY DEF IsRing
<1>2. CASE n = 1
  BY <1>1, <1>2 DEF RemoveHead, CutsOut
<1>3. CASE n # 1
  <2>1. head # tail /\ qnext[r[1]] = r[2]
    BY <1>1, <1>3 DEF IsRing
  <2>2. QED
    BY <1>1, <1>3, <2>1 DEF RemoveHead, CutsOut
<1>4. QED
  BY <1>2, <1>3

\* ... and the search of remove_queue_q() finds the one before its queue.
LEMMA RemoveMiddleCuts ==
  ASSUME TypeOK, NEW n \in Nat, NEW r \in [1..n -> Queues], IsRing(n, r),
         NEW k \in 2..n, RemoveMiddle(r[k])
  PROVE  CutsOut(n, r, k)
<1>1. n > 1 /\ k - 1 \in 1..(n - 1) /\ k - 1 \in 1..n /\ k \in 1..n /\ k - 2 \in 0..(n - 1)
  OBVIOUS
<1> DEFINE P(m) == m \in DOMAIN Walk /\ Walk[m] # NULL /\ qnext[Walk[m]] = r[k]
           c == CHOOSE m \in DOMAIN Walk : Walk[m] # NULL /\ qnext[Walk[m]] = r[k]
<1>2. /\ DOMAIN Walk = 0..Cardinality(Queues) /\ n - 1 \in DOMAIN Walk
      /\ \A m \in DOMAIN Walk : Walk[m] \in status
      /\ \A m \in 0..(n - 1) : Walk[m] = r[m + 1]
  BY <1>1, WalkRing
<1>3. P(k - 2)
  <2>1. Walk[k - 2] = r[k - 1] /\ r[k - 1] \in Queues
    BY <1>1, <1>2
  <2>2. Cardinality(Queues) \in Nat
    BY RRAssumption, FS_CardinalityType
  <2>3. k - 2 \in DOMAIN Walk
    BY <1>1, <1>2, <2>2
  <2>4. qnext[r[k - 1]] = r[k]
    BY <1>1 DEF IsRing
  <2>5. QED
    BY <2>1, <2>3, <2>4, RRAssumption
<1>4. P(c)
  BY <1>3, Zenon
<1>5. Walk[c] = r[k - 1]
  <2>1. Walk[c] \in status /\ Walk[c] \in Queues
    BY <1>2, <1>4 DEF TypeOK
  <2>2. PICK i \in 1..n : r[i] = Walk[c]
    BY <2>1 DEF IsRing
  <2>3. qnext[r[i]] = r[k]
    BY <1>4, <2>2
  <2>4. CASE i = n
    BY <1>1, <2>3, <2>4 DEF IsRing
  <2>5. CASE i # n
    <3>1. i \in 1..(n - 1) /\ i + 1 \in 1..n
      BY <2>5
    <3>2. r[i + 1] = r[k]
      BY <2>3, <3>1 DEF IsRing
    <3>3. i + 1 = k
      BY <1>1, <3>1, <3>2 DEF IsRing
    <3>4. QED
      BY <2>2, <3>1, <3>3
  <2>6. QED
    BY <2>4, <2>5
<1>6. /\ qnext' = [qnext EXCEPT ![r[k - 1]] = qnext[r[k]]]
      /\ tail' = IF r[k] = tail THEN r[k - 1] ELSE tail
      /\ status' = status \ {r[k]} /\ head' = head
  <2>1. /\ qnext' = [qnext EXCEPT ![Walk[c]] = qnext[r[k]]]
        /\ tail' = IF r[k] = tail THEN Walk[c] ELSE tail
        /\ status' = status \ {r[k]} /\ head' = head
    BY DEF RemoveMiddle
  <2> HIDE DEF c
  <2>2. QED
    BY <1>5, <2>1
<1>7. head = r[1] /\ tail = r[n] /\ (r[k] = tail <=> k = n)
  BY <1>1 DEF IsRing
<1>8. n # 1 /\ k # 1 /\ tail' = IF k = n THEN r[n - 1] ELSE r[n]
  BY <1>1, <1>6, <1>7
<1>9. QED
  BY <1>6, <1>7, <1>8 DEF CutsOut

\* A queue that is deleted while it is in the list is taken out of it.
LEMMA DeleteCuts ==
  ASSUME TypeOK, NEW n \in Nat, NEW r \in [1..n -> Queues], IsRing(n, r),
         NEW q \in status, DeleteQueue(q)
  PROVE  \E k \in 1..n : r[k] = q /\ CutsOut(n, r, k)
<1>1. PICK k \in 1..n : r[k] = q
  BY DEF IsRing, TypeOK
<1>2. head = r[1]
  BY DEF IsRing
<1>3. CASE k = 1
  <2>1. RemoveHead
    BY <1>1, <1>2, <1>3 DEF DeleteQueue
  <2>2. QED
    BY <1>1, <1>3, <2>1, RemoveHeadCuts
<1>4. CASE k # 1
  <2>1. k \in 2..n /\ 1 \in 1..n
    BY <1>4
  <2>2. q # head
    BY <1>1, <1>2, <1>4, <2>1 DEF IsRing
  <2>3. RemoveMiddle(r[k])
    BY <1>1, <2>2 DEF DeleteQueue
  <2>4. QED
    BY <1>1, <2>1, <2>3, RemoveMiddleCuts
<1>5. QED
  BY <1>3, <1>4

-----------------------------------------------------------------------------
\* Type correctness.
LEMMA TypeStep == RRInv /\ [Next]_vars => TypeOK'
<1> SUFFICES ASSUME RRInv, [Next]_vars PROVE TypeOK'
  OBVIOUS
<1> USE RRAssumption DEF TypeOK
<1>1. TypeOK
  BY DEF RRInv
<1>2. CASE UNCHANGED vars
  BY <1>1, <1>2 DEF vars
<1>3. ASSUME NEW q \in Queues, NewQueue(q) PROVE TypeOK'
  BY <1>1, <1>3 DEF NewQueue
<1>4. ASSUME NEW q \in Queues, EnqueueDrop(q) PROVE TypeOK'
  <2>1. nextid' \in 1..(MaxPkts + 1)
    BY <1>1, <1>4 DEF EnqueueDrop
  <2>2. QED
    BY <1>1, <1>4, <2>1, Zenon DEF EnqueueDrop
<1>5. ASSUME NEW q \in Queues, DrainQueue(q) PROVE TypeOK'
  BY <1>1, <1>5 DEF DrainQueue
<1>6. ASSUME NEW q \in Queues, NEW len \in Lens, Enqueue(q, len) PROVE TypeOK'
  <2>1. [id |-> nextid, len |-> len] \in Pkts
    BY <1>1, <1>6 DEF Enqueue, Pkts
  <2>2. mq' \in [Queues -> Seq(Pkts)]
    BY <1>1, <1>6, <2>1 DEF Enqueue
  <2>3. nextid' \in 1..(MaxPkts + 1)
    BY <1>1, <1>6 DEF Enqueue
  <2>4. /\ status' \subseteq Queues /\ credit' \in [Queues -> Nat]
        /\ qnext' \in [Queues -> Queues \cup {NULL}]
        /\ head' \in Queues \cup {NULL} /\ tail' \in Queues \cup {NULL}
    <3>1. CASE RRAppend(q)
      <4>1. qnext' \in [Queues -> Queues \cup {NULL}]
        BY <1>1, <3>1 DEF RRAppend, LinkLast
      <4>2. credit' \in [Queues -> Nat]
        BY <1>1, <3>1 DEF RRAppend
      <4>3. QED
        BY <1>1, <3>1, <4>1, <4>2 DEF RRAppend
    <3>2. CASE UNCHANGED <<status, credit, qnext, head, tail>>
      BY <1>1, <3>2
    <3>3. QED
      BY <1>6, <3>1, <3>2 DEF Enqueue
  <2>5. QED
    BY <1>1, <1>6, <2>2, <2>3, <2>4, Zenon DEF Enqueue
<1>7. CASE DequeueStart
  BY <1>1, <1>7 DEF DequeueStart
<1>8. CASE DequeueEmpty
  BY <1>1, <1>8, ZenonT(60) DEF DequeueEmpty, RemoveHead
<1>9. CASE DequeueSkip
  <2>1. head \in Queues
    BY <1>1, <1>9 DEF DequeueSkip
  <2>2. tail \in Queues
    BY <1>9 DEF DequeueSkip, RRInv, RingShares, IsRing
  <2>3. credit' \in [Queues -> Nat]
    BY <1>1, <1>9, <2>1 DEF DequeueSkip
  <2>4. head' \in Queues \cup {NULL} /\ tail' \in Queues \cup {NULL}
    BY <1>1, <1>9, <2>1, <2>2 DEF DequeueSkip
  <2>5. QED
    BY <1>1, <1>9, <2>3, <2>4, Zenon DEF DequeueSkip
<1>10. CASE DequeueTake
  <2>1. head \in Queues /\ mq[head] \in Seq(Pkts) /\ mq[head] # <<>>
    BY <1>1, <1>10 DEF DequeueTake
  <2>2. Head(mq[head]) \in Pkts /\ Tail(mq[head]) \in Seq(Pkts)
    BY <2>1
  <2> DEFINE len == Head(mq[head]).len
             rest == Tail(mq[head])
  <2>3. len \in Nat /\ len <= credit[head]
    BY <1>10, <2>2 DEF DequeueTake, Affords, Pkts
  <2>4. credit' \in [Queues -> Nat]
    <3>1. credit' = [credit EXCEPT ![head] = credit[head] - len]
      BY <1>10 DEF DequeueTake
    <3> HIDE DEF len
    <3>2. QED
      BY <1>1, <2>1, <2>3, <3>1
  <2>5. lead' \in [Queues -> [Queues -> Int]]
    <3>1. lead' = Leads(head, len, rest)
      BY <1>10 DEF DequeueTake
    <3> HIDE DEF len, rest
    <3>2. ASSUME NEW a \in Queues, NEW b \in Queues
          PROVE  Leads(head, len, rest)[a][b] \in Int
      BY <1>1, <2>3 DEF Leads
    <3>3. QED
      BY <3>1, <3>2 DEF Leads
  <2>6. mq' \in [Queues -> Seq(Pkts)] /\ ret' \in Pkts \cup {NULL}
    BY <1>1, <1>10, <2>1, <2>2 DEF DequeueTake
  <2>7. QED
    BY <1>1, <1>10, <2>4, <2>5, <2>6, Zenon DEF DequeueTake
<1>11. CASE DequeueNone
  BY <1>1, <1>11 DEF DequeueNone
<1>12. ASSUME NEW q \in Queues, DeleteQueue(q) PROVE TypeOK'
  <2>1. mq' \in [Queues -> Seq(Pkts)] /\ lead' \in [Queues -> [Queues -> Int]]
    BY <1>1, <1>12 DEF DeleteQueue
  <2>2. /\ status' \subseteq Queues /\ qnext' \in [Queues -> Queues \cup {NULL}]
        /\ head' \in Queues \cup {NULL} /\ tail' \in Queues \cup {NULL}
    <3>1. CASE q \in status
      <4>0. PICK n \in Nat : \E r \in [1..n -> Queues] : IsRing(n, r)
        BY DEF RRInv, RingShares
      <4>1. PICK r \in [1..n -> Queues] : IsRing(n, r)
        BY <4>0
      <4>2. PICK k \in 1..n : r[k] = q /\ CutsOut(n, r, k)
        BY <1>1, <1>12, <3>1, <4>1, DeleteCuts
      <4>3. status' \subseteq Queues
        BY <1>1, <4>2 DEF CutsOut
      <4>4. head' \in Queues \cup {NULL} /\ tail' \in Queues \cup {NULL}
        BY <4>2 DEF CutsOut
      <4>5. qnext' \in [Queues -> Queues \cup {NULL}]
        <5>1. CASE n = 1
          <6>1. q = head /\ head = tail
            BY <4>1, <4>2, <5>1 DEF IsRing
          <6>2. UNCHANGED qnext
            BY <1>12, <3>1, <6>1 DEF DeleteQueue, RemoveHead
          <6>3. QED
            BY <1>1, <6>2
        <5>2. CASE n # 1
          <6>1. PICK p : qnext' = [qnext EXCEPT ![p] = qnext[r[k]]]
            BY <4>2, <5>2 DEF CutsOut
          <6>2. r[k] \in Queues
            OBVIOUS
          <6>3. QED
            BY <1>1, <6>1, <6>2
        <5>3. QED
          BY <5>1, <5>2
      <4>6. QED
        BY <4>3, <4>4, <4>5
    <3>2. CASE q \notin status
      BY <1>1, <1>12, <3>2 DEF DeleteQueue
    <3>3. QED
      BY <3>1, <3>2
  <2>3. QED
    BY <1>1, <1>12, <2>1, <2>2 DEF DeleteQueue
<1>13. QED
  BY <1>2, <1>3, <1>4, <1>5, <1>6, <1>7, <1>8, <1>9, <1>10, <1>11, <1>12
  DEF Next, DequeueLoop

-----------------------------------------------------------------------------
\* The rest of the invariant, action by action.

\* The shares of two queues depend on their leads and their credits only.
LEMMA SameInTurn ==
  ASSUME TypeOK, NEW a \in Queues, NEW b \in Queues, InTurn(a, b),
         lead'[a][b] = lead[a][b], lead'[b][a] = lead[b][a],
         credit'[a] = credit[a], credit'[b] = credit[b]
  PROVE  InTurn(a, b)'
BY DEF InTurn, Account

\* A step that leaves the list alone, and the credits and leads of its queues.
LEMMA SameRing ==
  ASSUME RRInv,
         status' = status, head' = head, tail' = tail,
         \A q \in status : qnext'[q] = qnext[q] /\ credit'[q] = credit[q],
         \A a, b \in status : lead'[a][b] = lead[a][b]
  PROVE  CreditOK' /\ RingShares'
<1>1. CreditOK'
  BY DEF RRInv, CreditOK
<1>2. PICK n \in Nat : \E r \in [1..n -> Queues] : IsRing(n, r) /\ Shares(n, r)
  BY DEF RRInv, RingShares
<1>3. PICK r \in [1..n -> Queues] : IsRing(n, r) /\ Shares(n, r)
  BY <1>2
<1>4. \A i \in 1..n : r[i] \in status /\ r[i] \in Queues
  BY <1>3 DEF IsRing
<1>5. IsRing(n, r)'
  BY <1>3, <1>4 DEF IsRing
<1>6. Shares(n, r)'
  <2> SUFFICES ASSUME NEW i \in 1..n, NEW j \in 1..n, i < j PROVE InTurn(r[i], r[j])'
    BY DEF Shares
  <2>1. InTurn(r[i], r[j])
    BY <1>3 DEF Shares
  <2>2. QED
    BY <1>4, <2>1, SameInTurn DEF RRInv
<1>7. QED
  BY <1>1, <1>5, <1>6 DEF RingShares

\* A queue is taken out of the list; the others keep their shares.
LEMMA SharesWithout ==
  ASSUME RRInv, NEW n \in Nat, NEW r \in [1..n -> Queues], IsRing(n, r), Shares(n, r),
         NEW k \in 1..n, CutsOut(n, r, k), credit' = credit,
         \A a, b \in Queues \ {r[k]} : lead'[a][b] = lead[a][b]
  PROVE  RingShares'
<1> DEFINE w == Without(n, r, k)
<1>1. n - 1 \in Nat /\ w \in [1..(n - 1) -> Queues] /\ IsRing(n - 1, w)'
  BY CutRing DEF RRInv
<1>2. Shares(n - 1, w)'
  <2> SUFFICES ASSUME NEW i \in 1..(n - 1), NEW j \in 1..(n - 1), i < j
               PROVE  InTurn(w[i], w[j])'
    BY DEF Shares
  <2> DEFINE f(x) == IF x < k THEN x ELSE x + 1
  <2>1. f(i) \in 1..n /\ f(j) \in 1..n /\ f(i) < f(j) /\ f(i) # k /\ f(j) # k
    OBVIOUS
  <2>2. w[i] = r[f(i)] /\ w[j] = r[f(j)]
    BY DEF Without
  <2> HIDE DEF f, w
  <2>3. InTurn(r[f(i)], r[f(j)])
    BY <2>1 DEF Shares
  <2>4. r[f(i)] \in Queues \ {r[k]} /\ r[f(j)] \in Queues \ {r[k]}
    BY <2>1 DEF IsRing
  <2>5. QED
    BY <2>2, <2>3, <2>4, SameInTurn DEF RRInv
<1> HIDE DEF w
<1>3. QED
  BY <1>1, <1>2 DEF RingShares

LEMMA NewQueueStep == ASSUME RRInv, NEW q \in Queues, NewQueue(q) PROVE RRInv'
<1>1. TypeOK'
  BY TypeStep DEF Next
<1>2. q \notin status /\ status \subseteq Queues
  BY DEF RRInv, TypeOK, NewQueue
<1>3. status' = status /\ alive \subseteq alive' /\ UNCHANGED <<mq, head, tail, lead>>
  BY <1>2 DEF NewQueue
<1>4. \A x \in status : qnext'[x] = qnext[x] /\ credit'[x] = credit[x]
  BY <1>2 DEF NewQueue, RRInv, TypeOK
<1>5. CreditOK' /\ RingShares'
  BY <1>3, <1>4, SameRing
<1>6. QED
  BY <1>1, <1>3, <1>5 DEF RRInv, NoLead

\* The steps that leave the list, the credits and the packets alone.
LEMMA StutterStep ==
  ASSUME RRInv, TypeOK', status \subseteq alive',
         UNCHANGED <<mq, status, credit, qnext, head, tail, lead>>
  PROVE  RRInv'
<1>1. CreditOK' /\ RingShares'
  BY SameRing
<1>2. QED
  BY <1>1 DEF RRInv, NoLead

LEMMA DequeueEmptyStep == ASSUME RRInv, DequeueEmpty PROVE RRInv'
<1>1. TypeOK /\ TypeOK'
  BY TypeStep DEF Next, DequeueLoop, RRInv
<1>2. PICK n \in Nat : \E r \in [1..n -> Queues] : IsRing(n, r) /\ Shares(n, r)
  BY DEF RRInv, RingShares
<1>3. PICK r \in [1..n -> Queues] : IsRing(n, r) /\ Shares(n, r)
  BY <1>2
<1>4. n > 0 /\ head = r[1] /\ mq[head] = <<>>
  BY <1>3 DEF DequeueEmpty, IsRing
<1>5. CutsOut(n, r, 1)
  BY <1>1, <1>3, <1>4, RemoveHeadCuts DEF DequeueEmpty
<1>6. UNCHANGED <<alive, mq, credit, lead>> /\ status' = status \ {head}
  BY DEF DequeueEmpty, RemoveHead
<1>7. RingShares'
  BY <1>3, <1>4, <1>5, <1>6, SharesWithout
<1>8. CreditOK'
  BY <1>6 DEF RRInv, CreditOK
<1>9. QED
  BY <1>1, <1>4, <1>6, <1>7, <1>8 DEF RRInv, NoLead

LEMMA EnqueueStep ==
  ASSUME RRInv, NEW q \in Queues, NEW len \in Lens, Enqueue(q, len)
  PROVE  RRInv'
<1>1. TypeOK /\ TypeOK'
  BY TypeStep DEF Next, RRInv
<1>2. /\ \A x \in Queues : mq'[x] = <<>> => mq[x] = <<>>
      /\ \A x \in Queues : x # q => mq'[x] = mq[x]
      /\ UNCHANGED <<alive, lead>> /\ q \in alive
  <2>1. [id |-> nextid, len |-> len] \in Pkts /\ mq[q] \in Seq(Pkts)
    BY <1>1 DEF TypeOK, Enqueue, Pkts
  <2>2. Append(mq[q], [id |-> nextid, len |-> len]) # <<>>
    BY <2>1
  <2>3. mq' = [mq EXCEPT ![q] = Append(mq[q], [id |-> nextid, len |-> len])]
    BY DEF Enqueue
  <2>4. mq \in [Queues -> Seq(Pkts)] /\ UNCHANGED <<alive, lead>> /\ q \in alive
    BY <1>1 DEF TypeOK, Enqueue
  <2>5. QED
    BY <2>2, <2>3, <2>4
<1>3. NoLead'
  BY <1>2 DEF RRInv, NoLead
<1>4. CASE JoinsList(q)
  <2>1. RRAppend(q) /\ q \notin status /\ mq[q] = <<>>
    BY <1>4 DEF Enqueue, JoinsList
  <2>2. PICK n \in Nat : \E r \in [1..n -> Queues] : IsRing(n, r) /\ Shares(n, r)
    BY DEF RRInv, RingShares
  <2>3. PICK r \in [1..n -> Queues] : IsRing(n, r) /\ Shares(n, r)
    BY <2>2
  <2> DEFINE w == [i \in 1..(n + 1) |-> IF i = n + 1 THEN q ELSE r[i]]
  <2>4. w \in [1..(n + 1) -> Queues] /\ IsRing(n + 1, w)'
    BY <1>1, <2>1, <2>3, AppendRing
  <2>5. w[n + 1] = q /\ \A i \in 1..n : w[i] = r[i] /\ r[i] \in status /\ r[i] \in Queues /\ r[i] # q
    BY <2>1, <2>3 DEF IsRing
  <2> HIDE DEF w
  <2>6. status' = status \cup {q} /\ credit' = [credit EXCEPT ![q] = QuantumOf[q]]
    BY <2>1 DEF RRAppend
  <2>7. QuantumOf[q] \in Nat /\ MaxLen \in Nat \ {0} /\ credit \in [Queues -> Nat]
    BY <1>1, MaxLenType, RRAssumption DEF TypeOK
  <2>8. CreditOK'
    <3>1. \A x \in status : x # head' => x # head
      BY <1>1, <2>1, RRAssumption DEF RRAppend, TypeOK
    <3>2. credit'[q] = QuantumOf[q] /\ \A x \in status : credit'[x] = credit[x]
      BY <1>1, <2>1, <2>6, <2>7 DEF TypeOK
    <3>3. QED
      BY <2>6, <2>7, <3>1, <3>2 DEF RRInv, CreditOK
  <2>9. Shares(n + 1, w)'
    <3> SUFFICES ASSUME NEW i \in 1..(n + 1), NEW j \in 1..(n + 1), i < j
                 PROVE  InTurn(w[i], w[j])'
      BY DEF Shares
    <3>1. i \in 1..n /\ (j = n + 1 \/ j \in 1..n)
      OBVIOUS
    <3>2. CASE j \in 1..n
      <4>1. InTurn(r[i], r[j])
        BY <2>3, <3>1, <3>2 DEF Shares
      <4>2. QED
        BY <1>1, <1>2, <2>5, <2>6, <2>7, <3>1, <3>2, <4>1, SameInTurn
    <3>3. CASE j = n + 1
      <4> DEFINE a == r[i]
      <4>1. w[i] = a /\ w[j] = q /\ a \in Queues /\ a \in status /\ a # q
        BY <2>5, <3>1, <3>3
      <4> HIDE DEF a
      <4>2. lead'[a][q] = 0 /\ lead'[q][a] = 0
        BY <1>2, <2>1, <4>1 DEF RRInv, NoLead
      <4>3. /\ credit'[a] = credit[a] /\ credit'[q] = QuantumOf[q]
            /\ credit[a] \in Nat /\ QuantumOf[a] \in Nat
            /\ credit[a] < QuantumOf[a] + MaxLen
        BY <2>6, <2>7, <4>1, RRAssumption DEF RRInv, CreditOK
      <4>4. /\ credit'[a] \in Int /\ credit'[q] \in Int /\ MaxLen \in Nat
            /\ 0 <= credit'[a] /\ credit'[a] < QuantumOf[a] + MaxLen
            /\ QuantumOf[q] <= credit'[q] /\ credit'[q] < QuantumOf[q] + MaxLen
        BY <2>7, <4>3
      <4>5. /\ 0 + credit'[a] * QuantumOf[q] - credit'[q] * QuantumOf[a] <= QuantumOf[q] * (MaxLen - 1)
            /\ 0 + credit'[q] * QuantumOf[a] - credit'[a] * QuantumOf[q]
                 <= QuantumOf[a] * QuantumOf[q] + QuantumOf[a] * (MaxLen - 1)
        BY <2>7, <4>3, <4>4, FreshShares, Zenon
      <4>6. QED
        BY <4>1, <4>2, <4>5, Zenon DEF InTurn, Account
    <3>4. QED
      BY <3>1, <3>2, <3>3
  <2>10. RingShares'
    BY <2>4, <2>9 DEF RingShares
  <2>11. QED
    BY <1>1, <1>2, <1>3, <2>6, <2>8, <2>10 DEF RRInv
<1>5. CASE ~JoinsList(q)
  <2>1. UNCHANGED <<status, credit, qnext, head, tail, lead>>
    BY <1>5 DEF Enqueue
  <2>2. CreditOK' /\ RingShares'
    BY <2>1, SameRing
  <2>3. \A x \in Queues : mq'[x] # <<>> => x \in status
    BY <1>2, <1>5 DEF JoinsList, RRInv
  <2>4. QED
    BY <1>1, <1>2, <1>3, <2>1, <2>2, <2>3 DEF RRInv
<1>6. QED
  BY <1>4, <1>5

LEMMA DequeueSkipStep == ASSUME RRInv, DequeueSkip PROVE RRInv'
<1>1. TypeOK /\ TypeOK'
  BY TypeStep DEF Next, DequeueLoop, RRInv
<1>2. PICK n \in Nat : \E r \in [1..n -> Queues] : IsRing(n, r) /\ Shares(n, r)
  BY DEF RRInv, RingShares
<1>3. PICK r \in [1..n -> Queues] : IsRing(n, r) /\ Shares(n, r)
  BY <1>2
<1>4. /\ n > 0 /\ head = r[1] /\ head \in Queues /\ head \in status /\ mq[head] # <<>>
      /\ head' = qnext[head] /\ tail' = qnext[tail]
      /\ UNCHANGED <<alive, mq, status, qnext, lead>>
      /\ credit' = [credit EXCEPT ![head] = credit[head] + QuantumOf[head]]
  BY <1>3 DEF DequeueSkip, IsRing
<1> DEFINE w == [i \in 1..n |-> IF i = n THEN r[1] ELSE r[i + 1]]
<1>5. w \in [1..n -> Queues] /\ IsRing(n, w)'
  BY <1>1, <1>3, <1>4, TurnRing
<1>6. w[n] = head /\ \A i \in 1..(n - 1) : i + 1 \in 1..n /\ w[i] = r[i + 1] /\ r[i + 1] # head
  BY <1>3, <1>4 DEF IsRing
<1> HIDE DEF w
<1>7. credit[head] < MaxLen /\ MaxLen \in Nat \ {0} /\ QuantumOf \in [Queues -> Nat \ {0}]
  <2>1. Head(mq[head]) \in Pkts
    BY <1>1, <1>4 DEF TypeOK
  <2>2. Head(mq[head]).len \in Lens
    BY <2>1 DEF Pkts
  <2>3. Head(mq[head]).len <= MaxLen /\ Head(mq[head]).len \in Nat /\ MaxLen \in Nat \ {0}
    BY <2>2, MaxLenType
  <2>4. ~(Head(mq[head]).len <= credit[head]) /\ credit[head] \in Nat
    BY <1>1, <1>4 DEF DequeueSkip, Affords, TypeOK
  <2> HIDE DEF MaxLen
  <2>5. QED
    BY <2>3, <2>4, RRAssumption
<1>8. /\ credit'[head] = credit[head] + QuantumOf[head]
      /\ \A x \in Queues : x # head => credit'[x] = credit[x]
      /\ \A x \in Queues : credit[x] \in Nat
  BY <1>1, <1>4 DEF TypeOK
<1>9. CreditOK'
  <2> SUFFICES ASSUME NEW q \in status
               PROVE  credit'[q] < QuantumOf[q] + MaxLen /\ credit'[q] >= QuantumOf[q]
    BY <1>4 DEF CreditOK
  <2>1. q \in Queues
    BY <1>1 DEF TypeOK
  <2> HIDE DEF MaxLen
  <2>2. QED
    BY <1>7, <1>8, <2>1 DEF RRInv, CreditOK
<1>10. Shares(n, w)'
  <2> SUFFICES ASSUME NEW i \in 1..n, NEW j \in 1..n, i < j PROVE InTurn(w[i], w[j])'
    BY DEF Shares
  <2>1. /\ i \in 1..(n - 1) /\ w[i] = r[i + 1] /\ i + 1 \in 1..n /\ w[i] \in Queues
        /\ w[i] # head /\ (j = n \/ j \in 1..(n - 1))
    BY <1>6
  <2>2. CASE j # n
    <3>1. w[j] = r[j + 1] /\ j + 1 \in 1..n /\ w[j] \in Queues /\ w[j] # head
      BY <1>6, <2>1, <2>2
    <3>2. InTurn(w[i], w[j])
      BY <1>3, <2>1, <3>1 DEF Shares
    <3>3. QED
      BY <1>1, <1>4, <1>8, <2>1, <3>1, <3>2, SameInTurn
  <2>3. CASE j = n
    <3> DEFINE a == w[i]
    <3>1. a \in Queues /\ a # head /\ w[j] = head
      BY <1>6, <2>1, <2>3
    <3>2. InTurn(head, a)
      <4>1. 1 \in 1..n /\ 1 < i + 1
        BY <2>1
      <4>2. QED
        BY <1>3, <1>4, <2>1, <4>1 DEF Shares
    <3> HIDE DEF a, MaxLen
    <3>3. lead'[a][head] = lead[a][head] /\ lead'[head][a] = lead[head][a]
      BY <1>4
    <3>4. /\ lead[a][head] \in Int /\ lead[head][a] \in Int /\ QuantumOf[a] \in Nat
          /\ QuantumOf[head] \in Nat /\ credit[a] \in Nat /\ credit[head] \in Nat
      <4>1. lead[a][head] \in Int /\ lead[head][a] \in Int
        BY <1>1, <1>4, <3>1 DEF TypeOK
      <4>2. QuantumOf[a] \in Nat /\ QuantumOf[head] \in Nat
        BY <1>4, <1>7, <3>1
      <4>3. QED
        BY <1>4, <1>8, <3>1, <4>1, <4>2
    <3>5. /\ lead[head][a] + credit[head] * QuantumOf[a] - credit[a] * QuantumOf[head]
               <= QuantumOf[a] * (MaxLen - 1)
          /\ lead[a][head] + credit[a] * QuantumOf[head] - credit[head] * QuantumOf[a]
               <= QuantumOf[head] * QuantumOf[a] + QuantumOf[head] * (MaxLen - 1)
      BY <3>2 DEF InTurn, Account
    <3>6. /\ lead[a][head] + credit[a] * QuantumOf[head]
               - (credit[head] + QuantumOf[head]) * QuantumOf[a] <= QuantumOf[head] * (MaxLen - 1)
          /\ lead[head][a] + (credit[head] + QuantumOf[head]) * QuantumOf[a]
               - credit[a] * QuantumOf[head]
               <= QuantumOf[a] * QuantumOf[head] + QuantumOf[a] * (MaxLen - 1)
      <4>1. MaxLen \in Nat /\ credit[a] \in Int /\ credit[head] \in Int
        BY <1>7, <3>4
      <4>2. QED
        BY <3>4, <3>5, <4>1, TurnShares, Zenon
    <3>7. credit'[a] = credit[a] /\ credit'[head] = credit[head] + QuantumOf[head]
      BY <1>8, <3>1
    <3>8. PICK h \in Queues : h = head
      BY <1>4
    <3>9. /\ lead'[a][h] + credit'[a] * QuantumOf[h] - credit'[h] * QuantumOf[a]
               <= QuantumOf[h] * (MaxLen - 1)
          /\ lead'[h][a] + credit'[h] * QuantumOf[a] - credit'[a] * QuantumOf[h]
               <= QuantumOf[a] * QuantumOf[h] + QuantumOf[a] * (MaxLen - 1)
      BY <3>3, <3>6, <3>7, <3>8, Zenon
    <3>10. InTurn(a, h)'
      BY <3>9, Zenon DEF InTurn, Account
    <3>11. QED
      BY <3>1, <3>8, <3>10 DEF a
  <2>4. QED
    BY <2>2, <2>3
<1>11. RingShares'
  BY <1>5, <1>10 DEF RingShares
<1>12. QED
  BY <1>1, <1>4, <1>9, <1>11 DEF RRInv, NoLead

LEMMA DequeueTakeStep == ASSUME RRInv, DequeueTake PROVE RRInv'
<1>1. TypeOK /\ TypeOK'
  BY TypeStep DEF Next, DequeueLoop, RRInv
<1>2. PICK n \in Nat : \E r \in [1..n -> Queues] : IsRing(n, r) /\ Shares(n, r)
  BY DEF RRInv, RingShares
<1>3. PICK r \in [1..n -> Queues] : IsRing(n, r) /\ Shares(n, r)
  BY <1>2
<1>4. PICK h \in Queues : h = head
  BY <1>1 DEF DequeueTake, TypeOK
<1>5. PICK len \in Lens : len = Head(mq[h]).len
  <2>1. Head(mq[h]) \in Pkts
    BY <1>1, <1>4 DEF DequeueTake, TypeOK
  <2>2. QED
    BY <2>1 DEF Pkts
<1>6. PICK rest : rest = Tail(mq[h])
  OBVIOUS
<1>7. /\ credit' = [credit EXCEPT ![h] = credit[h] - len] /\ len <= credit[h]
      /\ mq' = [mq EXCEPT ![h] = rest]
      /\ lead' = Leads(h, len, rest)
      /\ UNCHANGED <<alive, status, qnext, head, tail>>
  BY <1>4, <1>5, <1>6 DEF DequeueTake, Affords
<1>8. /\ n > 0 /\ h = r[1] /\ h \in status /\ mq[h] # <<>>
      /\ \A i \in 1..n : r[i] \in status /\ r[i] \in Queues
      /\ \A i \in 1..n : i # 1 => r[i] # h
  BY <1>3, <1>4 DEF DequeueTake, IsRing
<1>9. /\ \A x \in Queues : credit[x] \in Nat /\ QuantumOf[x] \in Nat /\ QuantumOf[x] > 0
      /\ MaxLen \in Nat /\ len \in Nat
  BY <1>1, MaxLenType, RRAssumption, SMTT(40) DEF TypeOK
<1>10. /\ credit'[h] = credit[h] - len /\ credit'[h] \in Nat
       /\ \A x \in Queues : x # h => credit'[x] = credit[x]
  <2>1. credit \in [Queues -> Nat]
    BY <1>1 DEF TypeOK
  <2>2. credit[h] - len \in Nat
    BY <1>7, <1>9
  <2>3. QED
    BY <1>7, <2>1, <2>2
<1>11. CreditOK'
  <2> SUFFICES ASSUME NEW q \in status
               PROVE  /\ credit'[q] < QuantumOf[q] + MaxLen
                      /\ q # head => credit'[q] >= QuantumOf[q]
    BY <1>7 DEF CreditOK
  <2>1. q \in Queues
    BY <1>1 DEF TypeOK
  <2>2. credit'[q] <= credit[q] /\ credit'[q] \in Nat
    BY <1>9, <1>10, <2>1
  <2>3. credit[q] < QuantumOf[q] + MaxLen /\ (q # head => credit[q] >= QuantumOf[q])
    BY DEF RRInv, CreditOK
  <2>4. QED
    BY <1>4, <1>9, <1>10, <2>1, <2>2, <2>3
<1>12. \A a, b \in Queues :
         lead'[a][b] = IF a = b \/ mq[a] = <<>> \/ mq[b] = <<>> \/ (h \in {a, b} /\ rest = <<>>) THEN 0
                       ELSE IF a = h THEN lead[a][b] + len * QuantumOf[b]
                       ELSE IF b = h THEN lead[a][b] - len * QuantumOf[a]
                       ELSE lead[a][b]
  BY <1>7, Zenon DEF Leads
<1>13. mq'[h] = rest /\ \A x \in Queues : x # h => mq'[x] = mq[x]
  BY <1>1, <1>7 DEF TypeOK
<1>14. NoLead'
  BY <1>12, <1>13 DEF NoLead
<1>15. \A x \in Queues : mq'[x] # <<>> => x \in status'
  BY <1>7, <1>8, <1>13 DEF RRInv
<1>16. Shares(n, r)'
  <2> SUFFICES ASSUME NEW i \in 1..n, NEW j \in 1..n, i < j PROVE InTurn(r[i], r[j])'
    BY DEF Shares
  <2>1. /\ InTurn(r[i], r[j]) /\ r[j] # h /\ r[j] \in Queues /\ r[i] \in Queues
        /\ (i # 1 => r[i] # h) /\ r[i] # r[j] /\ r[j] \in status
    BY <1>3, <1>8 DEF Shares, IsRing
  <2>2. CASE i # 1
    <3>1. lead'[r[i]][r[j]] = lead[r[i]][r[j]] /\ lead'[r[j]][r[i]] = lead[r[j]][r[i]]
      BY <1>12, <2>1, <2>2 DEF RRInv, NoLead
    <3>2. QED
      BY <1>1, <1>10, <2>1, <2>2, <3>1, SameInTurn
  <2>3. CASE i = 1
    <3>1. PICK b \in Queues : b = r[j]
      BY <2>1
    <3>2. r[i] = h /\ b # h /\ b \in status /\ InTurn(h, b) /\ credit'[b] = credit[b]
      BY <1>8, <1>10, <2>1, <2>3, <3>1
    <3>3. /\ credit[h] \in Nat /\ credit[b] \in Nat /\ QuantumOf[h] \in Nat /\ QuantumOf[b] \in Nat
          /\ lead[h][b] \in Int /\ lead[b][h] \in Int
      <4>1. lead[h][b] \in Int /\ lead[b][h] \in Int
        BY <1>1 DEF TypeOK
      <4>2. QED
        BY <1>9, <4>1
    <3>4. CASE mq[b] = <<>> \/ rest = <<>>
      <4>1. lead'[h][b] = 0 /\ lead'[b][h] = 0
        BY <1>12, <3>4
      <4>2. /\ credit'[h] \in Int /\ credit'[b] \in Int
            /\ 0 <= credit'[h] /\ credit'[h] < QuantumOf[h] + MaxLen
            /\ QuantumOf[b] <= credit'[b] /\ credit'[b] < QuantumOf[b] + MaxLen
        <5>1. credit[h] < QuantumOf[h] + MaxLen /\ credit[b] < QuantumOf[b] + MaxLen
              /\ credit[b] >= QuantumOf[b]
          BY <1>4, <1>8, <3>2 DEF RRInv, CreditOK
        <5>2. QED
          BY <1>7, <1>9, <1>10, <3>2, <3>3, <5>1
      <4>3. /\ 0 + credit'[h] * QuantumOf[b] - credit'[b] * QuantumOf[h] <= QuantumOf[b] * (MaxLen - 1)
            /\ 0 + credit'[b] * QuantumOf[h] - credit'[h] * QuantumOf[b]
                 <= QuantumOf[h] * QuantumOf[b] + QuantumOf[h] * (MaxLen - 1)
        BY <1>9, <3>3, <4>2, FreshShares, Zenon
      <4>4. InTurn(h, b)'
        BY <4>1, <4>3, Zenon DEF InTurn, Account
      <4>5. QED
        BY <3>1, <3>2, <4>4
    <3>5. CASE mq[b] # <<>> /\ rest # <<>>
      <4>1. /\ lead'[h][b] = lead[h][b] + len * QuantumOf[b]
            /\ lead'[b][h] = lead[b][h] - len * QuantumOf[b]
        BY <1>8, <1>12, <3>2, <3>5
      <4>2. (credit[h] - len) * QuantumOf[b] = credit[h] * QuantumOf[b] - len * QuantumOf[b]
        BY <1>9
      <4>3. /\ Account(h, b)' = Account(h, b)
            /\ Account(b, h)' = Account(b, h)
        <5>1. PICK x \in Int : x = credit[h] * QuantumOf[b]
          BY <3>3
        <5>2. PICK y \in Int : y = credit[b] * QuantumOf[h]
          BY <3>3
        <5>3. PICK z \in Int : z = len * QuantumOf[b]
          BY <1>9
        <5>4. credit'[h] * QuantumOf[b] = credit[h] * QuantumOf[b] - len * QuantumOf[b]
          BY <1>10, <4>2, Zenon
        <5>5. /\ credit'[h] * QuantumOf[b] = x - z /\ credit'[b] * QuantumOf[h] = y
              /\ lead'[h][b] = lead[h][b] + z /\ lead'[b][h] = lead[b][h] - z
          BY <3>2, <4>1, <5>1, <5>2, <5>3, <5>4, Zenon
        <5>6. /\ (lead[h][b] + z) + (x - z) - y = lead[h][b] + x - y
              /\ (lead[b][h] - z) + y - (x - z) = lead[b][h] + y - x
          <6>1. \A l \in Int : (l + z) + (x - z) - y = l + x - y /\ (l - z) + y - (x - z) = l + y - x
            OBVIOUS
          <6>2. QED
            BY <3>3, <6>1, Zenon
        <5>7. QED
          BY <5>1, <5>2, <5>5, <5>6, Zenon DEF Account
      <4>4. InTurn(h, b)'
        BY <3>2, <4>3, Zenon DEF InTurn
      <4>5. QED
        BY <3>1, <3>2, <4>4
    <3>6. QED
      BY <3>4, <3>5
  <2>4. QED
    BY <2>2, <2>3
<1>17. IsRing(n, r)'
  BY <1>3, <1>7 DEF IsRing
<1>18. RingShares'
  BY <1>16, <1>17 DEF RingShares
<1>19. QED
  BY <1>1, <1>7, <1>11, <1>14, <1>15, <1>18 DEF RRInv

LEMMA DeleteQueueStep == ASSUME RRInv, NEW q \in Queues, DeleteQueue(q) PROVE RRInv'
<1>1. TypeOK /\ TypeOK'
  BY TypeStep DEF Next, RRInv
<1>2. /\ alive' = alive \ {q} /\ credit' = credit
      /\ mq'[q] = <<>> /\ \A x \in Queues : x # q => mq'[x] = mq[x]
      /\ \A a, b \in Queues : lead'[a][b] = IF q \in {a, b} THEN 0 ELSE lead[a][b]
  BY <1>1 DEF DeleteQueue, TypeOK
<1>3. NoLead'
  BY <1>2 DEF RRInv, NoLead
<1>4. CASE q \in status
  <2>1. PICK n \in Nat : \E r \in [1..n -> Queues] : IsRing(n, r) /\ Shares(n, r)
    BY DEF RRInv, RingShares
  <2>2. PICK r \in [1..n -> Queues] : IsRing(n, r) /\ Shares(n, r)
    BY <2>1
  <2>3. PICK k \in 1..n : r[k] = q /\ CutsOut(n, r, k)
    BY <1>1, <1>4, <2>2, DeleteCuts
  <2>4. \A a, b \in Queues \ {r[k]} : lead'[a][b] = lead[a][b]
    BY <1>2, <2>3
  <2>5. RingShares'
    BY <1>2, <2>2, <2>3, <2>4, SharesWithout
  <2>6. status' = status \ {q}
    BY <2>3 DEF CutsOut
  <2>7. \A x \in status' : x # head' => x # head
    <3>1. n # 0 /\ head = r[1]
      BY <2>2 DEF IsRing
    <3>2. CASE k = 1
      BY <2>3, <2>6, <3>1, <3>2
    <3>3. CASE k # 1
      BY <2>3, <3>1, <3>3 DEF CutsOut
    <3>4. QED
      BY <3>2, <3>3
  <2>8. CreditOK'
    BY <1>2, <2>6, <2>7 DEF RRInv, CreditOK
  <2>9. QED
    BY <1>1, <1>2, <1>3, <2>5, <2>6, <2>8 DEF RRInv
<1>5. CASE q \notin status
  <2>1. UNCHANGED <<status, qnext, head, tail>>
    BY <1>5 DEF DeleteQueue
  <2>2. ASSUME NEW a \in status, NEW b \in status PROVE lead'[a][b] = lead[a][b]
    <3>1. a \in Queues /\ b \in Queues /\ q \notin {a, b}
      BY <1>1, <1>5 DEF TypeOK
    <3>2. QED
      BY <1>2, <3>1
  <2>3. CreditOK' /\ RingShares'
    BY <1>2, <2>1, <2>2, SameRing
  <2>4. QED
    BY <1>1, <1>2, <1>3, <1>5, <2>1, <2>3 DEF RRInv
<1>6. QED
  BY <1>4, <1>5

\* The ring is intact, the credits are in range and the queues are in turn, for
\* any queues and packets.
THEOREM RRInvariant == Spec => []RRInv
<1>1. RRInv /\ [Next]_vars => RRInv'
  <2> SUFFICES ASSUME RRInv, [Next]_vars PROVE RRInv'
    OBVIOUS
  <2>1. TypeOK' /\ status \subseteq alive
    BY TypeStep DEF RRInv
  <2>2. CASE UNCHANGED vars
    BY <2>1, <2>2, StutterStep DEF vars
  <2>3. ASSUME NEW q \in Queues, NewQueue(q) PROVE RRInv'
    BY <2>3, NewQueueStep
  <2>4. ASSUME NEW q \in Queues, EnqueueDrop(q) PROVE RRInv'
    BY <2>1, <2>4, StutterStep DEF EnqueueDrop
  <2>5. ASSUME NEW q \in Queues, DrainQueue(q) PROVE RRInv'
    BY <2>1, <2>5, StutterStep DEF DrainQueue, SafeToFree
  <2>6. ASSUME NEW q \in Queues, DeleteQueue(q) PROVE RRInv'
    BY <2>6, DeleteQueueStep
  <2>7. ASSUME NEW q \in Queues, NEW len \in Lens, Enqueue(q, len) PROVE RRInv'
    BY <2>7, EnqueueStep
  <2>8. CASE DequeueStart
    BY <2>1, <2>8, StutterStep DEF DequeueStart
  <2>9. CASE DequeueEmpty
    BY <2>9, DequeueEmptyStep
  <2>10. CASE DequeueSkip
    BY <2>10, DequeueSkipStep
  <2>11. CASE DequeueTake
    BY <2>11, DequeueTakeStep
  <2>12. CASE DequeueNone
    BY <2>1, <2>12, StutterStep DEF DequeueNone
  <2>13. QED
    BY <2>2, <2>3, <2>4, <2>5, <2>6, <2>7, <2>8, <2>9, <2>10, <2>11, <2>12
    DEF Next, DequeueLoop
<1>2. QED
  BY InitRR, <1>1, PTL DEF Spec

\* RingOK: qnext never leads to a freed queue, and rr_dequeue() reaches every
\* queue with packets.
THEOREM RingCorrect == Spec => []RingOK
<1>1. RRInv => RingOK
  <2> SUFFICES ASSUME RRInv PROVE RingOK
    OBVIOUS
  <2>1. TypeOK
    BY DEF RRInv
  <2>2. PICK n \in Nat : \E r \in [1..n -> Queues] : IsRing(n, r) /\ Shares(n, r)
    BY DEF RRInv, RingShares
  <2>3. PICK r \in [1..n -> Queues] : IsRing(n, r)
    BY <2>2
  <2>4. CASE n = 0
    <3>1. status = {} /\ head = NULL /\ tail = NULL
      BY <2>1, <2>3, <2>4 DEF IsRing, TypeOK
    <3>2. Cardinality(status) = 0
      BY <3>1, FS_EmptySet
    <3>3. QED
      BY <2>1, <3>1, <3>2 DEF RingOK, RRInv
  <2>5. CASE n > 0
    <3>1. n = Cardinality(status) /\ \A k \in 0..(n - 1) : Walk[k] = r[k + 1]
      BY <2>1, <2>3, <2>5, WalkRing
    <3>2. head = r[1] /\ tail = r[n] /\ r[1] \in status /\ r[1] \in Queues /\ r[n] \in Queues
      BY <2>3, <2>5 DEF IsRing
    <3>3. status # {} /\ head # NULL /\ tail # NULL
      BY <3>2, RRAssumption
    <3>4. {Walk[k] : k \in 0..(n - 1)} = status
      <4>1. ASSUME NEW k \in 0..(n - 1) PROVE Walk[k] \in status
        <5>1. k + 1 \in 1..n
          OBVIOUS
        <5>2. QED
          BY <2>3, <3>1, <5>1 DEF IsRing
      <4>2. ASSUME NEW q \in status PROVE \E k \in 0..(n - 1) : Walk[k] = q
        <5>1. PICK i \in 1..n : r[i] = q
          BY <2>1, <2>3 DEF IsRing, TypeOK
        <5>2. i - 1 \in 0..(n - 1) /\ (i - 1) + 1 = i
          OBVIOUS
        <5>3. QED
          BY <3>1, <5>1, <5>2
      <4>3. QED
        BY <4>1, <4>2
    <3>5. Walk[n - 1] = tail /\ qnext[tail] = head
      BY <2>3, <2>5, <3>1, <3>2 DEF IsRing
    <3>6. QED
      BY <2>1, <3>1, <3>3, <3>4, <3>5 DEF RingOK, RRInv
  <2>6. QED
    BY <2>4, <2>5
<1>2. QED
  BY RRInvariant, <1>1, PTL

\* FairShare: between two backlogged queues the link is shared by weight, for any
\* number of queues and any quanta.
THEOREM Fair == Spec => []FairShare
<1>1. RRInv => FairShare
  <2> SUFFICES ASSUME RRInv, NEW a \in Queues, NEW b \in Queues
               PROVE  lead[a][b] <= QuantumOf[a] * QuantumOf[b]
                                    + (MaxLen - 1) * (QuantumOf[a] + QuantumOf[b])
    BY DEF FairShare, MaxLen
  <2>1. /\ lead[a][b] \in Int /\ credit[a] \in Nat /\ credit[b] \in Nat
        /\ QuantumOf[a] \in Nat /\ QuantumOf[b] \in Nat /\ MaxLen \in Nat /\ MaxLen > 0
    <3>1. lead[a][b] \in Int
      BY DEF RRInv, TypeOK
    <3>2. QED
      BY <3>1, MaxLenType, RRAssumption DEF RRInv, TypeOK
  <2>2. CASE a = b \/ mq[a] = <<>> \/ mq[b] = <<>>
    <3>1. lead[a][b] = 0
      BY <2>2 DEF RRInv, NoLead
    <3>2. 0 * 0 <= QuantumOf[a] * QuantumOf[b]
      BY <2>1
    <3>3. 0 <= (MaxLen - 1) * (QuantumOf[a] + QuantumOf[b])
      <4>1. MaxLen - 1 \in Nat /\ QuantumOf[a] + QuantumOf[b] \in Nat
        BY <2>1
      <4>2. (MaxLen - 1) * 0 <= (MaxLen - 1) * (QuantumOf[a] + QuantumOf[b])
        BY <2>1, <4>1, MulMono
      <4>3. QED
        BY <4>1, <4>2
    <3>4. QED
      BY <2>1, <3>1, <3>2, <3>3
  <2>3. CASE a # b /\ mq[a] # <<>> /\ mq[b] # <<>>
    <3>1. a \in status /\ b \in status /\ credit[b] < QuantumOf[b] + MaxLen
      BY <2>3 DEF RRInv, CreditOK
    <3>2. PICK n \in Nat : \E r \in [1..n -> Queues] : IsRing(n, r) /\ Shares(n, r)
      BY DEF RRInv, RingShares
    <3>3. PICK r \in [1..n -> Queues] : IsRing(n, r) /\ Shares(n, r)
      BY <3>2
    <3>4. PICK i \in 1..n : r[i] = a
      BY <3>1, <3>3 DEF IsRing
    <3>5. PICK j \in 1..n : r[j] = b
      BY <3>1, <3>3 DEF IsRing
    <3>6. i < j \/ j < i
      BY <2>3, <3>4, <3>5
    <3>7. CASE i < j
      <4>1. lead[a][b] + credit[a] * QuantumOf[b] - credit[b] * QuantumOf[a]
              <= QuantumOf[b] * (MaxLen - 1)
        BY <3>3, <3>4, <3>5, <3>7 DEF Shares, InTurn, Account
      <4>2. QED
        BY <2>1, <3>1, <4>1, LeadBound, Zenon
    <3>8. CASE j < i
      <4>1. a # head
        <5>1. i # 1 /\ 1 \in 1..n
          BY <3>8
        <5>2. QED
          BY <3>3, <3>4, <5>1 DEF IsRing
      <4>2. credit[a] >= QuantumOf[a]
        BY <3>1, <4>1 DEF RRInv, CreditOK
      <4>3. InTurn(b, a)
        BY <3>3, <3>4, <3>5, <3>8 DEF Shares
      <4>4. lead[a][b] + credit[a] * QuantumOf[b] - credit[b] * QuantumOf[a]
              <= QuantumOf[b] * QuantumOf[a] + QuantumOf[b] * (MaxLen - 1)
        BY <4>3 DEF InTurn, Account
      <4>5. QuantumOf[a] <= credit[a]
        BY <2>1, <4>2
      <4>6. QED
        BY <2>1, <3>1, <4>4, <4>5, LeadBound, Zenon
    <3>9. QED
      BY <3>6, <3>7, <3>8
  <2>4. QED
    BY <2>2, <2>3
<1>2. QED
  BY RRInvariant, <1>1, PTL

\* The scheduler implements dn_sched.h: packets leave their queue in order, and
\* rr_dequeue() returns NULL only when no packet waits.
THEOREM SchedRefinement == Spec => SchedSpec
<1>1. Init => Sched!Init
  BY DEF Init, Sched!Init
<1>2. RRInv /\ [Next]_vars => [Sched!Next]_<<mq, ret>>
  <2> SUFFICES ASSUME RRInv, [Next]_vars, ~ UNCHANGED <<mq, ret>> PROVE Sched!Next
    OBVIOUS
  <2>1. ASSUME NEW q \in Queues, NEW len \in Lens, Enqueue(q, len) PROVE Sched!Enqueue(q)
    <3>1. [id |-> nextid, len |-> len] \in Pkts
      BY <2>1 DEF RRInv, TypeOK, Enqueue, Pkts
    <3>2. QED
      BY <2>1, <3>1 DEF Enqueue, Sched!Enqueue
  <2>2. CASE DequeueTake
    <3>1. head \in Queues
      BY <2>2 DEF RRInv, TypeOK, DequeueTake
    <3>2. Sched!Dequeue(head)
      BY <2>2 DEF DequeueTake, Sched!Dequeue
    <3>3. QED
      BY <3>1, <3>2 DEF Sched!Next
  <2>3. CASE DequeueNone
    <3>1. PICK n \in Nat : \E r \in [1..n -> Queues] : IsRing(n, r)
      BY DEF RRInv, RingShares
    <3>2. PICK r \in [1..n -> Queues] : IsRing(n, r)
      BY <3>1
    <3>3. n = 0
      BY <2>3, <3>2, RRAssumption DEF DequeueNone, IsRing
    <3>4. \A q \in Queues : mq[q] = <<>>
      BY <3>2, <3>3 DEF RRInv, IsRing
    <3>5. QED
      BY <2>3, <3>4 DEF DequeueNone, Sched!DequeueNone, Sched!Next
  <2>4. ASSUME NEW q \in Queues, DeleteQueue(q) PROVE Sched!FreeQueue(q)
    BY <2>4 DEF DeleteQueue, Sched!FreeQueue
  <2>5. CASE \/ \E q \in Queues : NewQueue(q) \/ EnqueueDrop(q) \/ DrainQueue(q)
             \/ DequeueStart \/ DequeueEmpty \/ DequeueSkip \/ UNCHANGED vars
    BY <2>5 DEF NewQueue, EnqueueDrop, DrainQueue, DequeueStart, DequeueEmpty, DequeueSkip, vars
  <2>6. QED
    BY <2>1, <2>2, <2>3, <2>4, <2>5 DEF Next, DequeueLoop, Sched!Next
<1>3. QED
  BY <1>1, <1>2, RRInvariant, PTL DEF Spec, SchedSpec, Sched!Spec
=============================================================================
