-------------------------- MODULE DnConfig_proofs --------------------------
(***************************************************************************)
(* Proofs about the configuration of dummynet: every flowset is in the     *)
(* list that its pointer leads to, and the counters of queues agree,       *)
(* whatever commands are given and whichever malloc() fails; when none     *)
(* does, a scheduler and its twin come and go together, and what           *)
(* dummynet_get() measures suffices for what it copies.                    *)
(***************************************************************************)
EXTENDS DnConfig, ProofLemmas

-----------------------------------------------------------------------------
\* The objects, g, that the functions of the model transform.
GType == [schk : [SchedNrs -> SchedType \cup {NULL}], fsk : [FsNrs -> FsType \cup {NULL}],
          fsu : SUBSET FsNrs, fsk_list : [SchedNrs -> SUBSET FsNrs]]

\* The lists and the pointers of flowset f agree.
FsOK(g, f) ==
  /\ f \in g.fsu <=> g.fsk[f] # NULL /\ g.fsk[f].sched = NULL
  /\ \A s \in SchedNrs : f \in g.fsk_list[s] <=> g.fsk[f] # NULL /\ g.fsk[f].sched = s
  /\ g.fsk[f] # NULL /\ g.fsk[f].sched # NULL =>
       g.fsk[f].sched = g.fsk[f].sched_nr /\ g.schk[g.fsk[f].sched] # NULL
  /\ g.fsk[f] # NULL /\ g.fsk[f].qht # NULL =>
       /\ g.fsk[f].qht = g.fsk[f].sched
       /\ g.schk[g.fsk[f].qht].inst /\ g.schk[g.fsk[f].qht].type \in Multi

\* The flowsets that have a queue in scheduler s.
Queues(g, s) == {f \in FsNrs : g.fsk[f] # NULL /\ g.fsk[f].qht = s}

CountOK(g, s) == g.schk[s] # NULL => g.schk[s].q_count = Cardinality(Queues(g, s))

GOK(g) == g \in GType /\ (\A f \in FsNrs : FsOK(g, f)) /\ (\A s \in SchedNrs : CountOK(g, s))

\* tbl are the schedulers, and the flowsets of those in T are linked to them.
Found(g, tbl) == \A s \in SchedNrs : s \in tbl <=> g.schk[s] # NULL

Linked(g, T) ==
  \A f \in FsNrs : g.fsk[f] # NULL /\ g.fsk[f].sched_nr \in T =>
                     g.fsk[f].sched = g.fsk[f].sched_nr

\* A scheduler and its twin; the scheduler that the command under way is about.
Twins(i) ==
  /\ i \in schedhash <=> i + N \in schedhash
  /\ i \in schedhash => schk[i + N].type = FIFO /\ schk[i].link = schk[i + N].link

CmdOK(i) ==
  /\ cmd.nr = i =>
       \/ cmd.p = NULL /\ Twins(i)
       \/ /\ cmd.p # NULL /\ i \notin schedhash /\ i + N \in schedhash
          /\ schk[i + N].type = FIFO /\ schk[i + N].link = cmd.p
  /\ cmd.nr = i + N =>
       /\ cmd.type = FIFO /\ i \in schedhash
       /\ \/ i + N \in schedhash /\ Twins(i) /\ cmd.p = NULL
          \/ i + N \notin schedhash /\ schk[i].link = RestoredLink

\* What does not need every malloc() to succeed, ...
ListsInv ==
  /\ GOK(State) /\ schedhash \subseteq SchedNrs /\ cmd \in CmdType \cup {NULL}
  /\ panicked \in BOOLEAN
  /\ ~panicked => Found(State, schedhash) /\ Linked(State, schedhash)

\* ... and what does.
TwinsOK(i) == IF cmd # NULL /\ cmd.nr \in {i, i + N} THEN CmdOK(i) ELSE Twins(i)

TwinsInv == ~panicked => \A i \in BaseNrs : TwinsOK(i)

-----------------------------------------------------------------------------
(***************************************************************************)
(* Numbers and sets of objects.                                            *)
(***************************************************************************)

LEMMA Nrs ==
  /\ N \in Nat /\ N >= 2 /\ SchedNrs \subseteq Nat /\ FsNrs \subseteq Nat
  /\ SchedNrs \subseteq FsNrs /\ BaseNrs \subseteq SchedNrs
  /\ \A s \in SchedNrs : s + N \in FsNrs
  /\ \A i \in BaseNrs : /\ i + N \in SchedNrs /\ i + N \notin BaseNrs /\ i + 2 * N \in FsNrs
                        /\ i < N /\ i + N > N
  /\ NULL \notin Nat
BY ConfigAssumption DEF BaseNrs, SchedNrs, FsNrs

LEMMA NrsFinite == IsFiniteSet(FsNrs) /\ IsFiniteSet(SchedNrs)
<1>1. N \in Int /\ N - 1 \in Int /\ N + 1 \in Int /\ 2 * N - 1 \in Int /\ 2 * N + 1 \in Int
      /\ 3 * N - 1 \in Int
  BY Nrs
<1>2. IsFiniteSet(1..(N - 1)) /\ IsFiniteSet((N + 1)..(2 * N - 1))
      /\ IsFiniteSet((2 * N + 1)..(3 * N - 1))
  <2>1. \A a, b \in Int : IsFiniteSet(a..b)
    BY FS_Interval
  <2>2. QED
    BY <1>1, <2>1
<1>3. IsFiniteSet(1..(N - 1) \cup (N + 1)..(2 * N - 1))
  BY <1>2, FS_Union
<1>4. IsFiniteSet(SchedNrs)
  BY <1>3 DEF SchedNrs, BaseNrs
<1>5. IsFiniteSet((1..(N - 1) \cup (N + 1)..(2 * N - 1)) \cup (2 * N + 1)..(3 * N - 1))
  BY <1>2, <1>3, FS_Union
<1>6. QED
  BY <1>4, <1>5 DEF FsNrs, BaseNrs

\* What is no object is none of these.
LEMMA Nothing ==
  /\ NULL \notin SchedType /\ NULL \notin FsType /\ NULL \notin CmdType /\ NULL \notin LinkParams
  /\ NULL \notin SchedNrs /\ NULL \notin FsNrs
BY ConfigAssumption, Nrs

LEMMA QueuesCounted ==
  ASSUME NEW g, NEW s
  PROVE  IsFiniteSet(Queues(g, s)) /\ Cardinality(Queues(g, s)) \in Nat
<1>1. Queues(g, s) \in SUBSET FsNrs
  BY DEF Queues
<1>2. IsFiniteSet(Queues(g, s))
  BY <1>1, NrsFinite, FS_Subset
<1>3. QED
  BY <1>2, FS_CardinalityType

\* The objects are typed.
LEMMA Objects ==
  ASSUME NEW g, g \in GType
  PROVE  /\ \A f \in FsNrs : /\ g.fsk[f] # NULL => g.fsk[f] \in FsType
                             /\ f \in g.fsu => f \in FsNrs
         /\ \A s \in SchedNrs : /\ g.schk[s] # NULL => g.schk[s] \in SchedType
                                /\ g.fsk_list[s] \subseteq FsNrs
         /\ g = [schk |-> g.schk, fsk |-> g.fsk, fsu |-> g.fsu, fsk_list |-> g.fsk_list]
BY DEF GType

\* A flowset that has a queue is in the list of a scheduler that is there.
LEMMA QueueSched ==
  ASSUME NEW g, GOK(g), NEW f \in FsNrs, g.fsk[f] # NULL, g.fsk[f].qht # NULL
  PROVE  /\ g.fsk[f].qht \in SchedNrs /\ g.fsk[f].sched = g.fsk[f].qht
         /\ g.schk[g.fsk[f].qht] # NULL
         /\ g.schk[g.fsk[f].qht].q_count \in Nat \ {0}
<1>1. g.fsk[f] \in FsType /\ FsOK(g, f)
  BY Objects DEF GOK
<1>2. PICK s \in SchedNrs : s = g.fsk[f].qht /\ s # NULL
  BY <1>1 DEF FsType
<1>3. g.fsk[f].sched = s /\ g.schk[s] # NULL
  BY <1>1, <1>2, Nothing DEF FsOK
<1>4. f \in Queues(g, s)
  BY <1>2 DEF Queues
<1>5. Cardinality(Queues(g, s)) \in Nat \ {0}
  BY <1>4, QueuesCounted, FS_EmptySet
<1>6. g.schk[s].q_count = Cardinality(Queues(g, s))
  BY <1>3 DEF GOK, CountOK
<1>7. QED
  BY <1>2, <1>3, <1>5, <1>6

-----------------------------------------------------------------------------
(***************************************************************************)
(* A flowset leaves its list and its queue goes: fsk_detach(), and what    *)
(* config_fs() does with it before it links it again.                      *)
(***************************************************************************)

\* What the schedulers are but for their counters.
SameScheds(g, h) ==
  \A s \in SchedNrs :
    /\ h.schk[s] = NULL <=> g.schk[s] = NULL
    /\ g.schk[s] # NULL =>
         /\ h.schk[s].type = g.schk[s].type /\ h.schk[s].link = g.schk[s].link
         /\ h.schk[s].inst = g.schk[s].inst

\* From g to h, flowset f is lost to all lists; what h has in its place.
Lost(g, h, f) ==
  /\ h = [schk |-> h.schk, fsk |-> h.fsk, fsu |-> h.fsu, fsk_list |-> h.fsk_list]
  /\ h.fsk_list = [s \in SchedNrs |-> g.fsk_list[s] \ {f}]
  /\ h.schk = [s \in SchedNrs |-> IF g.fsk[f] # NULL /\ g.fsk[f].qht = s
                                  THEN [g.schk[s] EXCEPT !.q_count = @ - 1] ELSE g.schk[s]]
  /\ h.fsk = [e \in FsNrs |-> IF e = f THEN h.fsk[f] ELSE g.fsk[e]]
  /\ h.fsu \in SUBSET FsNrs /\ \A e \in FsNrs : e # f => (e \in h.fsu <=> e \in g.fsu)

Alone(h, f) ==
  \/ h.fsk[f] = NULL /\ f \notin h.fsu
  \/ h.fsk[f] \in FsType /\ h.fsk[f].sched = NULL /\ h.fsk[f].qht = NULL /\ f \in h.fsu

LEMMA LostScheds ==
  ASSUME NEW g, GOK(g), NEW f \in FsNrs, NEW h, Lost(g, h, f), NEW s \in SchedNrs
  PROVE  /\ h.schk[s] = NULL <=> g.schk[s] = NULL
         /\ g.schk[s] # NULL =>
              /\ h.schk[s] \in SchedType
              /\ h.schk[s].type = g.schk[s].type /\ h.schk[s].link = g.schk[s].link
              /\ h.schk[s].inst = g.schk[s].inst
              /\ h.schk[s].q_count = IF g.fsk[f] # NULL /\ g.fsk[f].qht = s
                                     THEN g.schk[s].q_count - 1 ELSE g.schk[s].q_count
<1>1. g \in GType
  BY DEF GOK
<1>2. CASE g.fsk[f] # NULL /\ g.fsk[f].qht = s
  <2>1. s # NULL /\ g.schk[s] # NULL /\ g.schk[s].q_count \in Nat \ {0}
    BY <1>2, Nothing, QueueSched
  <2>2. PICK r \in SchedType : r = g.schk[s]
    BY <1>1, <2>1, Objects
  <2>3. PICK n \in Nat : n = r.q_count - 1
    BY <2>1, <2>2
  <2>4. h.schk[s] = [r EXCEPT !.q_count = n]
    BY <1>2, <2>2, <2>3, Zenon DEF Lost
  <2>5. h.schk[s] \in SchedType /\ h.schk[s].q_count = n /\ h.schk[s].type = r.type
        /\ h.schk[s].link = r.link /\ h.schk[s].inst = r.inst
    BY <2>4 DEF SchedType
  <2>6. QED
    BY <1>2, <2>1, <2>2, <2>3, <2>5, Nothing
<1>3. CASE ~(g.fsk[f] # NULL /\ g.fsk[f].qht = s)
  <2>1. h.schk[s] = g.schk[s]
    BY <1>3, Zenon DEF Lost
  <2>2. QED
    BY <1>1, <1>3, <2>1, Objects
<1>4. QED
  BY <1>2, <1>3

LEMMA LostOK ==
  ASSUME NEW g, GOK(g), NEW f \in FsNrs, NEW h, Lost(g, h, f), Alone(h, f)
  PROVE  GOK(h) /\ SameScheds(g, h)
<1>1. g \in GType
  BY DEF GOK
<1>2. SameScheds(g, h)
  BY LostScheds DEF SameScheds
<1>3. h \in GType
  <2>1. h.schk \in [SchedNrs -> SchedType \cup {NULL}]
    <3>1. \A s \in SchedNrs : h.schk[s] \in SchedType \cup {NULL}
      BY LostScheds
    <3>2. h.schk = [s \in SchedNrs |-> h.schk[s]]
      BY DEF Lost
    <3>3. QED
      BY <3>1, <3>2
  <2>2. h.fsk \in [FsNrs -> FsType \cup {NULL}]
    BY <1>1 DEF Lost, Alone, GType
  <2>3. h.fsk_list \in [SchedNrs -> SUBSET FsNrs]
    BY <1>1 DEF Lost, GType
  <2>4. QED
    BY <2>1, <2>2, <2>3 DEF Lost, GType
<1>4. \A e \in FsNrs : e # f => h.fsk[e] = g.fsk[e]
  BY DEF Lost
<1>5. \A s \in SchedNrs : h.fsk_list[s] = g.fsk_list[s] \ {f}
  BY DEF Lost
<1>6. ASSUME NEW e \in FsNrs PROVE FsOK(h, e)
  <2>1. CASE e = f
    BY <1>5, <2>1, Nothing DEF Alone, FsOK
  <2>2. CASE e # f
    <3>1. FsOK(g, e) /\ h.fsk[e] = g.fsk[e] /\ (g.fsk[e] # NULL => g.fsk[e] \in FsType)
      BY <1>1, <1>4, <2>2, Objects DEF GOK
    <3>2. e \in h.fsu <=> e \in g.fsu
      BY <2>2 DEF Lost
    <3>3. ASSUME g.fsk[e] # NULL, g.fsk[e].sched # NULL
          PROVE  g.fsk[e].sched = g.fsk[e].sched_nr /\ h.schk[g.fsk[e].sched] # NULL
      <4>1. g.fsk[e].sched \in SchedNrs
        BY <3>1, <3>3 DEF FsType
      <4>2. QED
        BY <1>2, <3>1, <3>3, <4>1 DEF FsOK, SameScheds
    <3>4. ASSUME g.fsk[e] # NULL, g.fsk[e].qht # NULL
          PROVE  /\ g.fsk[e].qht = g.fsk[e].sched
                 /\ h.schk[g.fsk[e].qht].inst /\ h.schk[g.fsk[e].qht].type \in Multi
      <4>1. g.fsk[e].qht \in SchedNrs /\ g.schk[g.fsk[e].qht] # NULL
        BY <3>4, QueueSched
      <4>2. QED
        BY <1>2, <3>1, <3>4, <4>1 DEF FsOK, SameScheds
    <3>5. QED
      BY <1>5, <2>2, <3>1, <3>2, <3>3, <3>4 DEF FsOK
  <2>3. QED
    BY <2>1, <2>2
<1>7. ASSUME NEW s \in SchedNrs PROVE CountOK(h, s)
  <2>1. SUFFICES ASSUME g.schk[s] # NULL
                 PROVE  h.schk[s].q_count = Cardinality(Queues(h, s))
    BY <1>2 DEF CountOK, SameScheds
  <2>2. Queues(h, s) = Queues(g, s) \ {f}
    BY <1>4, Nothing DEF Queues, Alone
  <2>3. f \in Queues(g, s) <=> g.fsk[f] # NULL /\ g.fsk[f].qht = s
    BY DEF Queues
  <2>4. g.schk[s].q_count = Cardinality(Queues(g, s))
    BY <2>1 DEF GOK, CountOK
  <2>5. Cardinality(Queues(h, s)) = IF f \in Queues(g, s) THEN Cardinality(Queues(g, s)) - 1
                                    ELSE Cardinality(Queues(g, s))
    BY <2>2, QueuesCounted, FS_RemoveElement
  <2>6. h.schk[s].q_count = IF g.fsk[f] # NULL /\ g.fsk[f].qht = s
                            THEN g.schk[s].q_count - 1 ELSE g.schk[s].q_count
    BY <2>1, LostScheds
  <2>7. QED
    BY <2>3, <2>4, <2>5, <2>6
<1>8. QED
  BY <1>2, <1>3, <1>6, <1>7 DEF GOK

\* The list of a flowset does not have it any more.
LEMMA UnlinkDoes ==
  ASSUME NEW g, GOK(g), NEW f \in FsNrs, g.fsk[f] # NULL
  PROVE  Unlink(g, f) = [schk |-> g.schk, fsk |-> g.fsk, fsu |-> g.fsu \ {f},
                         fsk_list |-> [s \in SchedNrs |-> g.fsk_list[s] \ {f}]]
<1>1. /\ g = [schk |-> g.schk, fsk |-> g.fsk, fsu |-> g.fsu, fsk_list |-> g.fsk_list]
      /\ g.fsk[f] \in FsType /\ FsOK(g, f) /\ g.fsk_list \in [SchedNrs -> SUBSET FsNrs]
  BY Objects DEF GOK, GType
<1>2. PICK L, U : L = g.fsk_list /\ U = g.fsu
  OBVIOUS
<1>3. CASE g.fsk[f].sched = NULL
  <2>1. Unlink(g, f) = [schk |-> g.schk, fsk |-> g.fsk, fsu |-> U \ {f}, fsk_list |-> L]
    BY <1>1, <1>2, <1>3 DEF Unlink
  <2>2. \A s \in SchedNrs : f \notin L[s]
    BY <1>1, <1>2, <1>3, Nothing DEF FsOK
  <2>3. L = [s \in SchedNrs |-> L[s] \ {f}]
    BY <1>1, <1>2, <2>2
  <2>4. QED
    BY <1>2, <2>1, <2>3
<1>4. CASE g.fsk[f].sched # NULL
  <2>1. PICK q \in SchedNrs : q = g.fsk[f].sched
    BY <1>1, <1>4 DEF FsType
  <2>2. PICK M : M = [L EXCEPT ![q] = @ \ {f}]
    OBVIOUS
  <2>3. Unlink(g, f) = [g EXCEPT !.fsk_list = M]
    BY <1>2, <1>4, <2>1, <2>2 DEF Unlink
  <2>4. Unlink(g, f) = [schk |-> g.schk, fsk |-> g.fsk, fsu |-> U, fsk_list |-> M]
    BY <1>1, <1>2, <2>3
  <2>5. \A s \in SchedNrs : s # q => f \notin L[s]
    BY <1>1, <1>2, <2>1 DEF FsOK
  <2>6. M = [s \in SchedNrs |-> L[s] \ {f}]
    BY <1>1, <1>2, <2>2, <2>5
  <2>7. U = U \ {f}
    BY <1>1, <1>2, <1>4 DEF FsOK
  <2>8. QED
    BY <1>2, <2>4, <2>6, <2>7
<1>5. QED
  BY <1>3, <1>4

\* The queue of a flowset goes, from objects u that differ from g in the lists.
LEMMA QhtDeleteDoes ==
  ASSUME NEW g, GOK(g), NEW f \in FsNrs, g.fsk[f] # NULL, NEW U, NEW L
  PROVE  QhtDelete([schk |-> g.schk, fsk |-> g.fsk, fsu |-> U, fsk_list |-> L], f) =
           [schk |-> [s \in SchedNrs |-> IF g.fsk[f] # NULL /\ g.fsk[f].qht = s
                                         THEN [g.schk[s] EXCEPT !.q_count = @ - 1]
                                         ELSE g.schk[s]],
            fsk |-> [g.fsk EXCEPT ![f] = [@ EXCEPT !.qht = NULL]], fsu |-> U, fsk_list |-> L]
<1> DEFINE u == [schk |-> g.schk, fsk |-> g.fsk, fsu |-> U, fsk_list |-> L]
           A == [s \in SchedNrs |-> IF g.fsk[f] # NULL /\ g.fsk[f].qht = s
                                    THEN [g.schk[s] EXCEPT !.q_count = @ - 1] ELSE g.schk[s]]
           B == [g.fsk EXCEPT ![f] = [@ EXCEPT !.qht = NULL]]
<1>1. /\ g.fsk[f] \in FsType /\ g.fsk \in [FsNrs -> FsType \cup {NULL}]
      /\ g.schk \in [SchedNrs -> SchedType \cup {NULL}]
  BY Objects DEF GOK, GType
<1>2. CASE g.fsk[f].qht = NULL
  <2>1. QhtDelete(u, f) = u
    BY <1>2 DEF QhtDelete
  <2>2. A = g.schk
    BY <1>1, <1>2, Nothing
  <2>3. B = g.fsk
    <3>1. [g.fsk[f] EXCEPT !.qht = NULL] = g.fsk[f]
      BY <1>1, <1>2 DEF FsType
    <3>2. QED
      BY <1>1, <3>1
  <2>4. QED
    BY <2>1, <2>2, <2>3
<1>3. CASE g.fsk[f].qht # NULL
  <2>1. PICK q \in SchedNrs : q = g.fsk[f].qht
    BY <1>3, QueueSched
  <2>2. PICK C : C = [g.schk EXCEPT ![q].q_count = @ - 1]
    OBVIOUS
  <2>3. A = C
    <3>1. PICK c : c = [g.schk[q] EXCEPT !.q_count = @ - 1]
      OBVIOUS
    <3>2. C = [g.schk EXCEPT ![q] = c]
      BY <2>2, <3>1, Zenon
    <3>3. A = [s \in SchedNrs |-> IF s = q THEN c ELSE g.schk[s]]
      BY <2>1, <3>1
    <3>4. QED
      BY <1>1, <2>1, <3>2, <3>3
  <2>4. u.fsk = g.fsk /\ u.schk = g.schk /\ u.fsu = U /\ u.fsk_list = L
    OBVIOUS
  <2>5. QhtDelete(u, f) = [[u EXCEPT !.schk = C] EXCEPT !.fsk = B]
    <3> HIDE DEF u
    <3>1. QhtDelete(u, f) = [u EXCEPT !.schk[q].q_count = @ - 1, !.fsk[f].qht = NULL]
      BY <1>3, <2>1, <2>4, Zenon DEF QhtDelete
    <3>2. C = [u.schk EXCEPT ![q].q_count = @ - 1] /\ B = [u.fsk EXCEPT ![f].qht = NULL]
      BY <2>2, <2>4 DEF B
    <3> HIDE DEF B
    <3>3. QED
      BY <3>1, <3>2
  <2> HIDE DEF A, B
  <2>6. QhtDelete(u, f) = [schk |-> C, fsk |-> B, fsu |-> U, fsk_list |-> L]
    BY <2>4, <2>5
  <2>7. QED
    BY <2>3, <2>6 DEF A, B
<1>4. QED
  BY <1>2, <1>3

\* The objects with flowset f out of all lists, and x in its place.
Without(g, f, x, U) ==
  [schk |-> [s \in SchedNrs |-> IF g.fsk[f] # NULL /\ g.fsk[f].qht = s
                                THEN [g.schk[s] EXCEPT !.q_count = @ - 1] ELSE g.schk[s]],
   fsk |-> [g.fsk EXCEPT ![f] = x], fsu |-> U,
   fsk_list |-> [s \in SchedNrs |-> g.fsk_list[s] \ {f}]]

LEMMA WithoutLost ==
  ASSUME NEW g, GOK(g), NEW f \in FsNrs, NEW x, NEW U \in SUBSET FsNrs,
         U \ {f} = g.fsu \ {f}
  PROVE  Lost(g, Without(g, f, x, U), f) /\ Without(g, f, x, U).fsk[f] = x
<1>1. g.fsk \in [FsNrs -> FsType \cup {NULL}]
  BY DEF GOK, GType
<1>2. PICK S, L : /\ S = [s \in SchedNrs |-> IF g.fsk[f] # NULL /\ g.fsk[f].qht = s
                                             THEN [g.schk[s] EXCEPT !.q_count = @ - 1]
                                             ELSE g.schk[s]]
                  /\ L = [s \in SchedNrs |-> g.fsk_list[s] \ {f}]
  OBVIOUS
<1>3. PICK F : F = [g.fsk EXCEPT ![f] = x]
  OBVIOUS
<1>4. PICK h : h = Without(g, f, x, U)
  OBVIOUS
<1>5. h = [schk |-> S, fsk |-> F, fsu |-> U, fsk_list |-> L]
  BY <1>2, <1>3, <1>4 DEF Without
<1>6. h.schk = S /\ h.fsk = F /\ h.fsu = U /\ h.fsk_list = L
      /\ h = [schk |-> h.schk, fsk |-> h.fsk, fsu |-> h.fsu, fsk_list |-> h.fsk_list]
  BY <1>5
<1>7. F[f] = x /\ F = [e \in FsNrs |-> IF e = f THEN F[f] ELSE g.fsk[e]]
  BY <1>1, <1>3
<1>8. \A e \in FsNrs : e # f => (e \in U <=> e \in g.fsu)
  OBVIOUS
<1>9. Lost(g, h, f)
  BY <1>2, <1>6, <1>7, <1>8 DEF Lost
<1>10. QED
  BY <1>4, <1>6, <1>7, <1>9

\* fsk_detach(): DN_DETACH | DN_DESTROY, and with DN_DELETE_FS.
LEMMA DetachDoes ==
  ASSUME NEW g, GOK(g), NEW f \in FsNrs, g.fsk[f] # NULL
  PROVE  /\ QhtDelete(Unlink(g, f), f) =
              Without(g, f, [g.fsk[f] EXCEPT !.qht = NULL], g.fsu \ {f})
         /\ Detach(g, f) = Without(g, f, [[g.fsk[f] EXCEPT !.qht = NULL] EXCEPT !.sched = NULL],
                                   (g.fsu \ {f}) \cup {f})
         /\ DeleteFs(g, f) = Without(g, f, NULL, g.fsu \ {f})
<1>1. PICK U, L : U = g.fsu \ {f} /\ L = [s \in SchedNrs |-> g.fsk_list[s] \ {f}]
  OBVIOUS
<1>2. PICK S : S = [s \in SchedNrs |-> IF g.fsk[f] # NULL /\ g.fsk[f].qht = s
                                       THEN [g.schk[s] EXCEPT !.q_count = @ - 1]
                                       ELSE g.schk[s]]
  OBVIOUS
<1>3. PICK F, x : /\ F = [g.fsk EXCEPT ![f] = [@ EXCEPT !.qht = NULL]]
                  /\ x = [g.fsk[f] EXCEPT !.qht = NULL]
  OBVIOUS
<1>4. PICK v : v = QhtDelete(Unlink(g, f), f)
  OBVIOUS
<1>5. v = [schk |-> S, fsk |-> F, fsu |-> U, fsk_list |-> L]
  <2>1. Unlink(g, f) = [schk |-> g.schk, fsk |-> g.fsk, fsu |-> U, fsk_list |-> L]
    BY <1>1, UnlinkDoes, Zenon
  <2>2. v = QhtDelete([schk |-> g.schk, fsk |-> g.fsk, fsu |-> U, fsk_list |-> L], f)
    BY <1>4, <2>1, Zenon
  <2>3. QhtDelete([schk |-> g.schk, fsk |-> g.fsk, fsu |-> U, fsk_list |-> L], f) =
          [schk |-> [s \in SchedNrs |-> IF g.fsk[f] # NULL /\ g.fsk[f].qht = s
                                        THEN [g.schk[s] EXCEPT !.q_count = @ - 1]
                                        ELSE g.schk[s]],
           fsk |-> [g.fsk EXCEPT ![f] = [@ EXCEPT !.qht = NULL]], fsu |-> U, fsk_list |-> L]
    BY QhtDeleteDoes
  <2>4. QED
    BY <1>2, <1>3, <2>2, <2>3
<1>6. g.fsk \in [FsNrs -> FsType \cup {NULL}] /\ F = [g.fsk EXCEPT ![f] = x] /\ F[f] = x
  BY <1>3 DEF GOK, GType
<1>7. v = Without(g, f, x, U)
  BY <1>1, <1>2, <1>5, <1>6, Zenon DEF Without
<1>8. Detach(g, f) = Without(g, f, [x EXCEPT !.sched = NULL], U \cup {f})
  <2>1. PICK G : G = [F EXCEPT ![f] = [@ EXCEPT !.sched = NULL]]
    OBVIOUS
  <2>2. PICK W : W = U \cup {f}
    OBVIOUS
  <2>3. v.fsk = F /\ v.fsu = U
    BY <1>5
  <2>4. Detach(g, f) = [[v EXCEPT !.fsk = G] EXCEPT !.fsu = W]
    BY <1>4, <2>1, <2>2, <2>3 DEF Detach
  <2>5. Detach(g, f) = [schk |-> S, fsk |-> G, fsu |-> W, fsk_list |-> L]
    BY <1>5, <2>4
  <2>6. G = [g.fsk EXCEPT ![f] = [x EXCEPT !.sched = NULL]]
    BY <1>6, <2>1
  <2>7. QED
    BY <1>1, <1>2, <2>2, <2>5, <2>6, Zenon DEF Without
<1>9. DeleteFs(g, f) = Without(g, f, NULL, U)
  <2>1. PICK G : G = [F EXCEPT ![f] = NULL]
    OBVIOUS
  <2>2. DeleteFs(g, f) = [v EXCEPT !.fsk = G]
    BY <1>4, <1>5, <2>1 DEF DeleteFs
  <2>3. DeleteFs(g, f) = [schk |-> S, fsk |-> G, fsu |-> U, fsk_list |-> L]
    BY <1>5, <2>2
  <2>4. G = [g.fsk EXCEPT ![f] = NULL]
    BY <1>6, <2>1
  <2>5. QED
    BY <1>1, <1>2, <2>3, <2>4, Zenon DEF Without
<1>10. QED
  BY <1>1, <1>3, <1>4, <1>7, <1>8, <1>9

-----------------------------------------------------------------------------
(***************************************************************************)
(* Flowsets are linked to a scheduler: fsk_attach(), update_fs().          *)
(***************************************************************************)

LEMMA AttachDoes ==
  ASSUME NEW g, g \in GType, NEW F \in SUBSET FsNrs, NEW s \in SchedNrs
  PROVE  Attach(g, F, s) =
           [schk |-> g.schk,
            fsk |-> [f \in FsNrs |-> IF f \notin F THEN g.fsk[f]
                                     ELSE [[g.fsk[f] EXCEPT !.sched = s] EXCEPT !.qht = NULL]],
            fsu |-> g.fsu \ F, fsk_list |-> [g.fsk_list EXCEPT ![s] = @ \cup F]]
<1>1. g = [schk |-> g.schk, fsk |-> g.fsk, fsu |-> g.fsu, fsk_list |-> g.fsk_list]
  BY Objects
<1>2. PICK G : G = [f \in FsNrs |-> IF f \notin F THEN g.fsk[f]
                                    ELSE [[g.fsk[f] EXCEPT !.sched = s] EXCEPT !.qht = NULL]]
  OBVIOUS
<1>3. PICK L : L = [g.fsk_list EXCEPT ![s] = @ \cup F]
  OBVIOUS
<1>4. PICK U : U = g.fsu \ F
  OBVIOUS
<1>5. Attach(g, F, s) = [[[g EXCEPT !.fsu = U] EXCEPT !.fsk_list = L] EXCEPT !.fsk = G]
  <2>1. Attach(g, F, s) = [g EXCEPT !.fsu = @ \ F, !.fsk_list[s] = @ \cup F, !.fsk = G]
    BY <1>2, Zenon DEF Attach
  <2>2. QED
    BY <1>3, <1>4, <2>1
<1>6. QED
  BY <1>1, <1>2, <1>3, <1>4, <1>5

LEMMA AttachOK ==
  ASSUME NEW g, GOK(g), NEW F \in SUBSET g.fsu, NEW s \in SchedNrs, g.schk[s] # NULL,
         \A f \in F : g.fsk[f].sched_nr = s
  PROVE  /\ GOK(Attach(g, F, s)) /\ Attach(g, F, s).schk = g.schk
         /\ \A f \in FsNrs \ F : Attach(g, F, s).fsk[f] = g.fsk[f]
         /\ \A f \in F : Attach(g, F, s).fsk[f].sched_nr = s /\ Attach(g, F, s).fsk[f].sched = s
<1>1. g \in GType /\ F \in SUBSET FsNrs
  BY DEF GOK, GType
<1>2. PICK h : h = Attach(g, F, s)
  OBVIOUS
<1>3. /\ h = [schk |-> h.schk, fsk |-> h.fsk, fsu |-> h.fsu, fsk_list |-> h.fsk_list]
      /\ h.schk = g.schk /\ h.fsu = g.fsu \ F
      /\ h.fsk = [f \in FsNrs |-> IF f \notin F THEN g.fsk[f]
                                  ELSE [[g.fsk[f] EXCEPT !.sched = s] EXCEPT !.qht = NULL]]
      /\ h.fsk_list = [g.fsk_list EXCEPT ![s] = @ \cup F]
  <2>1. PICK G : G = [f \in FsNrs |-> IF f \notin F THEN g.fsk[f]
                                      ELSE [[g.fsk[f] EXCEPT !.sched = s] EXCEPT !.qht = NULL]]
    OBVIOUS
  <2>2. PICK L, U : L = [g.fsk_list EXCEPT ![s] = @ \cup F] /\ U = g.fsu \ F
    OBVIOUS
  <2>3. Attach(g, F, s) = [schk |-> g.schk, fsk |-> G, fsu |-> U, fsk_list |-> L]
    BY <1>1, <2>1, <2>2, AttachDoes
  <2>4. /\ h = [schk |-> h.schk, fsk |-> h.fsk, fsu |-> h.fsu, fsk_list |-> h.fsk_list]
        /\ h.schk = g.schk /\ h.fsk = G /\ h.fsu = U /\ h.fsk_list = L
    BY <1>2, <2>3
  <2>5. QED
    BY <2>1, <2>2, <2>4, Zenon
<1>4. \A f \in FsNrs \ F : h.fsk[f] = g.fsk[f]
  BY <1>3
<1>5. ASSUME NEW f \in F
      PROVE  /\ g.fsk[f] # NULL /\ g.fsk[f] \in FsType /\ g.fsk[f].qht = NULL
             /\ g.fsk[f].sched = NULL
             /\ h.fsk[f] \in FsType /\ h.fsk[f] # NULL /\ h.fsk[f].sched_nr = s
             /\ h.fsk[f].sched = s /\ h.fsk[f].qht = NULL
  <2>1. f \in FsNrs /\ FsOK(g, f)
    BY <1>1 DEF GOK
  <2>2. g.fsk[f] # NULL /\ g.fsk[f].sched = NULL /\ g.fsk[f] \in FsType
    BY <1>1, <2>1, Objects DEF FsOK
  <2>3. g.fsk[f].qht = NULL
    BY <2>1, <2>2 DEF FsOK
  <2>4. h.fsk[f] = [[g.fsk[f] EXCEPT !.sched = s] EXCEPT !.qht = NULL]
    BY <1>3, <2>1
  <2>5. h.fsk[f] \in FsType /\ h.fsk[f].sched_nr = s /\ h.fsk[f].sched = s /\ h.fsk[f].qht = NULL
    BY <2>2, <2>4 DEF FsType
  <2>6. QED
    BY <2>2, <2>3, <2>5, Nothing
<1>6. h \in GType
  <2>1. \A f \in FsNrs : h.fsk[f] \in FsType \cup {NULL}
    BY <1>1, <1>4, <1>5, Objects
  <2>2. h.fsk \in [FsNrs -> FsType \cup {NULL}]
    BY <1>3, <2>1
  <2>3. h.fsk_list \in [SchedNrs -> SUBSET FsNrs]
    BY <1>1, <1>3 DEF GType
  <2>4. QED
    BY <1>1, <1>3, <2>2, <2>3 DEF GType
<1>7. ASSUME NEW f \in FsNrs PROVE FsOK(h, f)
  <2>1. FsOK(g, f) /\ g.fsk_list \in [SchedNrs -> SUBSET FsNrs] /\ s # NULL
    BY Nothing DEF GOK, GType
  <2>2. CASE f \in F
    <3>1. f \notin h.fsu
      BY <1>3, <2>2
    <3>2. \A q \in SchedNrs : f \in h.fsk_list[q] <=> q = s
      <4>1. h.fsk_list[s] = g.fsk_list[s] \cup F /\ \A q \in SchedNrs \ {s} : h.fsk_list[q] = g.fsk_list[q]
        BY <1>3, <2>1
      <4>2. \A q \in SchedNrs : f \notin g.fsk_list[q]
        BY <1>5, <2>1, <2>2, Nothing DEF FsOK
      <4>3. QED
        BY <2>2, <4>1, <4>2
    <3>3. h.schk = g.schk /\ h.fsk[f] # NULL /\ h.fsk[f].sched_nr = s /\ h.fsk[f].sched = s
          /\ h.fsk[f].qht = NULL
      BY <1>3, <1>5, <2>2
    <3>4. QED
      BY <2>1, <3>1, <3>2, <3>3 DEF FsOK
  <2>3. CASE f \notin F
    <3>1. f \in h.fsu <=> f \in g.fsu
      BY <1>3, <2>3
    <3>2. \A q \in SchedNrs : f \in h.fsk_list[q] <=> f \in g.fsk_list[q]
      BY <1>3, <2>1, <2>3
    <3>3. h.fsk[f] = g.fsk[f] /\ h.schk = g.schk
      BY <1>3, <1>4, <2>3
    <3>4. QED
      BY <2>1, <3>1, <3>2, <3>3 DEF FsOK
  <2>4. QED
    BY <2>2, <2>3
<1>8. ASSUME NEW q \in SchedNrs PROVE CountOK(h, q)
  <2>1. Queues(h, q) = Queues(g, q)
    BY <1>1, <1>4, <1>5, Nothing DEF Queues
  <2>2. QED
    BY <1>3, <2>1 DEF GOK, CountOK
<1>9. QED
  BY <1>2, <1>3, <1>4, <1>5, <1>6, <1>7, <1>8 DEF GOK

-----------------------------------------------------------------------------
(***************************************************************************)
(* A scheduler is deleted: fsk_detach_list(), schk_delete_cb().            *)
(***************************************************************************)

LEMMA SchkDeleteDoes ==
  ASSUME NEW g, g \in GType, NEW s \in SchedNrs
  PROVE  SchkDelete(g, s) =
           [schk |-> [g.schk EXCEPT ![s] = NULL],
            fsk |-> [f \in FsNrs |-> IF f \notin g.fsk_list[s] THEN g.fsk[f]
                                     ELSE [[g.fsk[f] EXCEPT !.sched = NULL] EXCEPT !.qht = NULL]],
            fsu |-> g.fsu \cup g.fsk_list[s], fsk_list |-> [g.fsk_list EXCEPT ![s] = {}]]
<1>1. g = [schk |-> g.schk, fsk |-> g.fsk, fsu |-> g.fsu, fsk_list |-> g.fsk_list]
      /\ g.schk \in [SchedNrs -> SchedType \cup {NULL}]
  BY Objects DEF GType
<1>2. PICK G : G = [f \in FsNrs |-> IF f \notin g.fsk_list[s] THEN g.fsk[f]
                                    ELSE [[g.fsk[f] EXCEPT !.sched = NULL] EXCEPT !.qht = NULL]]
  OBVIOUS
<1>3. PICK L : L = [g.fsk_list EXCEPT ![s] = {}]
  OBVIOUS
<1>4. PICK U : U = g.fsu \cup g.fsk_list[s]
  OBVIOUS
<1>5. PICK n : n = g.schk[s].q_count - Cardinality({f \in g.fsk_list[s] : g.fsk[f].qht = s})
  OBVIOUS
<1>6. PICK S : S = [g.schk EXCEPT ![s].q_count = n]
  OBVIOUS
<1>7. DetachList(g, s) =
        [[[[g EXCEPT !.schk = S] EXCEPT !.fsk = G] EXCEPT !.fsu = U] EXCEPT !.fsk_list = L]
  <2>1. DetachList(g, s) = [g EXCEPT !.schk[s].q_count = n, !.fsk = G, !.fsu = U,
                                     !.fsk_list[s] = {}]
    BY <1>2, <1>4, <1>5, Zenon DEF DetachList
  <2>2. QED
    BY <1>3, <1>6, <2>1
<1>8. PICK R : R = [S EXCEPT ![s] = NULL]
  OBVIOUS
<1>9. R = [g.schk EXCEPT ![s] = NULL]
  BY <1>1, <1>6, <1>8
<1>10. SchkDelete(g, s) = [DetachList(g, s) EXCEPT !.schk = R]
  BY <1>7, <1>8 DEF SchkDelete
<1>11. SchkDelete(g, s) = [schk |-> R, fsk |-> G, fsu |-> U, fsk_list |-> L]
  BY <1>1, <1>7, <1>10
<1>12. QED
  BY <1>2, <1>3, <1>4, <1>9, <1>11

LEMMA SchkDeleteOK ==
  ASSUME NEW g, GOK(g), NEW s \in SchedNrs
  PROVE  /\ GOK(SchkDelete(g, s)) /\ SchkDelete(g, s).schk = [g.schk EXCEPT ![s] = NULL]
         /\ \A f \in FsNrs :
              /\ SchkDelete(g, s).fsk[f] = NULL <=> g.fsk[f] = NULL
              /\ g.fsk[f] # NULL =>
                   /\ SchkDelete(g, s).fsk[f].sched_nr = g.fsk[f].sched_nr
                   /\ SchkDelete(g, s).fsk[f].sched =
                        IF g.fsk[f].sched = s THEN NULL ELSE g.fsk[f].sched
<1>1. g \in GType /\ g.schk \in [SchedNrs -> SchedType \cup {NULL}]
      /\ g.fsk_list \in [SchedNrs -> SUBSET FsNrs] /\ s # NULL
  BY Nothing DEF GOK, GType
<1>2. PICK h : h = SchkDelete(g, s)
  OBVIOUS
<1>3. /\ h = [schk |-> h.schk, fsk |-> h.fsk, fsu |-> h.fsu, fsk_list |-> h.fsk_list]
      /\ h.schk = [g.schk EXCEPT ![s] = NULL] /\ h.fsu = g.fsu \cup g.fsk_list[s]
      /\ h.fsk = [f \in FsNrs |-> IF f \notin g.fsk_list[s] THEN g.fsk[f]
                                  ELSE [[g.fsk[f] EXCEPT !.sched = NULL] EXCEPT !.qht = NULL]]
      /\ h.fsk_list = [g.fsk_list EXCEPT ![s] = {}]
  <2>1. PICK G : G = [f \in FsNrs |-> IF f \notin g.fsk_list[s] THEN g.fsk[f]
                                      ELSE [[g.fsk[f] EXCEPT !.sched = NULL] EXCEPT !.qht = NULL]]
    OBVIOUS
  <2>2. PICK S, L, U : /\ S = [g.schk EXCEPT ![s] = NULL] /\ L = [g.fsk_list EXCEPT ![s] = {}]
                       /\ U = g.fsu \cup g.fsk_list[s]
    OBVIOUS
  <2>3. SchkDelete(g, s) = [schk |-> S, fsk |-> G, fsu |-> U, fsk_list |-> L]
    BY <1>1, <2>1, <2>2, SchkDeleteDoes
  <2>4. /\ h = [schk |-> h.schk, fsk |-> h.fsk, fsu |-> h.fsu, fsk_list |-> h.fsk_list]
        /\ h.schk = S /\ h.fsk = G /\ h.fsu = U /\ h.fsk_list = L
    BY <1>2, <2>3
  <2>5. QED
    BY <2>1, <2>2, <2>4, Zenon
<1>4. \A f \in FsNrs \ g.fsk_list[s] : h.fsk[f] = g.fsk[f]
  BY <1>3
<1>5. ASSUME NEW f \in g.fsk_list[s]
      PROVE  /\ g.fsk[f] # NULL /\ g.fsk[f].sched = s
             /\ h.fsk[f] \in FsType /\ h.fsk[f] # NULL /\ h.fsk[f].sched_nr = g.fsk[f].sched_nr
             /\ h.fsk[f].sched = NULL /\ h.fsk[f].qht = NULL
  <2>1. f \in FsNrs /\ FsOK(g, f)
    BY <1>1 DEF GOK
  <2>2. g.fsk[f] # NULL /\ g.fsk[f].sched = s /\ g.fsk[f] \in FsType
    BY <1>1, <2>1, Objects DEF FsOK
  <2>3. h.fsk[f] = [[g.fsk[f] EXCEPT !.sched = NULL] EXCEPT !.qht = NULL]
    BY <1>3, <2>1
  <2>4. /\ h.fsk[f] \in FsType /\ h.fsk[f].sched_nr = g.fsk[f].sched_nr
        /\ h.fsk[f].sched = NULL /\ h.fsk[f].qht = NULL
    BY <2>2, <2>3 DEF FsType
  <2>5. QED
    BY <2>2, <2>4, Nothing
<1>6. h \in GType
  <2>1. \A f \in FsNrs : h.fsk[f] \in FsType \cup {NULL}
    BY <1>1, <1>4, <1>5, Objects
  <2>2. h.fsk \in [FsNrs -> FsType \cup {NULL}]
    BY <1>3, <2>1
  <2>3. h.fsk_list \in [SchedNrs -> SUBSET FsNrs] /\ h.fsu \in SUBSET FsNrs
    <3>1. h.fsk_list = [g.fsk_list EXCEPT ![s] = {}] /\ h.fsu = g.fsu \cup g.fsk_list[s]
      BY <1>3
    <3>2. QED
      BY <1>1, <3>1 DEF GType
  <2>4. h.schk \in [SchedNrs -> SchedType \cup {NULL}]
    <3>1. h.schk = [g.schk EXCEPT ![s] = NULL]
      BY <1>3
    <3>2. QED
      BY <1>1, <3>1
  <2>5. h = [schk |-> h.schk, fsk |-> h.fsk, fsu |-> h.fsu, fsk_list |-> h.fsk_list]
    BY <1>3
  <2>6. QED
    BY <2>2, <2>3, <2>4, <2>5 DEF GType
<1>7. ASSUME NEW f \in FsNrs
      PROVE  /\ FsOK(h, f) /\ (h.fsk[f] = NULL <=> g.fsk[f] = NULL)
             /\ g.fsk[f] # NULL =>
                  /\ h.fsk[f].sched_nr = g.fsk[f].sched_nr
                  /\ h.fsk[f].sched = IF g.fsk[f].sched = s THEN NULL ELSE g.fsk[f].sched
  <2>1. FsOK(g, f)
    BY DEF GOK
  <2>2. CASE f \in g.fsk_list[s]
    <3>1. f \in h.fsu /\ h.fsk[f] # NULL /\ h.fsk[f].sched = NULL /\ h.fsk[f].qht = NULL
      BY <1>3, <1>5, <2>2
    <3>2. \A q \in SchedNrs : f \notin h.fsk_list[q]
      <4>1. h.fsk_list[s] = {} /\ \A q \in SchedNrs \ {s} : h.fsk_list[q] = g.fsk_list[q]
        BY <1>1, <1>3
      <4>2. \A q \in SchedNrs \ {s} : f \notin g.fsk_list[q]
        BY <1>5, <2>1, <2>2 DEF FsOK
      <4>3. QED
        BY <4>1, <4>2
    <3>3. FsOK(h, f)
      BY <3>1, <3>2, Nothing DEF FsOK
    <3>4. QED
      BY <1>5, <2>2, <3>3
  <2>3. CASE f \notin g.fsk_list[s]
    <3>1. h.fsk[f] = g.fsk[f] /\ (f \in h.fsu <=> f \in g.fsu)
      BY <1>3, <1>4, <2>3
    <3>2. \A q \in SchedNrs : f \in h.fsk_list[q] <=> f \in g.fsk_list[q]
      BY <1>1, <1>3, <2>3
    <3>3. g.fsk[f] # NULL => g.fsk[f].sched # s /\ g.fsk[f] \in FsType
      BY <1>1, <2>1, <2>3, Objects DEF FsOK
    <3>4. \A q \in SchedNrs : q # s => h.schk[q] = g.schk[q]
      BY <1>1, <1>3
    <3>5. FsOK(h, f)
      BY <2>1, <3>1, <3>2, <3>3, <3>4 DEF FsOK, FsType
    <3>6. QED
      BY <3>1, <3>3, <3>5
  <2>4. QED
    BY <2>2, <2>3
<1>8. ASSUME NEW q \in SchedNrs PROVE CountOK(h, q)
  <2>1. SUFFICES ASSUME q # s PROVE CountOK(h, q)
    BY <1>1, <1>3 DEF CountOK
  <2>2. h.schk[q] = g.schk[q]
    BY <1>1, <1>3, <2>1
  <2>3. ASSUME NEW f \in FsNrs
        PROVE  (h.fsk[f] # NULL /\ h.fsk[f].qht = q) <=> (g.fsk[f] # NULL /\ g.fsk[f].qht = q)
    <3>1. CASE f \in g.fsk_list[s]
      <4>1. g.fsk[f] # NULL /\ g.fsk[f].sched = s /\ h.fsk[f].qht = NULL
        BY <1>5, <3>1
      <4>2. g.fsk[f].qht # q
        BY <2>1, <4>1, QueueSched, Nothing
      <4>3. QED
        BY <4>1, <4>2, Nothing
    <3>2. CASE f \notin g.fsk_list[s]
      BY <1>4, <3>2
    <3>3. QED
      BY <3>1, <3>2
  <2>4. Queues(h, q) = Queues(g, q)
    BY <2>3 DEF Queues
  <2>5. QED
    BY <2>2, <2>4 DEF GOK, CountOK
<1>9. QED
  BY <1>2, <1>3, <1>6, <1>7, <1>8 DEF GOK

-----------------------------------------------------------------------------
(***************************************************************************)
(* config_fs().                                                            *)
(***************************************************************************)

\* A flowset that is in no list of a scheduler and has no queue.
LEMMA AlreadyOut ==
  ASSUME NEW g, GOK(g), NEW f \in FsNrs, NEW x, NEW U,
         g.fsk[f] = NULL \/ g.fsk[f].sched = NULL
  PROVE  Without(g, f, x, U) = [schk |-> g.schk, fsk |-> [g.fsk EXCEPT ![f] = x], fsu |-> U,
                                fsk_list |-> g.fsk_list]
<1>1. /\ g.schk \in [SchedNrs -> SchedType \cup {NULL}] /\ FsOK(g, f)
      /\ g.fsk_list \in [SchedNrs -> SUBSET FsNrs]
  BY DEF GOK, GType
<1>2. \A s \in SchedNrs : f \notin g.fsk_list[s]
  BY <1>1, Nothing DEF FsOK
<1>3. \A s \in SchedNrs : ~(g.fsk[f] # NULL /\ g.fsk[f].qht = s)
  BY <1>1, Nothing DEF FsOK
<1>4. g.schk = [s \in SchedNrs |-> IF g.fsk[f] # NULL /\ g.fsk[f].qht = s
                                   THEN [g.schk[s] EXCEPT !.q_count = @ - 1] ELSE g.schk[s]]
  BY <1>1, <1>3
<1>5. g.fsk_list = [s \in SchedNrs |-> g.fsk_list[s] \ {f}]
  BY <1>1, <1>2
<1>6. QED
  BY <1>4, <1>5, Zenon DEF Without

LEMMA NewFsTyped ==
  ASSUME NEW nr \in SchedNrs, NEW par \in FsParams \cup {0}
  PROVE  NewFs(nr, par) \in FsType /\ NewFs(nr, par).sched = NULL /\ NewFs(nr, par).qht = NULL
BY DEF NewFs, FsType

\* The flowset is new or taken out of its list, ...
Outside(g, f, nr, par) ==
  LET old == g.fsk[f]
  IN  IF old = NULL THEN [g EXCEPT !.fsu = @ \cup {f}, !.fsk[f] = NewFs(nr, par)]
      ELSE IF old.sched = NULL THEN g ELSE Detach(g, f)

LEMMA OutsideIs ==
  ASSUME NEW g, GOK(g), NEW f \in FsNrs, NEW nr \in SchedNrs, NEW par \in FsParams \cup {0}
  PROVE  \E y \in FsType : /\ y.sched = NULL /\ y.qht = NULL
                           /\ Outside(g, f, nr, par) = Without(g, f, y, g.fsu \cup {f})
<1>1. /\ g = [schk |-> g.schk, fsk |-> g.fsk, fsu |-> g.fsu, fsk_list |-> g.fsk_list]
      /\ FsOK(g, f) /\ g.fsk \in [FsNrs -> FsType \cup {NULL}]
      /\ g.fsk[f] # NULL => g.fsk[f] \in FsType
  BY Objects DEF GOK, GType
<1>2. CASE g.fsk[f] = NULL
  <2>1. PICK y \in FsType : y = NewFs(nr, par) /\ y.sched = NULL /\ y.qht = NULL
    BY NewFsTyped
  <2>2. PICK U, F : U = g.fsu \cup {f} /\ F = [g.fsk EXCEPT ![f] = y]
    OBVIOUS
  <2>3. Outside(g, f, nr, par) = [[g EXCEPT !.fsu = U] EXCEPT !.fsk = F]
    BY <1>2, <2>1, <2>2 DEF Outside
  <2>4. Outside(g, f, nr, par) =
          [schk |-> g.schk, fsk |-> F, fsu |-> U, fsk_list |-> g.fsk_list]
    BY <1>1, <2>3
  <2>5. Outside(g, f, nr, par) = Without(g, f, y, U)
    <3>1. Without(g, f, y, U) = [schk |-> g.schk, fsk |-> [g.fsk EXCEPT ![f] = y], fsu |-> U,
                                 fsk_list |-> g.fsk_list]
      BY <1>2, AlreadyOut
    <3>2. QED
      BY <2>2, <2>4, <3>1
  <2>6. QED
    BY <2>1, <2>2, <2>5
<1>3. CASE g.fsk[f] # NULL /\ g.fsk[f].sched = NULL
  <2>1. PICK y \in FsType : y = g.fsk[f] /\ y.sched = NULL /\ y.qht = NULL
    BY <1>1, <1>3 DEF FsOK
  <2>2. g.fsu = g.fsu \cup {f}
    BY <1>1, <1>3 DEF FsOK
  <2>3. g.fsk = [g.fsk EXCEPT ![f] = y]
    BY <1>1, <2>1
  <2>4. Outside(g, f, nr, par) = g
    BY <1>3 DEF Outside
  <2>5. Outside(g, f, nr, par) = Without(g, f, y, g.fsu)
    <3>1. PICK U, F : U = g.fsu /\ F = g.fsk
      OBVIOUS
    <3>2. Without(g, f, y, U) = [schk |-> g.schk, fsk |-> [g.fsk EXCEPT ![f] = y], fsu |-> U,
                                 fsk_list |-> g.fsk_list]
      BY <1>3, AlreadyOut
    <3>3. Without(g, f, y, U) = [schk |-> g.schk, fsk |-> F, fsu |-> U, fsk_list |-> g.fsk_list]
      BY <2>3, <3>1, <3>2, Zenon
    <3>4. QED
      BY <1>1, <2>4, <3>1, <3>3
  <2>6. QED
    BY <2>1, <2>2, <2>5
<1>4. CASE g.fsk[f] # NULL /\ g.fsk[f].sched # NULL
  <2>1. PICK y : y = [[g.fsk[f] EXCEPT !.qht = NULL] EXCEPT !.sched = NULL]
    OBVIOUS
  <2>2. y \in FsType /\ y.sched = NULL /\ y.qht = NULL
    BY <1>1, <1>4, <2>1 DEF FsType
  <2>3. (g.fsu \ {f}) \cup {f} = g.fsu \cup {f}
    OBVIOUS
  <2>4. Outside(g, f, nr, par) = Without(g, f, y, g.fsu \cup {f})
    BY <1>4, <2>1, <2>3, DetachDoes, Zenon DEF Outside
  <2>5. QED
    BY <2>2, <2>4
<1>5. QED
  BY <1>2, <1>3, <1>4

\* ... and gets its parameters.
Relisted(g, f, nr, par) ==
  [Outside(g, f, nr, par) EXCEPT !.fsk[f].sched_nr = nr, !.fsk[f].par = par]

LEMMA RelistedOK ==
  ASSUME NEW g, GOK(g), NEW f \in FsNrs, NEW nr \in SchedNrs, NEW par \in FsParams \cup {0}
  PROVE  /\ GOK(Relisted(g, f, nr, par)) /\ SameScheds(g, Relisted(g, f, nr, par))
         /\ \A e \in FsNrs \ {f} : Relisted(g, f, nr, par).fsk[e] = g.fsk[e]
         /\ f \in Relisted(g, f, nr, par).fsu /\ Relisted(g, f, nr, par).fsk[f].sched_nr = nr
<1>1. PICK y \in FsType : /\ y.sched = NULL /\ y.qht = NULL
                          /\ Outside(g, f, nr, par) = Without(g, f, y, g.fsu \cup {f})
  BY OutsideIs
<1>2. PICK z : z = [[y EXCEPT !.sched_nr = nr] EXCEPT !.par = par]
  OBVIOUS
<1>3. z \in FsType /\ z.sched = NULL /\ z.qht = NULL /\ z.sched_nr = nr
  BY <1>1, <1>2 DEF FsType
<1>4. PICK k : k = Relisted(g, f, nr, par)
  OBVIOUS
<1>5. PICK U : U = g.fsu \cup {f} /\ U \in SUBSET FsNrs /\ U \ {f} = g.fsu \ {f} /\ f \in U
  <2>1. PICK U : U = g.fsu \cup {f}
    OBVIOUS
  <2>2. U \in SUBSET FsNrs
    BY <2>1 DEF GOK, GType
  <2>3. QED
    BY <2>1, <2>2
<1>6. k = Without(g, f, z, U)
  <2>1. g.fsk \in [FsNrs -> FsType \cup {NULL}]
    BY DEF GOK, GType
  <2>2. PICK S, L : \A x : Without(g, f, x, U) =
                      [schk |-> S, fsk |-> [g.fsk EXCEPT ![f] = x], fsu |-> U, fsk_list |-> L]
    BY Zenon DEF Without
  <2>3. PICK F : F = [g.fsk EXCEPT ![f] = y]
    OBVIOUS
  <2>4. PICK h : h = [schk |-> S, fsk |-> F, fsu |-> U, fsk_list |-> L]
    OBVIOUS
  <2>5. k = [h EXCEPT !.fsk[f].sched_nr = nr, !.fsk[f].par = par]
    BY <1>1, <1>4, <1>5, <2>2, <2>3, <2>4, Zenon DEF Relisted
  <2>6. PICK G : G = [[F EXCEPT ![f].sched_nr = nr] EXCEPT ![f].par = par]
    OBVIOUS
  <2>7. k = [h EXCEPT !.fsk = G]
    BY <2>4, <2>5, <2>6
  <2>8. k = [schk |-> S, fsk |-> G, fsu |-> U, fsk_list |-> L]
    BY <2>4, <2>7
  <2>9. G = [g.fsk EXCEPT ![f] = z]
    <3>1. PICK y1 : y1 = [y EXCEPT !.sched_nr = nr]
      OBVIOUS
    <3>2. [F EXCEPT ![f].sched_nr = nr] = [g.fsk EXCEPT ![f] = y1]
      BY <2>1, <2>3, <3>1
    <3>3. z = [y1 EXCEPT !.par = par]
      BY <1>2, <3>1
    <3>4. PICK F1 : F1 = [g.fsk EXCEPT ![f] = y1]
      OBVIOUS
    <3>5. G = [F1 EXCEPT ![f].par = par]
      BY <2>6, <3>2, <3>4
    <3>6. F1[f] = y1
      BY <2>1, <3>4
    <3>7. G = [F1 EXCEPT ![f] = z]
      BY <3>3, <3>5, <3>6
    <3>8. QED
      BY <2>1, <3>4, <3>7
  <2>10. QED
    BY <2>2, <2>8, <2>9, Zenon
<1>7. Lost(g, k, f) /\ k.fsk[f] = z
  BY <1>5, <1>6, WithoutLost
<1>8. k.fsu = U
  BY <1>6 DEF Without
<1>9. Alone(k, f)
  BY <1>3, <1>5, <1>7, <1>8 DEF Alone
<1>10. GOK(k) /\ SameScheds(g, k)
  BY <1>7, <1>9, LostOK
<1>11. \A e \in FsNrs \ {f} : k.fsk[e] = g.fsk[e]
  BY <1>7 DEF Lost
<1>12. QED
  BY <1>3, <1>4, <1>5, <1>7, <1>8, <1>10, <1>11

\* All flowsets but f are as they were; the schedulers too, but for their counters;
\* and f is linked if its scheduler is there.
LEMMA ConfiguredOK ==
  ASSUME NEW g, GOK(g), NEW tbl \in SUBSET SchedNrs, Found(g, tbl), NEW T \in SUBSET tbl,
         Linked(g, T), NEW f \in FsNrs, NEW nr \in SchedNrs, NEW par \in FsParams \cup {0}
  PROVE  /\ GOK(Configured(g, tbl, f, nr, par)) /\ SameScheds(g, Configured(g, tbl, f, nr, par))
         /\ Linked(Configured(g, tbl, f, nr, par), T)
<1>1. CASE Configured(g, tbl, f, nr, par) = g
  BY <1>1 DEF SameScheds
<1>2. CASE Configured(g, tbl, f, nr, par) # g
  <2>1. PICK k : k = Relisted(g, f, nr, par)
    OBVIOUS
  <2>2. /\ GOK(k) /\ SameScheds(g, k) /\ f \in k.fsu /\ k.fsk[f].sched_nr = nr
        /\ \A e \in FsNrs \ {f} : k.fsk[e] = g.fsk[e]
    BY <2>1, RelistedOK
  <2>3. Configured(g, tbl, f, nr, par) = IF nr \in tbl THEN Attach(k, {f}, nr) ELSE k
    <3>1. Configured(g, tbl, f, nr, par) =
            IF g.fsk[f] # NULL /\ g.fsk[f].sched_nr = nr /\ g.fsk[f].par = par THEN g
            ELSE IF nr \in tbl THEN Attach(Relisted(g, f, nr, par), {f}, nr)
            ELSE Relisted(g, f, nr, par)
      BY DEF Configured, Relisted, Outside
    <3>2. QED
      BY <1>2, <2>1, <3>1, Zenon
  <2>4. CASE nr \in tbl
    <3>1. k.schk[nr] # NULL
      BY <2>2, <2>4 DEF Found, SameScheds
    <3>2. PICK a : a = Attach(k, {f}, nr)
      OBVIOUS
    <3>3. /\ GOK(a) /\ a.schk = k.schk
          /\ \A e \in FsNrs \ {f} : a.fsk[e] = k.fsk[e]
          /\ a.fsk[f].sched_nr = nr /\ a.fsk[f].sched = nr
      <4>1. PICK F : F = {f}
        OBVIOUS
      <4>2. F \in SUBSET k.fsu /\ \A e \in F : k.fsk[e].sched_nr = nr
        BY <2>2, <4>1
      <4>3. a = Attach(k, F, nr)
        BY <3>2, <4>1
      <4>4. GOK(k)
        BY <2>2
      <4>5. /\ GOK(Attach(k, F, nr)) /\ Attach(k, F, nr).schk = k.schk
            /\ \A e \in FsNrs \ F : Attach(k, F, nr).fsk[e] = k.fsk[e]
            /\ \A e \in F : Attach(k, F, nr).fsk[e].sched_nr = nr
                            /\ Attach(k, F, nr).fsk[e].sched = nr
        BY <3>1, <4>2, <4>4, AttachOK
      <4>6. /\ GOK(a) /\ a.schk = k.schk
            /\ \A e \in FsNrs \ F : a.fsk[e] = k.fsk[e]
            /\ \A e \in F : a.fsk[e].sched_nr = nr /\ a.fsk[e].sched = nr
        BY <4>3, <4>5
      <4>7. QED
        BY <4>1, <4>6
    <3>4. SameScheds(g, a)
      BY <2>2, <3>3 DEF SameScheds
    <3>5. Linked(a, T)
      BY <2>2, <3>3 DEF Linked
    <3>6. QED
      BY <2>3, <2>4, <3>2, <3>3, <3>4, <3>5
  <2>5. CASE nr \notin tbl
    <3>1. Linked(k, T)
      BY <2>2, <2>5 DEF Linked
    <3>2. QED
      BY <2>2, <2>3, <2>5, <3>1
  <2>6. QED
    BY <2>4, <2>5
<1>3. QED
  BY <1>1, <1>2

-----------------------------------------------------------------------------
(***************************************************************************)
(* The schedulers change and the flowsets do not.                          *)
(***************************************************************************)

WithScheds(g, S) == [schk |-> S, fsk |-> g.fsk, fsu |-> g.fsu, fsk_list |-> g.fsk_list]

\* New schedulers have no queues; the ones that have queues keep them.
LEMMA SchedsOK ==
  ASSUME NEW g, GOK(g), NEW S \in [SchedNrs -> SchedType \cup {NULL}],
         \A s \in SchedNrs : g.schk[s] = NULL /\ S[s] # NULL => S[s].q_count = 0,
         \A s \in SchedNrs : g.schk[s] # NULL =>
           S[s] # NULL /\ S[s].q_count = g.schk[s].q_count /\ S[s].type = g.schk[s].type,
         \A s \in SchedNrs : g.schk[s] # NULL /\ g.schk[s].inst /\ Queues(g, s) # {} => S[s].inst
  PROVE  GOK(WithScheds(g, S))
<1>1. PICK h : h = WithScheds(g, S)
  OBVIOUS
<1>2. /\ h = [schk |-> h.schk, fsk |-> h.fsk, fsu |-> h.fsu, fsk_list |-> h.fsk_list]
      /\ h.schk = S /\ h.fsk = g.fsk /\ h.fsu = g.fsu /\ h.fsk_list = g.fsk_list
  BY <1>1 DEF WithScheds
<1>3. h \in GType
  BY <1>2 DEF GOK, GType
<1>4. ASSUME NEW f \in FsNrs PROVE FsOK(h, f)
  <2>1. FsOK(g, f) /\ (g.fsk[f] # NULL => g.fsk[f] \in FsType)
    BY Objects DEF GOK
  <2>2. ASSUME g.fsk[f] # NULL, g.fsk[f].sched # NULL
        PROVE  g.fsk[f].sched = g.fsk[f].sched_nr /\ S[g.fsk[f].sched] # NULL
    BY <2>1, <2>2 DEF FsOK, FsType
  <2>3. ASSUME g.fsk[f] # NULL, g.fsk[f].qht # NULL
        PROVE  /\ g.fsk[f].qht = g.fsk[f].sched
               /\ S[g.fsk[f].qht].inst /\ S[g.fsk[f].qht].type \in Multi
    <3>1. PICK q \in SchedNrs : q = g.fsk[f].qht /\ g.schk[q] # NULL
      BY <2>3, QueueSched
    <3>2. f \in Queues(g, q)
      BY <2>3, <3>1 DEF Queues
    <3>3. QED
      BY <2>1, <2>3, <3>1, <3>2 DEF FsOK
  <2>4. QED
    BY <1>2, <2>1, <2>2, <2>3 DEF FsOK
<1>5. ASSUME NEW s \in SchedNrs PROVE CountOK(h, s)
  <2>1. Queues(h, s) = Queues(g, s)
    BY <1>2 DEF Queues
  <2>2. CASE g.schk[s] # NULL
    BY <1>2, <2>1, <2>2 DEF GOK, CountOK
  <2>3. CASE g.schk[s] = NULL
    <3>1. Queues(g, s) = {}
      BY <2>3, QueueSched, Nothing DEF Queues
    <3>2. Cardinality(Queues(h, s)) = 0
      BY <2>1, <3>1, FS_EmptySet
    <3>3. QED
      BY <1>2, <2>3, <3>2 DEF CountOK
  <2>4. QED
    BY <2>2, <2>3
<1>6. QED
  BY <1>1, <1>3, <1>4, <1>5 DEF GOK

\* A scheduler gets its internal flowset.
LEMMA SetFsOK ==
  ASSUME NEW g, GOK(g), NEW s \in SchedNrs, g.schk[s] # NULL, NEW v \in FsNrs
  PROVE  /\ GOK([g EXCEPT !.schk[s].fs = v]) /\ SameScheds(g, [g EXCEPT !.schk[s].fs = v])
         /\ [g EXCEPT !.schk[s].fs = v].fsk = g.fsk
<1>1. /\ g = [schk |-> g.schk, fsk |-> g.fsk, fsu |-> g.fsu, fsk_list |-> g.fsk_list]
      /\ g.schk \in [SchedNrs -> SchedType \cup {NULL}] /\ g.schk[s] \in SchedType
  BY Objects DEF GOK, GType
<1>2. PICK r : r = [g.schk[s] EXCEPT !.fs = v]
  OBVIOUS
<1>3. /\ r \in SchedType /\ r.q_count = g.schk[s].q_count /\ r.type = g.schk[s].type
      /\ r.inst = g.schk[s].inst /\ r.link = g.schk[s].link
  BY <1>1, <1>2 DEF SchedType
<1>4. PICK S : S = [g.schk EXCEPT ![s] = r]
  OBVIOUS
<1>5. S \in [SchedNrs -> SchedType \cup {NULL}] /\ S[s] = r
      /\ \A q \in SchedNrs \ {s} : S[q] = g.schk[q]
  BY <1>1, <1>3, <1>4
<1>6. PICK h : h = [g EXCEPT !.schk[s].fs = v]
  OBVIOUS
<1>7. h = [g EXCEPT !.schk = S]
  BY <1>2, <1>4, <1>6
<1>8. h = WithScheds(g, S)
  BY <1>1, <1>7 DEF WithScheds
<1>9. r # NULL
  BY <1>3, Nothing
<1>10. GOK(h)
  BY <1>3, <1>5, <1>8, <1>9, SchedsOK
<1>11. h.schk = S /\ h.fsk = g.fsk
  BY <1>8 DEF WithScheds
<1>12. SameScheds(g, h)
  BY <1>3, <1>5, <1>9, <1>11 DEF SameScheds
<1>13. QED
  BY <1>6, <1>10, <1>11, <1>12

-----------------------------------------------------------------------------
(***************************************************************************)
(* "complete initialization" of a scheduler in config_sched().             *)
(***************************************************************************)

LEMMA InternalFsOK ==
  ASSUME NEW g, GOK(g), NEW tbl \in SUBSET SchedNrs, Found(g, tbl), NEW T \in SUBSET tbl,
         Linked(g, T), NEW s \in tbl
  PROVE  /\ GOK(InternalFs(g, tbl, s)) /\ SameScheds(g, InternalFs(g, tbl, s))
         /\ Linked(InternalFs(g, tbl, s), T)
<1>1. s \in SchedNrs /\ s \in FsNrs /\ s + N \in FsNrs /\ g.schk[s] # NULL
  BY Nrs DEF Found
<1>2. CASE InternalFs(g, tbl, s) = g
  BY <1>2 DEF SameScheds
<1>3. CASE InternalFs(g, tbl, s) = [g EXCEPT !.schk[s].fs = s]
  <2>1. PICK h : h = [g EXCEPT !.schk[s].fs = s]
    OBVIOUS
  <2>2. GOK(h) /\ SameScheds(g, h) /\ h.fsk = g.fsk
    BY <1>1, <2>1, SetFsOK
  <2>3. QED
    BY <1>3, <2>1, <2>2 DEF Linked
<1>4. CASE InternalFs(g, tbl, s) = [Configured(g, tbl, s + N, s, 0) EXCEPT !.schk[s].fs = s + N]
  <2>1. PICK f \in FsNrs : f = s + N
    BY <1>1
  <2>2. PICK k : k = Configured(g, tbl, f, s, 0)
    OBVIOUS
  <2>3. GOK(k) /\ SameScheds(g, k) /\ Linked(k, T)
    BY <1>1, <2>2, ConfiguredOK
  <2>4. k.schk[s] # NULL
    BY <1>1, <2>3 DEF SameScheds
  <2>5. PICK h : h = [k EXCEPT !.schk[s].fs = f]
    OBVIOUS
  <2>6. GOK(h) /\ SameScheds(k, h) /\ h.fsk = k.fsk
    BY <1>1, <2>3, <2>4, <2>5, SetFsOK
  <2>7. Linked(h, T) /\ SameScheds(g, h)
    BY <2>3, <2>6 DEF Linked, SameScheds
  <2>8. QED
    BY <1>4, <2>1, <2>2, <2>5, <2>6, <2>7
<1>5. QED
  BY <1>2, <1>3, <1>4, Zenon DEF InternalFs

LEMMA UpdateFsOK ==
  ASSUME NEW g, GOK(g), NEW tbl \in SUBSET SchedNrs, Found(g, tbl), NEW s \in tbl,
         Linked(g, tbl \ {s})
  PROVE  GOK(UpdateFs(g, s)) /\ SameScheds(g, UpdateFs(g, s)) /\ Linked(UpdateFs(g, s), tbl)
<1>1. PICK F : F = {f \in g.fsu : g.fsk[f].sched_nr = s}
  OBVIOUS
<1>2. PICK r : r = Attach(g, F, s)
  OBVIOUS
<1>3. UpdateFs(g, s) = r
  BY <1>1, <1>2 DEF UpdateFs
<1>4. g.schk[s] # NULL /\ s \in SchedNrs
  BY DEF Found
<1>5. F \in SUBSET g.fsu /\ \A f \in F : g.fsk[f].sched_nr = s
  BY <1>1
<1>6. /\ GOK(r) /\ r.schk = g.schk
      /\ \A f \in FsNrs \ F : r.fsk[f] = g.fsk[f]
      /\ \A f \in F : r.fsk[f].sched_nr = s /\ r.fsk[f].sched = s
  <2>1. /\ GOK(Attach(g, F, s)) /\ Attach(g, F, s).schk = g.schk
        /\ \A f \in FsNrs \ F : Attach(g, F, s).fsk[f] = g.fsk[f]
        /\ \A f \in F : Attach(g, F, s).fsk[f].sched_nr = s /\ Attach(g, F, s).fsk[f].sched = s
    BY <1>4, <1>5, AttachOK
  <2>2. QED
    BY <1>2, <2>1
<1>7. ASSUME NEW f \in FsNrs \ F, g.fsk[f] # NULL, g.fsk[f].sched_nr = s
      PROVE  g.fsk[f].sched = g.fsk[f].sched_nr
  <2>1. FsOK(g, f) /\ f \notin g.fsu
    BY <1>1, <1>7 DEF GOK
  <2>2. QED
    BY <1>7, <2>1 DEF FsOK
<1>8. Linked(r, tbl)
  BY <1>6, <1>7 DEF Linked
<1>9. SameScheds(g, r)
  BY <1>6 DEF SameScheds
<1>10. QED
  BY <1>3, <1>6, <1>8, <1>9

LEMMA BecomesState ==
  ASSUME NEW r, r \in GType, Becomes(r)
  PROVE  State' = r
BY Objects DEF Becomes, State

\* The pass ends with all flowsets of the scheduler linked to it, or with a kernel
\* that follows a pointer to the scheduler that it has freed.
LEMMA CompleteOK ==
  ASSUME NEW g, GOK(g), NEW tbl \in SUBSET SchedNrs, Found(g, tbl), NEW s \in tbl,
         Linked(g, tbl \ {s}), Complete(g, tbl, s)
  PROVE  /\ GOK(State') /\ schedhash' = tbl
         /\ \/ /\ SameScheds(g, State') /\ Linked(State', tbl)
               /\ cmd' = NextPass /\ panicked' = panicked
            \/ AllocMayFail /\ cmd' = NULL /\ panicked' = TRUE
<1>1. schedhash' = tbl /\ s \in SchedNrs
  BY DEF Complete
<1>2. CASE Becomes(UpdateFs(InternalFs(g, tbl, s), s)) /\ cmd' = NextPass /\ UNCHANGED panicked
  <2>1. PICK h : h = InternalFs(g, tbl, s)
    OBVIOUS
  <2>2. GOK(h) /\ SameScheds(g, h) /\ Linked(h, tbl \ {s})
    BY <2>1, InternalFsOK
  <2>3. Found(h, tbl)
    BY <2>2 DEF Found, SameScheds
  <2>4. PICK r : r = UpdateFs(h, s)
    OBVIOUS
  <2>5. GOK(r) /\ SameScheds(h, r) /\ Linked(r, tbl)
    BY <2>2, <2>3, <2>4, UpdateFsOK
  <2>6. State' = r
    BY <1>2, <2>1, <2>4, <2>5, BecomesState DEF GOK
  <2>7. SameScheds(g, r)
    BY <2>2, <2>5 DEF SameScheds
  <2>8. GOK(State') /\ SameScheds(g, State') /\ Linked(State', tbl)
    BY <2>5, <2>6, <2>7
  <2>9. QED
    BY <1>1, <1>2, <2>8
<1>3. CASE Becomes(SchkDelete(g, s)) /\ cmd' = NULL /\ panicked' = TRUE /\ AllocMayFail
  <2>1. GOK(SchkDelete(g, s))
    BY <1>1, SchkDeleteOK
  <2>2. State' = SchkDelete(g, s)
    BY <1>3, <2>1, BecomesState DEF GOK
  <2>3. GOK(State')
    BY <2>1, <2>2
  <2>4. QED
    BY <1>1, <1>3, <2>3
<1>4. QED
  BY <1>2, <1>3, ConfigAssumption, Zenon DEF Complete, Alloc

-----------------------------------------------------------------------------
(***************************************************************************)
(* The commands that keep all schedulers.                                  *)
(***************************************************************************)

\* The schedulers but for their counters and instances.
SameLinks(g, h) ==
  \A s \in SchedNrs :
    /\ h.schk[s] = NULL <=> g.schk[s] = NULL
    /\ g.schk[s] # NULL => h.schk[s].type = g.schk[s].type /\ h.schk[s].link = g.schk[s].link

LEMMA StateIs ==
  /\ State.schk = schk /\ State.fsk = fsk /\ State.fsu = fsu /\ State.fsk_list = fsk_list
  /\ State = [schk |-> schk, fsk |-> fsk, fsu |-> fsu, fsk_list |-> fsk_list]
BY DEF State

LEMMA StateIsNext ==
  /\ State'.schk = schk' /\ State'.fsk = fsk' /\ State'.fsu = fsu'
  /\ State'.fsk_list = fsk_list'
  /\ State' = [schk |-> schk', fsk |-> fsk', fsu |-> fsu', fsk_list |-> fsk_list']
BY DEF State

\* A step after which the objects are right and the same schedulers are there.
LEMMA KeepsScheds ==
  ASSUME ListsInv, ~panicked, GOK(State'), SameLinks(State, State'), Linked(State', schedhash),
         UNCHANGED <<schedhash, panicked>>, cmd' \in CmdType \cup {NULL}
  PROVE  ListsInv'
<1>1. Found(State', schedhash)
  BY DEF ListsInv, Found, SameLinks
<1>2. QED
  BY <1>1 DEF ListsInv

LEMMA FsCommandsTyped ==
  ASSUME NEW c \in FsCommands
  PROVE  c[1] \in FsNrs /\ (c[2] = 0 \/ c[2] \in SchedNrs)
<1>1. CASE c \in BaseNrs \X {0}
  BY <1>1, Nrs
<1>2. CASE c \in {<<i + N, i>> : i \in SchedNrs}
  BY <1>2, Nrs
<1>3. CASE c \in BaseNrs \X SchedNrs
  BY <1>3, Nrs
<1>4. CASE c \in {<<i + 2 * N, i + N>> : i \in BaseNrs}
  BY <1>4, Nrs
<1>5. QED
  BY <1>1, <1>2, <1>3, <1>4 DEF FsCommands, CompatFsCommands

LEMMA ConfigFsStep ==
  ASSUME ListsInv, NEW c \in FsCommands, NEW par \in FsParams \cup {Reuse},
         ConfigFs(c[1], c[2], par)
  PROVE  ListsInv' /\ SameLinks(State, State') /\ UNCHANGED <<schedhash, cmd, panicked>>
<1>1. PICK f \in FsNrs, nr \in SchedNrs \cup {0} : f = c[1] /\ nr = c[2]
  BY FsCommandsTyped
<1>2. ConfigFs(f, nr, par)
  BY <1>1
<1>3. UNCHANGED <<schedhash, cmd, panicked>> /\ ~panicked /\ (nr = 0 => fsk[f] # NULL)
  BY <1>2 DEF ConfigFs, Ready
<1>4. GOK(State) /\ Found(State, schedhash) /\ Linked(State, schedhash)
      /\ schedhash \in SUBSET SchedNrs /\ cmd' \in CmdType \cup {NULL}
  BY <1>3 DEF ListsInv
<1>5. fsk[f] # NULL => fsk[f] \in FsType
  BY <1>4, Objects, StateIs DEF GOK
<1>6. PICK to : to = IF nr = 0 THEN fsk[f].sched_nr ELSE nr
  OBVIOUS
<1>7. PICK p : p = IF par # Reuse THEN par ELSE IF fsk[f] = NULL THEN 0 ELSE fsk[f].par
  OBVIOUS
<1>8. to \in SchedNrs /\ p \in FsParams \cup {0}
  BY <1>1, <1>3, <1>5, <1>6, <1>7 DEF FsType
<1>9. CASE Becomes(Configured(State, schedhash, f, to, p))
  <2>1. PICK h : h = Configured(State, schedhash, f, to, p)
    OBVIOUS
  <2>2. PICK g : g = State
    OBVIOUS
  <2>3. GOK(h) /\ SameScheds(g, h) /\ Linked(h, schedhash)
    <3>1. h = Configured(g, schedhash, f, to, p)
      BY <2>1, <2>2
    <3>2. GOK(g) /\ Found(g, schedhash) /\ Linked(g, schedhash)
      BY <1>4, <2>2
    <3>3. QED
      BY <1>4, <1>8, <3>1, <3>2, ConfiguredOK
  <2>4. State' = h
    BY <1>9, <2>1, <2>3, BecomesState DEF GOK
  <2>5. SameLinks(State, State')
    BY <2>2, <2>3, <2>4 DEF SameScheds, SameLinks
  <2>6. GOK(State') /\ Linked(State', schedhash)
    BY <2>3, <2>4
  <2>7. QED
    BY <1>3, <1>4, <2>5, <2>6, KeepsScheds
<1>10. CASE UNCHANGED <<schk, fsk, fsu, fsk_list>>
  <2>1. State' = State
    BY <1>10, StateIs, StateIsNext
  <2>2. SameLinks(State, State')
    BY <2>1 DEF SameLinks
  <2>3. GOK(State') /\ Linked(State', schedhash)
    BY <1>4, <2>1
  <2>4. QED
    BY <1>3, <1>4, <2>2, <2>3, KeepsScheds
<1>11. QED
  BY <1>2, <1>6, <1>7, <1>9, <1>10, Zenon DEF ConfigFs

\* Links and profiles, instances.
LEMMA SchedsStep ==
  ASSUME ListsInv, ~panicked, UNCHANGED <<schedhash, fsk, fsu, fsk_list, cmd, panicked>>,
         schk' \in [SchedNrs -> SchedType \cup {NULL}],
         \A s \in SchedNrs :
           /\ schk'[s] = NULL <=> schk[s] = NULL
           /\ schk[s] # NULL => /\ schk'[s].q_count = schk[s].q_count
                                /\ schk'[s].type = schk[s].type
                                /\ schk[s].inst /\ Queues(State, s) # {} => schk'[s].inst
  PROVE  GOK(State') /\ Found(State', schedhash) /\ ListsInv'
<1>1. GOK(State) /\ Linked(State, schedhash)
  BY DEF ListsInv
<1>2. PICK g, S : g = State /\ S = schk'
  OBVIOUS
<1>3. State' = WithScheds(g, S)
  BY <1>2, StateIs, StateIsNext DEF WithScheds
<1>4. GOK(WithScheds(g, S))
  <2>1. g.schk = schk /\ GOK(g)
    BY <1>1, <1>2, StateIs
  <2>2. QED
    BY <1>2, <2>1, SchedsOK
<1>5. Linked(State', schedhash)
  BY <1>1, StateIs, StateIsNext DEF Linked
<1>6. Found(State', schedhash)
  BY StateIs, StateIsNext DEF ListsInv, Found
<1>7. QED
  BY <1>3, <1>4, <1>5, <1>6 DEF ListsInv

LEMMA ReachedIn ==
  ASSUME ListsInv, ~panicked, NEW i \in BaseNrs
  PROVE  /\ Reached(i) \subseteq schedhash /\ Reached(i) \subseteq {i, i + N}
         /\ \A s \in Reached(i) : schk[s] # NULL /\ schk[s] \in SchedType
<1>1. GOK(State) /\ Found(State, schedhash) /\ schedhash \subseteq SchedNrs
  BY DEF ListsInv
<1>2. \A s \in schedhash : schk[s] # NULL /\ schk[s] \in SchedType
  BY <1>1, StateIs, Objects DEF Found, GOK
<1>3. QED
  BY <1>2 DEF Reached

LEMMA ConfigLinkStep ==
  ASSUME ListsInv, NEW i \in BaseNrs, NEW params \in LinkParams, ConfigLink(i, params)
  PROVE  ListsInv'
<1>1. ~panicked /\ UNCHANGED <<schedhash, fsk, fsu, fsk_list, cmd, panicked>>
  BY DEF ConfigLink, Ready
<1>2. schk \in [SchedNrs -> SchedType \cup {NULL}]
  BY StateIs DEF ListsInv, GOK, GType
<1>3. ASSUME NEW s \in SchedNrs
      PROVE  /\ schk'[s] \in SchedType \cup {NULL} /\ (schk'[s] = NULL <=> schk[s] = NULL)
             /\ schk[s] # NULL => /\ schk'[s].q_count = schk[s].q_count
                                  /\ schk'[s].type = schk[s].type /\ schk'[s].inst = schk[s].inst
  <2>1. CASE s \notin Reached(i)
    BY <1>2, <2>1 DEF ConfigLink
  <2>2. CASE s \in Reached(i)
    <3>1. PICK r \in SchedType : r = schk[s]
      BY <1>1, <2>2, ReachedIn
    <3>2. schk'[s] = [[r EXCEPT !.link = params] EXCEPT !.profile = FALSE]
      BY <2>2, <3>1 DEF ConfigLink
    <3>3. schk'[s] \in SchedType /\ schk'[s].q_count = r.q_count /\ schk'[s].type = r.type
          /\ schk'[s].inst = r.inst
      BY <3>2 DEF SchedType
    <3>4. QED
      BY <3>1, <3>3, Nothing
  <2>3. QED
    BY <2>1, <2>2
<1>4. schk' = [s \in SchedNrs |-> schk'[s]]
  BY DEF ConfigLink
<1>5. schk' \in [SchedNrs -> SchedType \cup {NULL}]
  BY <1>3, <1>4
<1>6. QED
  BY <1>1, <1>3, <1>5, SchedsStep

LEMMA ConfigProfileStep ==
  ASSUME ListsInv, NEW i \in BaseNrs, NEW samples \in BOOLEAN, ConfigProfile(i, samples)
  PROVE  ListsInv' /\ SameLinks(State, State') /\ UNCHANGED <<schedhash, cmd, panicked>>
<1>1. ~panicked /\ UNCHANGED <<schedhash, fsk, fsu, fsk_list, cmd, panicked>>
  BY DEF ConfigProfile, Ready
<1>2. schk \in [SchedNrs -> SchedType \cup {NULL}]
  BY StateIs DEF ListsInv, GOK, GType
<1>3. PICK done \in GetSamples(i, samples) :
        schk' = [s \in SchedNrs |->
                   IF s \in done THEN [schk[s] EXCEPT !.profile = samples]
                   ELSE IF s \in Reached(i) /\ (s = i \/ i \in done)
                   THEN [schk[s] EXCEPT !.profile = FALSE]
                   ELSE schk[s]]
  BY DEF ConfigProfile
<1>4. done \subseteq Reached(i)
  BY DEF GetSamples
<1>5. ASSUME NEW s \in SchedNrs
      PROVE  /\ schk'[s] \in SchedType \cup {NULL} /\ (schk'[s] = NULL <=> schk[s] = NULL)
             /\ schk[s] # NULL => /\ schk'[s].q_count = schk[s].q_count
                                  /\ schk'[s].type = schk[s].type /\ schk'[s].inst = schk[s].inst
                                  /\ schk'[s].link = schk[s].link
  <2>1. CASE schk'[s] = schk[s]
    BY <1>2, <2>1
  <2>2. CASE s \in Reached(i) /\ \E b \in BOOLEAN : schk'[s] = [schk[s] EXCEPT !.profile = b]
    <3>1. PICK r \in SchedType : r = schk[s]
      BY <1>1, <2>2, ReachedIn
    <3>2. PICK b \in BOOLEAN : schk'[s] = [r EXCEPT !.profile = b]
      BY <2>2, <3>1
    <3>3. schk'[s] \in SchedType /\ schk'[s].q_count = r.q_count /\ schk'[s].type = r.type
          /\ schk'[s].inst = r.inst /\ schk'[s].link = r.link
      BY <3>2 DEF SchedType
    <3>4. QED
      BY <3>1, <3>3, Nothing
  <2>3. \/ schk'[s] = schk[s]
        \/ s \in Reached(i) /\ schk'[s] = [schk[s] EXCEPT !.profile = samples]
        \/ s \in Reached(i) /\ schk'[s] = [schk[s] EXCEPT !.profile = FALSE]
    BY <1>3, <1>4
  <2>4. QED
    BY <2>1, <2>2, <2>3
<1>6. schk' \in [SchedNrs -> SchedType \cup {NULL}]
  BY <1>3, <1>5
<1>7. SameLinks(State, State')
  BY <1>5, StateIs, StateIsNext DEF SameLinks
<1>8. ListsInv'
  BY <1>1, <1>5, <1>6, SchedsStep
<1>9. QED
  BY <1>1, <1>7, <1>8

LEMMA DrainInstStep ==
  ASSUME ListsInv, NEW s \in SchedNrs, DrainInst(s)
  PROVE  ListsInv' /\ SameLinks(State, State') /\ UNCHANGED <<schedhash, cmd, panicked>>
<1>1. ~panicked /\ UNCHANGED <<schedhash, fsk, fsu, fsk_list, cmd, panicked>>
  BY DEF DrainInst, Ready
<1>2. GOK(State) /\ schk \in [SchedNrs -> SchedType \cup {NULL}]
  BY StateIs DEF ListsInv, GOK, GType
<1>3. schk[s] # NULL /\ schk[s] \in SchedType
  BY <1>1, <1>2, StateIs DEF ListsInv, Found, DrainInst
<1>4. PICK r : r = [schk[s] EXCEPT !.inst = FALSE]
  OBVIOUS
<1>5. /\ r \in SchedType /\ r # NULL /\ r.q_count = schk[s].q_count /\ r.type = schk[s].type
      /\ r.link = schk[s].link
  <2>1. /\ r \in SchedType /\ r.q_count = schk[s].q_count /\ r.type = schk[s].type
        /\ r.link = schk[s].link
    BY <1>3, <1>4 DEF SchedType
  <2>2. QED
    BY <2>1, Nothing
<1>6. schk' = [schk EXCEPT ![s] = r]
  BY <1>4 DEF DrainInst
<1>7. Queues(State, s) = {}
  <2>1. CASE schk[s].type \in Multi
    <3>1. schk[s].q_count = Cardinality(Queues(State, s)) /\ schk[s].q_count = 0
      BY <1>2, <1>3, <2>1, StateIs DEF GOK, CountOK, DrainInst
    <3>2. QED
      BY <3>1, QueuesCounted, FS_EmptySet
  <2>2. CASE schk[s].type \notin Multi
    <3>1. ASSUME NEW f \in Queues(State, s) PROVE FALSE
      <4>1. f \in FsNrs /\ fsk[f] # NULL /\ fsk[f].qht = s /\ s # NULL
        BY StateIs, Nothing DEF Queues
      <4>2. FsOK(State, f)
        BY <1>2, <4>1 DEF GOK
      <4>3. QED
        BY <2>2, <4>1, <4>2, StateIs DEF FsOK
    <3>2. QED
      BY <3>1
  <2>3. QED
    BY <2>1, <2>2
<1>8. schk'[s] = r /\ \A q \in SchedNrs \ {s} : schk'[q] = schk[q]
  BY <1>2, <1>6
<1>9. schk' \in [SchedNrs -> SchedType \cup {NULL}]
  BY <1>2, <1>5, <1>6
<1>10. SameLinks(State, State')
  BY <1>5, <1>3, <1>8, StateIs, StateIsNext DEF SameLinks
<1>11. \A q \in SchedNrs :
           /\ schk'[q] = NULL <=> schk[q] = NULL
           /\ schk[q] # NULL => /\ schk'[q].q_count = schk[q].q_count
                                /\ schk'[q].type = schk[q].type
                                /\ schk[q].inst /\ Queues(State, q) # {} => schk'[q].inst
  BY <1>3, <1>5, <1>7, <1>8
<1>12. QED
  BY <1>1, <1>9, <1>10, <1>11, SchedsStep

-----------------------------------------------------------------------------
(***************************************************************************)
(* Queues come and go: dummynet_io(), drain_queue_cb().                    *)
(***************************************************************************)

\* Flowset f has a queue in scheduler y, or none, and the counters say so.
LEMMA QueueOK ==
  ASSUME NEW g, GOK(g), NEW f \in FsNrs, g.fsk[f] # NULL,
         NEW y, y = NULL \/ (y \in SchedNrs /\ y = g.fsk[f].sched),
         NEW S \in [SchedNrs -> SchedType \cup {NULL}],
         \A s \in SchedNrs :
           /\ S[s] = NULL <=> g.schk[s] = NULL
           /\ g.schk[s] # NULL => S[s].type = g.schk[s].type /\ (g.schk[s].inst => S[s].inst),
         y # NULL => S[y].inst /\ S[y].type \in Multi,
         NEW h, h = [schk |-> S, fsk |-> [g.fsk EXCEPT ![f] = [@ EXCEPT !.qht = y]],
                     fsu |-> g.fsu, fsk_list |-> g.fsk_list],
         \A s \in SchedNrs : g.schk[s] # NULL => S[s].q_count = Cardinality(Queues(h, s))
  PROVE  GOK(h) /\ \A T : Linked(g, T) => Linked(h, T)
<1>1. g \in GType /\ g.fsk \in [FsNrs -> FsType \cup {NULL}] /\ g.fsk[f] \in FsType
  BY Objects DEF GOK, GType
<1>2. PICK x : x = [g.fsk[f] EXCEPT !.qht = y]
  OBVIOUS
<1>3. /\ x \in FsType /\ x.qht = y /\ x.sched = g.fsk[f].sched
      /\ x.sched_nr = g.fsk[f].sched_nr
  BY <1>1, <1>2 DEF FsType
<1>4. PICK F : F = [g.fsk EXCEPT ![f] = [@ EXCEPT !.qht = y]]
  OBVIOUS
<1>5. F = [g.fsk EXCEPT ![f] = x]
  BY <1>1, <1>2, <1>4
<1>6. h.schk = S /\ h.fsk = F /\ h.fsu = g.fsu /\ h.fsk_list = g.fsk_list
      /\ h = [schk |-> S, fsk |-> F, fsu |-> g.fsu, fsk_list |-> g.fsk_list]
  BY <1>4
<1>7. F[f] = x /\ \A e \in FsNrs \ {f} : F[e] = g.fsk[e]
  BY <1>1, <1>5
<1>8. h \in GType
  <2>1. F \in [FsNrs -> FsType \cup {NULL}]
    BY <1>1, <1>3, <1>5
  <2>2. QED
    BY <1>1, <1>6, <2>1 DEF GType
<1>9. ASSUME NEW e \in FsNrs PROVE FsOK(h, e)
  <2>1. FsOK(g, e) /\ (g.fsk[e] # NULL => g.fsk[e] \in FsType)
    BY <1>1, Objects DEF GOK
  <2>2. CASE e = f
    BY <1>3, <1>6, <1>7, <2>1, <2>2, Nothing DEF FsOK, FsType
  <2>3. CASE e # f
    <3>1. h.fsk[e] = g.fsk[e]
      BY <1>6, <1>7, <2>3
    <3>2. ASSUME g.fsk[e] # NULL, g.fsk[e].sched # NULL
          PROVE  h.schk[g.fsk[e].sched] # NULL
      BY <1>6, <2>1, <3>2 DEF FsOK, FsType
    <3>3. ASSUME g.fsk[e] # NULL, g.fsk[e].qht # NULL
          PROVE  h.schk[g.fsk[e].qht].inst /\ h.schk[g.fsk[e].qht].type \in Multi
      <4>1. g.fsk[e].qht \in SchedNrs /\ g.schk[g.fsk[e].qht] # NULL
        BY <3>3, QueueSched
      <4>2. QED
        BY <1>6, <2>1, <3>3, <4>1 DEF FsOK
    <3>4. QED
      BY <1>6, <2>1, <3>1, <3>2, <3>3 DEF FsOK
  <2>4. QED
    BY <2>2, <2>3
<1>10. \A s \in SchedNrs : CountOK(h, s)
  BY <1>6 DEF CountOK
<1>11. ASSUME NEW T, Linked(g, T) PROVE Linked(h, T)
  BY <1>3, <1>6, <1>7, <1>11 DEF Linked
<1>12. QED
  BY <1>8, <1>9, <1>10, <1>11 DEF GOK

LEMMA DrainQueueStep ==
  ASSUME ListsInv, NEW f \in FsNrs, DrainQueue(f)
  PROVE  ListsInv' /\ SameLinks(State, State') /\ UNCHANGED <<schedhash, cmd, panicked>>
<1>1. /\ ~panicked /\ fsk[f] # NULL /\ fsk[f].qht # NULL /\ Becomes(QhtDelete(State, f))
      /\ UNCHANGED <<schedhash, cmd, panicked>>
  BY DEF DrainQueue, Ready
<1>2. PICK g : g = State
  OBVIOUS
<1>3. GOK(g) /\ Linked(g, schedhash) /\ g.fsk = fsk /\ g.schk = schk
  BY <1>1, <1>2, StateIs DEF ListsInv
<1>4. /\ g = [schk |-> g.schk, fsk |-> g.fsk, fsu |-> g.fsu, fsk_list |-> g.fsk_list]
      /\ g.schk \in [SchedNrs -> SchedType \cup {NULL}] /\ g.fsk \in [FsNrs -> FsType \cup {NULL}]
      /\ g.fsk[f] \in FsType
  BY <1>1, <1>3, Objects DEF GOK, GType
<1>5. PICK q \in SchedNrs : /\ q = g.fsk[f].qht /\ g.schk[q] # NULL
                            /\ g.schk[q].q_count \in Nat \ {0}
  BY <1>1, <1>3, QueueSched
<1>6. PICK n \in Nat : n = g.schk[q].q_count - 1
  BY <1>5
<1>7. PICK r : r = [g.schk[q] EXCEPT !.q_count = n]
  OBVIOUS
<1>8. /\ r \in SchedType /\ r # NULL /\ r.q_count = n /\ r.type = g.schk[q].type
      /\ r.link = g.schk[q].link /\ r.inst = g.schk[q].inst
  <2>1. g.schk[q] \in SchedType
    BY <1>4, <1>5
  <2>2. /\ r \in SchedType /\ r.q_count = n /\ r.type = g.schk[q].type
        /\ r.link = g.schk[q].link /\ r.inst = g.schk[q].inst
    BY <1>7, <2>1 DEF SchedType
  <2>3. QED
    BY <2>2, Nothing
<1>9. PICK S : S = [g.schk EXCEPT ![q] = r]
  OBVIOUS
<1>10. PICK h : h = QhtDelete(g, f)
  OBVIOUS
<1>11. h = [schk |-> S, fsk |-> [g.fsk EXCEPT ![f] = [@ EXCEPT !.qht = NULL]],
            fsu |-> g.fsu, fsk_list |-> g.fsk_list]
  <2>1. [s \in SchedNrs |-> IF g.fsk[f] # NULL /\ g.fsk[f].qht = s
                            THEN [g.schk[s] EXCEPT !.q_count = @ - 1] ELSE g.schk[s]] = S
    <3>1. r = [g.schk[q] EXCEPT !.q_count = @ - 1]
      BY <1>6, <1>7
    <3>2. S = [s \in SchedNrs |-> IF s = q THEN r ELSE g.schk[s]]
      BY <1>4, <1>9
    <3>3. QED
      BY <1>1, <1>3, <1>5, <3>1, <3>2
  <2>2. PICK U, L : U = g.fsu /\ L = g.fsk_list
    OBVIOUS
  <2>3. QhtDelete([schk |-> g.schk, fsk |-> g.fsk, fsu |-> U, fsk_list |-> L], f) =
          [schk |-> [s \in SchedNrs |-> IF g.fsk[f] # NULL /\ g.fsk[f].qht = s
                                        THEN [g.schk[s] EXCEPT !.q_count = @ - 1]
                                        ELSE g.schk[s]],
           fsk |-> [g.fsk EXCEPT ![f] = [@ EXCEPT !.qht = NULL]], fsu |-> U, fsk_list |-> L]
    BY <1>1, <1>3, QhtDeleteDoes
  <2>4. g = [schk |-> g.schk, fsk |-> g.fsk, fsu |-> U, fsk_list |-> L]
    BY <1>4, <2>2
  <2>5. PICK F : F = [g.fsk EXCEPT ![f] = [@ EXCEPT !.qht = NULL]]
    OBVIOUS
  <2>6. h = [schk |-> S, fsk |-> F, fsu |-> U, fsk_list |-> L]
    BY <1>10, <2>1, <2>3, <2>4, <2>5, Zenon
  <2>7. QED
    BY <2>2, <2>5, <2>6, Zenon
<1>12. \A s \in SchedNrs :
         /\ S[s] = NULL <=> g.schk[s] = NULL
         /\ g.schk[s] # NULL => /\ S[s].type = g.schk[s].type /\ (g.schk[s].inst => S[s].inst)
                                /\ S[s].link = g.schk[s].link
  BY <1>4, <1>5, <1>8, <1>9
<1>13. h.schk = S /\ h.fsk = [g.fsk EXCEPT ![f] = [@ EXCEPT !.qht = NULL]]
  BY <1>11
<1>14. ASSUME NEW s \in SchedNrs, g.schk[s] # NULL
       PROVE  S[s].q_count = Cardinality(Queues(h, s))
  <2>1. [g.fsk[f] EXCEPT !.qht = NULL].qht = NULL
    BY <1>4 DEF FsType
  <2>2. h.fsk[f].qht = NULL /\ \A e \in FsNrs \ {f} : h.fsk[e] = g.fsk[e]
    BY <1>4, <1>13, <2>1
  <2>3. Queues(h, s) = Queues(g, s) \ {f}
    BY <2>2, Nothing DEF Queues
  <2>4. Cardinality(Queues(h, s)) = IF f \in Queues(g, s) THEN Cardinality(Queues(g, s)) - 1
                                    ELSE Cardinality(Queues(g, s))
    BY <2>3, QueuesCounted, FS_RemoveElement
  <2>5. f \in Queues(g, s) <=> s = q
    BY <1>1, <1>3, <1>5 DEF Queues
  <2>6. g.schk[s].q_count = Cardinality(Queues(g, s))
    BY <1>3, <1>14 DEF GOK, CountOK
  <2>7. S[s].q_count = IF s = q THEN g.schk[s].q_count - 1 ELSE g.schk[s].q_count
    BY <1>4, <1>6, <1>8, <1>9
  <2>8. QED
    BY <2>4, <2>5, <2>6, <2>7
<1>15. GOK(h) /\ Linked(h, schedhash)
  <2>1. S \in [SchedNrs -> SchedType \cup {NULL}]
    BY <1>4, <1>8, <1>9
  <2>2. PICK y : y = NULL
    OBVIOUS
  <2>3. h = [schk |-> S, fsk |-> [g.fsk EXCEPT ![f] = [@ EXCEPT !.qht = y]],
             fsu |-> g.fsu, fsk_list |-> g.fsk_list]
    BY <1>11, <2>2, Zenon
  <2>4. GOK(h) /\ \A T : Linked(g, T) => Linked(h, T)
    BY <1>1, <1>3, <1>12, <1>14, <2>1, <2>2, <2>3, QueueOK
  <2>5. QED
    BY <1>3, <2>4
<1>16. State' = h
  BY <1>1, <1>2, <1>10, <1>15, BecomesState DEF GOK
<1>17. SameLinks(State, State')
  BY <1>2, <1>12, <1>13, <1>16 DEF SameLinks
<1>18. ListsInv'
  <2>1. GOK(State') /\ Linked(State', schedhash)
    BY <1>15, <1>16
  <2>2. cmd' \in CmdType \cup {NULL}
    BY <1>1 DEF ListsInv
  <2>3. QED
    BY <1>1, <1>17, <2>1, <2>2, KeepsScheds
<1>19. QED
  BY <1>1, <1>17, <1>18


LEMMA PacketStep ==
  ASSUME ListsInv, NEW f \in FsNrs, Packet(f)
  PROVE  ListsInv' /\ SameLinks(State, State') /\ UNCHANGED <<schedhash, cmd, panicked>>
<1>1. /\ ~panicked /\ fsk[f] # NULL /\ fsk[f].sched # NULL
      /\ UNCHANGED <<schedhash, fsu, fsk_list, cmd, panicked>>
  BY DEF Packet, Ready
<1>2. PICK g : g = State
  OBVIOUS
<1>3. GOK(g) /\ Linked(g, schedhash) /\ g.fsk = fsk /\ g.schk = schk /\ g.fsu = fsu
      /\ g.fsk_list = fsk_list /\ cmd' \in CmdType \cup {NULL}
  BY <1>1, <1>2, StateIs DEF ListsInv
<1>4. /\ g.schk \in [SchedNrs -> SchedType \cup {NULL}] /\ g.fsk \in [FsNrs -> FsType \cup {NULL}]
      /\ g.fsk[f] \in FsType /\ FsOK(g, f)
  BY <1>1, <1>3, Objects DEF GOK, GType
<1>5. PICK q \in SchedNrs : q = g.fsk[f].sched /\ q # NULL /\ g.schk[q] # NULL
                            /\ g.schk[q] \in SchedType
  <2>1. g.fsk[f].sched \in SchedNrs /\ g.schk[g.fsk[f].sched] # NULL
    BY <1>1, <1>3, <1>4 DEF FsType, FsOK
  <2>2. QED
    BY <1>4, <2>1, Nothing
<1>6. CASE schk[q].type \in Multi /\ fsk[f].qht # NULL
  <2>1. UNCHANGED <<schk, fsk>>
    BY <1>3, <1>5, <1>6 DEF Packet
  <2>2. State' = State
    BY <1>1, <2>1, StateIs, StateIsNext
  <2>3. QED
    BY <1>1, <1>2, <1>3, <2>2, KeepsScheds DEF SameLinks
<1>7. CASE schk[q].type \notin Multi
  <2>1. schk' = [schk EXCEPT ![q].inst = TRUE] /\ UNCHANGED fsk
    BY <1>3, <1>5, <1>7 DEF Packet
  <2>2. PICK r : r = [schk[q] EXCEPT !.inst = TRUE]
    OBVIOUS
  <2>3. schk' = [schk EXCEPT ![q] = r]
    BY <2>1, <2>2
  <2>4. /\ r \in SchedType /\ r.q_count = schk[q].q_count /\ r.type = schk[q].type
        /\ r.link = schk[q].link /\ r.inst
    BY <1>3, <1>5, <2>2 DEF SchedType
  <2>5. r # NULL /\ schk'[q] = r /\ \A s \in SchedNrs \ {q} : schk'[s] = schk[s]
    BY <1>3, <1>4, <2>3, <2>4, Nothing
  <2>6. schk' \in [SchedNrs -> SchedType \cup {NULL}]
    BY <1>3, <1>4, <2>3, <2>4
  <2>7. SameLinks(State, State')
    BY <1>2, <1>3, <1>5, <2>4, <2>5, StateIs, StateIsNext DEF SameLinks
  <2>8. \A s \in SchedNrs :
          /\ schk'[s] = NULL <=> schk[s] = NULL
          /\ schk[s] # NULL => /\ schk'[s].q_count = schk[s].q_count
                               /\ schk'[s].type = schk[s].type
                               /\ schk[s].inst /\ Queues(State, s) # {} => schk'[s].inst
    BY <1>3, <1>5, <2>4, <2>5
  <2>9. ListsInv'
    BY <1>1, <2>1, <2>6, <2>8, SchedsStep
  <2>10. QED
    BY <1>1, <2>7, <2>9
<1>8. CASE schk[q].type \in Multi /\ fsk[f].qht = NULL
  <2>1. schk' = [schk EXCEPT ![q].inst = TRUE, ![q].q_count = @ + 1]
        /\ fsk' = [fsk EXCEPT ![f].qht = q]
    BY <1>3, <1>5, <1>8 DEF Packet
  <2>2. PICK n \in Nat : n = schk[q].q_count + 1
    BY <1>3, <1>5 DEF SchedType
  <2>3. PICK r : r = [[schk[q] EXCEPT !.inst = TRUE] EXCEPT !.q_count = n]
    OBVIOUS
  <2>4. /\ r \in SchedType /\ r.q_count = n /\ r.type = schk[q].type
        /\ r.link = schk[q].link /\ r.inst
    BY <1>3, <1>5, <2>3 DEF SchedType
  <2>5. PICK S : S = [schk EXCEPT ![q] = r]
    OBVIOUS
  <2>6. schk' = S
    <3>1. PICK S1, r1 : r1 = [schk[q] EXCEPT !.inst = TRUE] /\ S1 = [schk EXCEPT ![q] = r1]
      OBVIOUS
    <3>2. schk' = [S1 EXCEPT ![q].q_count = @ + 1]
      BY <2>1, <3>1
    <3>3. S1[q] = r1 /\ r1.q_count = schk[q].q_count
      BY <1>3, <1>4, <1>5, <3>1 DEF SchedType
    <3>4. [r1 EXCEPT !.q_count = @ + 1] = r
      BY <2>2, <2>3, <3>1, <3>3
    <3>5. schk' = [S1 EXCEPT ![q] = r]
      BY <3>2, <3>3, <3>4
    <3>6. QED
      BY <1>3, <1>4, <2>5, <3>1, <3>5
  <2>7. r # NULL /\ S[q] = r /\ (\A s \in SchedNrs \ {q} : S[s] = schk[s])
        /\ S \in [SchedNrs -> SchedType \cup {NULL}]
    BY <1>3, <1>4, <2>4, <2>5, Nothing
  <2>8. PICK F : F = [g.fsk EXCEPT ![f] = [@ EXCEPT !.qht = q]]
    OBVIOUS
  <2>9. PICK h : h = [schk |-> S, fsk |-> F, fsu |-> g.fsu, fsk_list |-> g.fsk_list]
    OBVIOUS
  <2>10. fsk' = F
    BY <1>3, <2>1, <2>8
  <2>11. State' = h
    BY <1>1, <1>3, <2>6, <2>9, <2>10, StateIsNext
  <2>12. \A s \in SchedNrs :
           /\ S[s] = NULL <=> g.schk[s] = NULL
           /\ g.schk[s] # NULL => /\ S[s].type = g.schk[s].type /\ (g.schk[s].inst => S[s].inst)
                                  /\ S[s].link = g.schk[s].link
    BY <1>3, <1>5, <2>4, <2>7
  <2>13. h.schk = S /\ h.fsk = F
    BY <2>9
  <2>14. ASSUME NEW s \in SchedNrs, g.schk[s] # NULL
         PROVE  S[s].q_count = Cardinality(Queues(h, s))
    <3>1. PICK x : x = [g.fsk[f] EXCEPT !.qht = q]
      OBVIOUS
    <3>2. x \in FsType /\ x # NULL /\ x.qht = q
      <4>1. x \in FsType /\ x.qht = q
        BY <1>4, <3>1 DEF FsType
      <4>2. QED
        BY <4>1, Nothing
    <3>3. F = [g.fsk EXCEPT ![f] = x]
      BY <1>4, <2>8, <3>1
    <3>4. h.fsk[f] = x /\ \A e \in FsNrs \ {f} : h.fsk[e] = g.fsk[e]
      BY <1>4, <2>13, <3>3
    <3>5. g.fsk[f] # NULL /\ g.fsk[f].qht = NULL /\ f \in FsNrs
      BY <1>1, <1>3, <1>8
    <3>6. Queues(h, s) = IF s = q THEN Queues(g, s) \cup {f} ELSE Queues(g, s)
      BY <1>5, <3>2, <3>4, <3>5, Nothing DEF Queues
    <3>7. f \notin Queues(g, s)
      BY <3>5, Nothing DEF Queues
    <3>8. Cardinality(Queues(g, s) \cup {f}) = Cardinality(Queues(g, s)) + 1
      BY <3>7, QueuesCounted, FS_AddElement
    <3>9. g.schk[s].q_count = Cardinality(Queues(g, s))
      BY <1>3, <2>14 DEF GOK, CountOK
    <3>10. S[s].q_count = IF s = q THEN g.schk[s].q_count + 1 ELSE g.schk[s].q_count
      BY <1>3, <2>2, <2>4, <2>7
    <3>11. QED
      BY <3>6, <3>8, <3>9, <3>10
  <2>15. GOK(h) /\ Linked(h, schedhash)
    <3>1. h = [schk |-> S, fsk |-> [g.fsk EXCEPT ![f] = [@ EXCEPT !.qht = q]],
               fsu |-> g.fsu, fsk_list |-> g.fsk_list]
      BY <2>8, <2>9, Zenon
    <3>2. S[q].inst /\ S[q].type \in Multi
      BY <1>8, <2>4, <2>7
    <3>3. g.fsk[f] # NULL
      BY <1>1, <1>3
    <3>4. GOK(h) /\ \A T : Linked(g, T) => Linked(h, T)
      BY <1>3, <1>5, <2>7, <2>12, <2>14, <3>1, <3>2, <3>3, QueueOK
    <3>5. QED
      BY <1>3, <3>4
  <2>16. SameLinks(State, State')
    BY <1>2, <2>11, <2>12, <2>13 DEF SameLinks
  <2>17. ListsInv'
    <3>1. GOK(State') /\ Linked(State', schedhash)
      BY <2>11, <2>15
    <3>2. QED
      BY <1>1, <1>3, <2>16, <3>1, KeepsScheds
  <2>18. QED
    BY <1>1, <2>16, <2>17
<1>9. QED
  BY <1>3, <1>6, <1>7, <1>8

-----------------------------------------------------------------------------
(***************************************************************************)
(* "queue i delete", "pipe i delete" and the flush.                        *)
(***************************************************************************)

LEMMA DeleteFsOK ==
  ASSUME NEW g, GOK(g), NEW f \in FsNrs
  PROVE  /\ GOK(DeleteFs(g, f)) /\ SameScheds(g, DeleteFs(g, f))
         /\ \A T : Linked(g, T) => Linked(DeleteFs(g, f), T)
<1>1. CASE g.fsk[f] = NULL
  <2>1. DeleteFs(g, f) = g
    BY <1>1 DEF DeleteFs
  <2>2. QED
    BY <2>1 DEF SameScheds
<1>2. CASE g.fsk[f] # NULL
  <2>1. PICK U : U = g.fsu \ {f}
    OBVIOUS
  <2>2. U \in SUBSET FsNrs /\ U \ {f} = g.fsu \ {f}
    BY <2>1 DEF GOK, GType
  <2>3. PICK h : h = Without(g, f, NULL, U)
    OBVIOUS
  <2>4. DeleteFs(g, f) = h
    <3>1. DeleteFs(g, f) = Without(g, f, NULL, g.fsu \ {f})
      BY <1>2, DetachDoes, Zenon
    <3>2. QED
      BY <2>1, <2>3, <3>1
  <2>5. Lost(g, h, f) /\ h.fsk[f] = NULL
    BY <2>2, <2>3, WithoutLost
  <2>6. h.fsu = U
    BY <2>3 DEF Without
  <2>7. Alone(h, f)
    BY <2>1, <2>5, <2>6 DEF Alone
  <2>8. GOK(h) /\ SameScheds(g, h)
    BY <2>5, <2>7, LostOK
  <2>9. \A e \in FsNrs \ {f} : h.fsk[e] = g.fsk[e]
    BY <2>5 DEF Lost
  <2>10. \A T : Linked(g, T) => Linked(h, T)
    BY <2>5, <2>9 DEF Linked
  <2>11. QED
    BY <2>4, <2>8, <2>10
<1>3. QED
  BY <1>1, <1>2

LEMMA DeleteQueueStep ==
  ASSUME ListsInv, NEW i \in BaseNrs, DeleteQueue(i)
  PROVE  ListsInv' /\ SameLinks(State, State') /\ UNCHANGED <<schedhash, cmd, panicked>>
<1>1. ~panicked /\ Becomes(DeleteFs(State, i)) /\ UNCHANGED <<schedhash, cmd, panicked>>
  BY DEF DeleteQueue, Ready
<1>2. PICK g, h : g = State /\ h = DeleteFs(g, i)
  OBVIOUS
<1>3. GOK(g) /\ Linked(g, schedhash) /\ i \in FsNrs /\ cmd' \in CmdType \cup {NULL}
  BY <1>1, <1>2, Nrs DEF ListsInv
<1>4. GOK(h) /\ SameScheds(g, h) /\ Linked(h, schedhash)
  BY <1>2, <1>3, DeleteFsOK
<1>5. State' = h
  BY <1>1, <1>2, <1>4, BecomesState DEF GOK
<1>6. SameLinks(State, State')
  BY <1>2, <1>4, <1>5 DEF SameScheds, SameLinks
<1>7. ListsInv'
  <2>1. GOK(State') /\ Linked(State', schedhash)
    BY <1>4, <1>5
  <2>2. QED
    BY <1>1, <1>3, <1>6, <2>1, KeepsScheds
<1>8. QED
  BY <1>1, <1>6, <1>7

\* The links of the schedulers that stay.
SameBut(g, h, D) ==
  \A s \in SchedNrs \ D :
    /\ h.schk[s] = NULL <=> g.schk[s] = NULL
    /\ g.schk[s] # NULL => h.schk[s].type = g.schk[s].type /\ h.schk[s].link = g.schk[s].link

\* Without scheduler s; its flowsets are not linked any more.
LEMMA SchkDeleteFound ==
  ASSUME NEW g, GOK(g), NEW tbl \in SUBSET SchedNrs, Found(g, tbl), Linked(g, tbl),
         NEW s \in SchedNrs
  PROVE  /\ GOK(SchkDelete(g, s)) /\ Found(SchkDelete(g, s), tbl \ {s})
         /\ Linked(SchkDelete(g, s), tbl \ {s}) /\ SameBut(g, SchkDelete(g, s), {s})
<1>1. PICK h : h = SchkDelete(g, s)
  OBVIOUS
<1>2. /\ GOK(h) /\ h.schk = [g.schk EXCEPT ![s] = NULL]
      /\ \A f \in FsNrs :
           /\ h.fsk[f] = NULL <=> g.fsk[f] = NULL
           /\ g.fsk[f] # NULL =>
                /\ h.fsk[f].sched_nr = g.fsk[f].sched_nr
                /\ h.fsk[f].sched = IF g.fsk[f].sched = s THEN NULL ELSE g.fsk[f].sched
  <2>1. /\ GOK(SchkDelete(g, s)) /\ SchkDelete(g, s).schk = [g.schk EXCEPT ![s] = NULL]
        /\ \A f \in FsNrs :
             /\ SchkDelete(g, s).fsk[f] = NULL <=> g.fsk[f] = NULL
             /\ g.fsk[f] # NULL =>
                  /\ SchkDelete(g, s).fsk[f].sched_nr = g.fsk[f].sched_nr
                  /\ SchkDelete(g, s).fsk[f].sched =
                       IF g.fsk[f].sched = s THEN NULL ELSE g.fsk[f].sched
    BY SchkDeleteOK
  <2>2. QED
    BY <1>1, <2>1
<1>3. h.schk[s] = NULL /\ \A q \in SchedNrs \ {s} : h.schk[q] = g.schk[q]
  BY <1>2 DEF GOK, GType
<1>4. Found(h, tbl \ {s}) /\ SameBut(g, h, {s})
  BY <1>3 DEF Found, SameBut
<1>5. Linked(h, tbl \ {s})
  BY <1>2 DEF Linked
<1>6. QED
  BY <1>1, <1>2, <1>4, <1>5

LEMMA DeleteSchkOK ==
  ASSUME NEW g, GOK(g), NEW tbl \in SUBSET SchedNrs, Found(g, tbl), Linked(g, tbl),
         NEW s \in SchedNrs, s \in schedhash <=> s \in tbl
  PROVE  /\ GOK(DeleteSchk(g, s)) /\ Found(DeleteSchk(g, s), tbl \ {s})
         /\ Linked(DeleteSchk(g, s), tbl \ {s}) /\ SameBut(g, DeleteSchk(g, s), {s})
<1>1. CASE s \notin tbl
  <2>1. DeleteSchk(g, s) = g /\ tbl \ {s} = tbl
    BY <1>1 DEF DeleteSchk
  <2>2. QED
    BY <2>1 DEF SameBut
<1>2. CASE s \in tbl
  <2>1. PICK f \in FsNrs : f = s + N
    BY Nrs
  <2>2. PICK k : k = DeleteFs(g, f)
    OBVIOUS
  <2>3. GOK(k) /\ SameScheds(g, k) /\ Linked(k, tbl)
    BY <2>2, DeleteFsOK
  <2>4. Found(k, tbl)
    BY <2>3 DEF Found, SameScheds
  <2>5. PICK h : h = SchkDelete(k, s)
    OBVIOUS
  <2>6. GOK(h) /\ Found(h, tbl \ {s}) /\ Linked(h, tbl \ {s}) /\ SameBut(k, h, {s})
    <3>1. /\ GOK(SchkDelete(k, s)) /\ Found(SchkDelete(k, s), tbl \ {s})
          /\ Linked(SchkDelete(k, s), tbl \ {s}) /\ SameBut(k, SchkDelete(k, s), {s})
      BY <2>3, <2>4, SchkDeleteFound
    <3>2. QED
      BY <2>5, <3>1
  <2>7. SameBut(g, h, {s})
    BY <2>3, <2>6 DEF SameBut, SameScheds
  <2>8. DeleteSchk(g, s) = h
    BY <1>2, <2>1, <2>2, <2>5 DEF DeleteSchk
  <2>9. QED
    BY <2>6, <2>7, <2>8
<1>3. QED
  BY <1>1, <1>2

LEMMA DeletePipeStep ==
  ASSUME ListsInv, NEW i \in BaseNrs, DeletePipe(i)
  PROVE  /\ ListsInv' /\ SameBut(State, State', {i, i + N}) /\ schedhash' = schedhash \ {i, i + N}
         /\ ~panicked /\ UNCHANGED <<cmd, panicked>>
<1>1. /\ ~panicked /\ Becomes(DeleteSchk(DeleteSchk(State, i), i + N))
      /\ schedhash' = schedhash \ {i, i + N} /\ UNCHANGED <<cmd, panicked>>
  BY DEF DeletePipe, Ready
<1>2. PICK g, h : g = State /\ h = DeleteSchk(g, i)
  OBVIOUS
<1>3. PICK j \in SchedNrs : j = i + N /\ i \in SchedNrs /\ j # i
  BY Nrs
<1>4. PICK r : r = DeleteSchk(h, j)
  OBVIOUS
<1>5. GOK(g) /\ Found(g, schedhash) /\ Linked(g, schedhash) /\ schedhash \in SUBSET SchedNrs
  BY <1>1, <1>2 DEF ListsInv
<1>6. PICK tbl \in SUBSET SchedNrs : tbl = schedhash \ {i}
  BY <1>5
<1>7. GOK(h) /\ Found(h, tbl) /\ Linked(h, tbl) /\ SameBut(g, h, {i})
  BY <1>2, <1>3, <1>5, <1>6, DeleteSchkOK
<1>8. GOK(r) /\ Found(r, tbl \ {j}) /\ Linked(r, tbl \ {j}) /\ SameBut(h, r, {j})
  <2>1. j \in schedhash <=> j \in tbl
    BY <1>3, <1>6
  <2>2. QED
    BY <1>4, <1>7, <2>1, DeleteSchkOK
<1>9. tbl \ {j} = schedhash'
  BY <1>1, <1>3, <1>6
<1>10. State' = r
  BY <1>1, <1>2, <1>3, <1>4, <1>8, BecomesState DEF GOK
<1>11. SameBut(g, r, {i, j})
  BY <1>7, <1>8 DEF SameBut
<1>12. SameBut(State, State', {i, i + N})
  BY <1>2, <1>3, <1>10, <1>11
<1>13. GOK(State') /\ Found(State', schedhash') /\ Linked(State', schedhash')
  BY <1>8, <1>9, <1>10
<1>14. ListsInv'
  BY <1>1, <1>5, <1>13 DEF ListsInv
<1>15. QED
  BY <1>1, <1>12, <1>14

\* Nothing is there, at the start and after a flush.
LEMMA EmptyOK ==
  ASSUME NEW g, g = [schk |-> [s \in SchedNrs |-> NULL], fsk |-> [f \in FsNrs |-> NULL],
                     fsu |-> {}, fsk_list |-> [s \in SchedNrs |-> {}]]
  PROVE  GOK(g) /\ Found(g, {}) /\ Linked(g, {})
<1>1. g \in GType
  BY DEF GType
<1>2. (\A f \in FsNrs : g.fsk[f] = NULL /\ f \notin g.fsu)
      /\ \A s \in SchedNrs : g.schk[s] = NULL /\ g.fsk_list[s] = {}
  OBVIOUS
<1>3. QED
  BY <1>1, <1>2 DEF GOK, FsOK, CountOK, Found, Linked

LEMMA FlushStep ==
  ASSUME ListsInv, Flush
  PROVE  ListsInv' /\ schedhash' = {} /\ UNCHANGED <<cmd, panicked>>
<1>1. /\ schedhash' = {} /\ ~panicked /\ UNCHANGED <<cmd, panicked>>
      /\ State' = [schk |-> [s \in SchedNrs |-> NULL], fsk |-> [f \in FsNrs |-> NULL],
                   fsu |-> {}, fsk_list |-> [s \in SchedNrs |-> {}]]
  BY StateIsNext DEF Flush, Ready
<1>2. GOK(State') /\ Found(State', {}) /\ Linked(State', {})
  BY <1>1, EmptyOK
<1>3. QED
  BY <1>1, <1>2 DEF ListsInv

LEMMA InitLists == Init => ListsInv
<1> SUFFICES ASSUME Init PROVE ListsInv
  OBVIOUS
<1>1. /\ schedhash = {} /\ cmd = NULL /\ panicked = FALSE
      /\ State = [schk |-> [s \in SchedNrs |-> NULL], fsk |-> [f \in FsNrs |-> NULL],
                  fsu |-> {}, fsk_list |-> [s \in SchedNrs |-> {}]]
  BY StateIs DEF Init
<1>2. GOK(State) /\ Found(State, {}) /\ Linked(State, {})
  BY <1>1, EmptyOK
<1>3. QED
  BY <1>1, <1>2 DEF ListsInv

-----------------------------------------------------------------------------
(***************************************************************************)
(* config_sched() and its passes.                                          *)
(***************************************************************************)

LEMMA NextPassIs ==
  ASSUME cmd \in CmdType, NextPass # NULL
  PROVE  /\ cmd.nr \in BaseNrs /\ cmd.nr + N \in SchedNrs
         /\ cmd.pipe \/ cmd.nr + N \notin schedhash
         /\ NextPass \in CmdType /\ NextPass.nr = cmd.nr + N /\ NextPass.type = FIFO
         /\ NextPass.p = NULL
<1>1. /\ ~(cmd.nr > N) /\ (cmd.pipe \/ cmd.nr + N \notin schedhash)
      /\ NextPass = [cmd EXCEPT !.nr = @ + N, !.type = FIFO, !.mask = cmd.saved, !.p = NULL]
  BY DEF NextPass
<1>2. cmd.nr \in BaseNrs /\ cmd.nr + N \in SchedNrs
  BY <1>1, Nrs DEF CmdType, SchedNrs, BaseNrs
<1>3. PICK n \in SchedNrs : n = cmd.nr + N
  BY <1>2
<1>4. NextPass = [[[[cmd EXCEPT !.nr = n] EXCEPT !.type = FIFO] EXCEPT !.mask = cmd.saved]
                  EXCEPT !.p = NULL]
  BY <1>1, <1>3 DEF CmdType
<1>5. NextPass \in CmdType /\ NextPass.nr = n /\ NextPass.type = FIFO /\ NextPass.p = NULL
  BY <1>4, ConfigAssumption DEF CmdType
<1>6. QED
  BY <1>1, <1>2, <1>3, <1>5

LEMMA NextPassTyped == cmd \in CmdType => NextPass \in CmdType \cup {NULL}
BY NextPassIs

LEMMA ConfigSchedStep ==
  ASSUME ListsInv, NEW i \in BaseNrs, NEW type \in Types \cup {NoType}, NEW mask \in Masks,
         NEW pipe \in BOOLEAN, ConfigSched(i, type, mask, pipe)
  PROVE  /\ ListsInv' /\ SameLinks(State, State') /\ UNCHANGED <<schedhash, panicked>>
         /\ cmd' \in CmdType /\ cmd'.nr = i /\ cmd'.p = NULL /\ cmd = NULL
<1>1. /\ ~panicked /\ cmd = NULL /\ UNCHANGED <<schk, schedhash, fsk, fsu, fsk_list, panicked>>
      /\ cmd' = [nr |-> i, type |-> type, mask |-> mask, pipe |-> pipe, saved |-> mask,
                 p |-> NULL, pf |-> NULL]
  BY DEF ConfigSched, Ready
<1>2. cmd' \in CmdType /\ cmd'.nr = i /\ cmd'.p = NULL
  BY <1>1, Nrs DEF CmdType
<1>3. State' = State
  BY <1>1, StateIs, StateIsNext
<1>4. SameLinks(State, State')
  BY <1>3 DEF SameLinks
<1>5. GOK(State') /\ Linked(State', schedhash)
  BY <1>1, <1>3 DEF ListsInv
<1>6. ListsInv'
  BY <1>1, <1>2, <1>4, <1>5, KeepsScheds
<1>7. QED
  BY <1>1, <1>2, <1>4, <1>6

LEMMA SchedSkipStep ==
  ASSUME ListsInv, SchedSkip
  PROVE  /\ ListsInv' /\ SameLinks(State, State') /\ UNCHANGED <<schedhash, panicked>>
         /\ cmd \in CmdType /\ cmd' = NextPass /\ Exists
<1>1. /\ ~panicked /\ cmd # NULL /\ UNCHANGED <<schk, schedhash, fsk, fsu, fsk_list, panicked>>
      /\ cmd' = NextPass /\ Exists
  BY DEF SchedSkip, Skips
<1>2. cmd \in CmdType /\ cmd' \in CmdType \cup {NULL}
  BY <1>1, NextPassTyped DEF ListsInv
<1>3. State' = State
  BY <1>1, StateIs, StateIsNext
<1>4. SameLinks(State, State')
  BY <1>3 DEF SameLinks
<1>5. GOK(State') /\ Linked(State', schedhash)
  BY <1>1, <1>3 DEF ListsInv
<1>6. ListsInv'
  BY <1>1, <1>2, <1>4, <1>5, KeepsScheds
<1>7. QED
  BY <1>1, <1>2, <1>4, <1>6

\* What a pass looks up.
LEMMA Looked ==
  ASSUME ListsInv, ~panicked, cmd # NULL
  PROVE  /\ cmd \in CmdType /\ cmd.nr \in SchedNrs /\ Type \in Types /\ Mask \in Masks
         /\ RestoredLink \in LinkParams
         /\ Exists => schk[cmd.nr] # NULL /\ schk[cmd.nr] \in SchedType
<1>1. cmd \in CmdType /\ cmd.nr \in SchedNrs /\ cmd.type \in Types \cup {NoType}
      /\ cmd.mask \in Masks /\ cmd.p \in LinkParams \cup {NULL}
  BY DEF ListsInv, CmdType
<1>2. Exists => schk[cmd.nr] # NULL /\ schk[cmd.nr] \in SchedType
  BY <1>1, StateIs, Objects DEF ListsInv, Found, GOK, Exists
<1>3. Type \in Types
  BY <1>1, <1>2, ConfigAssumption DEF Type, SchedType
<1>4. QED
  BY <1>1, <1>2, <1>3, ConfigAssumption DEF Mask, RestoredLink

LEMMA SchedChangeStep ==
  ASSUME ListsInv, SchedChange
  PROVE  /\ ListsInv' /\ SameBut(State, State', {cmd.nr}) /\ schedhash' = schedhash \ {cmd.nr}
         /\ ~panicked /\ UNCHANGED panicked /\ Exists /\ Type \in Types
         /\ cmd \in CmdType /\ cmd' \in CmdType /\ cmd'.nr = cmd.nr /\ cmd'.type = Type
         /\ cmd'.p = schk[cmd.nr].link /\ cmd'.p # NULL
<1>1. /\ ~panicked /\ cmd # NULL /\ Exists /\ schedhash' = schedhash \ {cmd.nr}
      /\ Becomes(SchkDelete(State, cmd.nr)) /\ UNCHANGED panicked
  BY DEF SchedChange
<1>2. /\ cmd \in CmdType /\ cmd.nr \in SchedNrs /\ Type \in Types
      /\ schk[cmd.nr] # NULL /\ schk[cmd.nr] \in SchedType
  BY <1>1, Looked
<1>3. PICK p : /\ p \in BaseNrs \cup {NULL}
               /\ cmd' = [[[cmd EXCEPT !.type = Type] EXCEPT !.p = schk[cmd.nr].link]
                          EXCEPT !.pf = p]
  <2>1. PICK ok \in Alloc :
          cmd' = [cmd EXCEPT
                    !.type = Type, !.p = schk[cmd.nr].link,
                    !.pf = IF schk[cmd.nr].profile /\ @ = NULL /\ ok
                           THEN IF cmd.nr > N THEN cmd.nr - N ELSE cmd.nr
                           ELSE @]
    BY Zenon DEF SchedChange
  <2>2. PICK p : p = IF schk[cmd.nr].profile /\ cmd.pf = NULL /\ ok
                     THEN IF cmd.nr > N THEN cmd.nr - N ELSE cmd.nr
                     ELSE cmd.pf
    OBVIOUS
  <2>3. p \in BaseNrs \cup {NULL}
    BY <1>2, <2>2, Nrs DEF CmdType, SchedNrs, BaseNrs
  <2>4. PICK t, l : t = Type /\ l = schk[cmd.nr].link
    OBVIOUS
  <2>5. cmd' = [[[cmd EXCEPT !.type = t] EXCEPT !.p = l] EXCEPT !.pf = p]
    BY <1>2, <2>1, <2>2, <2>4 DEF CmdType
  <2>6. QED
    BY <2>3, <2>4, <2>5, Zenon
<1>4. /\ cmd' \in CmdType /\ cmd'.nr = cmd.nr /\ cmd'.type = Type
      /\ cmd'.p = schk[cmd.nr].link /\ cmd'.p # NULL
  <2>1. PICK t, l : t = Type /\ l = schk[cmd.nr].link /\ l \in LinkParams
    BY <1>2 DEF SchedType
  <2>2. cmd' = [[[cmd EXCEPT !.type = t] EXCEPT !.p = l] EXCEPT !.pf = p]
    BY <1>3, <2>1
  <2>3. cmd' \in CmdType /\ cmd'.nr = cmd.nr /\ cmd'.type = t /\ cmd'.p = l
    BY <1>2, <1>3, <2>1, <2>2 DEF CmdType
  <2>4. QED
    BY <2>1, <2>3, Nothing
<1>5. PICK g, s : g = State /\ s = cmd.nr /\ s \in SchedNrs
  BY <1>2
<1>6. GOK(g) /\ Found(g, schedhash) /\ Linked(g, schedhash) /\ schedhash \in SUBSET SchedNrs
  BY <1>1, <1>5 DEF ListsInv
<1>7. PICK h : h = SchkDelete(g, s)
  OBVIOUS
<1>8. /\ GOK(h) /\ Found(h, schedhash \ {s}) /\ Linked(h, schedhash \ {s})
      /\ SameBut(g, h, {s})
  <2>1. /\ GOK(SchkDelete(g, s)) /\ Found(SchkDelete(g, s), schedhash \ {s})
        /\ Linked(SchkDelete(g, s), schedhash \ {s}) /\ SameBut(g, SchkDelete(g, s), {s})
    BY <1>5, <1>6, SchkDeleteFound
  <2>2. QED
    BY <1>7, <2>1
<1>9. State' = h
  BY <1>1, <1>5, <1>7, <1>8, BecomesState DEF GOK
<1>10. SameBut(State, State', {cmd.nr})
  BY <1>5, <1>8, <1>9
<1>11. GOK(State') /\ Found(State', schedhash') /\ Linked(State', schedhash')
  BY <1>1, <1>5, <1>8, <1>9
<1>12. ListsInv'
  BY <1>1, <1>4, <1>6, <1>11 DEF ListsInv
<1>13. QED
  BY <1>1, <1>2, <1>4, <1>10, <1>12

\* A pass ends, with the schedulers of g or with a panic.
Completed(g, tbl) ==
  /\ ListsInv' /\ schedhash' = tbl
  /\ \/ SameLinks(g, State') /\ cmd' = NextPass /\ panicked' = FALSE
     \/ AllocMayFail /\ panicked' = TRUE

LEMMA CompleteStep ==
  ASSUME NEW g, GOK(g), NEW tbl \in SUBSET SchedNrs, Found(g, tbl), NEW s \in tbl,
         Linked(g, tbl \ {s}), Complete(g, tbl, s), cmd \in CmdType, panicked = FALSE
  PROVE  Completed(g, tbl)
<1>1. /\ GOK(State') /\ schedhash' = tbl
      /\ \/ /\ SameScheds(g, State') /\ Linked(State', tbl)
            /\ cmd' = NextPass /\ panicked' = panicked
         \/ AllocMayFail /\ cmd' = NULL /\ panicked' = TRUE
  BY CompleteOK
<1>2. CASE AllocMayFail /\ cmd' = NULL /\ panicked' = TRUE
  BY <1>1, <1>2 DEF ListsInv, Completed
<1>3. CASE SameScheds(g, State') /\ Linked(State', tbl) /\ cmd' = NextPass /\ panicked' = panicked
  <2>1. Found(State', tbl) /\ SameLinks(g, State')
    BY <1>3 DEF Found, SameScheds, SameLinks
  <2>2. cmd' \in CmdType \cup {NULL}
    BY <1>3, NextPassTyped
  <2>3. ListsInv'
    BY <1>1, <1>3, <2>1, <2>2 DEF ListsInv
  <2>4. QED
    BY <1>1, <1>3, <2>1, <2>3 DEF Completed
<1>4. QED
  BY <1>1, <1>2, <1>3

LEMMA SchedSameStep ==
  ASSUME ListsInv, SchedSame
  PROVE  /\ Completed(State, schedhash) /\ cmd \in CmdType /\ ~panicked /\ Exists /\ ~Differs
<1>1. /\ ~panicked /\ cmd # NULL /\ Exists /\ ~Differs
      /\ Complete(State, schedhash, cmd.nr)
  BY DEF SchedSame
<1>2. cmd \in CmdType
  BY <1>1 DEF ListsInv
<1>3. PICK g, s : g = State /\ s = cmd.nr /\ s \in schedhash
  BY <1>1 DEF Exists
<1>4. /\ GOK(g) /\ Found(g, schedhash) /\ Linked(g, schedhash \ {s})
      /\ schedhash \in SUBSET SchedNrs /\ panicked = FALSE
  BY <1>1, <1>3 DEF ListsInv, Linked
<1>5. Complete(g, schedhash, s)
  BY <1>1, <1>3
<1>6. Completed(g, schedhash)
  BY <1>2, <1>3, <1>4, <1>5, CompleteStep
<1>7. QED
  BY <1>1, <1>2, <1>3, <1>6

LEMMA SchedNewStep ==
  ASSUME ListsInv, SchedNew
  PROVE  /\ cmd \in CmdType /\ ~panicked /\ ~Exists /\ cmd.nr \in SchedNrs
         /\ \/ AllocMayFail /\ ListsInv'
            \/ ListsInv' /\ panicked' = TRUE
            \/ \E g : /\ Completed(g, schedhash \cup {cmd.nr})
                      /\ g.schk[cmd.nr] # NULL /\ g.schk[cmd.nr].type = Type
                      /\ g.schk[cmd.nr].link = RestoredLink
                      /\ \A s \in SchedNrs \ {cmd.nr} : g.schk[s] = schk[s]
<1>1. ~panicked /\ cmd # NULL /\ ~Exists /\ cmd \in CmdType /\ panicked = FALSE
  BY DEF SchedNew, ListsInv
<1>2. /\ cmd.nr \in SchedNrs /\ Type \in Types /\ Mask \in Masks /\ RestoredLink \in LinkParams
  BY <1>1, Looked
<1>3. PICK g, s : g = State /\ s = cmd.nr /\ s \in SchedNrs /\ s \notin schedhash
  BY <1>1, <1>2 DEF Exists
<1>4. GOK(g) /\ Found(g, schedhash) /\ Linked(g, schedhash) /\ schedhash \in SUBSET SchedNrs
      /\ g.schk = schk
  BY <1>1, <1>3, StateIs DEF ListsInv
<1>5. CASE cmd' = NULL /\ UNCHANGED <<schk, schedhash, fsk, fsu, fsk_list, panicked>> /\ AllocMayFail
  <2>1. State' = g
    BY <1>3, <1>5, StateIs, StateIsNext
  <2>2. GOK(State') /\ Found(State', schedhash') /\ Linked(State', schedhash')
    BY <1>4, <1>5, <2>1
  <2>3. ListsInv'
    BY <1>1, <1>4, <1>5, <2>2 DEF ListsInv
  <2>4. QED
    BY <1>1, <1>2, <1>5, <2>3
<1>6. CASE panicked' = TRUE /\ UNCHANGED <<schk, schedhash, fsk, fsu, fsk_list, cmd>>
  <2>1. State' = g
    BY <1>3, <1>6, StateIs, StateIsNext
  <2>2. GOK(State')
    BY <1>4, <2>1
  <2>3. ListsInv'
    BY <1>1, <1>4, <1>6, <2>2 DEF ListsInv
  <2>4. QED
    BY <1>1, <1>2, <1>6, <2>3
<1>7. CASE Complete([State EXCEPT !.schk[cmd.nr] = NewSched(Type, Mask, RestoredLink)],
                    schedhash \cup {cmd.nr}, cmd.nr)
  <2>1. PICK r : r = NewSched(Type, Mask, RestoredLink)
    OBVIOUS
  <2>2. /\ r \in SchedType /\ r # NULL /\ r.q_count = 0 /\ r.type = Type
        /\ r.link = RestoredLink
    <3>1. r \in SchedType /\ r.q_count = 0 /\ r.type = Type /\ r.link = RestoredLink
      BY <1>2, <2>1 DEF NewSched, SchedType
    <3>2. QED
      BY <3>1, Nothing
  <2>3. PICK S : S = [g.schk EXCEPT ![s] = r]
    OBVIOUS
  <2>4. PICK h : h = [g EXCEPT !.schk[s] = r]
    OBVIOUS
  <2>5. g = [schk |-> g.schk, fsk |-> g.fsk, fsu |-> g.fsu, fsk_list |-> g.fsk_list]
        /\ g.schk \in [SchedNrs -> SchedType \cup {NULL}]
    BY <1>4, Objects DEF GOK, GType
  <2>6. h = [g EXCEPT !.schk = S]
    BY <2>3, <2>4
  <2>7. h = WithScheds(g, S)
    BY <2>5, <2>6 DEF WithScheds
  <2>8. S \in [SchedNrs -> SchedType \cup {NULL}] /\ S[s] = r
        /\ \A q \in SchedNrs \ {s} : S[q] = g.schk[q]
    BY <1>3, <2>2, <2>3, <2>5
  <2>9. g.schk[s] = NULL
    BY <1>3, <1>4 DEF Found
  <2>10. GOK(h)
    BY <1>4, <2>2, <2>7, <2>8, <2>9, SchedsOK
  <2>11. h.schk = S /\ h.fsk = g.fsk
    BY <2>7 DEF WithScheds
  <2>12. PICK tbl \in SUBSET SchedNrs : tbl = schedhash \cup {s} /\ s \in tbl
    BY <1>3, <1>4
  <2>13. Found(h, tbl)
    BY <1>3, <1>4, <2>2, <2>8, <2>11, <2>12 DEF Found
  <2>14. Linked(h, tbl \ {s})
    BY <1>3, <1>4, <2>11, <2>12 DEF Linked
  <2>15. Complete(h, tbl, s)
    BY <1>3, <1>7, <2>1, <2>4, <2>12
  <2>16. Completed(h, tbl)
    BY <1>1, <2>10, <2>12, <2>13, <2>14, <2>15, CompleteStep
  <2>17. /\ h.schk[cmd.nr] # NULL /\ h.schk[cmd.nr].type = Type
         /\ h.schk[cmd.nr].link = RestoredLink
         /\ \A q \in SchedNrs \ {cmd.nr} : h.schk[q] = schk[q]
    BY <1>3, <1>4, <2>2, <2>8, <2>11
  <2>18. QED
    BY <1>1, <1>2, <1>3, <2>12, <2>16, <2>17
<1>8. QED
  BY <1>5, <1>6, <1>7, ConfigAssumption, Zenon DEF SchedNew, Alloc

-----------------------------------------------------------------------------
(***************************************************************************)
(* The lists, the pointers and the counters, whichever malloc() fails.     *)
(***************************************************************************)

LEMMA ListsStutter ==
  ASSUME ListsInv, UNCHANGED vars
  PROVE  ListsInv'
<1>1. State' = State /\ UNCHANGED <<schedhash, cmd, panicked>>
  BY StateIs, StateIsNext DEF vars
<1>2. GOK(State') /\ (~panicked => Found(State', schedhash) /\ Linked(State', schedhash))
  BY <1>1 DEF ListsInv
<1>3. QED
  BY <1>1, <1>2 DEF ListsInv

LEMMA ListsNext == ListsInv /\ [Next]_vars => ListsInv'
<1> SUFFICES ASSUME ListsInv, [Next]_vars PROVE ListsInv'
  OBVIOUS
<1>1. ASSUME NEW i \in BaseNrs, NEW type \in Types \cup {NoType}, NEW mask \in Masks,
             NEW pipe \in BOOLEAN, ConfigSched(i, type, mask, pipe)
      PROVE  ListsInv'
  BY <1>1, ConfigSchedStep
<1>2. CASE SchedSkip
  BY <1>2, SchedSkipStep
<1>3. CASE SchedChange
  BY <1>3, SchedChangeStep
<1>4. CASE SchedSame
  BY <1>4, SchedSameStep DEF Completed
<1>5. CASE SchedNew
  BY <1>5, SchedNewStep DEF Completed
<1>6. ASSUME NEW c \in FsCommands, NEW par \in FsParams \cup {Reuse}, ConfigFs(c[1], c[2], par)
      PROVE  ListsInv'
  BY <1>6, ConfigFsStep
<1>7. ASSUME NEW i \in BaseNrs,
             \/ \E params \in LinkParams : ConfigLink(i, params)
             \/ \E samples \in BOOLEAN : ConfigProfile(i, samples)
             \/ DeletePipe(i)
             \/ DeleteQueue(i)
      PROVE  ListsInv'
  BY <1>7, ConfigLinkStep, ConfigProfileStep, DeletePipeStep, DeleteQueueStep
<1>8. CASE Flush
  BY <1>8, FlushStep
<1>9. ASSUME NEW f \in FsNrs, Packet(f) \/ DrainQueue(f) PROVE ListsInv'
  BY <1>9, PacketStep, DrainQueueStep
<1>10. ASSUME NEW s \in SchedNrs, DrainInst(s) PROVE ListsInv'
  BY <1>10, DrainInstStep
<1>11. CASE UNCHANGED vars
  BY <1>11, ListsStutter
<1>12. QED
  BY <1>1, <1>2, <1>3, <1>4, <1>5, <1>6, <1>7, <1>8, <1>9, <1>10, <1>11, Zenon
     DEF Next, SchedPass

\* The inductive invariant of the configuration.
THEOREM ConfigInvariant == Spec => []ListsInv
<1>1. Init => ListsInv
  BY InitLists
<1>2. ListsInv /\ [Next]_vars => ListsInv'
  BY ListsNext
<1>3. QED
  BY <1>1, <1>2, PTL DEF Spec

LEMMA ListsInvGives == ListsInv => ListsOK
<1> SUFFICES ASSUME ListsInv PROVE ListsOK
  OBVIOUS
<1>1. /\ schk \in [SchedNrs -> SchedType \cup {NULL}] /\ fsk \in [FsNrs -> FsType \cup {NULL}]
      /\ fsu \subseteq FsNrs /\ fsk_list \in [SchedNrs -> SUBSET FsNrs]
  BY StateIs DEF ListsInv, GOK, GType
<1>2. TypeOK
  BY <1>1 DEF ListsInv, TypeOK
<1>3. ASSUME NEW f \in FsNrs
      PROVE  /\ f \in fsu <=> fsk[f] # NULL /\ fsk[f].sched = NULL
             /\ \A s \in SchedNrs : f \in fsk_list[s] <=> fsk[f] # NULL /\ fsk[f].sched = s
             /\ fsk[f] # NULL /\ fsk[f].sched # NULL =>
                  fsk[f].sched = fsk[f].sched_nr /\ schk[fsk[f].sched] # NULL
             /\ fsk[f] # NULL /\ fsk[f].qht # NULL =>
                  fsk[f].qht = fsk[f].sched /\ schk[fsk[f].qht].inst
  BY StateIs DEF ListsInv, GOK, FsOK
<1>4. ~panicked =>
        /\ \A s \in SchedNrs : s \in schedhash <=> schk[s] # NULL
        /\ \A f \in FsNrs : fsk[f] # NULL /\ fsk[f].sched_nr \in schedhash =>
             fsk[f].sched = fsk[f].sched_nr
  BY StateIs DEF ListsInv, Found, Linked
<1>5. QED
  BY <1>2, <1>3, <1>4 DEF ListsOK

\* Every flowset is in the one list that its pointer leads to, no pointer leads to a
\* scheduler that was freed, and no flowset of a scheduler that is there is left out
\* (config_fs(), fsk_attach(), fsk_detach(), schk_delete_cb(), config_sched()): also
\* when a malloc() of any command fails.
THEOREM ListsCorrect == Spec => []ListsOK
BY ConfigInvariant, ListsInvGives, PTL

-----------------------------------------------------------------------------
(***************************************************************************)
(* A scheduler and its twin, when no malloc() fails.                       *)
(***************************************************************************)

\* No number is that of a scheduler and of a twin.
LEMMA TwoNumbers ==
  /\ \A i, j \in BaseNrs : i # j + N /\ (i + N = j + N => i = j)
  /\ \A s \in SchedNrs : \E i \in BaseNrs : s \in {i, i + N}
<1>1. \A i, j \in BaseNrs : i # j + N /\ (i + N = j + N => i = j)
  BY Nrs DEF BaseNrs
<1>2. ASSUME NEW s \in SchedNrs PROVE \E i \in BaseNrs : s \in {i, i + N}
  <2>1. CASE s \in BaseNrs
    BY <2>1
  <2>2. CASE s \in (N + 1)..(2 * N - 1)
    <3>1. PICK i \in BaseNrs : i = s - N
      BY <2>2, Nrs DEF BaseNrs
    <3>2. s = i + N
      BY <2>2, <3>1, Nrs DEF BaseNrs
    <3>3. QED
      BY <3>2
  <2>3. QED
    BY <2>1, <2>2 DEF SchedNrs
<1>3. QED
  BY <1>1, <1>2

LEMMA LinkKept ==
  ASSUME ListsInv, ~panicked, NEW D, SameBut(State, State', D), NEW s \in schedhash, s \notin D
  PROVE  schk'[s].type = schk[s].type /\ schk'[s].link = schk[s].link
<1>1. s \in SchedNrs /\ schk[s] # NULL
  BY StateIs DEF ListsInv, Found
<1>2. QED
  BY <1>1, StateIs, StateIsNext DEF SameBut

\* Twins that the step leaves alone.
LEMMA TwinsKept ==
  ASSUME ListsInv, ~panicked, NEW D, SameBut(State, State', D), NEW i \in BaseNrs,
         i \notin D, i + N \notin D, i \in schedhash' <=> i \in schedhash,
         i + N \in schedhash' <=> i + N \in schedhash, Twins(i)
  PROVE  Twins(i)'
<1>1. i \in schedhash => schk'[i].link = schk[i].link
  BY LinkKept
<1>2. i + N \in schedhash => schk'[i + N].type = schk[i + N].type
                             /\ schk'[i + N].link = schk[i + N].link
  BY LinkKept
<1>3. QED
  BY <1>1, <1>2 DEF Twins

LEMMA SameLinksBut ==
  ASSUME NEW g, NEW h, SameLinks(g, h)
  PROVE  SameBut(g, h, {})
BY DEF SameLinks, SameBut

\* Commands that leave all links alone.
LEMMA TwinsSame ==
  ASSUME ListsInv, TwinsInv, SameLinks(State, State'), UNCHANGED <<schedhash, cmd, panicked>>
  PROVE  TwinsInv'
<1>1. SUFFICES ASSUME ~panicked, NEW i \in BaseNrs PROVE TwinsOK(i)'
  BY DEF TwinsInv
<1>2. TwinsOK(i) /\ SameBut(State, State', {})
  BY <1>1, SameLinksBut DEF TwinsInv
<1>3. i \in schedhash => schk'[i].link = schk[i].link
  BY <1>1, <1>2, LinkKept
<1>4. i + N \in schedhash => schk'[i + N].type = schk[i + N].type
                             /\ schk'[i + N].link = schk[i + N].link
  BY <1>1, <1>2, LinkKept
<1>5. Twins(i) => Twins(i)'
  BY <1>3, <1>4 DEF Twins
<1>6. CmdOK(i) => CmdOK(i)'
  BY <1>3, <1>4, <1>5 DEF CmdOK, RestoredLink
<1>7. QED
  BY <1>2, <1>5, <1>6 DEF TwinsOK

\* Between commands.
LEMMA TwinsReady ==
  ASSUME TwinsInv, ~panicked, cmd = NULL, NEW i \in BaseNrs
  PROVE  Twins(i)
BY DEF TwinsInv, TwinsOK

LEMMA TwinsConfigLink ==
  ASSUME ListsInv, TwinsInv, NEW j \in BaseNrs, NEW params \in LinkParams, ConfigLink(j, params)
  PROVE  TwinsInv'
<1>1. ~panicked /\ cmd = NULL /\ UNCHANGED <<schedhash, cmd, panicked>>
  BY DEF ConfigLink, Ready
<1>2. SUFFICES ASSUME NEW i \in BaseNrs PROVE Twins(i)'
  BY <1>1 DEF TwinsInv, TwinsOK
<1>3. Twins(i) /\ i \in SchedNrs /\ i + N \in SchedNrs
  BY <1>1, TwinsReady, Nrs
<1>4. CASE i = j
  <2>1. CASE j \notin schedhash
    BY <1>1, <1>3, <1>4, <2>1 DEF Twins
  <2>2. CASE j \in schedhash
    <3>1. Reached(j) = {j, j + N}
      BY <1>3, <1>4, <2>2 DEF Twins, Reached
    <3>2. PICK r, t \in SchedType : r = schk[j] /\ t = schk[j + N]
      BY <1>1, <3>1, ReachedIn
    <3>3. /\ schk'[j] = [[r EXCEPT !.link = params] EXCEPT !.profile = FALSE]
          /\ schk'[j + N] = [[t EXCEPT !.link = params] EXCEPT !.profile = FALSE]
      BY <1>3, <1>4, <3>1, <3>2 DEF ConfigLink
    <3>4. schk'[j].link = params /\ schk'[j + N].link = params /\ schk'[j + N].type = t.type
      BY <3>2, <3>3 DEF SchedType
    <3>5. QED
      BY <1>1, <1>3, <1>4, <3>2, <3>4 DEF Twins
  <2>3. QED
    BY <2>1, <2>2
<1>5. CASE i # j
  <2>1. Reached(j) \subseteq {j, j + N}
    BY <1>1, ReachedIn
  <2>2. i \notin Reached(j) /\ i + N \notin Reached(j)
    BY <1>5, <2>1, TwoNumbers
  <2>3. schk'[i] = schk[i] /\ schk'[i + N] = schk[i + N]
    BY <1>3, <2>2 DEF ConfigLink
  <2>4. QED
    BY <1>1, <1>3, <2>3 DEF Twins
<1>6. QED
  BY <1>4, <1>5

LEMMA TwinsDeletePipe ==
  ASSUME ListsInv, TwinsInv, NEW j \in BaseNrs, DeletePipe(j)
  PROVE  TwinsInv'
<1>1. /\ SameBut(State, State', {j, j + N}) /\ schedhash' = schedhash \ {j, j + N}
      /\ ~panicked /\ UNCHANGED <<cmd, panicked>>
  BY DeletePipeStep
<1>2. cmd = NULL
  BY DEF DeletePipe, Ready
<1>3. SUFFICES ASSUME NEW i \in BaseNrs PROVE Twins(i)'
  BY <1>1, <1>2 DEF TwinsInv, TwinsOK
<1>4. Twins(i)
  BY <1>1, <1>2, TwinsReady
<1>5. CASE i = j
  BY <1>1, <1>5 DEF Twins
<1>6. CASE i # j
  <2>1. i \notin {j, j + N} /\ i + N \notin {j, j + N}
    BY <1>6, TwoNumbers
  <2>2. QED
    BY <1>1, <1>4, <2>1, TwinsKept
<1>7. QED
  BY <1>5, <1>6

LEMMA TwinsFlush ==
  ASSUME ListsInv, TwinsInv, Flush
  PROVE  TwinsInv'
<1>1. schedhash' = {} /\ cmd' = NULL
  BY FlushStep DEF Flush, Ready
<1>2. QED
  BY <1>1 DEF TwinsInv, TwinsOK, Twins

LEMMA TwinsConfigSched ==
  ASSUME ListsInv, TwinsInv, NEW j \in BaseNrs, NEW type \in Types \cup {NoType},
         NEW mask \in Masks, NEW pipe \in BOOLEAN, ConfigSched(j, type, mask, pipe)
  PROVE  TwinsInv'
<1>1. /\ SameLinks(State, State') /\ UNCHANGED <<schedhash, panicked>>
      /\ cmd' \in CmdType /\ cmd'.nr = j /\ cmd'.p = NULL /\ cmd = NULL
  BY ConfigSchedStep
<1>2. SUFFICES ASSUME ~panicked, NEW i \in BaseNrs PROVE TwinsOK(i)'
  BY <1>1 DEF TwinsInv
<1>3. Twins(i)'
  BY <1>1, <1>2, TwinsReady, SameLinksBut, TwinsKept
<1>4. cmd'.nr # i + N
  BY <1>1, TwoNumbers
<1>5. QED
  BY <1>1, <1>3, <1>4 DEF TwinsOK, CmdOK


\* The twins that a pass is not about.
LEMMA TwinsOthers ==
  ASSUME ListsInv, TwinsInv, ~panicked, cmd # NULL, SameBut(State, State', {cmd.nr}),
         schedhash' \cup {cmd.nr} = schedhash \cup {cmd.nr},
         \/ cmd' = NULL
         \/ cmd'.nr = cmd.nr
         \/ cmd.nr \in BaseNrs /\ cmd'.nr = cmd.nr + N,
         NEW i \in BaseNrs, cmd.nr \notin {i, i + N}
  PROVE  TwinsOK(i)'
<1>1. Twins(i)
  BY DEF TwinsInv, TwinsOK
<1>2. Twins(i)'
  BY <1>1, TwinsKept
<1>3. cmd' = NULL \/ cmd'.nr \notin {i, i + N}
  BY TwoNumbers
<1>4. QED
  BY <1>2, <1>3 DEF TwinsOK

\* The pass finds its scheduler and goes on with the twin or ends.
LEMMA TwinsPassEnds ==
  ASSUME ListsInv, TwinsInv, ~panicked, cmd # NULL, cmd \in CmdType, Exists,
         SameLinks(State, State'), UNCHANGED <<schedhash, panicked>>, cmd' = NextPass
  PROVE  TwinsInv'
<1>1. SUFFICES ASSUME NEW i \in BaseNrs PROVE TwinsOK(i)'
  BY DEF TwinsInv
<1>2. SameBut(State, State', {})
  BY SameLinksBut
<1>3. CASE cmd.nr \notin {i, i + N}
  <2>1. SameBut(State, State', {cmd.nr})
    BY <1>2 DEF SameBut
  <2>2. cmd' = NULL \/ (cmd.nr \in BaseNrs /\ cmd'.nr = cmd.nr + N)
    BY NextPassIs
  <2>3. QED
    BY <1>3, <2>1, <2>2, TwinsOthers
<1>4. CASE cmd.nr \in {i, i + N}
  <2>1. CmdOK(i)
    BY <1>4 DEF TwinsInv, TwinsOK
  <2>2. Twins(i)
    BY <1>4, <2>1, TwoNumbers DEF CmdOK, Exists
  <2>3. Twins(i)'
    BY <1>2, <2>2, TwinsKept
  <2>4. CASE cmd' = NULL
    BY <2>3, <2>4 DEF TwinsOK
  <2>5. CASE cmd' # NULL
    <3>1. cmd.nr \in BaseNrs /\ cmd'.nr = cmd.nr + N /\ cmd'.type = FIFO /\ cmd'.p = NULL
      BY <2>5, NextPassIs
    <3>2. cmd.nr = i /\ i # i + N
      BY <1>4, <3>1, TwoNumbers
    <3>3. i \in schedhash' /\ i + N \in schedhash'
      BY <2>2, <3>2 DEF Exists, Twins
    <3>4. CmdOK(i)'
      BY <2>3, <3>1, <3>2, <3>3 DEF CmdOK
    <3>5. QED
      BY <3>1, <3>2, <3>4, <2>5 DEF TwinsOK
  <2>6. QED
    BY <2>4, <2>5
<1>5. QED
  BY <1>3, <1>4

LEMMA TwinsSchedSkip ==
  ASSUME ListsInv, TwinsInv, SchedSkip
  PROVE  TwinsInv'
<1>1. /\ SameLinks(State, State') /\ UNCHANGED <<schedhash, panicked>>
      /\ cmd \in CmdType /\ cmd' = NextPass /\ Exists
  BY SchedSkipStep
<1>2. cmd # NULL /\ ~panicked
  BY DEF SchedSkip
<1>3. QED
  BY <1>1, <1>2, TwinsPassEnds

LEMMA TwinsSchedSame ==
  ASSUME ~AllocMayFail, ListsInv, TwinsInv, SchedSame
  PROVE  TwinsInv'
<1>1. /\ SameLinks(State, State') /\ UNCHANGED schedhash
      /\ cmd \in CmdType /\ cmd' = NextPass /\ Exists /\ ~panicked /\ panicked' = FALSE
  BY SchedSameStep DEF Completed
<1>2. cmd # NULL /\ UNCHANGED panicked
  BY <1>1 DEF SchedSame, ListsInv
<1>3. QED
  BY <1>1, <1>2, TwinsPassEnds

LEMMA TwinsSchedChange ==
  ASSUME ListsInv, TwinsInv, SchedChange
  PROVE  TwinsInv'
<1>1. /\ SameBut(State, State', {cmd.nr}) /\ schedhash' = schedhash \ {cmd.nr}
      /\ ~panicked /\ UNCHANGED panicked /\ Exists /\ Type \in Types
      /\ cmd \in CmdType /\ cmd' \in CmdType /\ cmd'.nr = cmd.nr /\ cmd'.type = Type
      /\ cmd'.p = schk[cmd.nr].link /\ cmd'.p # NULL
  BY SchedChangeStep
<1>2. cmd # NULL /\ cmd' # NULL
  BY <1>1, Nothing
<1>3. SUFFICES ASSUME NEW i \in BaseNrs PROVE TwinsOK(i)'
  BY <1>1 DEF TwinsInv
<1>4. CASE cmd.nr \notin {i, i + N}
  BY <1>1, <1>2, <1>4, TwinsOthers
<1>5. CASE cmd.nr \in {i, i + N}
  <2>1. CmdOK(i) /\ i # i + N
    BY <1>1, <1>2, <1>5, TwoNumbers DEF TwinsInv, TwinsOK
  <2>2. Twins(i) /\ i \in schedhash /\ i + N \in schedhash
    BY <1>1, <1>5, <2>1 DEF CmdOK, Exists, Twins
  <2>3. CASE cmd.nr = i
    <3>1. schk'[i + N].type = FIFO /\ schk'[i + N].link = cmd'.p
      <4>1. schk'[i + N].type = schk[i + N].type /\ schk'[i + N].link = schk[i + N].link
        BY <1>1, <2>1, <2>2, <2>3, LinkKept
      <4>2. QED
        BY <1>1, <2>2, <2>3, <4>1 DEF Twins
    <3>2. i \notin schedhash' /\ i + N \in schedhash'
      BY <1>1, <2>1, <2>2, <2>3
    <3>3. CmdOK(i)'
      BY <1>1, <2>1, <2>3, <3>1, <3>2 DEF CmdOK
    <3>4. QED
      BY <1>1, <1>2, <2>3, <3>3 DEF TwinsOK
  <2>4. CASE cmd.nr = i + N
    <3>1. cmd'.type = FIFO
      BY <1>1, <2>1, <2>4, ConfigAssumption DEF CmdOK, Type
    <3>2. schk'[i].link = schk[i].link
      BY <1>1, <2>1, <2>2, <2>4, LinkKept
    <3>3. schk'[i].link = cmd'.p
      BY <1>1, <2>2, <2>4, <3>2 DEF Twins
    <3>4. i \in schedhash' /\ i + N \notin schedhash'
      BY <1>1, <2>1, <2>2, <2>4
    <3>5. CmdOK(i)'
      BY <1>1, <2>1, <2>4, <3>1, <3>3, <3>4 DEF CmdOK, RestoredLink
    <3>6. QED
      BY <1>1, <1>2, <2>4, <3>5 DEF TwinsOK
  <2>5. QED
    BY <1>5, <2>3, <2>4
<1>6. QED
  BY <1>4, <1>5

LEMMA TwinsSchedNew ==
  ASSUME ~AllocMayFail, ListsInv, TwinsInv, SchedNew
  PROVE  TwinsInv'
<1>1. CASE panicked' = TRUE
  BY <1>1 DEF TwinsInv
<1>2. CASE panicked' # TRUE
  <2>1. /\ cmd \in CmdType /\ ~panicked /\ ~Exists /\ cmd.nr \in SchedNrs /\ ListsInv'
        /\ \E g : /\ Completed(g, schedhash \cup {cmd.nr})
                  /\ g.schk[cmd.nr] # NULL /\ g.schk[cmd.nr].type = Type
                  /\ g.schk[cmd.nr].link = RestoredLink
                  /\ \A s \in SchedNrs \ {cmd.nr} : g.schk[s] = schk[s]
    BY <1>2, SchedNewStep DEF Completed
  <2>2. PICK g : /\ Completed(g, schedhash \cup {cmd.nr})
                 /\ g.schk[cmd.nr] # NULL /\ g.schk[cmd.nr].type = Type
                 /\ g.schk[cmd.nr].link = RestoredLink
                 /\ \A s \in SchedNrs \ {cmd.nr} : g.schk[s] = schk[s]
    BY <2>1
  <2>3. /\ SameLinks(g, State') /\ cmd' = NextPass
        /\ schedhash' = schedhash \cup {cmd.nr} /\ cmd # NULL
    BY <1>2, <2>1, <2>2, Nothing DEF Completed
  <2>4. SameBut(State, State', {cmd.nr})
    BY <2>2, <2>3, StateIs DEF SameLinks, SameBut
  <2>5. schk'[cmd.nr].type = Type /\ schk'[cmd.nr].link = RestoredLink
    BY <2>1, <2>2, <2>3, StateIsNext DEF SameLinks
  <2>6. SUFFICES ASSUME NEW i \in BaseNrs PROVE TwinsOK(i)'
    BY DEF TwinsInv
  <2>7. CASE cmd.nr \notin {i, i + N}
    <3>1. cmd' = NULL \/ (cmd.nr \in BaseNrs /\ cmd'.nr = cmd.nr + N)
      BY <2>1, <2>3, NextPassIs
    <3>2. schedhash' \cup {cmd.nr} = schedhash \cup {cmd.nr}
      BY <2>3
    <3>3. QED
      BY <2>1, <2>3, <2>4, <2>7, <3>1, <3>2, TwinsOthers
  <2>8. CASE cmd.nr = i
    <3>1. CmdOK(i) /\ i # i + N /\ i \in schedhash' /\ i \notin schedhash
      BY <2>1, <2>3, <2>8, TwoNumbers DEF TwinsInv, TwinsOK, Exists
    <3>2. i + N \in schedhash' <=> i + N \in schedhash
      BY <2>3, <2>8, <3>1
    <3>3. CASE cmd.p = NULL
      <4>1. i + N \notin schedhash /\ schk'[i].link = NoParams
        BY <2>5, <2>8, <3>1, <3>3 DEF CmdOK, Twins, RestoredLink
      <4>2. NextPass # NULL
        <5>1. ~(cmd.nr > N)
          BY <2>8, Nrs
        <5>2. NextPass = [cmd EXCEPT !.nr = @ + N, !.type = FIFO, !.mask = cmd.saved, !.p = NULL]
          BY <2>8, <4>1, <5>1 DEF NextPass
        <5>3. PICK n \in SchedNrs : n = cmd.nr + N
          BY <2>8, Nrs
        <5>4. NextPass = [[[[cmd EXCEPT !.nr = n] EXCEPT !.type = FIFO]
                           EXCEPT !.mask = cmd.saved] EXCEPT !.p = NULL]
          BY <2>1, <5>2, <5>3 DEF CmdType
        <5>5. NextPass \in CmdType
          BY <2>1, <5>4, ConfigAssumption DEF CmdType
        <5>6. QED
          BY <5>5, Nothing
      <4>3. cmd' # NULL /\ cmd'.nr = i + N /\ cmd'.type = FIFO /\ cmd'.p = NULL
        BY <2>1, <2>3, <2>8, <4>2, NextPassIs
      <4>4. CmdOK(i)'
        BY <3>1, <3>2, <4>1, <4>3 DEF CmdOK, RestoredLink
      <4>5. QED
        BY <4>3, <4>4 DEF TwinsOK
    <3>4. CASE cmd.p # NULL
      <4>1. /\ i + N \in schedhash /\ schk[i + N].type = FIFO /\ schk[i + N].link = cmd.p
            /\ schk'[i].link = cmd.p
        BY <2>5, <2>8, <3>1, <3>4 DEF CmdOK, RestoredLink
      <4>2. schk'[i + N].type = schk[i + N].type /\ schk'[i + N].link = schk[i + N].link
        BY <2>1, <2>4, <2>8, <3>1, <4>1, LinkKept
      <4>3. Twins(i)'
        BY <3>1, <3>2, <4>1, <4>2 DEF Twins
      <4>4. CASE cmd' = NULL
        BY <4>3, <4>4 DEF TwinsOK
      <4>5. CASE cmd' # NULL
        <5>1. cmd'.nr = i + N /\ cmd'.type = FIFO /\ cmd'.p = NULL
          BY <2>1, <2>3, <2>8, <4>5, NextPassIs
        <5>2. CmdOK(i)'
          BY <3>1, <3>2, <4>1, <4>3, <5>1 DEF CmdOK
        <5>3. QED
          BY <4>5, <5>1, <5>2 DEF TwinsOK
      <4>6. QED
        BY <4>4, <4>5
    <3>5. QED
      BY <3>3, <3>4
  <2>9. CASE cmd.nr = i + N
    <3>1. CmdOK(i) /\ i # i + N /\ i + N \in schedhash' /\ i + N \notin schedhash
      BY <2>1, <2>3, <2>9, TwoNumbers DEF TwinsInv, TwinsOK, Exists
    <3>2. cmd.type = FIFO /\ i \in schedhash /\ schk[i].link = RestoredLink
      BY <2>9, <3>1 DEF CmdOK
    <3>3. Type = FIFO
      BY <3>2, ConfigAssumption DEF Type
    <3>4. schk'[i].link = schk[i].link
      BY <2>1, <2>4, <2>9, <3>1, <3>2, LinkKept
    <3>5. Twins(i)'
      BY <2>3, <2>5, <2>9, <3>1, <3>2, <3>3, <3>4 DEF Twins
    <3>6. cmd' = NULL
      BY <2>1, <2>3, <2>9, <3>1, TwoNumbers, NextPassIs
    <3>7. QED
      BY <3>5, <3>6 DEF TwinsOK
  <2>10. QED
    BY <2>7, <2>8, <2>9
<1>3. QED
  BY <1>1, <1>2, Zenon

LEMMA TwinsNext ==
  ASSUME ~AllocMayFail
  PROVE  ListsInv /\ TwinsInv /\ [Next]_vars => TwinsInv'
<1> SUFFICES ASSUME ListsInv, TwinsInv, [Next]_vars PROVE TwinsInv'
  OBVIOUS
<1>1. ASSUME NEW i \in BaseNrs, NEW type \in Types \cup {NoType}, NEW mask \in Masks,
             NEW pipe \in BOOLEAN, ConfigSched(i, type, mask, pipe)
      PROVE  TwinsInv'
  BY <1>1, TwinsConfigSched
<1>2. CASE SchedPass
  BY <1>2, TwinsSchedSkip, TwinsSchedChange, TwinsSchedSame, TwinsSchedNew DEF SchedPass
<1>3. ASSUME NEW c \in FsCommands, NEW par \in FsParams \cup {Reuse}, ConfigFs(c[1], c[2], par)
      PROVE  TwinsInv'
  BY <1>3, ConfigFsStep, TwinsSame
<1>4. ASSUME NEW i \in BaseNrs,
             \/ \E params \in LinkParams : ConfigLink(i, params)
             \/ \E samples \in BOOLEAN : ConfigProfile(i, samples)
             \/ DeletePipe(i)
             \/ DeleteQueue(i)
      PROVE  TwinsInv'
  BY <1>4, TwinsConfigLink, ConfigProfileStep, TwinsDeletePipe, DeleteQueueStep, TwinsSame
<1>5. CASE Flush
  BY <1>5, TwinsFlush
<1>6. ASSUME NEW f \in FsNrs, Packet(f) \/ DrainQueue(f) PROVE TwinsInv'
  BY <1>6, PacketStep, DrainQueueStep, TwinsSame
<1>7. ASSUME NEW s \in SchedNrs, DrainInst(s) PROVE TwinsInv'
  BY <1>7, DrainInstStep, TwinsSame
<1>8. CASE UNCHANGED vars
  <2>1. State' = State /\ UNCHANGED <<schedhash, cmd, panicked>>
    BY <1>8, StateIs, StateIsNext DEF vars
  <2>2. SameLinks(State, State')
    BY <2>1 DEF SameLinks
  <2>3. QED
    BY <2>1, <2>2, TwinsSame
<1>9. QED
  BY <1>1, <1>2, <1>3, <1>4, <1>5, <1>6, <1>7, <1>8, Zenon DEF Next

\* When no malloc() fails: between commands, a scheduler and the FIFO of its number
\* exist together and have the same link parameters, whatever config_sched() deleted and
\* made again on the way ("preserve link", ip_dummynet.c).
THEOREM TwinsTogether == ~AllocMayFail => (Spec => []TwinsAgree)
<1> SUFFICES ASSUME ~AllocMayFail PROVE Spec => []TwinsAgree
  OBVIOUS
<1>1. Init => TwinsInv
  BY DEF Init, TwinsInv, TwinsOK, Twins
<1>2. ListsInv /\ TwinsInv /\ [Next]_vars => TwinsInv'
  BY TwinsNext
<1>3. TwinsInv => TwinsAgree
  BY DEF TwinsInv, TwinsOK, Twins, TwinsAgree
<1>4. QED
  BY <1>1, <1>2, <1>3, ConfigInvariant, PTL DEF Spec

-----------------------------------------------------------------------------
(***************************************************************************)
(* The counters of objects, and what dummynet_get() copies.                *)
(***************************************************************************)

\* Half of the schedulers are shown.
LEMMA HalfIsShown ==
  ASSUME ListsInv, TwinsInv, Ready, NEW req \in Requests
  PROVE  /\ Cardinality(Shown(req)) = schk_count \div 2 /\ schk_count \div 2 \in Nat
         /\ Shown(req) \subseteq schedhash /\ IsFiniteSet(Shown(req))
<1>1. /\ ~panicked /\ cmd = NULL /\ schedhash \subseteq SchedNrs
      /\ \A s \in SchedNrs : s \in schedhash <=> schk[s] # NULL
      /\ \A i \in BaseNrs : i \in schedhash <=> i + N \in schedhash
  BY StateIs DEF Ready, ListsInv, Found, TwinsInv, TwinsOK, Twins
<1>2. PICK B, C : /\ B = {s \in schedhash : s < N} /\ C = {s \in schedhash : s > N}
  OBVIOUS
<1>3. schedhash = B \cup C /\ B \cap C = {} /\ B \subseteq BaseNrs
  <2>1. ASSUME NEW s \in SchedNrs
        PROVE  (s < N \/ s > N) /\ ~(s < N /\ s > N) /\ (s < N => s \in BaseNrs)
    BY Nrs DEF SchedNrs, BaseNrs
  <2>2. QED
    BY <1>1, <1>2, <2>1
<1>4. IsFiniteSet(schedhash) /\ IsFiniteSet(B) /\ IsFiniteSet(C)
  <2>1. B \in SUBSET SchedNrs /\ C \in SUBSET SchedNrs /\ schedhash \in SUBSET SchedNrs
    BY <1>1, <1>2
  <2>2. QED
    BY <2>1, NrsFinite, FS_Subset
<1>5. Cardinality(C) = Cardinality(B)
  <2>1. PICK r : r = [i \in B |-> i + N]
    OBVIOUS
  <2>2. \A i \in B : r[i] \in C
    BY <1>1, <1>2, <1>3, <2>1, Nrs
  <2>3. \A i, j \in B : r[i] = r[j] => i = j
    BY <1>3, <2>1, TwoNumbers
  <2>4. ASSUME NEW s \in C PROVE \E i \in B : r[i] = s
    <3>1. PICK i \in BaseNrs : s = i + N
      <4>1. PICK i \in BaseNrs : s \in {i, i + N}
        BY <1>1, <1>2, TwoNumbers
      <4>2. s # i
        BY <1>2, <4>1, Nrs DEF BaseNrs
      <4>3. QED
        BY <4>1, <4>2
    <3>2. i \in B
      BY <1>1, <1>2, <3>1, Nrs
    <3>3. QED
      BY <2>1, <3>1, <3>2
  <2>5. r \in Bijection(B, C)
    BY <2>1, <2>2, <2>3, <2>4 DEF Bijection, Injection, Surjection, IsInjective
  <2>6. QED
    BY <1>4, <2>5, FS_Bijection DEF ExistsBijection
<1>6. schk_count = Cardinality(schedhash)
  <2>1. {s \in SchedNrs : schk[s] # NULL} = schedhash
    BY <1>1
  <2>2. QED
    BY <2>1 DEF schk_count
<1>7. schk_count = 2 * Cardinality(B) /\ Cardinality(B) \in Nat
  <2>1. Cardinality(B \cup C) = Cardinality(B) + Cardinality(C) - Cardinality(B \cap C)
    BY <1>4, FS_Union
  <2>2. Cardinality(B \cap C) = 0
    BY <1>3, FS_EmptySet
  <2>3. Cardinality(B) \in Nat
    BY <1>4, FS_CardinalityType
  <2>4. QED
    BY <1>3, <1>5, <1>6, <2>1, <2>2, <2>3
<1>8. schk_count \div 2 = Cardinality(B)
  BY <1>7
<1>9. Shown(req) = B \/ Shown(req) = C
  BY <1>2 DEF Shown
<1>10. QED
  BY <1>2, <1>4, <1>5, <1>7, <1>8, <1>9

LEMMA Within ==
  ASSUME NEW S, IsFiniteSet(S), NEW T, T \subseteq S
  PROVE  Cardinality(T) <= Cardinality(S) /\ IsFiniteSet(T) /\ Cardinality(T) \in Nat
<1>1. T \in SUBSET S
  OBVIOUS
<1>2. QED
  BY <1>1, FS_Subset, FS_CardinalityType

\* The flowsets, the queues and the instances are counted one by one.
LEMMA Counted ==
  ASSUME ListsInv
  PROVE  /\ \A F : F \subseteq {f \in FsNrs : fsk[f] # NULL} => Cardinality(F) <= fsk_count
         /\ \A Q : Q \subseteq WithQueue => Cardinality(Q) <= queue_count
         /\ \A I : I \subseteq WithInst => Cardinality(I) <= si_count
         /\ \A I, Q : I \subseteq WithInst /\ Q \subseteq WithQueue =>
              Cardinality(I \cup Q) <= si_count + queue_count
<1>1. IsFiniteSet({f \in FsNrs : fsk[f] # NULL}) /\ IsFiniteSet(WithQueue)
      /\ IsFiniteSet(WithInst)
  <2>1. {f \in FsNrs : fsk[f] # NULL} \subseteq FsNrs /\ WithQueue \subseteq FsNrs
        /\ WithInst \subseteq SchedNrs
    BY DEF WithQueue, WithInst
  <2>2. QED
    BY <2>1, NrsFinite, Within
<1>2. \A F : F \subseteq {f \in FsNrs : fsk[f] # NULL} => Cardinality(F) <= fsk_count
  BY <1>1, Within DEF fsk_count
<1>3. \A Q : Q \subseteq WithQueue => Cardinality(Q) <= queue_count
  BY <1>1, Within DEF queue_count
<1>4. \A I : I \subseteq WithInst => Cardinality(I) <= si_count
  BY <1>1, Within DEF si_count
<1>5. ASSUME NEW I, NEW Q, I \subseteq WithInst, Q \subseteq WithQueue
      PROVE  Cardinality(I \cup Q) <= si_count + queue_count
  <2>1. IsFiniteSet(I) /\ IsFiniteSet(Q) /\ Cardinality(I) \in Nat /\ Cardinality(Q) \in Nat
    BY <1>1, <1>5, Within
  <2>2. Cardinality(I \cup Q) = Cardinality(I) + Cardinality(Q) - Cardinality(I \cap Q)
    BY <2>1, FS_Union
  <2>3. Cardinality(I \cap Q) \in Nat
    BY <2>1, Within
  <2>4. Cardinality(I) <= si_count /\ Cardinality(Q) <= queue_count
    BY <1>3, <1>4, <1>5
  <2>5. si_count \in Nat /\ queue_count \in Nat
    BY <1>1, FS_CardinalityType DEF si_count, queue_count
  <2>6. QED
    BY <2>1, <2>2, <2>3, <2>4, <2>5
<1>6. QED
  BY <1>2, <1>3, <1>4, <1>5

LEMMA QueuesHaveFs == UserFs \subseteq {f \in FsNrs : fsk[f] # NULL}
BY Nrs DEF UserFs

LEMMA ReplyFits ==
  ASSUME ListsInv, TwinsInv, Ready, NEW req \in Requests, NEW k \in DOMAIN Reply(req)
  PROVE  Cardinality(Reply(req)[k]) <= compute_space(req)[k]
<1>1. PICK S, half : S = Shown(req) /\ half = schk_count \div 2
  OBVIOUS
<1>2. Cardinality(S) = half /\ half \in Nat /\ S \subseteq schedhash /\ IsFiniteSet(S)
  BY <1>1, HalfIsShown
<1>3. \A T : T \subseteq S => Cardinality(T) <= half
  BY <1>2, Within
<1>4. CASE req = "DN_FS"
  <2>1. Reply(req) = [dn_fs |-> UserFs, dn_flow |-> UserFs \cap WithQueue]
        /\ compute_space(req) = [dn_fs |-> fsk_count, dn_flow |-> queue_count]
    BY <1>4 DEF Reply, compute_space, copy_flowset
  <2>2. Cardinality(UserFs) <= fsk_count /\ Cardinality(UserFs \cap WithQueue) <= queue_count
    BY Counted, QueuesHaveFs
  <2>3. QED
    BY <2>1, <2>2
<1>5. CASE req = "DN_GET_COMPAT"
  <2>1. PICK P : P = {s \in S : schk[s].type = FIFO}
    OBVIOUS
  <2>2. Reply(req) = [dn_pipe |-> P, dn_flow_set |-> UserFs,
                      dn_flow_queue |-> (P \cap WithInst) \cup (UserFs \cap WithQueue)]
    <3>1. Reply(req) = copy_data_helper_compat(S)
      BY <1>1, <1>5 DEF Reply
    <3>2. QED
      BY <2>1, <3>1 DEF copy_data_helper_compat, dn_compat_copy_pipe, dn_compat_copy_queue
  <2>3. compute_space(req) = [dn_pipe |-> half, dn_flow_set |-> fsk_count,
                              dn_flow_queue |-> si_count + queue_count]
    BY <1>1, <1>5 DEF compute_space, dn_compat_calc_size
  <2>4. /\ Cardinality(P) <= half /\ Cardinality(UserFs) <= fsk_count
        /\ Cardinality((P \cap WithInst) \cup (UserFs \cap WithQueue)) <= si_count + queue_count
    <3>1. P \subseteq S /\ P \cap WithInst \subseteq WithInst
          /\ UserFs \cap WithQueue \subseteq WithQueue
      BY <2>1
    <3>2. QED
      BY <1>3, <3>1, Counted, QueuesHaveFs
  <2>5. k = "dn_pipe" \/ k = "dn_flow_set" \/ k = "dn_flow_queue"
    BY <2>2
  <2>6. CASE k = "dn_pipe"
    BY <2>2, <2>3, <2>4, <2>6
  <2>7. CASE k = "dn_flow_set"
    BY <2>2, <2>3, <2>4, <2>7
  <2>8. CASE k = "dn_flow_queue"
    BY <2>2, <2>3, <2>4, <2>8
  <2>9. QED
    BY <2>5, <2>6, <2>7, <2>8
<1>6. CASE req \in {"DN_LINK", "DN_SCH"}
  <2>1. PICK R, D, F, I : /\ R = {s \in S : schk[s].profile} /\ D = {s \in S : schk[s].fs # NULL}
                          /\ F = UNION {fsk_list[s] \cap BaseNrs : s \in S}
                          /\ I = S \cap WithInst
    OBVIOUS
  <2>2. Reply(req) = [dn_link |-> S, dn_sch |-> S, dn_id |-> S, dn_profile |-> R, dn_fs |-> D,
                      fs_nr |-> F, dn_flow |-> I]
    <3>1. Reply(req) = copy_data_helper(S)
      BY <1>1, <1>6 DEF Reply
    <3>2. QED
      BY <2>1, <3>1 DEF copy_data_helper
  <2>3. compute_space(req) =
          [dn_link |-> half, dn_sch |-> half, dn_id |-> half, dn_profile |-> half,
           dn_fs |-> half, fs_nr |-> fsk_count, dn_flow |-> si_count]
    BY <1>1, <1>6 DEF compute_space
  <2>4. Cardinality(S) <= half /\ Cardinality(R) <= half /\ Cardinality(D) <= half
    BY <1>3, <2>1
  <2>5. Cardinality(F) <= fsk_count /\ Cardinality(I) <= si_count
    <3>1. ASSUME NEW f \in F PROVE f \in FsNrs /\ fsk[f] # NULL
      <4>1. PICK s \in S : f \in fsk_list[s]
        BY <2>1
      <4>2. s \in SchedNrs
        BY <1>2 DEF ListsInv
      <4>3. f \in FsNrs /\ FsOK(State, f)
        BY <4>1, <4>2, StateIs DEF ListsInv, GOK, GType
      <4>4. QED
        BY <4>1, <4>2, <4>3, StateIs DEF FsOK
    <3>2. F \subseteq {f \in FsNrs : fsk[f] # NULL} /\ I \subseteq WithInst
      BY <2>1, <3>1
    <3>3. QED
      BY <3>2, Counted
  <2>6. k \in {"dn_link", "dn_sch", "dn_id", "dn_profile", "dn_fs", "fs_nr", "dn_flow"}
    BY <2>2
  <2>7. CASE k \in {"dn_link", "dn_sch", "dn_id", "dn_profile"}
    BY <2>2, <2>3, <2>4, <2>7
  <2>8. CASE k \in {"dn_fs", "fs_nr", "dn_flow"}
    BY <2>2, <2>3, <2>4, <2>5, <2>8
  <2>9. QED
    BY <2>6, <2>7, <2>8
<1>7. QED
  BY <1>4, <1>5, <1>6 DEF Requests

LEMMA CountersFollow == ListsInv /\ TwinsInv => CountersOK
<1> SUFFICES ASSUME ListsInv, TwinsInv PROVE CountersOK
  OBVIOUS
<1>1. ASSUME NEW s \in SchedNrs, schk[s] # NULL
      PROVE  schk[s].q_count = Cardinality({f \in FsNrs : fsk[f] # NULL /\ fsk[f].qht = s})
  <2>1. Queues(State, s) = {f \in FsNrs : fsk[f] # NULL /\ fsk[f].qht = s}
    BY StateIs DEF Queues
  <2>2. schk[s].q_count = Cardinality(Queues(State, s))
    BY <1>1, StateIs DEF ListsInv, GOK, CountOK
  <2>3. QED
    BY <2>1, <2>2
<1>2. Ready => \A req \in Requests : \A k \in DOMAIN Reply(req) :
        Cardinality(Reply(req)[k]) <= compute_space(req)[k]
  BY ReplyFits
<1>3. QED
  BY <1>1, <1>2, Zenon DEF CountersOK

\* q_count is the number of queues of a scheduler, and the room that compute_space()
\* reckons from the counters of objects is enough for every reply of dummynet_get(): what
\* it takes for the pipes is half of the schedulers, which is why this needs the twins
\* and so that no malloc() fails.
THEOREM CountersAgree == ~AllocMayFail => (Spec => []CountersOK)
<1> SUFFICES ASSUME ~AllocMayFail PROVE Spec => []CountersOK
  OBVIOUS
<1>1. Init => TwinsInv
  BY DEF Init, TwinsInv, TwinsOK, Twins
<1>2. ListsInv /\ TwinsInv /\ [Next]_vars => TwinsInv'
  BY TwinsNext
<1>3. QED
  BY <1>1, <1>2, CountersFollow, ConfigInvariant, PTL DEF Spec

=============================================================================
