--------------------------- MODULE DnPipe_proofs ---------------------------
(***************************************************************************)
(* Proofs about the data path of dummynet, for any number of flows,        *)
(* threads and packets, any link, and whatever allocation fails.           *)
(*                                                                         *)
(* The first part is about the instances and the event heap: types, flags, *)
(* delay lines and events agree (HeapInv), and what is marked as being in  *)
(* the heap is there (MarkedIsInHeap).  The second part is about the       *)
(* packets:                                                                *)
(*   - none passes another of its flow (OrderKept), and none is lost,      *)
(*     duplicated or freed twice (NoPacketLost);                           *)
(*   - when heap_insert() does not fail, what waits has its event at the   *)
(*     right time, and no event is overdue (NothingForgotten);             *)
(*   - no packet leaves before the link could have sent it, but for a      *)
(*     bounded allowance (NotTooFast).                                     *)
(***************************************************************************)
EXTENDS DnPipe, ProofLemmas

\* The type of an instance, of a packet chain and of a heap entry.
SiType == [alive : BOOLEAN, active : BOOLEAN, dlheap : BOOLEAN, credit : Int,
           sched_time : Nat, idle_time : Nat]
EventType == [key : Nat, kind : Kinds, inst : Insts]

-----------------------------------------------------------------------------
\* A link has natural parameters, whichever it is.
LEMMA LinkType ==
  ASSUME NEW l \in Links
  PROVE  l.bandwidth \in Nat /\ l.delay \in Nat /\ l.burst \in Nat
BY ParamAssumption

\* si_reset_credit() gives the instance a type-correct credit.
LEMMA ResetCreditType ==
  ASSUME NEW s \in SiType, NEW l \in Links, curr_time \in Nat
  PROVE  /\ ResetCredit(s, l) \in SiType
         /\ ResetCredit(s, l).alive = s.alive
         /\ ResetCredit(s, l).active = s.active
         /\ ResetCredit(s, l).dlheap = s.dlheap
<1> DEFINE c == l.burst + IF IoFast THEN l.bandwidth ELSE 0
<1>1. c \in Int
  BY LinkType
<1>2. ResetCredit(s, l) = [s EXCEPT !.idle_time = curr_time, !.credit = c]
  BY Zenon DEF ResetCredit
<1> HIDE DEF c
<1>3. QED
  BY <1>1, <1>2 DEF SiType

\* The instance that ipdn_si_find() returns is alive, and is the one that was
\* there before if there was one.
LEMMA SiFindType ==
  ASSUME TypeOK, NEW i \in Insts
  PROVE  /\ SiFind(i) \in SiType
         /\ SiFind(i).alive
         /\ si[i].alive => SiFind(i) = si[i]
         /\ ~si[i].alive => ~SiFind(i).active /\ ~SiFind(i).dlheap
<1>1. NoInst \in SiType
  BY DEF NoInst, SiType
<1>2. [NoInst EXCEPT !.alive = TRUE] \in SiType
  BY <1>1 DEF SiType
<1>3. QED
  BY <1>1, <1>2, ResetCreditType DEF SiFind, TypeOK, NoInst, SiType

\* The initial allowance keeps the flags of the instance.
LEMMA InitialAllowanceType ==
  ASSUME TypeOK, NEW s \in SiType
  PROVE  /\ InitialAllowance(s) \in SiType
         /\ InitialAllowance(s).alive = s.alive
         /\ InitialAllowance(s).active = s.active
         /\ InitialAllowance(s).dlheap = s.dlheap
<1> DEFINE c == (IF IoFast THEN link.bandwidth ELSE 0)
                + Smaller((curr_time - s.idle_time) * link.bandwidth, link.burst)
<1>1. /\ link.bandwidth \in Nat /\ link.burst \in Nat /\ curr_time \in Nat
      /\ s.idle_time \in Nat
  BY LinkType DEF TypeOK, SiType
<1>2. (curr_time - s.idle_time) * link.bandwidth \in Int
  BY <1>1
<1>3. c \in Int
  BY <1>1, <1>2 DEF Smaller
<1>4. \/ InitialAllowance(s) = s
      \/ InitialAllowance(s) = [s EXCEPT !.sched_time = curr_time, !.credit = c]
  BY Zenon DEF InitialAllowance
<1> HIDE DEF c
<1>5. QED
  BY <1>1, <1>3, <1>4 DEF SiType

\* serve_sched() starts with the instance marked as not in the heap; without a
\* bandwidth its credit is 0.
LEMMA ServeEnterType ==
  ASSUME TypeOK, NEW s \in SiType
  PROVE  /\ ServeEnter(s) \in SiType
         /\ ServeEnter(s).alive = s.alive
         /\ ~ServeEnter(s).active
         /\ ServeEnter(s).dlheap = s.dlheap
         /\ link.bandwidth = 0 => ServeEnter(s).credit >= 0
<1> DEFINE c == IF link.bandwidth > 0
                THEN s.credit + (curr_time - s.sched_time) * link.bandwidth
                ELSE 0
<1>1. /\ link.bandwidth \in Nat /\ curr_time \in Nat
      /\ s.sched_time \in Nat /\ s.credit \in Int
  BY LinkType DEF TypeOK, SiType
<1>2. (curr_time - s.sched_time) * link.bandwidth \in Int
  BY <1>1
<1>3. c \in Int /\ (link.bandwidth = 0 => c = 0)
  BY <1>1, <1>2
<1>4. ServeEnter(s) = [s EXCEPT !.active = FALSE, !.credit = c, !.sched_time = curr_time]
  BY Zenon DEF ServeEnter
<1> HIDE DEF c
<1>5. ServeEnter(s) \in SiType /\ ServeEnter(s).credit = c /\ ~ServeEnter(s).active
  BY <1>1, <1>3, <1>4 DEF SiType
<1>6. ServeEnter(s).alive = s.alive /\ ServeEnter(s).dlheap = s.dlheap
  BY <1>4 DEF SiType
<1>7. QED
  BY <1>1, <1>3, <1>5, <1>6

\* A debt is paid back in at least one tick.
LEMMA TicksToPayType ==
  ASSUME TypeOK, NEW c \in Int, c < 0, link.bandwidth # 0
  PROVE  TicksToPay(c) \in Nat /\ TicksToPay(c) >= 1
<1> DEFINE b == link.bandwidth
<1>1. b \in Nat /\ b > 0
  BY LinkType DEF TypeOK
<1>2. b - 1 - c \in Int /\ b - 1 - c >= b
  BY <1>1
<1> HIDE DEF b
<1>3. (b - 1 - c) \div b \in Int /\ (b - 1 - c) \div b >= 1
  BY <1>1, <1>2
<1>4. QED
  BY <1>3 DEF TicksToPay, b

-----------------------------------------------------------------------------
\* The chains: what is released and what is left are chains.
LEMMA ChainType ==
  ASSUME NEW S, NEW d \in Seq(S), NEW n \in 0..Len(d)
  PROVE  /\ SubSeq(d, 1, n) \in Seq(S)
         /\ Rest(d, n) \in Seq(S)
         /\ Rest(d, n) # <<>> <=> n < Len(d)
<1>1. Len(d) \in Nat /\ n \in Nat /\ n <= Len(d)
  OBVIOUS
<1>2. SubSeq(d, 1, n) \in Seq(S)
  BY <1>1
<1>3. Rest(d, n) \in Seq(S) /\ Len(Rest(d, n)) = Len(d) - n
  BY <1>1 DEF Rest
<1>4. QED
  BY <1>1, <1>2, <1>3

\* heap_insert() keeps the type of the heap and adds at most one entry.
LEMMA HeapInsertType ==
  ASSUME NEW h, NEW e, NEW g \in HeapInsert(h, e)
  PROVE  /\ h \subseteq g
         /\ g \subseteq h \cup {e}
         /\ ~AllocMayFail => g = h \cup {e}
BY DEF HeapInsert

\* The same for the heap transmit_event() leaves.
LEMMA DlineReinsertType ==
  ASSUME NEW h, NEW i, NEW d, NEW n, NEW g \in DlineReinsert(h, i, d, n)
  PROVE  /\ h \subseteq g
         /\ g \subseteq h \cup IF n < Len(d) THEN {Event(d[n + 1].out, "dl", i)} ELSE {}
         /\ ~AllocMayFail /\ n < Len(d) => Event(d[n + 1].out, "dl", i) \in g
BY HeapInsertType DEF DlineReinsert

\* The initial states satisfy the invariant.
LEMMA EmptyInv ==
  ASSUME EmptyPipe, curr_time \in Nat, si \in [Insts -> SiType],
         \A i \in Insts : ~si[i].active /\ ~si[i].dlheap
  PROVE  HeapInv
<1> USE DEF EmptyPipe
<1>1. TypeOK
  <2>1. NoServe \in [inst : Insts \cup {Free}, dlidle : BOOLEAN, done : BOOLEAN, m0 : Nat]
    BY DEF NoServe
  <2>2. si \in [Insts -> SiType]
    OBVIOUS
  <2>3. /\ queue \in [Insts -> Seq(Packet)] /\ dline \in [Insts -> Seq(Leaving)]
        /\ tx \in [Senders -> Seq(Leaving)]
        /\ gone \in Seq({"inside", "delivered", "freed"})
    OBVIOUS
  <2>4. profile \in BOOLEAN /\ panicked \in BOOLEAN /\ link \in Links
    OBVIOUS
  <2>5. /\ evheap \subseteq [key : Nat, kind : Kinds, inst : Insts]
        /\ lock \in Senders \cup {Free} /\ pc \in {"none", "events", "serve"}
        /\ curr_time \in Nat /\ nextid \in Nat \ {0} /\ nconf \in Nat
        /\ ideal \in [Insts -> Nat]
    OBVIOUS
  <2>6. QED
    BY <2>1, <2>2, <2>3, <2>4, <2>5, Zenon DEF TypeOK, SiType
<1>2. Section
  BY DEF Section
<1>3. Flags
  BY DEF Flags
<1>4. NoDanglingEvent /\ UniqueEvents
  BY DEF NoDanglingEvent, UniqueEvents
<1>5. QED
  BY <1>1, <1>2, <1>3, <1>4 DEF HeapInv

LEMMA InitInv == Init => HeapInv
<1>1. NoInst \in SiType /\ ~NoInst.active /\ ~NoInst.dlheap
  BY DEF NoInst, SiType
<1>2. QED
  BY <1>1, EmptyInv DEF Init

\* So do those of the system that has been running for a tick.
LEMMA WarmInv == WarmInit => HeapInv
<1> SUFFICES ASSUME WarmInit PROVE HeapInv
  OBVIOUS
<1>1. PICK c : c = link.burst + IF IoFast THEN link.bandwidth ELSE 0
  OBVIOUS
<1>2. c \in Int
  BY <1>1, LinkType DEF WarmInit, EmptyPipe
<1>3. NoInst \in SiType /\ ~NoInst.active /\ ~NoInst.dlheap
  BY DEF NoInst, SiType
<1>4. PICK w : w = [NoInst EXCEPT !.alive = TRUE, !.credit = c]
  OBVIOUS
<1>5. w \in SiType /\ ~w.active /\ ~w.dlheap
  BY <1>2, <1>3, <1>4 DEF SiType
<1>6. si = [i \in Insts |-> w]
  BY <1>1, <1>4 DEF WarmInit
<1>7. curr_time \in Nat /\ EmptyPipe
  BY DEF WarmInit
<1>8. QED
  BY <1>5, <1>6, <1>7, EmptyInv

-----------------------------------------------------------------------------
\* A step that leaves the instances, the heap and the lock alone preserves all
\* but the types.
LEMMA FrameStep ==
  ASSUME HeapInv, UNCHANGED <<link, si, dline, evheap, lock, pc, srv>>
  PROVE  Section' /\ Flags' /\ NoDanglingEvent' /\ UniqueEvents'
BY DEF HeapInv, Section, Flags, Serving, NoDanglingEvent, UniqueEvents

LEMMA IoNoMemoryInv ==
  ASSUME HeapInv, NEW th \in Threads, IoNoMemory(th)
  PROVE  HeapInv'
<1>1. /\ gone' \in Seq({"inside", "delivered", "freed"})
      /\ nextid' \in Nat \ {0}
  BY DEF HeapInv, TypeOK, IoNoMemory
<1>2. TypeOK'
  BY <1>1, Zenon DEF HeapInv, TypeOK, IoNoMemory
<1>3. QED
  BY <1>2, FrameStep DEF HeapInv, IoNoMemory

LEMMA SendInv ==
  ASSUME HeapInv, NEW s \in Senders, Send(s)
  PROVE  HeapInv'
<1>1. gone' \in Seq({"inside", "delivered", "freed"})
  <2> DEFINE fate == IF Head(tx[s]).drop THEN "freed" ELSE "delivered"
             k == Head(tx[s]).id
  <2>1. gone' = [gone EXCEPT ![k] = fate] /\ fate \in {"inside", "delivered", "freed"}
    BY DEF Send
  <2>2. gone \in Seq({"inside", "delivered", "freed"})
    BY DEF HeapInv, TypeOK
  <2> HIDE DEF fate, k
  <2>3. gone \in [1..Len(gone) -> {"inside", "delivered", "freed"}] /\ Len(gone) \in Nat
    BY <2>2
  <2>4. gone' \in [1..Len(gone) -> {"inside", "delivered", "freed"}]
    BY <2>1, <2>3
  <2>5. QED
    BY <2>3, <2>4
<1>2. tx' \in [Senders -> Seq(Leaving)]
  BY DEF HeapInv, TypeOK, Send
<1>3. TypeOK'
  BY <1>1, <1>2, Zenon DEF HeapInv, TypeOK, Send
<1>4. QED
  BY <1>3, FrameStep DEF HeapInv, Send

LEMMA ConfigProfileInv ==
  ASSUME HeapInv, ConfigProfile
  PROVE  HeapInv'
<1>1. profile' \in BOOLEAN /\ nconf' \in Nat
  BY DEF HeapInv, TypeOK, ConfigProfile, MayConfigure
<1>2. TypeOK'
  BY <1>1, Zenon DEF HeapInv, TypeOK, ConfigProfile
<1>3. QED
  BY <1>2, FrameStep DEF HeapInv, ConfigProfile

LEMMA TaskTickInv ==
  ASSUME HeapInv, NEW step \in TickSteps, TaskTick(step)
  PROVE  HeapInv'
<1>1. curr_time' \in Nat /\ lock' \in Senders \cup {Free} /\ pc' = "events"
  BY ParamAssumption DEF HeapInv, TypeOK, TaskTick, Senders
<1>2. TypeOK'
  BY <1>1, Zenon DEF HeapInv, TypeOK, TaskTick
<1>3. Section'
  BY DEF HeapInv, Section, TaskTick, Task, Free
<1>4. Flags' /\ NoDanglingEvent' /\ UniqueEvents'
  BY DEF HeapInv, Section, Flags, Serving, NoDanglingEvent, UniqueEvents, TaskTick
<1>5. QED
  BY <1>2, <1>3, <1>4 DEF HeapInv

\* An instance may be created, or its times and credit changed, when nobody
\* holds the lock.
LEMMA SiStep ==
  ASSUME HeapInv, lock = Free, UNCHANGED <<dline, evheap, lock, pc, srv>>,
         si' \in [Insts -> SiType],
         \A i \in Insts :
           /\ si[i].alive => si'[i].alive
           /\ si'[i].active = si[i].active
           /\ si'[i].dlheap = si[i].dlheap
  PROVE  Section' /\ Flags' /\ NoDanglingEvent' /\ UniqueEvents'
<1>1. pc = "none" /\ evheap \subseteq EventType
  BY DEF HeapInv, Section, TypeOK, EventType
<1>2. Section'
  BY <1>1 DEF HeapInv, Section
<1>3. Flags'
  BY <1>1 DEF HeapInv, Flags, Serving
<1>4. NoDanglingEvent' /\ UniqueEvents'
  BY <1>1 DEF HeapInv, NoDanglingEvent, UniqueEvents, EventType
<1>5. QED
  BY <1>2, <1>3, <1>4

LEMMA IoDropInv ==
  ASSUME HeapInv, NEW th \in Threads, NEW i \in Insts, IoDrop(th, i)
  PROVE  HeapInv'
<1>1. TypeOK
  BY DEF HeapInv
<1>2. si' \in [Insts -> SiType]
  BY <1>1, SiFindType DEF TypeOK, IoDrop, SiType
<1>3. \A j \in Insts : /\ si[j].alive => si'[j].alive
                       /\ si'[j].active = si[j].active
                       /\ si'[j].dlheap = si[j].dlheap
  <2> SUFFICES ASSUME NEW j \in Insts
               PROVE  /\ si[j].alive => si'[j].alive
                      /\ si'[j].active = si[j].active
                      /\ si'[j].dlheap = si[j].dlheap
    OBVIOUS
  <2>1. CASE j = i
    <3>1. si'[i] = SiFind(i)
      BY <1>1 DEF TypeOK, IoDrop
    <3>2. CASE si[i].alive
      BY <1>1, <2>1, <3>1, <3>2, SiFindType
    <3>3. CASE ~si[i].alive
      <4>1. ~si[i].active /\ ~si[i].dlheap
        BY <3>3 DEF HeapInv, Flags
      <4>2. /\ SiFind(i).active \in BOOLEAN /\ SiFind(i).dlheap \in BOOLEAN
            /\ si[i].active \in BOOLEAN /\ si[i].dlheap \in BOOLEAN
        BY <1>1, SiFindType DEF SiType, TypeOK
      <4>3. ~SiFind(i).active /\ ~SiFind(i).dlheap
        BY <1>1, <3>3, SiFindType
      <4>4. QED
        BY <2>1, <3>1, <3>3, <4>1, <4>2, <4>3, Zenon
    <3>4. QED
      BY <3>2, <3>3
  <2>2. CASE j # i
    BY <1>1, <2>2 DEF TypeOK, IoDrop
  <2>3. QED
    BY <2>1, <2>2
<1>4. TypeOK'
  <2>1. /\ gone' \in Seq({"inside", "delivered", "freed"})
        /\ nextid' \in Nat \ {0}
    BY <1>1 DEF TypeOK, IoDrop
  <2>2. QED
    BY <1>1, <1>2, <2>1, Zenon DEF TypeOK, IoDrop, SiType
<1>5. Section' /\ Flags' /\ NoDanglingEvent' /\ UniqueEvents'
  BY <1>2, <1>3, SiStep DEF IoDrop, MayArrive
<1>6. QED
  BY <1>4, <1>5 DEF HeapInv

LEMMA ConfigLinkInv ==
  ASSUME HeapInv, NEW l \in Links, ConfigLink(l)
  PROVE  HeapInv'
<1>1. TypeOK
  BY DEF HeapInv
<1>2. /\ si' \in [Insts -> SiType]
      /\ \A i \in Insts : /\ si[i].alive => si'[i].alive
                           /\ si'[i].active = si[i].active
                           /\ si'[i].dlheap = si[i].dlheap
  <2>1. si \in [Insts -> SiType] /\ curr_time \in Nat
    BY <1>1 DEF TypeOK, SiType
  <2>2. si' = [i \in Insts |-> IF si[i].alive THEN ResetCredit(si[i], l) ELSE si[i]]
    BY DEF ConfigLink
  <2>3. QED
    BY <2>1, <2>2, ResetCreditType
<1>3. TypeOK'
  <2>1. nconf' \in Nat /\ profile' = FALSE /\ link' \in Links
    BY <1>1 DEF TypeOK, ConfigLink, MayConfigure
  <2>2. QED
    BY <1>1, <1>2, <2>1, Zenon DEF TypeOK, ConfigLink, SiType
<1>4. Section' /\ Flags' /\ NoDanglingEvent' /\ UniqueEvents'
  BY <1>2, SiStep DEF ConfigLink, MayConfigure
<1>5. QED
  BY <1>3, <1>4 DEF HeapInv

-----------------------------------------------------------------------------
\* dummynet_io() queues a packet; serve_sched() starts on the instance if it
\* was not in the heap.
LEMMA IoEnqueueInv ==
  ASSUME HeapInv, NEW th \in Threads, NEW i \in Insts, NEW len \in Lens,
         IoEnqueue(th, i, len)
  PROVE  HeapInv'
<1> DEFINE s == SiFind(i)
<1>1. TypeOK /\ lock = Free /\ pc = "none" /\ si \in [Insts -> SiType]
  BY DEF HeapInv, TypeOK, Section, IoEnqueue, MayArrive, SiType
<1>2. /\ s \in SiType /\ s.alive
      /\ si[i].alive => s = si[i]
      /\ ~si[i].alive => ~s.active /\ ~s.dlheap
  BY <1>1, SiFindType
<1>3. RealFinish(i, len) \in Nat
  <2>1. link.bandwidth \in Nat /\ curr_time \in Nat /\ ideal[i] \in Nat /\ len \in Nat
    BY <1>1, LinkType, ParamAssumption DEF TypeOK
  <2>2. curr_time * link.bandwidth \in Nat
    BY <2>1
  <2>3. QED
    BY <2>1, <2>2 DEF RealFinish
<1>4. /\ queue' \in [Insts -> Seq(Packet)] /\ ideal' \in [Insts -> Nat]
      /\ nextid' \in Nat \ {0} /\ gone' \in Seq({"inside", "delivered", "freed"})
  <2>1. [id |-> nextid, len |-> len, fin |-> RealFinish(i, len)] \in Packet
    BY <1>1, <1>3, ParamAssumption DEF TypeOK, Packet
  <2>2. queue' \in [Insts -> Seq(Packet)]
    BY <1>1, <2>1 DEF TypeOK, IoEnqueue, MqAppend
  <2>3. ideal' \in [Insts -> Nat]
    BY <1>1, <1>3 DEF TypeOK, IoEnqueue
  <2>4. nextid' \in Nat \ {0} /\ gone' \in Seq({"inside", "delivered", "freed"})
    BY <1>1 DEF TypeOK, IoEnqueue
  <2>5. QED
    BY <2>2, <2>3, <2>4
<1>5. CASE s.active
  <2>1. si[i].alive /\ s = si[i]
    BY <1>2, <1>5
  <2>2. si' = si /\ UNCHANGED <<lock, pc, srv>>
    BY <1>1, <1>5, <2>1 DEF IoEnqueue
  <2>3. TypeOK'
    BY <1>1, <1>4, <2>2, Zenon DEF TypeOK, IoEnqueue
  <2>4. QED
    BY <2>2, <2>3, FrameStep DEF HeapInv, IoEnqueue
<1>6. CASE ~s.active
  <2> DEFINE t == ServeEnter(InitialAllowance(s))
  <2>1. /\ t \in SiType /\ t.alive /\ ~t.active /\ t.dlheap = s.dlheap
        /\ link.bandwidth = 0 => t.credit >= 0
    BY <1>1, <1>2, InitialAllowanceType, ServeEnterType
  <2>2. /\ si' = [si EXCEPT ![i] = t] /\ lock' = th /\ pc' = "serve"
        /\ srv' = [inst |-> i, dlidle |-> dline[i] = <<>>, done |-> FALSE, m0 |-> nextid]
        /\ UNCHANGED <<link, dline, evheap>>
    BY <1>6 DEF IoEnqueue
  <2> HIDE DEF s, t
  <2>3. si' \in [Insts -> SiType] /\ si'[i] = t /\ \A j \in Insts \ {i} : si'[j] = si[j]
    BY <1>1, <2>1, <2>2
  <2>4. /\ srv' \in [inst : Insts \cup {Free}, dlidle : BOOLEAN, done : BOOLEAN, m0 : Nat]
        /\ srv'.inst = i /\ ~srv'.done /\ (srv'.dlidle <=> dline[i] = <<>>)
    BY <1>1, <2>2 DEF TypeOK
  <2>5. TypeOK'
    <3>1. lock' \in Senders \cup {Free} /\ pc' \in {"none", "events", "serve"}
      BY <2>2 DEF Senders
    <3>2. QED
      BY <1>1, <1>4, <2>3, <2>4, <3>1, Zenon DEF TypeOK, IoEnqueue, SiType
  <2>6. s.dlheap => si[i].alive /\ si[i].dlheap /\ dline[i] # <<>>
    BY <1>2 DEF HeapInv, Flags, s
  <2>7. ~si[i].active
    BY <1>2, <1>6 DEF HeapInv, Flags
  <2>8. dline[i] # <<>> => s.dlheap
    BY <1>1, <1>2 DEF HeapInv, Flags, Serving
  <2>9. Section'
    BY <1>1, <2>1, <2>2, <2>3, <2>4, <2>6, ThreadAssumption DEF Section, Task
  <2>10. Flags'
    BY <1>1, <2>1, <2>2, <2>3, <2>4, <2>6, <2>8 DEF HeapInv, Flags, Serving
  <2>11. NoDanglingEvent' /\ UniqueEvents'
    <3>1. \A e \in evheap : e.inst \in Insts
      BY <1>1 DEF TypeOK
    <3>2. \A e \in evheap : e.inst = i => e.kind # "si" /\ (e.kind = "dl" => t.dlheap)
      BY <2>1, <2>7, <2>8, <3>1 DEF HeapInv, NoDanglingEvent
    <3>3. QED
      BY <2>1, <2>2, <2>3, <3>1, <3>2 DEF HeapInv, NoDanglingEvent, UniqueEvents
  <2>12. QED
    BY <2>5, <2>9, <2>10, <2>11 DEF HeapInv
<1>7. QED
  BY <1>5, <1>6

\* serve_sched(): one packet goes to the delay line.
LEMMA ServeDequeueInv ==
  ASSUME HeapInv, ServeDequeue
  PROVE  HeapInv'
<1> DEFINE i == srv.inst
           m == Head(queue[i])
<1>1. /\ TypeOK /\ i \in Insts /\ pc = "serve" /\ si \in [Insts -> SiType]
      /\ si[i].credit >= 0 /\ queue[i] # <<>>
  BY DEF HeapInv, TypeOK, Section, ServeDequeue, SiType
<1>2. m \in Packet
  BY <1>1 DEF TypeOK
<1>3. PICK x \in SampleChoices :
        LET cost == IF link.bandwidth = 0 THEN 0 ELSE m.len + x.bits
        IN /\ si' = [si EXCEPT ![i].credit = @ - cost]
           /\ dline' = [dline EXCEPT ![i] =
                         MqAppend(@, [id |-> m.id, out |-> curr_time + link.delay,
                                      drop |-> x.loss, fin |-> m.fin])]
  BY DEF ServeDequeue
<1>4. x.bits \in Nat /\ x.loss \in BOOLEAN
  <2>1. CASE x \in Samples
    <3>1. x \in [bits : Nat, loss : BOOLEAN]
      BY <2>1, ParamAssumption, Zenon
    <3>2. QED
      BY <3>1
  <2>2. CASE x = [bits |-> 0, loss |-> FALSE]
    BY <2>2
  <2>3. QED
    BY <2>1, <2>2, Zenon DEF SampleChoices
<1> DEFINE cost == IF link.bandwidth = 0 THEN 0 ELSE m.len + x.bits
           p == [id |-> m.id, out |-> curr_time + link.delay,
                 drop |-> x.loss, fin |-> m.fin]
<1>5. cost \in Int /\ (link.bandwidth = 0 => cost = 0)
  BY <1>2, <1>4 DEF Packet
<1>6. p \in Leaving
  <2>0. curr_time \in Nat /\ link.delay \in Nat
    BY <1>1, LinkType DEF TypeOK
  <2> HIDE DEF m
  <2>1. curr_time + link.delay \in Nat /\ m.id \in Nat /\ m.fin \in Nat
    BY <1>2, <2>0 DEF Packet
  <2>2. QED
    BY <1>4, <2>1 DEF Leaving
<1>7. si' = [si EXCEPT ![i].credit = @ - cost] /\ dline' = [dline EXCEPT ![i] = Append(@, p)]
  BY <1>3 DEF MqAppend
<1> HIDE DEF cost, p, i
<1>8. /\ si' \in [Insts -> SiType]
      /\ \A j \in Insts : /\ si'[j].alive = si[j].alive
                           /\ si'[j].active = si[j].active
                           /\ si'[j].dlheap = si[j].dlheap
      /\ si'[i].credit = si[i].credit - cost
  <2> DEFINE c == si[i].credit - cost
  <2>1. c \in Int /\ si[i] \in SiType
    BY <1>1, <1>5 DEF SiType
  <2>2. si' = [si EXCEPT ![i] = [si[i] EXCEPT !.credit = c]]
    BY <1>1, <1>7
  <2> HIDE DEF c
  <2>3. /\ [si[i] EXCEPT !.credit = c] \in SiType
        /\ [si[i] EXCEPT !.credit = c].credit = c
        /\ [si[i] EXCEPT !.credit = c].alive = si[i].alive
        /\ [si[i] EXCEPT !.credit = c].active = si[i].active
        /\ [si[i] EXCEPT !.credit = c].dlheap = si[i].dlheap
    BY <2>1 DEF SiType
  <2>4. si' \in [Insts -> SiType] /\ si'[i] = [si[i] EXCEPT !.credit = c]
    BY <1>1, <2>2, <2>3
  <2>5. \A j \in Insts \ {i} : si'[j] = si[j]
    BY <1>1, <2>2
  <2>6. si'[i].credit = si[i].credit - cost
    BY <2>3, <2>4 DEF c
  <2>7. QED
    BY <2>3, <2>4, <2>5, <2>6
<1>9. /\ dline' \in [Insts -> Seq(Leaving)] /\ dline'[i] # <<>>
      /\ \A j \in Insts \ {i} : dline'[j] = dline[j]
  <2>1. dline \in [Insts -> Seq(Leaving)]
    BY <1>1 DEF TypeOK
  <2>2. Append(dline[i], p) \in Seq(Leaving) /\ Append(dline[i], p) # <<>>
    BY <1>1, <1>6, <2>1
  <2>3. QED
    BY <1>1, <1>7, <2>1, <2>2
<1>10. queue' \in [Insts -> Seq(Packet)]
  BY <1>1 DEF TypeOK, ServeDequeue, i
<1>11. /\ srv' \in [inst : Insts \cup {Free}, dlidle : BOOLEAN, done : BOOLEAN, m0 : Nat]
       /\ srv'.inst = i /\ srv'.done /\ srv'.dlidle = srv.dlidle
  BY <1>1 DEF TypeOK, ServeDequeue, i
<1>12. TypeOK'
  BY <1>1, <1>8, <1>9, <1>10, <1>11, Zenon DEF TypeOK, ServeDequeue, SiType
<1>13. Section'
  <2>1. link.bandwidth = 0 => si'[i].credit >= 0
    BY <1>1, <1>5, <1>8 DEF SiType
  <2>2. UNCHANGED <<lock, pc, link>>
    BY DEF ServeDequeue
  <2>3. QED
    BY <1>1, <1>8, <1>9, <1>11, <2>1, <2>2 DEF HeapInv, Section, i
<1>14. Flags'
  <2>1. dline[i] # <<>> => si[i].dlheap \/ srv.dlidle
    BY <1>1 DEF HeapInv, Flags, Serving
  <2>2. pc' = "serve" /\ pc = "serve"
    BY DEF ServeDequeue
  <2>3. \A j \in Insts : si[j].dlheap => dline'[j] # <<>>
    BY <1>9 DEF HeapInv, Flags
  <2>4. dline[i] = <<>> => srv.dlidle \/ si[i].dlheap
    BY <1>1 DEF HeapInv, Section, i
  <2>5. QED
    BY <1>1, <1>8, <1>9, <1>11, <2>1, <2>2, <2>3, <2>4 DEF HeapInv, Flags, Serving, i
<1>15. NoDanglingEvent' /\ UniqueEvents'
  <2>1. UNCHANGED evheap /\ \A e \in evheap : e.inst \in Insts
    BY <1>1 DEF TypeOK, ServeDequeue
  <2>2. QED
    BY <1>1, <1>8, <1>9, <2>1 DEF HeapInv, NoDanglingEvent, UniqueEvents
<1>16. QED
  BY <1>12, <1>13, <1>14, <1>15 DEF HeapInv

-----------------------------------------------------------------------------
\* dummynet_task() takes an instance from the heap and serves it.
LEMMA TaskServeSchedInv ==
  ASSUME HeapInv, NEW e \in evheap, TaskServeSched(e)
  PROVE  HeapInv'
<1> DEFINE i == e.inst
           t == ServeEnter(si[i])
<1>1. /\ TypeOK /\ pc = "events" /\ lock = Task /\ si \in [Insts -> SiType]
      /\ evheap \subseteq EventType /\ e.kind = "si" /\ i \in Insts
  BY DEF HeapInv, TypeOK, Section, TaskServeSched, SiType, EventType
<1>2. si[i].alive
  BY DEF HeapInv, NoDanglingEvent
<1>3. /\ t \in SiType /\ t.alive /\ ~t.active /\ t.dlheap = si[i].dlheap
      /\ link.bandwidth = 0 => t.credit >= 0
  BY <1>1, <1>2, ServeEnterType
<1>4. /\ si' = [si EXCEPT ![i] = t] /\ pc' = "serve" /\ evheap' = evheap \ {e}
      /\ srv' = [inst |-> i, dlidle |-> dline[i] = <<>>, done |-> FALSE, m0 |-> 0]
      /\ UNCHANGED <<link, dline, lock>>
  BY DEF TaskServeSched
<1> HIDE DEF t, i
<1>5. si' \in [Insts -> SiType] /\ si'[i] = t /\ \A j \in Insts \ {i} : si'[j] = si[j]
  BY <1>1, <1>3, <1>4
<1>6. /\ srv' \in [inst : Insts \cup {Free}, dlidle : BOOLEAN, done : BOOLEAN, m0 : Nat]
      /\ srv'.inst = i /\ ~srv'.done /\ (srv'.dlidle <=> dline[i] = <<>>)
  BY <1>1, <1>4
<1>7. TypeOK'
  <2>1. evheap' \subseteq EventType /\ pc' \in {"none", "events", "serve"}
    BY <1>1, <1>4
  <2>2. QED
    BY <1>1, <1>5, <1>6, <2>1, Zenon DEF TypeOK, TaskServeSched, SiType, EventType
<1>8. dline[i] # <<>> <=> si[i].dlheap
  BY <1>1 DEF HeapInv, Flags, Serving
<1>9. Section'
  BY <1>1, <1>3, <1>4, <1>5, <1>6, <1>8 DEF Section, Task, Free
<1>10. Flags'
  BY <1>1, <1>3, <1>4, <1>5, <1>6, <1>8 DEF HeapInv, Flags, Serving
<1>11. NoDanglingEvent'
  <2> SUFFICES ASSUME NEW f \in evheap'
               PROVE  /\ si'[f.inst].alive
                      /\ f.kind = "si" => si'[f.inst].active
                      /\ f.kind = "dl" => si'[f.inst].dlheap /\ dline'[f.inst] # <<>>
    BY DEF NoDanglingEvent
  <2>1. /\ f \in evheap /\ f # e /\ f.inst \in Insts
        /\ si[f.inst].alive
        /\ f.kind = "si" => si[f.inst].active
        /\ f.kind = "dl" => si[f.inst].dlheap /\ dline[f.inst] # <<>>
    BY <1>1, <1>4 DEF HeapInv, NoDanglingEvent, EventType
  <2>2. f.inst = i => f.kind # "si"
    BY <1>1, <2>1 DEF HeapInv, UniqueEvents, i
  <2>3. QED
    BY <1>3, <1>4, <1>5, <2>1, <2>2
<1>12. UniqueEvents'
  BY <1>4 DEF HeapInv, UniqueEvents
<1>13. QED
  BY <1>7, <1>9, <1>10, <1>11, <1>12 DEF HeapInv

\* dummynet_task() takes a delay line from the heap.
LEMMA TaskTransmitInv ==
  ASSUME HeapInv, NEW e \in evheap, TaskTransmit(e)
  PROVE  HeapInv'
<1> DEFINE i == e.inst
           d == dline[i]
<1>1. /\ TypeOK /\ pc = "events" /\ lock = Task /\ si \in [Insts -> SiType]
      /\ evheap \subseteq EventType /\ e.kind = "dl" /\ i \in Insts
      /\ d \in Seq(Leaving) /\ dline \in [Insts -> Seq(Leaving)]
  BY DEF HeapInv, TypeOK, Section, TaskTransmit, SiType, EventType
<1>2. PICK n \in 0..Len(d) :
        /\ evheap' \in DlineReinsert(evheap \ {e}, i, d, n)
        /\ si' = [si EXCEPT ![i].dlheap = n < Len(d)]
        /\ dline' = [dline EXCEPT ![i] = Rest(d, n)]
        /\ tx' = [tx EXCEPT ![Task] = @ \o SubSeq(d, 1, n)]
  BY DEF TaskTransmit
<1>3. /\ SubSeq(d, 1, n) \in Seq(Leaving) /\ Rest(d, n) \in Seq(Leaving)
      /\ Rest(d, n) # <<>> <=> n < Len(d)
  BY <1>1, ChainType
<1> DEFINE g == Event(d[n + 1].out, "dl", i)
           more == n < Len(d)
<1>4. /\ evheap \ {e} \subseteq evheap'
      /\ evheap' \subseteq (evheap \ {e}) \cup IF more THEN {g} ELSE {}
  BY <1>2, DlineReinsertType
<1>5. more => g \in EventType
  <2>1. more => d[n + 1] \in Leaving
    BY <1>1
  <2>2. QED
    BY <1>1, <2>1 DEF Event, EventType, Leaving, Kinds
<1>6. g.kind = "dl" /\ g.inst = i
  BY DEF Event
<1>7. more \in BOOLEAN
  OBVIOUS
<1>8. si[i].alive
  BY DEF HeapInv, NoDanglingEvent
<1> HIDE DEF more, g, i, d
<1>9. /\ si' \in [Insts -> SiType] /\ \A j \in Insts \ {i} : si'[j] = si[j]
      /\ si'[i].alive /\ si'[i].active = si[i].active /\ si'[i].dlheap = more
  <2>1. si' = [si EXCEPT ![i] = [si[i] EXCEPT !.dlheap = more]]
    BY <1>1, <1>2 DEF more
  <2>2. si[i] \in SiType
    BY <1>1
  <2>3. /\ [si[i] EXCEPT !.dlheap = more] \in SiType
        /\ [si[i] EXCEPT !.dlheap = more].alive = si[i].alive
        /\ [si[i] EXCEPT !.dlheap = more].active = si[i].active
        /\ [si[i] EXCEPT !.dlheap = more].dlheap = more
    BY <1>7, <2>2 DEF SiType
  <2>4. QED
    BY <1>1, <1>8, <2>1, <2>3
<1>10. /\ dline' \in [Insts -> Seq(Leaving)] /\ (dline'[i] # <<>> <=> more)
       /\ \A j \in Insts \ {i} : dline'[j] = dline[j]
  BY <1>1, <1>2, <1>3 DEF more
<1>11. TypeOK'
  <2>1. tx' \in [Senders -> Seq(Leaving)]
    <3>1. tx \in [Senders -> Seq(Leaving)] /\ Task \in Senders
      BY <1>1 DEF TypeOK, Senders
    <3>2. QED
      BY <1>2, <1>3, <3>1
  <2>2. evheap' \subseteq EventType
    BY <1>1, <1>4, <1>5
  <2>3. QED
    BY <1>1, <1>9, <1>10, <2>1, <2>2, Zenon DEF TypeOK, TaskTransmit, SiType, EventType
<1>12. UNCHANGED <<pc, lock, srv, link>>
  BY DEF TaskTransmit
<1>13. Section'
  BY <1>1, <1>12 DEF HeapInv, Section, Task, Free
<1>14. Flags'
  BY <1>1, <1>9, <1>10, <1>12 DEF HeapInv, Flags, Serving
<1>15. \A f \in evheap \ {e} : f.inst = i => f.kind # "dl"
  BY <1>1 DEF HeapInv, UniqueEvents, i
<1>16. NoDanglingEvent'
  <2> SUFFICES ASSUME NEW f \in evheap'
               PROVE  /\ si'[f.inst].alive
                      /\ f.kind = "si" => si'[f.inst].active
                      /\ f.kind = "dl" => si'[f.inst].dlheap /\ dline'[f.inst] # <<>>
    BY DEF NoDanglingEvent
  <2>1. CASE f \in evheap \ {e}
    <3>1. /\ f.inst \in Insts /\ si[f.inst].alive
          /\ f.kind = "si" => si[f.inst].active
          /\ f.kind = "dl" => si[f.inst].dlheap /\ dline[f.inst] # <<>>
      BY <1>1, <2>1 DEF HeapInv, NoDanglingEvent, EventType
    <3>2. QED
      BY <1>9, <1>10, <1>15, <2>1, <3>1
  <2>2. CASE more /\ f = g
    BY <1>6, <1>9, <1>10, <2>2
  <2>3. QED
    BY <1>4, <2>1, <2>2
<1>17. UniqueEvents'
  BY <1>4, <1>6, <1>15 DEF HeapInv, UniqueEvents
<1>18. QED
  BY <1>11, <1>13, <1>14, <1>16, <1>17 DEF HeapInv

\* dummynet_task() drains idle instances and releases the lock.
LEMMA TaskDoneInv ==
  ASSUME HeapInv, TaskDone
  PROVE  HeapInv'
<1>1. /\ TypeOK /\ pc = "events" /\ si \in [Insts -> SiType] /\ evheap \subseteq EventType
      /\ pc' = "none" /\ lock' = Free /\ UNCHANGED <<dline, evheap, srv, link>>
  BY DEF HeapInv, TypeOK, TaskDone, SiType, EventType
<1>2. PICK D \in SUBSET {i \in Insts : Expire /\ Drainable(i)} :
        si' = [i \in Insts |-> IF i \in D THEN NoInst ELSE si[i]]
  BY DEF TaskDone
<1>3. \A i \in D : i \in Insts /\ ~si[i].active /\ dline[i] = <<>>
  BY DEF Drainable
<1>4. NoInst \in SiType /\ ~NoInst.active /\ ~NoInst.dlheap
  BY DEF NoInst, SiType
<1>5. si' \in [Insts -> SiType]
  BY <1>1, <1>2, <1>4
<1>6. TypeOK'
  <2>1. lock' \in Senders \cup {Free} /\ pc' \in {"none", "events", "serve"}
    BY <1>1
  <2>2. QED
    BY <1>1, <1>5, <2>1, Zenon DEF TypeOK, TaskDone, SiType
<1>7. Section'
  BY <1>1 DEF Section
<1>8. Flags'
  BY <1>1, <1>2, <1>3, <1>4 DEF HeapInv, Flags, Serving
<1>9. NoDanglingEvent'
  <2>1. \A e \in evheap : e.inst \in Insts /\ e.kind \in Kinds
    BY <1>1 DEF EventType
  <2>2. \A e \in evheap : e.inst \notin D
    BY <1>3, <2>1 DEF HeapInv, NoDanglingEvent, Kinds
  <2>3. \A e \in evheap : si'[e.inst] = si[e.inst]
    BY <1>2, <2>1, <2>2
  <2>4. QED
    BY <1>1, <2>3 DEF HeapInv, NoDanglingEvent
<1>10. UniqueEvents'
  BY <1>1 DEF HeapInv, UniqueEvents
<1>11. QED
  BY <1>6, <1>7, <1>8, <1>9, <1>10 DEF HeapInv

\* config_sched() leaves no instance, and nothing in the heap.
LEMMA ConfigSchedInv ==
  ASSUME HeapInv, ConfigSched
  PROVE  HeapInv' /\ evheap' = {}
<1>1. TypeOK /\ pc = "none" /\ lock = Free /\ UNCHANGED <<pc, lock, srv, link>>
  BY DEF HeapInv, Section, ConfigSched, MayConfigure
<1>2. evheap' = {}
  <2>1. \A e \in evheap : e.inst \in Insts /\ e.kind \in Kinds
    BY <1>1 DEF TypeOK
  <2>2. \A e \in evheap : e \in DestroyExtracts(e.inst)
    BY <2>1 DEF DestroyExtracts, EventsOf, HeapInv, NoDanglingEvent, Kinds
  <2>3. evheap' = evheap \ UNION {DestroyExtracts(i) : i \in Insts}
    BY DEF ConfigSched
  <2>4. QED
    BY <2>1, <2>2, <2>3
<1>3. NoInst \in SiType /\ ~NoInst.active /\ ~NoInst.dlheap
  BY DEF NoInst, SiType
<1>4. /\ si' = [i \in Insts |-> NoInst] /\ queue' = [i \in Insts |-> <<>>]
      /\ dline' = [i \in Insts |-> <<>>]
  BY DEF ConfigSched
<1>5. TypeOK'
  <2>1. si' \in [Insts -> SiType]
    BY <1>3, <1>4
  <2>2. queue' \in [Insts -> Seq(Packet)] /\ dline' \in [Insts -> Seq(Leaving)]
    BY <1>4
  <2>3. gone' \in Seq({"inside", "delivered", "freed"})
    <3> DEFINE G(p) == IF \E i \in Insts : p \in Held(i) THEN "freed" ELSE gone[p]
    <3>1. gone \in [1..Len(gone) -> {"inside", "delivered", "freed"}] /\ Len(gone) \in Nat
          /\ DOMAIN gone = 1..Len(gone)
      BY <1>1 DEF TypeOK
    <3>2. gone' = [p \in DOMAIN gone |-> G(p)]
      BY DEF ConfigSched
    <3>3. \A p \in DOMAIN gone : G(p) \in {"inside", "delivered", "freed"}
      BY <3>1
    <3> HIDE DEF G
    <3>4. gone' \in [1..Len(gone) -> {"inside", "delivered", "freed"}]
      BY <3>1, <3>2, <3>3
    <3>5. QED
      BY <3>1, <3>4
  <2>4. nconf' \in Nat /\ profile' = FALSE
    BY <1>1 DEF TypeOK, ConfigSched, MayConfigure
  <2>5. panicked' \in BOOLEAN
    BY DEF ConfigSched
  <2>6. QED
    BY <1>1, <1>2, <2>1, <2>2, <2>3, <2>4, <2>5, Zenon DEF TypeOK, ConfigSched, SiType
<1>6. Section'
  BY <1>1 DEF Section
<1>7. Flags'
  BY <1>3, <1>4 DEF Flags
<1>8. NoDanglingEvent' /\ UniqueEvents'
  BY <1>2 DEF NoDanglingEvent, UniqueEvents
<1>9. QED
  BY <1>2, <1>5, <1>6, <1>7, <1>8 DEF HeapInv

-----------------------------------------------------------------------------
\* The end of serve_sched(): what it leaves in the delay line is a chain, not
\* empty if a packet was sent or was there before.
LEMMA ServedDlineType ==
  ASSUME HeapInv, pc = "serve"
  PROVE  /\ ServedDline(srv.inst) \in Seq(Leaving)
         /\ ServedDline(srv.inst) # <<>> <=> dline[srv.inst] # <<>>
<1> DEFINE i == srv.inst
           d == dline[i]
           t == TicksToPay(si[i].credit)
<1>1. /\ TypeOK /\ i \in Insts /\ d \in Seq(Leaving) /\ si[i].credit \in Int
      /\ link.bandwidth = 0 => si[i].credit >= 0
      /\ srv.done => d # <<>>
  BY DEF HeapInv, Section, TypeOK
<1>2. CASE si[i].credit < 0 /\ srv.done
  <2>1. t \in Nat
    BY <1>1, <1>2, TicksToPayType
  <2>2. Len(d) \in 1..Len(d) /\ Len(d) \in Nat /\ d[Len(d)] \in Leaving
    BY <1>1, <1>2
  <2>3. ServedDline(i) = [d EXCEPT ![Len(d)].out = @ + t]
    BY <1>2 DEF ServedDline
  <2> DEFINE last == [d[Len(d)] EXCEPT !.out = @ + t]
  <2> HIDE DEF t
  <2>4. last \in Leaving
    BY <2>1, <2>2 DEF Leaving
  <2>5. ServedDline(i) = [d EXCEPT ![Len(d)] = last]
    BY <1>1, <2>2, <2>3
  <2> HIDE DEF last, d, i
  <2>6. [d EXCEPT ![Len(d)] = last] \in Seq(Leaving)
        /\ Len([d EXCEPT ![Len(d)] = last]) = Len(d)
    BY <1>1, <2>2, <2>4
  <2>7. QED
    BY <1>1, <2>2, <2>5, <2>6 DEF i, d
<1>3. CASE ~(si[i].credit < 0 /\ srv.done)
  BY <1>1, <1>3 DEF ServedDline
<1>4. QED
  BY <1>2, <1>3

\* The instance goes back to the heap exactly when it is marked so.
LEMMA ServedHeapType ==
  ASSUME HeapInv, pc = "serve", NEW h \in ServedHeap(srv.inst)
  PROVE  /\ Served(si[srv.inst]) \in SiType
         /\ Served(si[srv.inst]).alive
         /\ Served(si[srv.inst]).dlheap = si[srv.inst].dlheap
         /\ evheap \subseteq h /\ h \subseteq EventType
         /\ \A e \in h \ evheap : /\ e.kind = "si" /\ e.inst = srv.inst
                                 /\ Served(si[srv.inst]).active
         /\ \A e, f \in h \ evheap : e = f
         /\ ~AllocMayFail /\ Served(si[srv.inst]).active =>
              \E e \in h : e.kind = "si" /\ e.inst = srv.inst
<1> DEFINE i == srv.inst
           s == si[i]
           t == TicksToPay(s.credit)
           g == Event(curr_time + t, "si", i)
<1>1. /\ TypeOK /\ i \in Insts /\ s \in SiType /\ s.alive /\ ~s.active
      /\ link.bandwidth = 0 => s.credit >= 0
      /\ evheap \subseteq EventType /\ curr_time \in Nat
  BY DEF HeapInv, Section, TypeOK, SiType, EventType
<1>2. CASE s.credit >= 0
  <2>1. Served(s) = [s EXCEPT !.idle_time = curr_time] /\ h = evheap
    BY <1>2 DEF Served, ServedHeap
  <2> HIDE DEF i, s
  <2>2. /\ Served(s) \in SiType /\ Served(s).alive /\ ~Served(s).active
        /\ Served(s).dlheap = s.dlheap
    BY <1>1, <2>1 DEF SiType
  <2>3. QED
    BY <1>1, <2>1, <2>2 DEF i, s
<1>3. CASE ~(s.credit >= 0)
  <2>1. s.credit \in Int /\ s.credit < 0 /\ link.bandwidth # 0
    BY <1>1, <1>3 DEF SiType
  <2>2. t \in Nat
    BY <1>1, <2>1, TicksToPayType
  <2>3. Served(s) = [s EXCEPT !.active = TRUE] /\ h \in HeapInsert(evheap, g)
    BY <1>3 DEF Served, ServedHeap
  <2>4. evheap \subseteq h /\ h \subseteq evheap \cup {g} /\ (~AllocMayFail => g \in h)
    BY <2>3, HeapInsertType
  <2> HIDE DEF i, s, t
  <2>5. g \in EventType /\ g.kind = "si" /\ g.inst = i
    BY <1>1, <2>2 DEF Event, EventType, Kinds
  <2>6. /\ Served(s) \in SiType /\ Served(s).alive /\ Served(s).active
        /\ Served(s).dlheap = s.dlheap
    BY <1>1, <2>3 DEF SiType
  <2> HIDE DEF g
  <2>7. QED
    BY <1>1, <2>4, <2>5, <2>6 DEF i, s
<1>4. QED
  BY <1>2, <1>3

\* serve_sched() returns: the instance and its delay line are marked, and are
\* in the heap, as their contents require.
LEMMA ServeEndInv ==
  ASSUME HeapInv, ServeEnd
  PROVE  /\ HeapInv'
         /\ ~AllocMayFail /\ MarkedIsInHeap => MarkedIsInHeap'
<1> DEFINE i == srv.inst
           d == ServedDline(i)
           flush == srv.dlidle /\ srv.done
<1>1. /\ TypeOK /\ i \in Insts /\ pc = "serve" /\ si \in [Insts -> SiType]
      /\ dline \in [Insts -> Seq(Leaving)] /\ evheap \subseteq EventType
      /\ srv.dlidle => ~si[i].dlheap
      /\ srv.dlidle \in BOOLEAN /\ srv.done \in BOOLEAN
      /\ srv.done \/ ~srv.dlidle => dline[i] # <<>>
      /\ srv.dlidle /\ ~srv.done => dline[i] = <<>>
      /\ ~si[i].active
  BY DEF HeapInv, Section, ServeEnd, TypeOK, SiType, EventType
<1>2. d \in Seq(Leaving) /\ (d # <<>> <=> dline[i] # <<>>)
  BY <1>1, ServedDlineType
<1>3. PICK n \in 0..Len(d) :
        /\ ~flush => n = 0
        /\ \E h \in ServedHeap(i) :
             evheap' \in IF flush THEN DlineReinsert(h, i, d, n) ELSE {h}
        /\ si' = [si EXCEPT ![i] =
                    [Served(si[i]) EXCEPT !.dlheap = IF flush THEN n < Len(d) ELSE @]]
        /\ dline' = [dline EXCEPT ![i] = Rest(d, n)]
        /\ \E r \in ServeResults(SubSeq(d, 1, n)) : tx' = [tx EXCEPT ![lock] = @ \o r]
  BY DEF ServeEnd
<1>4. PICK h \in ServedHeap(i) :
        evheap' \in IF flush THEN DlineReinsert(h, i, d, n) ELSE {h}
  BY <1>3
<1>5. /\ SubSeq(d, 1, n) \in Seq(Leaving) /\ Rest(d, n) \in Seq(Leaving)
      /\ Rest(d, n) # <<>> <=> n < Len(d)
  BY <1>2, ChainType
<1> DEFINE s == Served(si[i])
           g == Event(d[n + 1].out, "dl", i)
           more == n < Len(d)
           mark == IF flush THEN more ELSE si[i].dlheap
<1>6. /\ s \in SiType /\ s.alive /\ s.dlheap = si[i].dlheap
      /\ evheap \subseteq h /\ h \subseteq EventType
      /\ \A e \in h \ evheap : e.kind = "si" /\ e.inst = i /\ s.active
      /\ \A e, f \in h \ evheap : e = f
      /\ ~AllocMayFail /\ s.active => \E e \in h : e.kind = "si" /\ e.inst = i
  BY <1>1, ServedHeapType
<1>7. /\ h \subseteq evheap'
      /\ evheap' \subseteq h \cup IF flush /\ more THEN {g} ELSE {}
      /\ ~AllocMayFail /\ flush /\ more => g \in evheap'
  <2>1. CASE flush
    BY <1>4, <2>1, DlineReinsertType
  <2>2. CASE ~flush
    BY <1>4, <2>2
  <2>3. QED
    BY <2>1, <2>2
<1>8. more => g \in EventType
  <2>1. more => d[n + 1] \in Leaving
    BY <1>2
  <2>2. QED
    BY <1>1, <2>1 DEF Event, EventType, Leaving, Kinds
<1>9. g.kind = "dl" /\ g.inst = i
  BY DEF Event
<1>10. mark \in BOOLEAN /\ si' = [si EXCEPT ![i] = [s EXCEPT !.dlheap = mark]]
  <2>1. si[i].dlheap \in BOOLEAN
    BY <1>1 DEF SiType
  <2>2. [s EXCEPT !.dlheap = IF flush THEN n < Len(d) ELSE @] = [s EXCEPT !.dlheap = mark]
    BY <1>6
  <2>3. mark \in BOOLEAN
    <3>1. more \in BOOLEAN
      OBVIOUS
    <3> HIDE DEF more
    <3>2. QED
      BY <2>1, <3>1, Zenon
  <2>4. si' = [si EXCEPT ![i] = [s EXCEPT !.dlheap = mark]]
    BY <1>3, <2>2, Zenon
  <2>5. QED
    BY <2>3, <2>4
<1>11. mark <=> Rest(d, n) # <<>>
  <2>1. CASE flush
    BY <1>5, <2>1
  <2>2. CASE ~flush
    <3>1. n = 0 /\ (Rest(d, n) # <<>> <=> dline[i] # <<>>)
      BY <1>2, <1>3, <1>5, <2>2
    <3>2. srv.dlidle => dline[i] = <<>> /\ ~si[i].dlheap
      BY <1>1, <2>2
    <3>3. ~srv.dlidle => dline[i] # <<>> /\ si[i].dlheap
      BY <1>1 DEF HeapInv, Flags
    <3>4. QED
      BY <1>1, <2>2, <3>1, <3>2, <3>3
  <2>3. QED
    BY <2>1, <2>2
<1>12. ~flush /\ mark => si[i].dlheap
  OBVIOUS
<1>13. flush => ~si[i].dlheap
  BY <1>1
<1>14. flush => (mark <=> more)
  OBVIOUS
<1>15. /\ srv' = NoServe /\ UNCHANGED link
       /\ IF lock = Task THEN pc' = "events" /\ lock' = lock ELSE pc' = "none" /\ lock' = Free
  BY DEF ServeEnd
<1>16. TypeOK'
  <2>1. [s EXCEPT !.dlheap = mark] \in SiType
    BY <1>6, <1>10 DEF SiType
  <2>2. si' \in [Insts -> SiType] /\ dline' \in [Insts -> Seq(Leaving)]
    BY <1>1, <1>3, <1>5, <1>10, <2>1
  <2>3. evheap' \subseteq EventType
    BY <1>6, <1>7, <1>8
  <2>4. PICK r \in ServeResults(SubSeq(d, 1, n)) : tx' = [tx EXCEPT ![lock] = @ \o r]
    BY <1>3
  <2>5. r \in Seq(Leaving)
    <3> DEFINE q == SubSeq(d, 1, n)
    <3>1. CASE r = q
      BY <1>5, <3>1
    <3>2. CASE q # <<>> /\ r = <<[Head(q) EXCEPT !.drop = FALSE]>>
      <4>1. Head(q) \in Leaving
        BY <1>5, <3>2
      <4>2. [Head(q) EXCEPT !.drop = FALSE] \in Leaving
        BY <4>1 DEF Leaving
      <4> DEFINE x == [Head(q) EXCEPT !.drop = FALSE]
      <4>3. x \in Leaving /\ r = <<x>>
        BY <3>2, <4>2
      <4> HIDE DEF x
      <4>4. QED
        BY <4>3
    <3>3. QED
      BY <2>4, <3>1, <3>2 DEF ServeResults
  <2>6. tx' \in [Senders -> Seq(Leaving)]
    <3>1. tx \in [Senders -> Seq(Leaving)] /\ lock \in Senders
      BY <1>1 DEF TypeOK, HeapInv, Section
    <3>2. tx[lock] \o r \in Seq(Leaving)
      BY <2>5, <3>1
    <3>3. QED
      BY <2>4, <3>1, <3>2
  <2>7. /\ srv' \in [inst : Insts \cup {Free}, dlidle : BOOLEAN, done : BOOLEAN, m0 : Nat]
        /\ lock' \in Senders \cup {Free} /\ pc' \in {"none", "events", "serve"}
    BY <1>1, <1>15 DEF NoServe, TypeOK
  <2>8. QED
    BY <1>1, <2>2, <2>3, <2>6, <2>7, Zenon DEF TypeOK, ServeEnd, SiType, EventType
<1> HIDE DEF i, d, flush, s, g, more, mark
<1>17. /\ si'[i].alive /\ si'[i].active = s.active /\ si'[i].dlheap = mark
       /\ \A j \in Insts \ {i} : si'[j] = si[j] /\ dline'[j] = dline[j]
       /\ mark <=> dline'[i] # <<>>
  <2>1. si'[i] = [s EXCEPT !.dlheap = mark]
    BY <1>1, <1>10
  <2>2. [s EXCEPT !.dlheap = mark].alive /\ [s EXCEPT !.dlheap = mark].active = s.active
        /\ [s EXCEPT !.dlheap = mark].dlheap = mark
    BY <1>6, <1>10 DEF SiType
  <2>3. dline'[i] = Rest(d, n)
    BY <1>1, <1>3
  <2>4. \A j \in Insts \ {i} : si'[j] = si[j] /\ dline'[j] = dline[j]
    BY <1>1, <1>3, <1>10
  <2>5. QED
    BY <1>11, <2>1, <2>2, <2>3, <2>4
<1>18. Section'
  BY <1>1, <1>15 DEF HeapInv, Section, Task, Free
<1>19. Flags'
  <2>1. \A j \in Insts \ {i} : ~Serving(j)
    BY DEF Serving, i
  <2>2. QED
    BY <1>15, <1>17, <2>1 DEF HeapInv, Flags
<1>20. \A e \in evheap : e.inst = i => e.kind # "si" /\ (e.kind = "dl" => si[i].dlheap)
  BY <1>1 DEF HeapInv, NoDanglingEvent
<1>21. \A e \in evheap' : \/ e \in evheap
                          \/ e \in h \ evheap
                          \/ flush /\ more /\ e = g
  BY <1>6, <1>7
<1>22. NoDanglingEvent'
  <2> SUFFICES ASSUME NEW e \in evheap'
               PROVE  /\ si'[e.inst].alive
                      /\ e.kind = "si" => si'[e.inst].active
                      /\ e.kind = "dl" => si'[e.inst].dlheap /\ dline'[e.inst] # <<>>
    BY DEF NoDanglingEvent
  <2>1. CASE e \in evheap
    <3>1. /\ e.inst \in Insts /\ si[e.inst].alive
          /\ e.kind = "si" => si[e.inst].active
          /\ e.kind = "dl" => si[e.inst].dlheap /\ dline[e.inst] # <<>>
      BY <1>1, <2>1 DEF HeapInv, NoDanglingEvent, EventType
    <3>2. CASE e.inst = i
      <4>1. e.kind # "si" /\ (e.kind = "dl" => ~flush /\ si[i].dlheap)
        BY <1>13, <1>20, <2>1, <3>2
      <4>2. ~flush /\ si[i].dlheap => mark
        BY DEF mark
      <4>3. QED
        BY <1>17, <3>2, <4>1, <4>2
    <3>3. CASE e.inst # i
      BY <1>17, <3>1, <3>3
    <3>4. QED
      BY <3>2, <3>3
  <2>2. CASE e \in h \ evheap
    BY <1>6, <1>17, <2>2
  <2>3. CASE flush /\ more /\ e = g
    BY <1>9, <1>14, <1>17, <2>3
  <2>4. QED
    BY <1>21, <2>1, <2>2, <2>3
<1>23. UniqueEvents'
  <2> SUFFICES ASSUME NEW e \in evheap', NEW f \in evheap', e.kind = f.kind, e.inst = f.inst
               PROVE  e = f
    BY DEF UniqueEvents
  <2>1. e \in evheap /\ f \in evheap => e = f
    BY DEF HeapInv, UniqueEvents
  <2>2. e \in h \ evheap /\ f \in h \ evheap => e = f
    BY <1>6
  <2>3. e \in h \ evheap => f \notin evheap
    BY <1>6, <1>20
  <2>4. f \in h \ evheap => e \notin evheap
    BY <1>6, <1>20
  <2>5. flush /\ e = g => f \notin evheap /\ f \notin h \ evheap
    BY <1>6, <1>9, <1>13, <1>20
  <2>6. flush /\ f = g => e \notin evheap /\ e \notin h \ evheap
    BY <1>6, <1>9, <1>13, <1>20
  <2>7. QED
    BY <1>21, <2>1, <2>2, <2>3, <2>4, <2>5, <2>6
<1>24. ASSUME ~AllocMayFail, MarkedIsInHeap
       PROVE  MarkedIsInHeap'
  <2> SUFFICES ASSUME NEW j \in Insts
               PROVE  /\ si'[j].active => \E e \in evheap' : e.kind = "si" /\ e.inst = j
                      /\ si'[j].dlheap => \E e \in evheap' : e.kind = "dl" /\ e.inst = j
    BY <1>23 DEF MarkedIsInHeap
  <2>1. evheap \subseteq evheap'
    BY <1>6, <1>7
  <2>2. CASE j # i
    BY <1>17, <1>24, <2>1, <2>2 DEF MarkedIsInHeap
  <2>3. CASE j = i
    <3>1. s.active => \E e \in evheap' : e.kind = "si" /\ e.inst = i
      BY <1>6, <1>7, <1>24
    <3>2. flush /\ mark => \E e \in evheap' : e.kind = "dl" /\ e.inst = i
      BY <1>7, <1>9, <1>14, <1>24
    <3>3. ~flush /\ mark => \E e \in evheap' : e.kind = "dl" /\ e.inst = i
      BY <1>1, <1>12, <1>24, <2>1 DEF MarkedIsInHeap, flush, mark
    <3>4. QED
      BY <1>17, <2>3, <3>1, <3>2, <3>3
  <2>4. QED
    BY <2>2, <2>3
<1>25. QED
  BY <1>16, <1>18, <1>19, <1>22, <1>23, <1>24 DEF HeapInv

-----------------------------------------------------------------------------
\* Every step of the data path preserves the invariant.
LEMMA StepInv == HeapInv /\ [Next]_vars => HeapInv'
<1> SUFFICES ASSUME HeapInv, [Next]_vars PROVE HeapInv'
  OBVIOUS
<1>1. CASE UNCHANGED vars
  <2>1. TypeOK'
    BY <1>1, Zenon DEF HeapInv, TypeOK, vars
  <2>2. QED
    BY <1>1, <2>1, FrameStep DEF HeapInv, vars
<1>2. CASE Io
  BY <1>2, IoNoMemoryInv, IoDropInv, IoEnqueueInv DEF Io
<1>3. CASE Serve
  BY <1>3, ServeDequeueInv, ServeEndInv DEF Serve
<1>4. CASE \E step \in TickSteps : TaskTick(step)
  BY <1>4, TaskTickInv
<1>5. CASE TaskEvent
  BY <1>5, TaskServeSchedInv, TaskTransmitInv DEF TaskEvent
<1>6. CASE TaskDone
  BY <1>6, TaskDoneInv
<1>7. CASE \E s \in Senders : Send(s)
  BY <1>7, SendInv
<1>8. CASE Config
  BY <1>8, ConfigSchedInv, ConfigProfileInv, ConfigLinkInv DEF Config
<1>9. QED
  BY <1>1, <1>2, <1>3, <1>4, <1>5, <1>6, <1>7, <1>8 DEF Next

\* The inductive invariant of dummynet_io(), serve_sched(), transmit_event(),
\* dummynet_task(), the drain and the configuration commands: types, the
\* discipline of the lock, the flags of the instances against their delay
\* lines and the event heap.
THEOREM HeapInvariant == Spec => []HeapInv
<1>1. Init => HeapInv
  BY InitInv
<1>2. HeapInv /\ [Next]_vars => HeapInv'
  BY StepInv
<1>3. QED
  BY <1>1, <1>2, PTL DEF Spec

\* Type correctness of the data path.
THEOREM TypeCorrect == Spec => []TypeOK
<1>1. HeapInv => TypeOK
  BY DEF HeapInv
<1>2. QED
  BY <1>1, HeapInvariant, PTL

\* The event heap never holds a freed scheduler instance or delay line, for any
\* interleaving of packets, ticks, drains and commands, even when allocations
\* fail.
THEOREM NoUseAfterFree == Spec => []NoDanglingEvent
<1>1. HeapInv => NoDanglingEvent
  BY DEF HeapInv
<1>2. QED
  BY <1>1, HeapInvariant, PTL

-----------------------------------------------------------------------------
\* Without allocation failures a step keeps every marked object in the heap.
LEMMA MarkedStep ==
  ASSUME ~AllocMayFail, HeapInv, HeapInv', MarkedIsInHeap, [Next]_vars
  PROVE  MarkedIsInHeap'
<1> DEFINE InHeap(k, j) == \E e \in evheap : e.kind = k /\ e.inst = j
<1>1. UniqueEvents'
  BY DEF HeapInv
<1>2. SUFFICES ASSUME NEW j \in Insts
               PROVE  /\ si'[j].active => \E e \in evheap' : e.kind = "si" /\ e.inst = j
                      /\ si'[j].dlheap => \E e \in evheap' : e.kind = "dl" /\ e.inst = j
  BY <1>1 DEF MarkedIsInHeap
<1>3. TypeOK /\ si \in [Insts -> SiType]
  BY DEF HeapInv, TypeOK, SiType
<1>4. (si[j].active => InHeap("si", j)) /\ (si[j].dlheap => InHeap("dl", j))
  BY DEF MarkedIsInHeap
<1>5. ASSUME evheap \subseteq evheap',
             si'[j].active => si[j].active, si'[j].dlheap => si[j].dlheap
      PROVE  /\ si'[j].active => \E e \in evheap' : e.kind = "si" /\ e.inst = j
             /\ si'[j].dlheap => \E e \in evheap' : e.kind = "dl" /\ e.inst = j
  BY <1>4, <1>5
<1>6. CASE UNCHANGED <<si, evheap>>
  BY <1>5, <1>6
<1>7. ASSUME NEW i \in Insts, si' = [si EXCEPT ![i] = SiFind(i)], UNCHANGED evheap
      PROVE  /\ si'[j].active => \E e \in evheap' : e.kind = "si" /\ e.inst = j
             /\ si'[j].dlheap => \E e \in evheap' : e.kind = "dl" /\ e.inst = j
  BY <1>3, <1>5, <1>7, SiFindType
<1>8. ASSUME NEW th \in Threads, NEW i \in Insts, NEW len \in Lens, IoEnqueue(th, i, len)
      PROVE  /\ si'[j].active => \E e \in evheap' : e.kind = "si" /\ e.inst = j
             /\ si'[j].dlheap => \E e \in evheap' : e.kind = "dl" /\ e.inst = j
  <2>1. UNCHANGED evheap
    BY <1>8 DEF IoEnqueue
  <2>2. CASE SiFind(i).active
    BY <1>7, <1>8, <2>1, <2>2 DEF IoEnqueue
  <2>3. CASE ~SiFind(i).active
    <3> DEFINE t == ServeEnter(InitialAllowance(SiFind(i)))
    <3>1. si' = [si EXCEPT ![i] = t]
      BY <1>8, <2>3 DEF IoEnqueue
    <3>2. ~t.active /\ t.dlheap = SiFind(i).dlheap
      BY <1>3, SiFindType, InitialAllowanceType, ServeEnterType
    <3>3. SiFind(i).dlheap => si[i].dlheap
      BY <1>3, SiFindType
    <3> HIDE DEF t
    <3>4. QED
      BY <1>3, <1>5, <2>1, <3>1, <3>2, <3>3
  <2>4. QED
    BY <2>2, <2>3
<1>9. CASE ServeDequeue
  <2>1. UNCHANGED evheap /\ si'[j].active = si[j].active /\ si'[j].dlheap = si[j].dlheap
    <3>1. \E c : si' = [si EXCEPT ![srv.inst].credit = c]
      BY <1>9 DEF ServeDequeue
    <3>2. QED
      BY <1>3, <1>9, <3>1 DEF ServeDequeue, SiType
  <2>2. QED
    BY <1>5, <2>1
<1>10. CASE ServeEnd
  BY <1>10, ServeEndInv DEF MarkedIsInHeap
<1>11. ASSUME NEW e \in evheap, TaskServeSched(e)
       PROVE  /\ si'[j].active => \E f \in evheap' : f.kind = "si" /\ f.inst = j
              /\ si'[j].dlheap => \E f \in evheap' : f.kind = "dl" /\ f.inst = j
  <2>1. e.inst \in Insts /\ e.kind = "si" /\ evheap' = evheap \ {e}
        /\ si' = [si EXCEPT ![e.inst] = ServeEnter(si[e.inst])]
    BY <1>3, <1>11 DEF TypeOK, TaskServeSched
  <2>2. /\ ~ServeEnter(si[e.inst]).active
        /\ ServeEnter(si[e.inst]).dlheap = si[e.inst].dlheap
    BY <1>3, <2>1, ServeEnterType
  <2>3. QED
    BY <1>3, <1>4, <2>1, <2>2
<1>12. ASSUME NEW e \in evheap, TaskTransmit(e)
       PROVE  /\ si'[j].active => \E f \in evheap' : f.kind = "si" /\ f.inst = j
              /\ si'[j].dlheap => \E f \in evheap' : f.kind = "dl" /\ f.inst = j
  <2> DEFINE i == e.inst
             d == dline[i]
  <2>1. e.inst \in Insts /\ e.kind = "dl"
    BY <1>3, <1>12 DEF TypeOK, TaskTransmit
  <2>2. PICK n \in 0..Len(d) :
          /\ evheap' \in DlineReinsert(evheap \ {e}, i, d, n)
          /\ si' = [si EXCEPT ![i].dlheap = n < Len(d)]
    BY <1>12 DEF TaskTransmit
  <2>3. /\ evheap \ {e} \subseteq evheap'
        /\ n < Len(d) => Event(d[n + 1].out, "dl", i) \in evheap'
    BY <2>2, DlineReinsertType
  <2>4. n < Len(d) => \E f \in evheap' : f.kind = "dl" /\ f.inst = i
    BY <2>3 DEF Event
  <2>5. /\ si'[j].active = si[j].active
        /\ j # i => si'[j].dlheap = si[j].dlheap
        /\ j = i => (si'[j].dlheap <=> n < Len(d))
    <3> DEFINE more == n < Len(d)
    <3>1. more \in BOOLEAN /\ si' = [si EXCEPT ![i].dlheap = more]
      BY <2>2
    <3> HIDE DEF more
    <3>2. si'[j].active = si[j].active /\ (j # i => si'[j].dlheap = si[j].dlheap)
          /\ (j = i => si'[j].dlheap = more)
      BY <1>3, <2>1, <3>1 DEF SiType
    <3>3. QED
      BY <3>1, <3>2 DEF more
  <2> HIDE DEF i, d
  <2>6. InHeap("si", j) => \E f \in evheap' : f.kind = "si" /\ f.inst = j
    BY <2>1, <2>3
  <2>7. j # i /\ InHeap("dl", j) => \E f \in evheap' : f.kind = "dl" /\ f.inst = j
    BY <2>1, <2>3 DEF i
  <2>8. QED
    BY <1>4, <2>4, <2>5, <2>6, <2>7
<1>13. CASE TaskDone
  <2>1. UNCHANGED evheap
    BY <1>13 DEF TaskDone
  <2>2. \/ si'[j] = si[j]
        \/ si'[j] = NoInst
    BY <1>13 DEF TaskDone
  <2>3. ~NoInst.active /\ ~NoInst.dlheap
    BY DEF NoInst
  <2>4. QED
    BY <1>5, <2>1, <2>2, <2>3
<1>14. ASSUME NEW l \in Links, ConfigLink(l)
       PROVE  /\ si'[j].active => \E e \in evheap' : e.kind = "si" /\ e.inst = j
              /\ si'[j].dlheap => \E e \in evheap' : e.kind = "dl" /\ e.inst = j
  <2>1. UNCHANGED evheap /\ (si'[j] = si[j] \/ si'[j] = ResetCredit(si[j], l))
    BY <1>14 DEF ConfigLink
  <2>2. curr_time \in Nat /\ si[j] \in SiType
    BY <1>3 DEF TypeOK
  <2>3. QED
    BY <1>5, <2>1, <2>2, ResetCreditType
<1>15. CASE ConfigSched
  <2>1. ~si'[j].active /\ ~si'[j].dlheap
    BY <1>15 DEF ConfigSched, NoInst
  <2>2. QED
    BY <2>1
<1>16. CASE Next
  <2>1. CASE Io
    BY <1>6, <1>7, <1>8, <2>1 DEF Io, IoNoMemory, IoDrop
  <2>2. CASE Config
    BY <1>6, <1>14, <1>15, <2>2 DEF Config, ConfigProfile
  <2>3. CASE TaskEvent
    BY <1>11, <1>12, <2>3 DEF TaskEvent
  <2>4. CASE (\E step \in TickSteps : TaskTick(step)) \/ \E s \in Senders : Send(s)
    BY <1>6, <2>4 DEF TaskTick, Send
  <2>5. QED
    BY <1>9, <1>10, <1>13, <1>16, <2>1, <2>2, <2>3, <2>4 DEF Next, Serve
<1>17. CASE UNCHANGED vars
  BY <1>6, <1>17 DEF vars
<1>18. QED
  BY <1>16, <1>17

\* If heap_insert() does not fail, DN_ACTIVE and the subtype of a delay line
\* tell the truth: a marked object is in the event heap exactly once, so the
\* timer will reach it and si_destroy() never panics.
THEOREM MarkedInvariant == ~AllocMayFail => (Spec => []MarkedIsInHeap)
<1> SUFFICES ASSUME ~AllocMayFail PROVE Spec => []MarkedIsInHeap
  OBVIOUS
<1>1. Init => MarkedIsInHeap
  BY DEF Init, EmptyPipe, MarkedIsInHeap, UniqueEvents, NoInst
<1>2. HeapInv /\ HeapInv' /\ MarkedIsInHeap /\ [Next]_vars => MarkedIsInHeap'
  BY MarkedStep
<1>3. QED
  BY <1>1, <1>2, HeapInvariant, PTL DEF Spec

-----------------------------------------------------------------------------
(***************************************************************************)
(* The packets.                                                            *)
(***************************************************************************)

\* The identities of the packets of a chain.
Ids(s) == {s[k].id : k \in DOMAIN s}

\* Packets are numbered as they arrive: the chain holds them in that order.
Increasing(s) == \A j, k \in DOMAIN s : j < k => s[j].id < s[k].id

\* No packet is twice in the chain.
Distinct(s) == \A j, k \in DOMAIN s : s[j].id = s[k].id => j = k

\* The packets of a flow, in the order of their arrival.
OrderOK ==
  \A i \in Insts :
    /\ Increasing(dline[i]) /\ Increasing(queue[i])
    /\ \A p \in Ids(dline[i]), q \in Ids(queue[i]) : p < q

\* The packets that are inside have one owner each: an instance, or the context
\* that is about to send them.
OwnedOK ==
  /\ \A s \in Senders : Distinct(tx[s])
  /\ \A i, j \in Insts : i # j => Held(i) \cap Held(j) = {}
  /\ \A s, t \in Senders : s # t => Ids(tx[s]) \cap Ids(tx[t]) = {}
  /\ \A i \in Insts, s \in Senders : Held(i) \cap Ids(tx[s]) = {}
  /\ \A i \in Insts : Held(i) \subseteq 1..(nextid - 1)
  /\ \A s \in Senders : Ids(tx[s]) \subseteq 1..(nextid - 1)
  /\ \A p \in 1..(nextid - 1) :
       gone[p] = "inside" <=> \/ \E i \in Insts : p \in Held(i)
                              \/ \E s \in Senders : p \in Ids(tx[s])

\* dummynet_io() remembers the packet that it has just queued.
NewestOK == pc = "serve" /\ lock # Task => srv.m0 = nextid - 1

FlowInv == OrderOK /\ OwnedOK /\ Len(gone) = nextid - 1 /\ NewestOK

-----------------------------------------------------------------------------
\* What chains of packets hold when they are cut, joined or prolonged.

LEMMA AppendChain ==
  ASSUME NEW S, NEW s \in Seq(S), NEW e \in S
  PROVE  /\ Ids(Append(s, e)) = Ids(s) \cup {e.id}
         /\ Increasing(s) /\ (\A p \in Ids(s) : p < e.id) /\ (\A x \in S : x.id \in Nat)
              => Increasing(Append(s, e))
<1> DEFINE t == Append(s, e)
<1>1. /\ Len(s) \in Nat /\ DOMAIN s = 1..Len(s) /\ DOMAIN t = 1..(Len(s) + 1)
      /\ t[Len(s) + 1] = e /\ \A k \in 1..Len(s) : t[k] = s[k]
  OBVIOUS
<1> HIDE DEF t
<1>2. \A k \in DOMAIN t : k = Len(s) + 1 \/ k \in DOMAIN s
  BY <1>1
<1>3. Ids(t) = Ids(s) \cup {e.id}
  BY <1>1, <1>2 DEF Ids
<1>4. ASSUME Increasing(s), \A p \in Ids(s) : p < e.id, \A x \in S : x.id \in Nat,
             NEW j \in DOMAIN t, NEW k \in DOMAIN t, j < k
      PROVE  t[j].id < t[k].id
  <2>1. j \in DOMAIN s
    BY <1>1, <1>4
  <2>2. CASE k \in DOMAIN s
    BY <1>1, <1>4, <2>1, <2>2 DEF Increasing
  <2>3. CASE k = Len(s) + 1
    BY <1>1, <1>4, <2>1, <2>3 DEF Ids
  <2>4. QED
    BY <1>2, <2>2, <2>3
<1>5. QED
  BY <1>3, <1>4 DEF t, Increasing

LEMMA TailChain ==
  ASSUME NEW S, NEW s \in Seq(S), s # <<>>
  PROVE  /\ Head(s) \in S
         /\ Ids(s) = Ids(Tail(s)) \cup {Head(s).id}
         /\ Increasing(s) => Increasing(Tail(s)) /\ \A p \in Ids(Tail(s)) : Head(s).id < p
         /\ Distinct(s) => Distinct(Tail(s)) /\ Head(s).id \notin Ids(Tail(s))
<1> DEFINE t == Tail(s)
<1>1. /\ Len(s) \in Nat \ {0} /\ DOMAIN s = 1..Len(s) /\ DOMAIN t = 1..(Len(s) - 1)
      /\ Head(s) = s[1] /\ s[1] \in S /\ \A k \in 1..(Len(s) - 1) : t[k] = s[k + 1]
  OBVIOUS
<1> HIDE DEF t
<1>2. \A k \in DOMAIN s : k = 1 \/ (k - 1 \in DOMAIN t /\ (k - 1) + 1 = k)
  BY <1>1
<1>3. \A k \in DOMAIN t : k + 1 \in DOMAIN s /\ 1 \in DOMAIN s /\ 1 < k + 1 /\ t[k] = s[k + 1]
  BY <1>1
<1>4. Ids(s) \subseteq Ids(t) \cup {s[1].id}
  BY <1>2, <1>3 DEF Ids
<1>5. Ids(t) \cup {s[1].id} \subseteq Ids(s)
  BY <1>1, <1>3 DEF Ids
<1>6. Increasing(s) => \A p \in Ids(t) : s[1].id < p
  BY <1>1, <1>3 DEF Increasing, Ids
<1>7. Increasing(s) => Increasing(t)
  <2> SUFFICES ASSUME Increasing(s), NEW j \in DOMAIN t, NEW k \in DOMAIN t, j < k
               PROVE  t[j].id < t[k].id
    BY DEF Increasing
  <2>1. j + 1 < k + 1
    BY <1>1
  <2>2. QED
    BY <1>3, <2>1 DEF Increasing
<1>8. Distinct(s) => Distinct(t) /\ s[1].id \notin Ids(t)
  <2> SUFFICES ASSUME Distinct(s) PROVE Distinct(t) /\ s[1].id \notin Ids(t)
    OBVIOUS
  <2>1. ASSUME NEW j \in DOMAIN t, NEW k \in DOMAIN t, t[j].id = t[k].id PROVE j = k
    <3>1. j + 1 = k + 1
      BY <1>3, <2>1 DEF Distinct
    <3>2. QED
      BY <1>1, <3>1
  <2>2. ASSUME NEW k \in DOMAIN t, t[k].id = s[1].id PROVE FALSE
    <3>1. k + 1 = 1
      BY <1>3, <2>2 DEF Distinct
    <3>2. QED
      BY <1>1, <3>1
  <2>3. QED
    BY <2>1, <2>2 DEF Distinct, Ids
<1>9. QED
  BY <1>1, <1>4, <1>5, <1>6, <1>7, <1>8 DEF t

\* What the rest of a chain holds.
LEMMA RestAt ==
  ASSUME NEW S, NEW s \in Seq(S), NEW n \in 0..Len(s)
  PROVE  /\ Rest(s, n) \in Seq(S) /\ Len(Rest(s, n)) = Len(s) - n
         /\ \A k \in 1..(Len(s) - n) : Rest(s, n)[k] = s[k + n]
<1>1. Len(s) \in Nat /\ n \in Nat /\ n <= Len(s)
  OBVIOUS
<1>2. Rest(s, n) \in Seq(S) /\ Len(Rest(s, n)) = Len(s) - n
  BY <1>1 DEF Rest
<1>3. ASSUME NEW k \in 1..(Len(s) - n) PROVE Rest(s, n)[k] = s[k + n]
  <2>1. SubSeq(s, n + 1, Len(s))[k] = s[(n + 1) + k - 1]
    BY <1>1
  <2>2. (n + 1) + k - 1 = k + n
    BY <1>1
  <2>3. QED
    BY <2>1, <2>2 DEF Rest
<1>4. QED
  BY <1>2, <1>3

LEMMA SplitChain ==
  ASSUME NEW S, NEW s \in Seq(S), NEW n \in 0..Len(s)
  PROVE  /\ Ids(s) = Ids(SubSeq(s, 1, n)) \cup Ids(Rest(s, n))
         /\ Increasing(s) => Increasing(Rest(s, n))
         /\ Distinct(s) => /\ Distinct(SubSeq(s, 1, n)) /\ Distinct(Rest(s, n))
                           /\ Ids(SubSeq(s, 1, n)) \cap Ids(Rest(s, n)) = {}
<1> DEFINE a == SubSeq(s, 1, n)
           b == Rest(s, n)
<1>1. /\ Len(s) \in Nat /\ n \in Nat /\ n <= Len(s) /\ DOMAIN s = 1..Len(s)
      /\ DOMAIN a = 1..n /\ \A k \in 1..n : a[k] = s[k]
      /\ DOMAIN b = 1..(Len(s) - n) /\ \A k \in 1..(Len(s) - n) : b[k] = s[k + n]
  <2>1. Len(s) \in Nat /\ n \in Nat /\ n <= Len(s) /\ DOMAIN s = 1..Len(s)
    OBVIOUS
  <2>2. a \in Seq(S) /\ Len(a) = n /\ \A k \in 1..n : a[k] = s[k]
    BY <2>1
  <2>3. b \in Seq(S) /\ Len(b) = Len(s) - n /\ \A k \in 1..(Len(s) - n) : b[k] = s[k + n]
    BY RestAt
  <2> HIDE DEF a, b
  <2>4. QED
    BY <2>1, <2>2, <2>3
<1> HIDE DEF a, b
<1>2. \A k \in DOMAIN s : k \in DOMAIN a \/ (k - n \in DOMAIN b /\ (k - n) + n = k)
  BY <1>1
<1>3. \A k \in DOMAIN a : k \in DOMAIN s /\ a[k] = s[k] /\ k <= n
  BY <1>1
<1>4. \A k \in DOMAIN b : k + n \in DOMAIN s /\ b[k] = s[k + n] /\ k + n > n
  BY <1>1
<1>5. Ids(s) = Ids(a) \cup Ids(b)
  <2>1. Ids(s) \subseteq Ids(a) \cup Ids(b)
    BY <1>2, <1>3, <1>4 DEF Ids
  <2>2. Ids(a) \cup Ids(b) \subseteq Ids(s)
    BY <1>3, <1>4 DEF Ids
  <2>3. QED
    BY <2>1, <2>2
<1>6. Increasing(s) => Increasing(b)
  <2> SUFFICES ASSUME Increasing(s), NEW j \in DOMAIN b, NEW k \in DOMAIN b, j < k
               PROVE  b[j].id < b[k].id
    BY DEF Increasing
  <2>1. j + n < k + n
    BY <1>1
  <2>2. QED
    BY <1>4, <2>1 DEF Increasing
<1>7. ASSUME Distinct(s)
      PROVE  Distinct(a) /\ Distinct(b) /\ Ids(a) \cap Ids(b) = {}
  <2>1. Distinct(a)
    BY <1>3, <1>7 DEF Distinct
  <2>2. Distinct(b)
    <3> SUFFICES ASSUME NEW j \in DOMAIN b, NEW k \in DOMAIN b, b[j].id = b[k].id
                 PROVE  j = k
      BY DEF Distinct
    <3>1. j + n = k + n
      BY <1>4, <1>7 DEF Distinct
    <3>2. QED
      BY <1>1, <3>1
  <2>3. ASSUME NEW j \in DOMAIN a, NEW k \in DOMAIN b, a[j].id = b[k].id PROVE FALSE
    <3>1. j = k + n
      BY <1>3, <1>4, <1>7, <2>3 DEF Distinct
    <3>2. QED
      BY <1>1, <1>3, <1>4, <3>1
  <2>4. QED
    BY <2>1, <2>2, <2>3 DEF Ids
<1>8. QED
  BY <1>5, <1>6, <1>7 DEF a, b

LEMMA JoinChains ==
  ASSUME NEW S, NEW s \in Seq(S), NEW t \in Seq(S)
  PROVE  /\ Ids(s \o t) = Ids(s) \cup Ids(t)
         /\ Distinct(s) /\ Distinct(t) /\ Ids(s) \cap Ids(t) = {} => Distinct(s \o t)
<1> DEFINE u == s \o t
<1>1. /\ Len(s) \in Nat /\ Len(t) \in Nat /\ DOMAIN s = 1..Len(s) /\ DOMAIN t = 1..Len(t)
      /\ DOMAIN u = 1..(Len(s) + Len(t))
      /\ \A k \in 1..(Len(s) + Len(t)) : u[k] = IF k <= Len(s) THEN s[k] ELSE t[k - Len(s)]
  <2>1. Len(s) \in Nat /\ Len(t) \in Nat /\ DOMAIN s = 1..Len(s) /\ DOMAIN t = 1..Len(t)
    OBVIOUS
  <2>2. u \in Seq(S) /\ Len(u) = Len(s) + Len(t)
    OBVIOUS
  <2>3. \A k \in 1..(Len(s) + Len(t)) : u[k] = IF k <= Len(s) THEN s[k] ELSE t[k - Len(s)]
    OBVIOUS
  <2> HIDE DEF u
  <2>4. QED
    BY <2>1, <2>2, <2>3
<1> HIDE DEF u
<1>2. \A k \in DOMAIN u : \/ k \in DOMAIN s /\ u[k] = s[k]
                          \/ k - Len(s) \in DOMAIN t /\ u[k] = t[k - Len(s)]
  BY <1>1
<1>3. \A k \in DOMAIN s : k \in DOMAIN u /\ u[k] = s[k]
  BY <1>1
<1>4. \A k \in DOMAIN t : k + Len(s) \in DOMAIN u /\ u[k + Len(s)] = t[k]
  BY <1>1
<1>5. Ids(u) \subseteq Ids(s) \cup Ids(t)
  BY <1>2 DEF Ids
<1>6. Ids(s) \cup Ids(t) \subseteq Ids(u)
  BY <1>3, <1>4 DEF Ids
<1>7. ASSUME Distinct(s), Distinct(t), Ids(s) \cap Ids(t) = {},
             NEW j \in DOMAIN u, NEW k \in DOMAIN u, u[j].id = u[k].id
      PROVE  j = k
  <2>1. CASE j \in DOMAIN s /\ u[j] = s[j] /\ k \in DOMAIN s /\ u[k] = s[k]
    BY <1>7, <2>1 DEF Distinct
  <2>2. CASE /\ j - Len(s) \in DOMAIN t /\ u[j] = t[j - Len(s)]
             /\ k - Len(s) \in DOMAIN t /\ u[k] = t[k - Len(s)]
    <3>1. j - Len(s) = k - Len(s)
      BY <1>7, <2>2 DEF Distinct
    <3>2. QED
      BY <1>1, <3>1
  <2>3. CASE j \in DOMAIN s /\ u[j] = s[j] /\ k - Len(s) \in DOMAIN t /\ u[k] = t[k - Len(s)]
    BY <1>7, <2>3 DEF Ids
  <2>4. CASE k \in DOMAIN s /\ u[k] = s[k] /\ j - Len(s) \in DOMAIN t /\ u[j] = t[j - Len(s)]
    BY <1>7, <2>4 DEF Ids
  <2>5. QED
    BY <1>2, <2>1, <2>2, <2>3, <2>4
<1>8. QED
  BY <1>5, <1>6, <1>7 DEF u, Distinct

\* A chain in order holds no packet twice.
LEMMA IncreasingIsDistinct ==
  ASSUME NEW S, NEW s \in Seq(S), \A x \in S : x.id \in Nat, Increasing(s)
  PROVE  Distinct(s)
<1> SUFFICES ASSUME NEW j \in DOMAIN s, NEW k \in DOMAIN s, j # k PROVE s[j].id # s[k].id
  BY DEF Distinct
<1>1. DOMAIN s \subseteq Nat /\ s[j].id \in Nat /\ s[k].id \in Nat /\ (j < k \/ k < j)
  OBVIOUS
<1>2. QED
  BY <1>1 DEF Increasing

\* Chains that hold the same packets at the same places.
LEMMA SameChain ==
  ASSUME NEW s, NEW t, DOMAIN s = DOMAIN t, \A k \in DOMAIN s : s[k].id = t[k].id
  PROVE  /\ Ids(s) = Ids(t)
         /\ Increasing(s) => Increasing(t)
         /\ Distinct(s) => Distinct(t)
BY DEF Ids, Increasing, Distinct

-----------------------------------------------------------------------------
\* Who owns the packets after a step.

LEMMA HeldIds == ASSUME NEW i PROVE Held(i) = Ids(queue[i]) \cup Ids(dline[i])
BY DEF Held, Ids

\* The packets of a flow are in order, in one chain and across the two.
LEMMA HeldInOrder ==
  ASSUME HeapInv, OrderOK, NEW i \in Insts
  PROVE  /\ queue[i] \in Seq(Packet) /\ dline[i] \in Seq(Leaving)
         /\ \A x \in Packet : x.id \in Nat
         /\ \A x \in Leaving : x.id \in Nat
         /\ Ids(queue[i]) \cap Ids(dline[i]) = {}
         /\ Ids(queue[i]) \subseteq Nat /\ Ids(dline[i]) \subseteq Nat
<1>1. queue[i] \in Seq(Packet) /\ dline[i] \in Seq(Leaving)
  BY DEF HeapInv, TypeOK
<1>2. (\A x \in Packet : x.id \in Nat) /\ \A x \in Leaving : x.id \in Nat
  BY DEF Packet, Leaving
<1>3. Ids(queue[i]) \subseteq Nat /\ Ids(dline[i]) \subseteq Nat
  BY <1>1, <1>2 DEF Ids
<1>4. Ids(queue[i]) \cap Ids(dline[i]) = {}
  BY <1>3 DEF OrderOK
<1>5. QED
  BY <1>1, <1>2, <1>3, <1>4

\* Nobody's packets change.
LEMMA SameOwners ==
  ASSUME OwnedOK, UNCHANGED <<nextid, gone, tx>>, \A i \in Insts : Held(i)' = Held(i)
  PROVE  OwnedOK'
BY DEF OwnedOK

\* The packets R of instance i are handed to context s.
LEMMA MoveOut ==
  ASSUME OwnedOK, UNCHANGED <<nextid, gone>>, NEW i \in Insts, NEW s \in Senders, NEW R,
         R \subseteq Held(i), Held(i)' = Held(i) \ R,
         \A j \in Insts \ {i} : Held(j)' = Held(j),
         Ids(tx'[s]) = Ids(tx[s]) \cup R, Distinct(tx'[s]),
         \A t \in Senders \ {s} : tx'[t] = tx[t]
  PROVE  OwnedOK'
<1>1. \A t \in Senders : Distinct(tx'[t])
  BY DEF OwnedOK
<1>2. \A j \in Insts : Held(j)' \subseteq Held(j)
  OBVIOUS
<1>3. \A t \in Senders : Ids(tx'[t]) \subseteq Ids(tx[t]) \cup IF t = s THEN R ELSE {}
  OBVIOUS
<1>4. \A j, k \in Insts : j # k => Held(j)' \cap Held(k)' = {}
  BY <1>2 DEF OwnedOK
<1>5. \A t, u \in Senders : t # u => Ids(tx'[t]) \cap Ids(tx'[u]) = {}
  <2> SUFFICES ASSUME NEW t \in Senders, NEW u \in Senders, t # u, NEW p,
                      p \in Ids(tx'[t]), p \in Ids(tx'[u])
               PROVE  FALSE
    OBVIOUS
  <2>1. ~(p \in Ids(tx[t]) /\ p \in Ids(tx[u]))
    BY DEF OwnedOK
  <2>2. p \in R => p \notin Ids(tx[t]) /\ p \notin Ids(tx[u])
    BY DEF OwnedOK
  <2>3. QED
    BY <1>3, <2>1, <2>2
<1>6. \A j \in Insts, t \in Senders : Held(j)' \cap Ids(tx'[t]) = {}
  <2> SUFFICES ASSUME NEW j \in Insts, NEW t \in Senders, NEW p,
                      p \in Held(j)', p \in Ids(tx'[t])
               PROVE  FALSE
    OBVIOUS
  <2>1. p \in Held(j) /\ p \notin Ids(tx[t])
    BY <1>2 DEF OwnedOK
  <2>2. p \in R
    BY <1>3, <2>1
  <2>3. j = i
    BY <2>1, <2>2 DEF OwnedOK
  <2>4. QED
    BY <2>2, <2>3
<1>7. \A p \in 1..(nextid - 1) :
        gone[p] = "inside" <=> \/ \E j \in Insts : p \in Held(j)'
                               \/ \E t \in Senders : p \in Ids(tx'[t])
  <2> SUFFICES ASSUME NEW p \in 1..(nextid - 1)
               PROVE  ((\E j \in Insts : p \in Held(j)) \/ \E t \in Senders : p \in Ids(tx[t]))
                      <=> (\E j \in Insts : p \in Held(j)') \/ \E t \in Senders : p \in Ids(tx'[t])
    BY DEF OwnedOK
  <2>1. ASSUME NEW j \in Insts, p \in Held(j)
        PROVE  (\E k \in Insts : p \in Held(k)') \/ \E t \in Senders : p \in Ids(tx'[t])
    BY <2>1
  <2>2. ASSUME NEW t \in Senders, p \in Ids(tx[t]) PROVE p \in Ids(tx'[t])
    BY <2>2
  <2>3. ASSUME NEW t \in Senders, p \in Ids(tx'[t])
        PROVE  (\E j \in Insts : p \in Held(j)) \/ \E u \in Senders : p \in Ids(tx[u])
    BY <2>3
  <2>4. QED
    BY <1>2, <2>1, <2>2, <2>3
<1>8. /\ \A j \in Insts : Held(j)' \subseteq 1..(nextid - 1)
      /\ \A t \in Senders : Ids(tx'[t]) \subseteq 1..(nextid - 1)
  BY <1>2, <1>3 DEF OwnedOK
<1>9. QED
  BY <1>1, <1>4, <1>5, <1>6, <1>7, <1>8 DEF OwnedOK

\* A packet arrives, and instance i or nobody keeps it.
LEMMA Arrival ==
  ASSUME HeapInv, OwnedOK, Len(gone) = nextid - 1, NEW fate, gone' = Append(gone, fate),
         nextid' = nextid + 1, tx' = tx, NEW i, fate = "inside" => i \in Insts,
         \A j \in Insts :
           Held(j)' = Held(j) \cup IF fate = "inside" /\ j = i THEN {nextid} ELSE {}
  PROVE  OwnedOK' /\ Len(gone') = nextid' - 1
<1>1. nextid \in Nat \ {0} /\ gone \in Seq({"inside", "delivered", "freed"})
  BY DEF HeapInv, TypeOK
<1>2. Len(gone') = nextid /\ gone'[nextid] = fate /\ \A p \in 1..(nextid - 1) : gone'[p] = gone[p]
  <2>1. Len(gone) + 1 = nextid /\ Len(gone) \in Nat
    BY <1>1
  <2>2. Len(Append(gone, fate)) = Len(gone) + 1 /\ Append(gone, fate)[Len(gone) + 1] = fate
    BY <1>1
  <2>3. \A p \in 1..Len(gone) : Append(gone, fate)[p] = gone[p]
    BY <1>1
  <2>4. QED
    BY <2>1, <2>2, <2>3
<1>3. /\ \A p \in 1..nextid : p \in 1..(nextid - 1) \/ p = nextid
      /\ nextid \notin 1..(nextid - 1) /\ 1..(nextid - 1) \subseteq 1..nextid
      /\ nextid' - 1 = nextid /\ nextid \in 1..nextid
  BY <1>1
<1> DEFINE new == IF fate = "inside" THEN {nextid} ELSE {}
<1>4. /\ \A j \in Insts : Held(j) \subseteq Held(j)'
      /\ \A j \in Insts : Held(j)' \subseteq Held(j) \cup IF j = i THEN new ELSE {}
      /\ new \subseteq {nextid} /\ \A p \in new : \E j \in Insts : p \in Held(j)'
  OBVIOUS
<1>5. /\ \A j \in Insts : nextid \notin Held(j)
      /\ \A s \in Senders : nextid \notin Ids(tx[s])
  BY <1>3 DEF OwnedOK
<1>6. \A j, k \in Insts : j # k => Held(j)' \cap Held(k)' = {}
  <2> SUFFICES ASSUME NEW j \in Insts, NEW k \in Insts, j # k, NEW p, p \in Held(j)', p \in Held(k)'
               PROVE  FALSE
    OBVIOUS
  <2> HIDE DEF new
  <2>1. CASE p = nextid
    BY <1>4, <1>5, <2>1
  <2>2. CASE p # nextid
    BY <1>4, <2>2 DEF OwnedOK
  <2>3. QED
    BY <2>1, <2>2
<1>7. \A j \in Insts, s \in Senders : Held(j)' \cap Ids(tx[s]) = {}
  <2> SUFFICES ASSUME NEW j \in Insts, NEW s \in Senders, NEW p, p \in Held(j)', p \in Ids(tx[s])
               PROVE  FALSE
    OBVIOUS
  <2> HIDE DEF new
  <2>1. p # nextid
    BY <1>5
  <2>2. QED
    BY <1>4, <2>1 DEF OwnedOK
<1>8. /\ \A j \in Insts : Held(j)' \subseteq 1..nextid
      /\ \A s \in Senders : Ids(tx[s]) \subseteq 1..nextid
  <2> HIDE DEF new
  <2>1. QED
    BY <1>3, <1>4 DEF OwnedOK
<1>9. ASSUME NEW p \in 1..nextid
      PROVE  gone'[p] = "inside" <=> \/ \E j \in Insts : p \in Held(j)'
                                     \/ \E s \in Senders : p \in Ids(tx[s])
  <2>1. CASE p = nextid
    <3>1. fate = "inside" <=> nextid \in new
      OBVIOUS
    <3> HIDE DEF new
    <3>2. QED
      BY <1>2, <1>4, <1>5, <2>1, <3>1
  <2>2. CASE p # nextid
    <3>1. p \in 1..(nextid - 1) /\ gone'[p] = gone[p] /\ \A j \in Insts : p \in Held(j)' <=> p \in Held(j)
      <4> HIDE DEF new
      <4>1. QED
        BY <1>2, <1>3, <1>4, <2>2
    <3>2. QED
      BY <3>1 DEF OwnedOK
  <2>3. QED
    BY <2>1, <2>2
<1>10. OwnedOK'
  BY <1>3, <1>6, <1>7, <1>8, <1>9, Zenon DEF OwnedOK
<1>11. QED
  BY <1>2, <1>3, <1>10

\* Chains that stay as they are, or only change their output times.
LEMMA SameOrder ==
  ASSUME OrderOK, UNCHANGED <<queue, dline>>
  PROVE  OrderOK' /\ \A i \in Insts : Held(i)' = Held(i)
BY DEF OrderOK, Held

LEMMA IoFreedFlow ==
  ASSUME HeapInv, FlowInv, gone' = Append(gone, "freed"), nextid' = nextid + 1,
         UNCHANGED <<queue, dline, tx, lock, pc, srv>>, lock = Free
  PROVE  FlowInv'
<1>1. OrderOK' /\ \A i \in Insts : Held(i)' = Held(i)
  BY SameOrder DEF FlowInv
<1>2. OwnedOK' /\ Len(gone') = nextid' - 1
  <2>1. OwnedOK /\ Len(gone) = nextid - 1
    BY DEF FlowInv
  <2>2. \A j \in Insts :
           Held(j)' = Held(j) \cup IF "freed" = "inside" /\ j = 0 THEN {nextid} ELSE {}
    BY <1>1
  <2>3. "freed" = "inside" => 0 \in Insts
    OBVIOUS
  <2>4. QED
    BY <2>1, <2>2, <2>3, Arrival
<1>3. NewestOK'
  BY DEF HeapInv, Section, NewestOK
<1>4. QED
  BY <1>1, <1>2, <1>3 DEF FlowInv

LEMMA IoEnqueueFlow ==
  ASSUME HeapInv, FlowInv, NEW th \in Threads, NEW i \in Insts, NEW len \in Lens,
         IoEnqueue(th, i, len)
  PROVE  FlowInv'
<1>1. /\ queue \in [Insts -> Seq(Packet)] /\ queue' \in [Insts -> Seq(Packet)]
      /\ nextid \in Nat \ {0}
  BY IoEnqueueInv DEF HeapInv, TypeOK
<1>2. PICK m : m = [id |-> nextid, len |-> len, fin |-> RealFinish(i, len)]
  OBVIOUS
<1>3. /\ queue' = [queue EXCEPT ![i] = Append(queue[i], m)] /\ m.id = nextid
      /\ UNCHANGED <<dline, tx>> /\ gone' = Append(gone, "inside") /\ nextid' = nextid + 1
  BY <1>2 DEF IoEnqueue, MqAppend
<1>4. m \in Packet
  <2>1. queue'[i] = Append(queue[i], m) /\ queue'[i] \in Seq(Packet) /\ queue[i] \in Seq(Packet)
    BY <1>1, <1>3
  <2>2. Len(Append(queue[i], m)) = Len(queue[i]) + 1 /\ Append(queue[i], m)[Len(queue[i]) + 1] = m
    BY <2>1
  <2>3. QED
    BY <2>1, <2>2
<1>5. /\ queue'[i] = Append(queue[i], m) /\ \A j \in Insts \ {i} : queue'[j] = queue[j]
      /\ queue[i] \in Seq(Packet) /\ dline' = dline
  BY <1>1, <1>3
<1>6. Ids(queue'[i]) = Ids(queue[i]) \cup {nextid}
  BY <1>3, <1>4, <1>5, AppendChain
<1>7. \A p \in Held(i) : p < nextid
  BY <1>1 DEF FlowInv, OwnedOK
<1>8. OrderOK'
  <2>1. Increasing(queue'[i])
    <3>1. Increasing(queue[i]) /\ (\A p \in Ids(queue[i]) : p < m.id) /\ \A x \in Packet : x.id \in Nat
      BY <1>3, <1>7, HeldIds, HeldInOrder DEF FlowInv, OrderOK
    <3>2. QED
      BY <1>4, <1>5, <3>1, AppendChain
  <2>2. \A p \in Ids(dline[i]), q \in Ids(queue'[i]) : p < q
    BY <1>6, <1>7, HeldIds DEF FlowInv, OrderOK
  <2>3. QED
    BY <1>5, <2>1, <2>2 DEF FlowInv, OrderOK
<1>9. OwnedOK' /\ Len(gone') = nextid' - 1
  <2>1. ASSUME NEW j \in Insts
        PROVE  Held(j)' = Held(j) \cup IF "inside" = "inside" /\ j = i THEN {nextid} ELSE {}
    <3>1. Held(j)' = Ids(queue'[j]) \cup Ids(dline'[j])
      BY DEF Held, Ids
    <3>2. CASE j = i
      BY <1>5, <1>6, <3>1, <3>2, HeldIds
    <3>3. CASE j # i
      BY <1>5, <3>1, <3>3, HeldIds
    <3>4. QED
      BY <3>2, <3>3
  <2>2. OwnedOK /\ Len(gone) = nextid - 1
    BY DEF FlowInv
  <2>3. QED
    BY <1>3, <2>1, <2>2, Arrival
<1>10. NewestOK'
  <2>1. \/ pc' = "serve" /\ srv' = [inst |-> i, dlidle |-> dline[i] = <<>>, done |-> FALSE, m0 |-> nextid]
        \/ UNCHANGED <<lock, pc, srv>>
    BY DEF IoEnqueue
  <2>2. lock = Free /\ pc = "none"
    BY DEF IoEnqueue, MayArrive, HeapInv, Section
  <2>3. nextid' - 1 = nextid
    BY <1>1, <1>3
  <2>4. QED
    BY <2>1, <2>2, <2>3 DEF NewestOK
<1>11. QED
  BY <1>8, <1>9, <1>10 DEF FlowInv

LEMMA ServeDequeueFlow == ASSUME HeapInv, FlowInv, ServeDequeue PROVE FlowInv'
<1>1. PICK i \in Insts : i = srv.inst
  BY DEF HeapInv, Section, ServeDequeue
<1>2. PICK m : m = Head(queue[i])
  OBVIOUS
<1>3. /\ queue[i] # <<>> /\ queue' = [queue EXCEPT ![i] = Tail(queue[i])]
      /\ UNCHANGED <<nextid, gone, tx, lock, pc>> /\ srv'.m0 = srv.m0
      /\ srv' = [srv EXCEPT !.done = TRUE]
  BY <1>1 DEF ServeDequeue, HeapInv, TypeOK
<1>4. PICK x \in SampleChoices :
        dline' = [dline EXCEPT ![i] = Append(dline[i],
                    [id |-> m.id, out |-> curr_time + link.delay, drop |-> x.loss, fin |-> m.fin])]
  BY <1>1, <1>2 DEF ServeDequeue, MqAppend
<1>5. PICK y : y = [id |-> m.id, out |-> curr_time + link.delay, drop |-> x.loss, fin |-> m.fin]
  OBVIOUS
<1>6. y.id = m.id /\ dline' = [dline EXCEPT ![i] = Append(dline[i], y)]
  BY <1>4, <1>5
<1>7. /\ queue \in [Insts -> Seq(Packet)] /\ dline \in [Insts -> Seq(Leaving)]
      /\ dline' \in [Insts -> Seq(Leaving)]
  BY ServeDequeueInv DEF HeapInv, TypeOK
<1>8. /\ queue'[i] = Tail(queue[i]) /\ dline'[i] = Append(dline[i], y)
      /\ \A j \in Insts \ {i} : queue'[j] = queue[j] /\ dline'[j] = dline[j]
      /\ queue[i] \in Seq(Packet) /\ dline[i] \in Seq(Leaving) /\ dline'[i] \in Seq(Leaving)
  BY <1>3, <1>6, <1>7
<1>9. y \in Leaving
  <2>1. Len(Append(dline[i], y)) = Len(dline[i]) + 1 /\ Append(dline[i], y)[Len(dline[i]) + 1] = y
    BY <1>8
  <2>2. QED
    BY <1>8, <2>1
<1>10. /\ Ids(queue[i]) = Ids(queue'[i]) \cup {m.id}
       /\ Increasing(queue'[i]) /\ \A p \in Ids(queue'[i]) : m.id < p
  <2>1. Increasing(queue[i])
    BY DEF FlowInv, OrderOK
  <2>2. QED
    BY <1>2, <1>3, <1>8, <2>1, TailChain
<1>11. /\ Ids(dline'[i]) = Ids(dline[i]) \cup {m.id}
       /\ Increasing(dline'[i])
  <2>1. Increasing(dline[i]) /\ \A p \in Ids(dline[i]) : p < y.id
    BY <1>6, <1>10 DEF FlowInv, OrderOK
  <2>2. \A z \in Leaving : z.id \in Nat
    BY DEF Leaving
  <2>3. QED
    BY <1>6, <1>8, <1>9, <2>1, <2>2, AppendChain
<1>12. OrderOK'
  <2>1. \A p \in Ids(dline'[i]), q \in Ids(queue'[i]) : p < q
    BY <1>10, <1>11 DEF FlowInv, OrderOK
  <2>2. QED
    BY <1>8, <1>10, <1>11, <2>1 DEF FlowInv, OrderOK
<1>13. ASSUME NEW j \in Insts PROVE Held(j)' = Held(j)
  <2>1. Held(j)' = Ids(queue'[j]) \cup Ids(dline'[j])
    BY DEF Held, Ids
  <2>2. QED
    BY <1>8, <1>10, <1>11, <2>1, HeldIds
<1>14. OwnedOK'
  BY <1>3, <1>13, SameOwners DEF FlowInv
<1>15. QED
  BY <1>3, <1>12, <1>14 DEF FlowInv, NewestOK

\* transmit_event(): the first n packets of the delay line, which is d now, go
\* to context s as the chain r.
LEMMA Release ==
  ASSUME HeapInv, FlowInv, NEW i \in Insts, NEW s \in Senders,
         NEW d \in Seq(Leaving), NEW n \in 0..Len(d), NEW r \in Seq(Leaving),
         Ids(d) = Ids(dline[i]), Increasing(d),
         Ids(r) = Ids(SubSeq(d, 1, n)), Distinct(r),
         dline' = [dline EXCEPT ![i] = Rest(d, n)],
         tx' = [tx EXCEPT ![s] = tx[s] \o r],
         UNCHANGED <<queue, nextid, gone>>
  PROVE  OrderOK' /\ OwnedOK'
<1>1. dline \in [Insts -> Seq(Leaving)] /\ tx \in [Senders -> Seq(Leaving)]
  BY DEF HeapInv, TypeOK
<1>2. /\ dline'[i] = Rest(d, n) /\ \A j \in Insts \ {i} : dline'[j] = dline[j]
      /\ tx'[s] = tx[s] \o r /\ \A t \in Senders \ {s} : tx'[t] = tx[t]
      /\ tx[s] \in Seq(Leaving)
  BY <1>1
<1>3. \A x \in Leaving : x.id \in Nat
  BY DEF Leaving
<1>4. Distinct(d)
  BY <1>3, IncreasingIsDistinct
<1>5. /\ Ids(d) = Ids(r) \cup Ids(Rest(d, n)) /\ Ids(r) \cap Ids(Rest(d, n)) = {}
      /\ Increasing(Rest(d, n))
  BY <1>4, SplitChain
<1>6. OrderOK'
  <2>1. \A p \in Ids(Rest(d, n)), q \in Ids(queue[i]) : p < q
    BY <1>5 DEF FlowInv, OrderOK
  <2>2. QED
    BY <1>2, <1>5, <2>1 DEF FlowInv, OrderOK
<1>7. Held(i) = Ids(queue[i]) \cup Ids(d) /\ Ids(queue[i]) \cap Ids(d) = {}
  BY HeldIds, HeldInOrder DEF FlowInv
<1>8. Ids(r) \subseteq Held(i)
  BY <1>5, <1>7
<1>9. Held(i)' = Held(i) \ Ids(r)
  <2>1. Held(i)' = Ids(queue[i]) \cup Ids(Rest(d, n))
    BY <1>2 DEF Held, Ids
  <2>2. QED
    BY <1>5, <1>7, <2>1
<1>10. \A j \in Insts \ {i} : Held(j)' = Held(j)
  BY <1>2 DEF Held
<1>11. Ids(tx'[s]) = Ids(tx[s]) \cup Ids(r)
  <2>1. PICK u \in Seq(Leaving) : u = tx[s]
    BY <1>2
  <2>2. Ids(u \o r) = Ids(u) \cup Ids(r)
    BY JoinChains
  <2>3. QED
    BY <1>2, <2>1, <2>2
<1>12. Distinct(tx'[s])
  <2>1. Distinct(tx[s]) /\ Ids(tx[s]) \cap Ids(r) = {}
    BY <1>8 DEF FlowInv, OwnedOK
  <2>2. QED
    BY <1>2, <2>1, JoinChains
<1>13. OwnedOK'
  BY <1>2, <1>8, <1>9, <1>10, <1>11, <1>12, MoveOut DEF FlowInv
<1>14. QED
  BY <1>6, <1>13

LEMMA TaskTransmitFlow ==
  ASSUME HeapInv, FlowInv, NEW e \in evheap, TaskTransmit(e)
  PROVE  FlowInv'
<1>1. PICK i \in Insts : i = e.inst
  BY DEF HeapInv, TypeOK, TaskTransmit
<1>2. PICK n \in 0..Len(dline[i]) :
        /\ dline' = [dline EXCEPT ![i] = Rest(dline[i], n)]
        /\ tx' = [tx EXCEPT ![Task] = tx[Task] \o SubSeq(dline[i], 1, n)]
  BY <1>1 DEF TaskTransmit
<1>3. /\ dline[i] \in Seq(Leaving) /\ Task \in Senders
      /\ UNCHANGED <<queue, lock, pc, srv, nextid, gone>>
  BY DEF HeapInv, TypeOK, TaskTransmit, Senders
<1>4. PICK d \in Seq(Leaving) : d = dline[i]
  BY <1>3
<1>5. Increasing(d) /\ Distinct(d)
  <2>1. \A x \in Leaving : x.id \in Nat
    BY DEF Leaving
  <2>2. QED
    BY <1>4, <2>1, IncreasingIsDistinct DEF FlowInv, OrderOK
<1>6. SubSeq(d, 1, n) \in Seq(Leaving) /\ Distinct(SubSeq(d, 1, n))
  BY <1>2, <1>4, <1>5, ChainType, SplitChain
<1>7. PICK r \in Seq(Leaving) : r = SubSeq(d, 1, n)
  BY <1>6
<1>8. PICK s \in Senders : s = Task
  BY <1>3
<1>9. OrderOK' /\ OwnedOK'
  <2>1. /\ n \in 0..Len(d) /\ dline' = [dline EXCEPT ![i] = Rest(d, n)]
        /\ tx' = [tx EXCEPT ![s] = tx[s] \o r]
        /\ Ids(d) = Ids(dline[i]) /\ Ids(r) = Ids(SubSeq(d, 1, n)) /\ Distinct(r)
    BY <1>2, <1>4, <1>6, <1>7, <1>8
  <2>2. QED
    BY <1>3, <1>5, <2>1, Release
<1>10. QED
  BY <1>3, <1>9 DEF FlowInv, NewestOK

\* Postponing the last packet of the delay line leaves the packets in place.
LEMMA ServedChain ==
  ASSUME HeapInv, pc = "serve", NEW i \in Insts, i = srv.inst
  PROVE  /\ Len(ServedDline(i)) = Len(dline[i])
         /\ \A k \in 1..Len(dline[i]) :
              /\ ServedDline(i)[k].id = dline[i][k].id
              /\ ServedDline(i)[k].fin = dline[i][k].fin
              /\ k < Len(dline[i]) \/ si[i].credit >= 0 \/ ~srv.done
                   => ServedDline(i)[k] = dline[i][k]
         /\ si[i].credit < 0 /\ srv.done =>
              ServedDline(i)[Len(dline[i])].out
                = dline[i][Len(dline[i])].out + TicksToPay(si[i].credit)
<1> DEFINE d == dline[i]
           t == TicksToPay(si[i].credit)
<1>1. /\ d \in Seq(Leaving) /\ si[i].credit \in Int /\ (srv.done => d # <<>>)
      /\ srv.done \in BOOLEAN
  BY DEF HeapInv, Section, TypeOK
<1>2. CASE si[i].credit < 0 /\ srv.done
  <2>1. Len(d) \in 1..Len(d) /\ Len(d) \in Nat /\ d[Len(d)] \in Leaving
    BY <1>1, <1>2
  <2> DEFINE last == [d[Len(d)] EXCEPT !.out = @ + t]
  <2>2. ServedDline(i) = [d EXCEPT ![Len(d)].out = @ + t]
    BY <1>2 DEF ServedDline
  <2>3. last.id = d[Len(d)].id /\ last.fin = d[Len(d)].fin /\ last.out = d[Len(d)].out + t
    BY <2>1 DEF Leaving
  <2> HIDE DEF t
  <2>4. ServedDline(i) = [d EXCEPT ![Len(d)] = last]
    BY <1>1, <2>1, <2>2
  <2> HIDE DEF last, d
  <2>5. /\ Len([d EXCEPT ![Len(d)] = last]) = Len(d)
        /\ \A k \in 1..Len(d) : [d EXCEPT ![Len(d)] = last][k] = IF k = Len(d) THEN last ELSE d[k]
    BY <1>1, <2>1
  <2>6. QED
    BY <1>1, <1>2, <2>1, <2>3, <2>4, <2>5 DEF d, t
<1>3. CASE ~(si[i].credit < 0 /\ srv.done)
  BY <1>1, <1>3 DEF ServedDline
<1>4. QED
  BY <1>2, <1>3

LEMMA ServeEndFlow == ASSUME HeapInv, FlowInv, ServeEnd PROVE FlowInv'
<1>1. pc = "serve" /\ srv.inst \in Insts /\ lock \in Senders
  BY DEF HeapInv, Section, TypeOK, ServeEnd
<1>2. PICK i \in Insts : i = srv.inst
  BY <1>1
<1>3. ServedDline(i) \in Seq(Leaving) /\ dline[i] \in Seq(Leaving)
  BY <1>1, <1>2, ServedDlineType DEF HeapInv, TypeOK
<1>4. PICK d \in Seq(Leaving) : d = ServedDline(i)
  BY <1>3
<1>5. PICK n \in 0..Len(d) :
        /\ dline' = [dline EXCEPT ![i] = Rest(d, n)]
        /\ \E r \in ServeResults(SubSeq(d, 1, n)) : tx' = [tx EXCEPT ![lock] = @ \o r]
  BY <1>2, <1>4 DEF ServeEnd
<1>6. PICK s \in Senders : s = lock
  BY <1>1
<1>7. Ids(d) = Ids(dline[i]) /\ Increasing(d) /\ Distinct(d)
  <2>1. DOMAIN d = DOMAIN dline[i] /\ \A k \in DOMAIN dline[i] : dline[i][k].id = d[k].id
    BY <1>1, <1>2, <1>3, <1>4, ServedChain
  <2>2. Ids(d) = Ids(dline[i]) /\ Increasing(d)
    BY <2>1, SameChain DEF FlowInv, OrderOK
  <2>3. \A x \in Leaving : x.id \in Nat
    BY DEF Leaving
  <2>4. QED
    BY <2>2, <2>3, IncreasingIsDistinct
<1>8. PICK a \in Seq(Leaving) : a = SubSeq(d, 1, n)
  BY ChainType
<1>9. Distinct(a) /\ Ids(a) \subseteq Ids(d) /\ Len(a) = n
  BY <1>7, <1>8, SplitChain
<1>10. PICK r \in ServeResults(a) : tx' = [tx EXCEPT ![s] = tx[s] \o r]
  BY <1>5, <1>6, <1>8
<1>11. r \in Seq(Leaving) /\ Ids(r) = Ids(a) /\ Distinct(r)
  <2>1. CASE r = a
    BY <1>9, <2>1
  <2>2. CASE lock # Task /\ a # <<>> /\ Head(a).id = srv.m0 /\ r = <<[Head(a) EXCEPT !.drop = FALSE]>>
    <3> DEFINE x == [Head(a) EXCEPT !.drop = FALSE]
    <3>1. Head(a) \in Leaving /\ Len(a) \in Nat \ {0} /\ Head(a) = a[1] /\ DOMAIN a = 1..Len(a)
      BY <2>2
    <3>2. x \in Leaving /\ x.id = a[1].id
      BY <3>1 DEF Leaving
    <3> HIDE DEF x
    <3>3. r = <<x>>
      BY <2>2 DEF x
    <3>4. r \in Seq(Leaving) /\ DOMAIN r = {1} /\ r[1] = x
      BY <3>2, <3>3
    <3>5. Ids(r) = {a[1].id} /\ Distinct(r)
      BY <3>2, <3>4 DEF Ids, Distinct
    <3>6. a[1].id = nextid - 1 /\ nextid \in Nat
      BY <1>1, <2>2, <3>1 DEF FlowInv, NewestOK, HeapInv, TypeOK
    <3>7. Len(a) = 1
      <4>1. SUFFICES ASSUME Len(a) # 1 PROVE FALSE
        OBVIOUS
      <4>2. 2 \in 1..Len(a) /\ 1 \in 1..Len(a) /\ 1 < 2
        BY <3>1, <4>1
      <4>3. \A k \in 1..Len(a) : a[k] = d[k] /\ k \in DOMAIN d
        BY <1>8, <1>9
      <4>4. a[1].id < a[2].id
        BY <1>7, <4>2, <4>3 DEF Increasing
      <4>5. a[2].id \in 1..(nextid - 1)
        <5>1. a[2].id \in Ids(d)
          BY <4>2, <4>3 DEF Ids
        <5>2. Ids(d) \subseteq 1..(nextid - 1)
          BY <1>7, HeldIds DEF FlowInv, OwnedOK
        <5>3. QED
          BY <5>1, <5>2
      <4>6. QED
        BY <3>6, <4>4, <4>5
    <3>8. Ids(a) = {a[1].id}
      BY <3>1, <3>7 DEF Ids
    <3>9. QED
      BY <3>4, <3>5, <3>8
  <2>3. QED
    BY <1>10, <2>1, <2>2 DEF ServeResults
<1>12. UNCHANGED <<queue, nextid, gone>> /\ (pc' = "none" \/ pc' = "events")
  BY DEF ServeEnd
<1>13. OrderOK' /\ OwnedOK'
  BY <1>5, <1>7, <1>8, <1>10, <1>11, <1>12, Release
<1>14. QED
  BY <1>12, <1>13 DEF FlowInv, NewestOK

LEMMA SendFlow == ASSUME HeapInv, FlowInv, NEW s \in Senders, Send(s) PROVE FlowInv'
<1>1. /\ tx \in [Senders -> Seq(Leaving)] /\ tx[s] \in Seq(Leaving) /\ tx[s] # <<>>
      /\ tx' = [tx EXCEPT ![s] = Tail(tx[s])]
      /\ gone \in Seq({"inside", "delivered", "freed"})
      /\ UNCHANGED <<queue, dline, lock, pc, srv, nextid>>
  BY DEF HeapInv, TypeOK, Send
<1>2. PICK x : x = Head(tx[s]).id
  OBVIOUS
<1>3. PICK fate \in {"freed", "delivered"} : gone' = [gone EXCEPT ![x] = fate]
  BY <1>2 DEF Send
<1>4. /\ tx'[s] = Tail(tx[s]) /\ \A t \in Senders \ {s} : tx'[t] = tx[t]
      /\ Distinct(tx[s])
  BY <1>1 DEF FlowInv, OwnedOK
<1>5. Ids(tx[s]) = Ids(tx'[s]) \cup {x} /\ Distinct(tx'[s]) /\ x \notin Ids(tx'[s])
  BY <1>1, <1>2, <1>4, TailChain
<1>6. OrderOK' /\ \A i \in Insts : Held(i)' = Held(i)
  BY <1>1, SameOrder DEF FlowInv
<1>7. x \in 1..(nextid - 1) /\ Len(gone) = nextid - 1
  BY <1>5 DEF FlowInv, OwnedOK
<1>8. /\ Len(gone') = nextid - 1
      /\ \A p \in 1..(nextid - 1) : gone'[p] = IF p = x THEN fate ELSE gone[p]
  BY <1>1, <1>3, <1>7
<1>9. \A t \in Senders : Ids(tx'[t]) = Ids(tx[t]) \ {x}
  <2> SUFFICES ASSUME NEW t \in Senders PROVE Ids(tx'[t]) = Ids(tx[t]) \ {x}
    OBVIOUS
  <2>1. CASE t = s
    BY <1>5, <2>1
  <2>2. CASE t # s
    <3>1. x \notin Ids(tx[t])
      BY <1>5, <2>2 DEF FlowInv, OwnedOK
    <3>2. QED
      BY <1>4, <2>2, <3>1
  <2>3. QED
    BY <2>1, <2>2
<1>10. \A i \in Insts : x \notin Held(i)
  BY <1>5 DEF FlowInv, OwnedOK
<1>11. OwnedOK'
  <2>1. \A t \in Senders : Distinct(tx'[t])
    BY <1>4, <1>5 DEF FlowInv, OwnedOK
  <2>2. /\ \A t, u \in Senders : t # u => Ids(tx'[t]) \cap Ids(tx'[u]) = {}
        /\ \A i \in Insts, t \in Senders : Held(i)' \cap Ids(tx'[t]) = {}
        /\ \A t \in Senders : Ids(tx'[t]) \subseteq 1..(nextid - 1)
    <3>1. \A t \in Senders : Ids(tx'[t]) \subseteq Ids(tx[t])
      BY <1>9
    <3>2. \A t, u \in Senders : t # u => Ids(tx'[t]) \cap Ids(tx'[u]) = {}
      BY <3>1 DEF FlowInv, OwnedOK
    <3>3. \A i \in Insts, t \in Senders : Held(i)' \cap Ids(tx'[t]) = {}
      <4> SUFFICES ASSUME NEW i \in Insts, NEW t \in Senders PROVE Held(i)' \cap Ids(tx'[t]) = {}
        OBVIOUS
      <4>1. Held(i) \cap Ids(tx[t]) = {}
        BY DEF FlowInv, OwnedOK
      <4>2. Held(i)' = Held(i) /\ Ids(tx'[t]) \subseteq Ids(tx[t])
        BY <1>6, <3>1
      <4>3. QED
        BY <4>1, <4>2
    <3>4. QED
      BY <3>1, <3>2, <3>3 DEF FlowInv, OwnedOK
  <2>3. ASSUME NEW p \in 1..(nextid - 1)
        PROVE  gone'[p] = "inside" <=> \/ \E i \in Insts : p \in Held(i)'
                                       \/ \E t \in Senders : p \in Ids(tx'[t])
    <3>1. CASE p = x
      BY <1>6, <1>8, <1>9, <1>10, <3>1
    <3>2. CASE p # x
      <4>1. gone'[p] = gone[p] /\ \A t \in Senders : p \in Ids(tx'[t]) <=> p \in Ids(tx[t])
        BY <1>8, <1>9, <3>2
      <4>2. \A i \in Insts : p \in Held(i)' <=> p \in Held(i)
        BY <1>6
      <4>3. gone[p] = "inside" <=> \/ \E i \in Insts : p \in Held(i)
                                  \/ \E t \in Senders : p \in Ids(tx[t])
        BY DEF FlowInv, OwnedOK
      <4>4. QED
        BY <4>1, <4>2, <4>3
    <3>3. QED
      BY <3>1, <3>2
  <2>4. /\ \A i, j \in Insts : i # j => Held(i)' \cap Held(j)' = {}
        /\ \A i \in Insts : Held(i)' \subseteq 1..(nextid - 1)
    BY <1>6 DEF FlowInv, OwnedOK
  <2>5. QED
    BY <1>1, <2>1, <2>2, <2>3, <2>4, Zenon DEF OwnedOK
<1>12. QED
  BY <1>1, <1>6, <1>8, <1>11 DEF FlowInv, NewestOK

LEMMA ConfigSchedFlow == ASSUME HeapInv, FlowInv, ConfigSched PROVE FlowInv'
<1>1. /\ gone' = [p \in DOMAIN gone |-> IF \E i \in Insts : p \in Held(i) THEN "freed" ELSE gone[p]]
      /\ UNCHANGED <<lock, pc, srv, nextid, tx>>
      /\ \A i \in Insts : queue'[i] = <<>> /\ dline'[i] = <<>>
  BY DEF ConfigSched
<1>2. gone \in Seq({"inside", "delivered", "freed"}) /\ nextid \in Nat \ {0} /\ Len(gone) = nextid - 1
  BY DEF HeapInv, TypeOK, FlowInv
<1>3. DOMAIN gone = 1..(nextid - 1) /\ DOMAIN gone' = 1..(nextid - 1)
  BY <1>1, <1>2
<1>4. Len(gone') = nextid - 1
  <2>1. gone' \in Seq({"inside", "delivered", "freed"})
    BY ConfigSchedInv DEF HeapInv, TypeOK
  <2>2. Len(gone') \in Nat /\ DOMAIN gone' = 1..Len(gone')
    BY <2>1
  <2>3. QED
    BY <1>2, <1>3, <2>2
<1>5. \A i \in Insts : /\ Held(i)' = {}
                       /\ Ids(queue'[i]) = {} /\ Ids(dline'[i]) = {}
                       /\ Increasing(queue'[i]) /\ Increasing(dline'[i])
  BY <1>1 DEF Held, Ids, Increasing
<1>6. OrderOK'
  BY <1>5 DEF OrderOK
<1>7. \A p \in 1..(nextid - 1) :
        gone'[p] = "inside" <=> \/ \E i \in Insts : p \in Held(i)'
                               \/ \E s \in Senders : p \in Ids(tx[s])
  <2> SUFFICES ASSUME NEW p \in 1..(nextid - 1)
               PROVE  gone'[p] = "inside" <=> \E s \in Senders : p \in Ids(tx[s])
    BY <1>5
  <2>1. CASE \E i \in Insts : p \in Held(i)
    <3>1. gone'[p] = "freed" /\ \A s \in Senders : p \notin Ids(tx[s])
      BY <1>1, <1>3, <2>1 DEF FlowInv, OwnedOK
    <3>2. QED
      BY <3>1
  <2>2. CASE ~\E i \in Insts : p \in Held(i)
    BY <1>1, <1>3, <2>2 DEF FlowInv, OwnedOK
  <2>3. QED
    BY <2>1, <2>2
<1>8. OwnedOK'
  <2>1. /\ \A i, j \in Insts : i # j => Held(i)' \cap Held(j)' = {}
        /\ \A i \in Insts, s \in Senders : Held(i)' \cap Ids(tx[s]) = {}
        /\ \A i \in Insts : Held(i)' \subseteq 1..(nextid - 1)
    BY <1>5
  <2>2. QED
    BY <1>1, <1>7, <2>1, Zenon DEF FlowInv, OwnedOK
<1>9. QED
  BY <1>1, <1>4, <1>6, <1>8 DEF FlowInv, NewestOK

\* The steps that move no packet.
LEMMA NoPacketFlow ==
  ASSUME HeapInv, FlowInv, UNCHANGED <<queue, dline, nextid, gone, tx>>, NewestOK'
  PROVE  FlowInv'
<1>1. OrderOK' /\ \A i \in Insts : Held(i)' = Held(i)
  BY SameOrder DEF FlowInv
<1>2. OwnedOK'
  BY <1>1, SameOwners DEF FlowInv
<1>3. QED
  BY <1>1, <1>2 DEF FlowInv

LEMMA InitFlow == EmptyPipe => FlowInv
<1> SUFFICES ASSUME EmptyPipe PROVE FlowInv
  OBVIOUS
<1>1. /\ \A i \in Insts : queue[i] = <<>> /\ dline[i] = <<>>
      /\ \A s \in Senders : tx[s] = <<>>
      /\ nextid = 1 /\ gone = <<>> /\ pc = "none"
  BY DEF EmptyPipe
<1>2. \A i \in Insts : /\ Held(i) = {}
                       /\ Ids(queue[i]) = {} /\ Ids(dline[i]) = {}
                       /\ Increasing(queue[i]) /\ Increasing(dline[i])
  BY <1>1 DEF Held, Ids, Increasing
<1>3. \A s \in Senders : Ids(tx[s]) = {} /\ Distinct(tx[s])
  BY <1>1 DEF Ids, Distinct
<1>4. OrderOK
  BY <1>2 DEF OrderOK
<1>5. OwnedOK
  <2>1. 1..(nextid - 1) = {}
    BY <1>1
  <2>2. QED
    BY <1>2, <1>3, <2>1, Zenon DEF OwnedOK
<1>6. QED
  BY <1>1, <1>4, <1>5 DEF FlowInv, NewestOK

\* The inductive invariant of the packets.
LEMMA StepFlow == HeapInv /\ FlowInv /\ [Next]_vars => FlowInv'
<1> SUFFICES ASSUME HeapInv, FlowInv, [Next]_vars PROVE FlowInv'
  OBVIOUS
<1>1. CASE UNCHANGED vars
  BY <1>1, NoPacketFlow DEF vars, FlowInv, NewestOK
<1>2. CASE Io
  <2>1. ASSUME NEW th \in Threads, IoNoMemory(th) PROVE FlowInv'
    BY <2>1, IoFreedFlow DEF IoNoMemory, MayArrive
  <2>2. ASSUME NEW th \in Threads, NEW i \in Insts, IoDrop(th, i) PROVE FlowInv'
    BY <2>2, IoFreedFlow DEF IoDrop, MayArrive
  <2>3. QED
    BY <1>2, <2>1, <2>2, IoEnqueueFlow DEF Io
<1>3. CASE Serve
  BY <1>3, ServeDequeueFlow, ServeEndFlow DEF Serve
<1>4. ASSUME NEW step \in TickSteps, TaskTick(step) PROVE FlowInv'
  BY <1>4, NoPacketFlow DEF TaskTick, NewestOK
<1>5. CASE TaskEvent
  <2>1. ASSUME NEW e \in evheap, TaskServeSched(e) PROVE FlowInv'
    <3>1. lock' = Task
      BY <2>1 DEF TaskServeSched, HeapInv, Section
    <3>2. QED
      BY <2>1, <3>1, NoPacketFlow DEF TaskServeSched, NewestOK
  <2>2. QED
    BY <1>5, <2>1, TaskTransmitFlow DEF TaskEvent
<1>6. CASE TaskDone
  BY <1>6, NoPacketFlow DEF TaskDone, NewestOK
<1>7. CASE \E s \in Senders : Send(s)
  BY <1>7, SendFlow
<1>8. CASE Config
  <2>1. ASSUME NEW l \in Links, ConfigLink(l) PROVE FlowInv'
    BY <2>1, NoPacketFlow DEF ConfigLink, FlowInv, NewestOK
  <2>2. CASE ConfigProfile
    BY <2>2, NoPacketFlow DEF ConfigProfile, FlowInv, NewestOK
  <2>3. QED
    BY <1>8, <2>1, <2>2, ConfigSchedFlow DEF Config
<1>9. QED
  BY <1>1, <1>2, <1>3, <1>4, <1>5, <1>6, <1>7, <1>8 DEF Next

-----------------------------------------------------------------------------
\* The packets of every reachable state are in order and have one owner each.
THEOREM FlowInvariant == Spec => [](HeapInv /\ FlowInv)
<1>1. Init => FlowInv
  BY InitFlow DEF Init
<1>2. HeapInv /\ FlowInv /\ [Next]_vars => FlowInv'
  BY StepFlow
<1>3. QED
  BY <1>1, <1>2, HeapInvariant, PTL DEF Spec

\* Two increasing sequences, all of the first below all of the second.
LEMMA JoinIncreasing ==
  ASSUME NEW s \in Seq(Nat), NEW t \in Seq(Nat),
         \A j, k \in DOMAIN s : j < k => s[j] < s[k],
         \A j, k \in DOMAIN t : j < k => t[j] < t[k],
         \A j \in DOMAIN s, k \in DOMAIN t : s[j] < t[k]
  PROVE  \A j, k \in DOMAIN (s \o t) : j < k => (s \o t)[j] < (s \o t)[k]
<1> DEFINE u == s \o t
<1>1. /\ Len(s) \in Nat /\ Len(t) \in Nat /\ DOMAIN s = 1..Len(s) /\ DOMAIN t = 1..Len(t)
      /\ DOMAIN u = 1..(Len(s) + Len(t))
      /\ \A k \in 1..(Len(s) + Len(t)) : u[k] = IF k <= Len(s) THEN s[k] ELSE t[k - Len(s)]
  <2>1. Len(s) \in Nat /\ Len(t) \in Nat /\ DOMAIN s = 1..Len(s) /\ DOMAIN t = 1..Len(t)
    OBVIOUS
  <2>2. u \in Seq(Nat) /\ Len(u) = Len(s) + Len(t)
    OBVIOUS
  <2>3. \A k \in 1..(Len(s) + Len(t)) : u[k] = IF k <= Len(s) THEN s[k] ELSE t[k - Len(s)]
    OBVIOUS
  <2> HIDE DEF u
  <2>4. QED
    BY <2>1, <2>2, <2>3
<1> HIDE DEF u
<1>2. ASSUME NEW j \in DOMAIN u, NEW k \in DOMAIN u, j < k PROVE u[j] < u[k]
  <2>1. CASE k <= Len(s)
    <3>1. j \in DOMAIN s /\ k \in DOMAIN s /\ u[j] = s[j] /\ u[k] = s[k]
      BY <1>1, <1>2, <2>1
    <3>2. QED
      BY <1>2, <3>1
  <2>2. CASE j <= Len(s) /\ ~(k <= Len(s))
    <3>1. j \in DOMAIN s /\ k - Len(s) \in DOMAIN t /\ u[j] = s[j] /\ u[k] = t[k - Len(s)]
      BY <1>1, <1>2, <2>2
    <3>2. QED
      BY <3>1
  <2>3. CASE ~(j <= Len(s)) /\ ~(k <= Len(s))
    <3>1. /\ j - Len(s) \in DOMAIN t /\ k - Len(s) \in DOMAIN t /\ j - Len(s) < k - Len(s)
          /\ u[j] = t[j - Len(s)] /\ u[k] = t[k - Len(s)]
      BY <1>1, <1>2, <2>3
    <3>2. QED
      BY <3>1
  <2>4. QED
    BY <1>1, <1>2, <2>1, <2>2, <2>3
<1>3. QED
  BY <1>2 DEF u

\* The identities of a chain, in the order in which it holds them.
LEMMA IdSequence ==
  ASSUME NEW S, NEW s \in Seq(S), \A x \in S : x.id \in Nat
  PROVE  [k \in DOMAIN s |-> s[k].id] \in Seq(Nat)
<1>1. Len(s) \in Nat /\ DOMAIN s = 1..Len(s) /\ \A k \in 1..Len(s) : s[k] \in S
  OBVIOUS
<1>2. [k \in 1..Len(s) |-> s[k].id] \in [1..Len(s) -> Nat]
  BY <1>1
<1>3. QED
  BY <1>1, <1>2

\* InOrder: no packet passes another one of its flow, whatever is reconfigured
\* and whatever allocation fails.
THEOREM OrderKept == Spec => []InOrder
<1>1. HeapInv /\ FlowInv => InOrder
  <2> SUFFICES ASSUME HeapInv, FlowInv, NEW i \in Insts
               PROVE  LET ids == [k \in DOMAIN dline[i] |-> dline[i][k].id]
                                 \o [k \in DOMAIN queue[i] |-> queue[i][k].id]
                      IN  \A j, k \in DOMAIN ids : j < k => ids[j] < ids[k]
    BY DEF InOrder
  <2>1. /\ queue[i] \in Seq(Packet) /\ dline[i] \in Seq(Leaving)
        /\ \A x \in Packet : x.id \in Nat
        /\ \A x \in Leaving : x.id \in Nat
    BY HeldInOrder DEF FlowInv
  <2>2. PICK d \in Seq(Leaving) : d = dline[i]
    BY <2>1
  <2>3. PICK q \in Seq(Packet) : q = queue[i]
    BY <2>1
  <2>4. PICK a \in Seq(Nat) : a = [k \in DOMAIN d |-> d[k].id]
    BY <2>1, IdSequence
  <2>5. PICK b \in Seq(Nat) : b = [k \in DOMAIN q |-> q[k].id]
    BY <2>1, IdSequence
  <2>6. /\ DOMAIN a = DOMAIN d /\ \A k \in DOMAIN a : a[k] = d[k].id
        /\ DOMAIN b = DOMAIN q /\ \A k \in DOMAIN b : b[k] = q[k].id
    BY <2>4, <2>5
  <2>7. /\ \A j, k \in DOMAIN d : j < k => d[j].id < d[k].id
        /\ \A j, k \in DOMAIN q : j < k => q[j].id < q[k].id
        /\ \A j \in DOMAIN d, k \in DOMAIN q : d[j].id < q[k].id
    BY <2>2, <2>3 DEF FlowInv, OrderOK, Increasing, Ids
  <2>8. \A j, k \in DOMAIN (a \o b) : j < k => (a \o b)[j] < (a \o b)[k]
    <3>1. \A j, k \in DOMAIN a : j < k => a[j] < a[k]
      BY <2>6, <2>7
    <3>2. \A j, k \in DOMAIN b : j < k => b[j] < b[k]
      BY <2>6, <2>7
    <3>3. \A j \in DOMAIN a, k \in DOMAIN b : a[j] < b[k]
      BY <2>6, <2>7
    <3>4. QED
      BY <3>1, <3>2, <3>3, JoinIncreasing
  <2>9. QED
    BY <2>2, <2>3, <2>4, <2>5, <2>8
<1>2. QED
  BY <1>1, FlowInvariant, PTL

\* A chain without packet p has it at no index; one that holds it once, at one.
LEMMA IndicesOf ==
  ASSUME NEW s, NEW p
  PROVE  /\ p \notin Ids(s) => {k \in DOMAIN s : s[k].id = p} = {}
         /\ p \in Ids(s) /\ Distinct(s) =>
              \E n \in DOMAIN s : {k \in DOMAIN s : s[k].id = p} = {n}
  BY DEF Ids, Distinct

\* Where packet p is in an instance, and in the chain of a context.
InInst(p, i) ==
  {<<"queue", i, k>> : k \in {k \in DOMAIN queue[i] : queue[i][k].id = p}}
  \cup {<<"dline", i, k>> : k \in {k \in DOMAIN dline[i] : dline[i][k].id = p}}
InChain(p, s) == {<<"tx", s, k>> : k \in {k \in DOMAIN tx[s] : tx[s][k].id = p}}

LEMMA MembersOfPlaces ==
  ASSUME NEW p, NEW x
  PROVE  x \in Places(p) <=>
           \/ \E i \in Insts :
                \/ \E k \in {k \in DOMAIN queue[i] : queue[i][k].id = p} : x = <<"queue", i, k>>
                \/ \E k \in {k \in DOMAIN dline[i] : dline[i][k].id = p} : x = <<"dline", i, k>>
           \/ \E s \in Senders :
                \E k \in {k \in DOMAIN tx[s] : tx[s][k].id = p} : x = <<"tx", s, k>>
<1>1. Places(p) = (UNION {InInst(p, i) : i \in Insts}) \cup (UNION {InChain(p, s) : s \in Senders})
  BY Zenon DEF Places, InInst, InChain
<1>2. x \in Places(p) <=> \/ \E i \in Insts : x \in InInst(p, i)
                        \/ \E s \in Senders : x \in InChain(p, s)
  BY <1>1
<1>3. QED
  BY <1>2, Zenon DEF InInst, InChain

\* The places of a packet that is nowhere, and of one that is in one chain.
LEMMA PlacesOf ==
  ASSUME HeapInv, FlowInv, NEW p \in 1..(nextid - 1)
  PROVE  IF gone[p] = "inside" THEN \E x : Places(p) = {x} ELSE Places(p) = {}
<1> DEFINE Q(i) == {k \in DOMAIN queue[i] : queue[i][k].id = p}
           D(i) == {k \in DOMAIN dline[i] : dline[i][k].id = p}
           T(s) == {k \in DOMAIN tx[s] : tx[s][k].id = p}
<1>1. \A x : x \in Places(p) <=>
         \/ \E i \in Insts : \/ \E k \in Q(i) : x = <<"queue", i, k>>
                             \/ \E k \in D(i) : x = <<"dline", i, k>>
         \/ \E s \in Senders : \E k \in T(s) : x = <<"tx", s, k>>
  BY MembersOfPlaces
<1>2. /\ \A i \in Insts : p \notin Held(i) => Q(i) = {} /\ D(i) = {}
      /\ \A s \in Senders : p \notin Ids(tx[s]) => T(s) = {}
  BY IndicesOf, HeldIds
<1>3. CASE gone[p] # "inside"
  <2>1. /\ \A i \in Insts : p \notin Held(i)
        /\ \A s \in Senders : p \notin Ids(tx[s])
    BY <1>3 DEF FlowInv, OwnedOK
  <2>2. QED
    BY <1>1, <1>2, <1>3, <2>1
<1>4. ASSUME NEW i \in Insts, p \in Held(i) PROVE \E x : Places(p) = {x}
  <2>1. /\ \A j \in Insts : j # i => p \notin Held(j)
        /\ \A s \in Senders : p \notin Ids(tx[s])
    BY <1>4 DEF FlowInv, OwnedOK
  <2>2. /\ \A j \in Insts : j # i => Q(j) = {} /\ D(j) = {}
        /\ \A s \in Senders : T(s) = {}
    BY <1>2, <2>1
  <2>3. /\ Distinct(queue[i]) /\ Distinct(dline[i])
        /\ Ids(queue[i]) \cap Ids(dline[i]) = {}
    BY HeldInOrder, IncreasingIsDistinct DEF FlowInv, OrderOK
  <2>4. CASE p \in Ids(queue[i])
    <3>1. PICK n \in DOMAIN queue[i] : Q(i) = {n}
      BY <2>3, <2>4, IndicesOf
    <3>2. D(i) = {}
      BY <2>3, <2>4, IndicesOf
    <3> HIDE DEF Q, D, T
    <3>3. Places(p) = {<<"queue", i, n>>}
      BY <1>1, <2>2, <3>1, <3>2
    <3>4. QED
      BY <3>3
  <2>5. CASE p \in Ids(dline[i])
    <3>1. PICK n \in DOMAIN dline[i] : D(i) = {n}
      BY <2>3, <2>5, IndicesOf
    <3>2. Q(i) = {}
      BY <2>3, <2>5, IndicesOf
    <3> HIDE DEF Q, D, T
    <3>3. Places(p) = {<<"dline", i, n>>}
      BY <1>1, <2>2, <3>1, <3>2
    <3>4. QED
      BY <3>3
  <2>6. QED
    BY <1>4, <2>4, <2>5, HeldIds
<1>5. ASSUME NEW s \in Senders, p \in Ids(tx[s]) PROVE \E x : Places(p) = {x}
  <2>1. /\ \A i \in Insts : p \notin Held(i)
        /\ \A t \in Senders : t # s => p \notin Ids(tx[t])
    BY <1>5 DEF FlowInv, OwnedOK
  <2>2. /\ \A i \in Insts : Q(i) = {} /\ D(i) = {}
        /\ \A t \in Senders : t # s => T(t) = {}
    BY <1>2, <2>1
  <2>3. PICK n \in DOMAIN tx[s] : T(s) = {n}
    BY <1>5, IndicesOf DEF FlowInv, OwnedOK
  <2> HIDE DEF Q, D, T
  <2>4. Places(p) = {<<"tx", s, n>>}
    BY <1>1, <2>2, <2>3
  <2>5. QED
    BY <2>4
<1>6. gone[p] = "inside" => \/ \E i \in Insts : p \in Held(i)
                            \/ \E s \in Senders : p \in Ids(tx[s])
  BY DEF FlowInv, OwnedOK
<1>7. QED
  BY <1>3, <1>4, <1>5, <1>6

\* Conservation: a packet that is inside is in exactly one place, one that was
\* sent or freed is in none, on every path of serve_sched(), transmit_event(),
\* dummynet_send() and of the commands that destroy instances.
THEOREM NoPacketLost == Spec => []Conservation
<1>1. HeapInv /\ FlowInv => Conservation
  <2> SUFFICES ASSUME HeapInv, FlowInv, NEW p \in 1..(nextid - 1)
               PROVE  Cardinality(Places(p)) = IF gone[p] = "inside" THEN 1 ELSE 0
    BY DEF Conservation
  <2>1. CASE gone[p] = "inside"
    <3>1. PICK x : Places(p) = {x}
      BY <2>1, PlacesOf
    <3>2. QED
      BY <2>1, <3>1, FS_Singleton
  <2>2. CASE gone[p] # "inside"
    BY <2>2, PlacesOf, FS_EmptySet
  <2>3. QED
    BY <2>1, <2>2
<1>2. QED
  BY <1>1, FlowInvariant, PTL

-----------------------------------------------------------------------------
(***************************************************************************)
(* When heap_insert() does not fail, whatever waits in the pipe has an     *)
(* event in the heap, at the time at which it must be looked at.           *)
(***************************************************************************)

\* No event is overdue when dummynet_task() has finished.
Future == lock # Task => \A e \in evheap : e.key > curr_time

\* serve_sched() has added a packet to a delay line that was not idle.
LongLine ==
  pc = "serve" /\ ~srv.dlidle /\ srv.done => Len(dline[srv.inst]) >= 2

\* The output times of a delay line never go back, and none is later than what
\* the next packet of the instance will get.
LineAt(i) ==
  /\ \A j, k \in DOMAIN dline[i] : j <= k => dline[i][j].out <= dline[i][k].out
  /\ \A k \in DOMAIN dline[i] :
       /\ ~si[i].active => dline[i][k].out <= curr_time + link.delay
       /\ \A e \in evheap : e.kind = "si" /\ e.inst = i
                              => dline[i][k].out <= e.key + link.delay

\* What waits in instance i will be looked at.
InstOK(i) ==
  /\ queue[i] # <<>> => si[i].active \/ Serving(i)
  /\ si[i].dlheap => Event(dline[i][1].out, "dl", i) \in evheap
  /\ nconf = 0 => LineAt(i)

SchedInv == Future /\ LongLine /\ \A i \in Insts : InstOK(i)

\* An instance that a step leaves alone.
LEMMA KeepInst ==
  ASSUME HeapInv, NEW i \in Insts, InstOK(i),
         queue'[i] = queue[i], dline'[i] = dline[i],
         si'[i].active = si[i].active, si'[i].dlheap = si[i].dlheap,
         \A e : e.inst = i => (e \in evheap' <=> e \in evheap),
         curr_time' \in Nat, curr_time' >= curr_time,
         nconf' = 0 => nconf = 0 /\ link' = link,
         Serving(i) => Serving(i)'
  PROVE  InstOK(i)'
<1>1. si'[i].dlheap => Event(dline'[i][1].out, "dl", i) \in evheap'
  BY DEF InstOK, Event
<1>2. queue'[i] # <<>> => si'[i].active \/ Serving(i)'
  BY DEF InstOK
<1>3. ASSUME nconf' = 0 PROVE LineAt(i)'
  <2>1. LineAt(i) /\ link' = link
    BY <1>3 DEF InstOK
  <2>2. /\ curr_time \in Nat /\ link.delay \in Nat
        /\ \A k \in DOMAIN dline[i] : dline[i][k].out \in Nat
    <3>1. /\ dline[i] \in Seq(Leaving) /\ curr_time \in Nat /\ link \in Links
          /\ \A x \in Leaving : x.out \in Nat
      BY DEF HeapInv, TypeOK, Leaving
    <3>2. QED
      BY <3>1, LinkType
  <2>3. \A k \in DOMAIN dline'[i] : ~si'[i].active => dline'[i][k].out <= curr_time' + link'.delay
    BY <2>1, <2>2 DEF LineAt
  <2>4. QED
    BY <2>1, <2>3 DEF LineAt
<1>4. QED
  BY <1>1, <1>2, <1>3 DEF InstOK

\* A step that moves no packet and no event, and changes no mark.
LEMMA KeepSched ==
  ASSUME HeapInv, SchedInv, UNCHANGED <<queue, dline, evheap>>,
         \A i \in Insts : si'[i].active = si[i].active /\ si'[i].dlheap = si[i].dlheap,
         curr_time' \in Nat, curr_time' >= curr_time,
         nconf' = 0 => nconf = 0 /\ link' = link,
         lock' = Task \/ (curr_time' = curr_time /\ (lock' # Task => lock # Task)),
         \/ pc # "serve" /\ pc' # "serve"
         \/ UNCHANGED <<pc, srv>>
  PROVE  SchedInv'
<1>1. Future'
  BY DEF SchedInv, Future
<1>2. LongLine'
  BY DEF SchedInv, LongLine
<1>3. \A i \in Insts : Serving(i) => Serving(i)'
  BY DEF Serving
<1>4. \A i \in Insts : InstOK(i)'
  BY <1>3, KeepInst DEF SchedInv
<1>5. QED
  BY <1>1, <1>2, <1>4 DEF SchedInv

\* A packet that arrives finds its instance, which keeps its marks.
LEMMA FindKeeps ==
  ASSUME HeapInv, NEW i \in Insts
  PROVE  /\ SiFind(i) \in SiType
         /\ SiFind(i).active = si[i].active
         /\ SiFind(i).dlheap = si[i].dlheap
<1>1. SiFind(i) \in SiType /\ si[i] \in SiType
  BY SiFindType DEF HeapInv, TypeOK, SiType
<1>2. CASE si[i].alive
  BY <1>1, <1>2, SiFindType DEF HeapInv
<1>3. CASE ~si[i].alive
  <2>1. ~SiFind(i).active /\ ~SiFind(i).dlheap
    BY <1>3, SiFindType DEF HeapInv
  <2>2. ~si[i].active /\ ~si[i].dlheap
    BY <1>3 DEF HeapInv, Flags
  <2>3. QED
    BY <1>1, <2>1, <2>2 DEF SiType
<1>4. QED
  BY <1>2, <1>3

LEMMA IoEnqueueSched ==
  ASSUME HeapInv, SchedInv, NEW th \in Threads, NEW i \in Insts, NEW len \in Lens,
         IoEnqueue(th, i, len)
  PROVE  SchedInv'
<1>1. /\ lock = Free /\ pc = "none" /\ th # Task /\ Free # Task
      /\ si \in [Insts -> SiType] /\ curr_time \in Nat
      /\ UNCHANGED <<curr_time, link, dline, evheap, nconf>>
  BY ThreadAssumption DEF HeapInv, Section, TypeOK, IoEnqueue, MayArrive, SiType, Free, Task
<1>2. /\ SiFind(i) \in SiType /\ SiFind(i).active = si[i].active
      /\ SiFind(i).dlheap = si[i].dlheap
  BY FindKeeps
<1>3. \A j \in Insts \ {i} : queue'[j] = queue[j]
  BY DEF IoEnqueue, HeapInv, TypeOK
<1>4. \A j \in Insts : ~Serving(j)
  BY <1>1 DEF Serving
<1>5. CASE SiFind(i).active
  <2>1. si' = [si EXCEPT ![i] = SiFind(i)] /\ UNCHANGED <<lock, pc, srv>>
    BY <1>5 DEF IoEnqueue
  <2>2. \A j \in Insts : si'[j].active = si[j].active /\ si'[j].dlheap = si[j].dlheap
    BY <1>1, <1>2, <2>1
  <2>3. Future' /\ LongLine'
    BY <1>1, <2>1 DEF SchedInv, Future, LongLine
  <2>4. \A j \in Insts \ {i} : InstOK(j)'
    BY <1>1, <1>3, <1>4, <2>2, KeepInst DEF SchedInv
  <2>5. InstOK(i)'
    BY <1>1, <1>2, <1>5, <2>2 DEF SchedInv, InstOK, LineAt, Event
  <2>6. QED
    BY <2>3, <2>4, <2>5 DEF SchedInv
<1>6. CASE ~SiFind(i).active
  <2> DEFINE t == ServeEnter(InitialAllowance(SiFind(i)))
  <2>1. /\ si' = [si EXCEPT ![i] = t] /\ lock' = th /\ pc' = "serve"
        /\ srv' = [inst |-> i, dlidle |-> dline[i] = <<>>, done |-> FALSE, m0 |-> nextid]
    BY <1>6 DEF IoEnqueue
  <2>2. t \in SiType /\ ~t.active /\ t.dlheap = si[i].dlheap
    BY <1>2, InitialAllowanceType, ServeEnterType DEF HeapInv
  <2> HIDE DEF t
  <2>3. \A j \in Insts : si'[j].active = si[j].active /\ si'[j].dlheap = si[j].dlheap
    BY <1>1, <1>2, <1>6, <2>1, <2>2 DEF SiType
  <2>4. Future'
    BY <1>1, <2>1 DEF SchedInv, Future
  <2>5. LongLine'
    BY <2>1 DEF LongLine
  <2>6. \A j \in Insts \ {i} : InstOK(j)'
    BY <1>1, <1>3, <1>4, <2>3, KeepInst DEF SchedInv
  <2>7. InstOK(i)'
    <3>1. Serving(i)'
      BY <2>1 DEF Serving
    <3>2. QED
      BY <1>1, <1>2, <1>6, <2>3, <3>1 DEF SchedInv, InstOK, LineAt, Event
  <2>8. QED
    BY <2>4, <2>5, <2>6, <2>7 DEF SchedInv
<1>7. QED
  BY <1>5, <1>6

LEMMA ServeDequeueSched ==
  ASSUME HeapInv, SchedInv, ServeDequeue
  PROVE  SchedInv'
<1>1. PICK i \in Insts : i = srv.inst
  BY DEF HeapInv, Section, ServeDequeue
<1>2. /\ pc = "serve" /\ ~si[i].active /\ Serving(i)
      /\ si \in [Insts -> SiType] /\ dline \in [Insts -> Seq(Leaving)]
      /\ queue \in [Insts -> Seq(Packet)]
      /\ (~srv.dlidle => dline[i] # <<>>) /\ (si[i].dlheap => dline[i] # <<>>)
      /\ srv.dlidle \in BOOLEAN
  BY <1>1 DEF HeapInv, Section, Flags, TypeOK, ServeDequeue, SiType, Serving
<1>3. PICK x, c : /\ si' = [si EXCEPT ![i].credit = c]
                  /\ dline' = [dline EXCEPT ![i] = Append(dline[i],
                        [id |-> Head(queue[i]).id, out |-> curr_time + link.delay,
                         drop |-> x, fin |-> Head(queue[i]).fin])]
  BY <1>1, <1>2, Zenon DEF ServeDequeue, MqAppend
<1>4. /\ UNCHANGED <<curr_time, link, evheap, lock, pc, nconf>>
      /\ srv' = [srv EXCEPT !.done = TRUE]
      /\ \A j \in Insts \ {i} : queue'[j] = queue[j] /\ dline'[j] = dline[j]
  BY <1>1, <1>2, <1>3 DEF ServeDequeue
<1>5. \A j \in Insts : si'[j].active = si[j].active /\ si'[j].dlheap = si[j].dlheap
  BY <1>2, <1>3 DEF SiType
<1>6. srv'.inst = srv.inst /\ srv'.dlidle = srv.dlidle
  BY <1>4 DEF HeapInv, TypeOK
<1>7. PICK d \in Seq(Leaving) : d = dline[i]
  BY <1>2
<1>8. PICK m : /\ m.out = curr_time + link.delay
               /\ dline'[i] = Append(d, m)
  <2> DEFINE m == [id |-> Head(queue[i]).id, out |-> curr_time + link.delay,
                   drop |-> x, fin |-> Head(queue[i]).fin]
  <2>1. m.out = curr_time + link.delay
    OBVIOUS
  <2>2. dline'[i] = Append(d, m)
    BY <1>2, <1>3, <1>7
  <2> HIDE DEF m
  <2>3. QED
    BY <2>1, <2>2
<1>9. /\ Len(d) \in Nat /\ DOMAIN d = 1..Len(d)
      /\ DOMAIN dline'[i] = 1..(Len(d) + 1) /\ dline'[i][Len(d) + 1] = m
      /\ Len(dline'[i]) = Len(d) + 1
      /\ \A k \in 1..Len(d) : dline'[i][k] = d[k]
  BY <1>8
<1>10. d # <<>> => Len(d) >= 1
  BY <1>7
<1>11. LongLine'
  BY <1>1, <1>2, <1>4, <1>6, <1>7, <1>9, <1>10 DEF LongLine
<1>12. Future'
  BY <1>4 DEF SchedInv, Future
<1>13. \A j \in Insts \ {i} : InstOK(j)'
  <2>1. curr_time \in Nat /\ \A j \in Insts : Serving(j) => Serving(j)'
    BY <1>4, <1>6 DEF HeapInv, TypeOK, Serving
  <2>2. QED
    BY <1>4, <1>5, <2>1, KeepInst DEF SchedInv
<1>14. InstOK(i)'
  <2>1. Serving(i)'
    BY <1>2, <1>4, <1>6 DEF Serving
  <2>2. si'[i].dlheap => Event(dline'[i][1].out, "dl", i) \in evheap'
    BY <1>2, <1>4, <1>5, <1>7, <1>9, <1>10 DEF SchedInv, InstOK
  <2>3. ASSUME nconf' = 0 PROVE LineAt(i)'
    <3>1. LineAt(i) /\ UNCHANGED <<curr_time, link, evheap>>
      BY <1>4, <2>3 DEF SchedInv, InstOK
    <3>2. curr_time + link.delay \in Nat /\ \A k \in 1..Len(d) : d[k].out \in Nat
      <4>1. curr_time \in Nat /\ link.delay \in Nat /\ \A y \in Leaving : y.out \in Nat
        BY LinkType DEF HeapInv, TypeOK, Leaving
      <4>2. QED
        BY <4>1
    <3>3. \A e \in evheap : ~(e.kind = "si" /\ e.inst = i)
      BY <1>2 DEF HeapInv, NoDanglingEvent
    <3>4. \A k \in 1..Len(d) : d[k].out <= curr_time + link.delay
      BY <1>2, <1>7, <1>9, <3>1 DEF LineAt
    <3>5. \A j, k \in 1..Len(d) : j <= k => d[j].out <= d[k].out
      BY <1>7, <1>9, <3>1 DEF LineAt
    <3>6. \A k \in DOMAIN dline'[i] : dline'[i][k].out <= curr_time + link.delay
      BY <1>8, <1>9, <3>2, <3>4
    <3>7. ASSUME NEW j \in DOMAIN dline'[i], NEW k \in DOMAIN dline'[i], j <= k
          PROVE  dline'[i][j].out <= dline'[i][k].out
      <4>1. CASE k = Len(d) + 1
        BY <1>8, <1>9, <3>6, <4>1
      <4>2. CASE k # Len(d) + 1
        BY <1>9, <3>5, <3>7, <4>2
      <4>3. QED
        BY <4>1, <4>2
    <3>8. QED
      BY <3>1, <3>3, <3>6, <3>7 DEF LineAt
  <2>4. QED
    BY <2>1, <2>2, <2>3 DEF InstOK
<1>15. QED
  BY <1>11, <1>12, <1>13, <1>14 DEF SchedInv

LEMMA TaskServeSchedSched ==
  ASSUME HeapInv, SchedInv, NEW e \in evheap, TaskServeSched(e)
  PROVE  SchedInv'
<1>1. PICK i \in Insts : i = e.inst
  BY DEF HeapInv, TypeOK
<1>2. /\ e.kind = "si" /\ e.key <= curr_time /\ evheap' = evheap \ {e}
      /\ si' = [si EXCEPT ![i] = ServeEnter(si[i])] /\ pc' = "serve" /\ pc = "events"
      /\ srv' = [inst |-> i, dlidle |-> dline[i] = <<>>, done |-> FALSE, m0 |-> 0]
      /\ UNCHANGED <<curr_time, link, queue, dline, lock, nconf>>
      /\ lock = Task /\ si \in [Insts -> SiType]
      /\ curr_time \in Nat /\ e.key \in Nat /\ link.delay \in Nat
  BY <1>1, LinkType DEF TaskServeSched, IsDue, HeapInv, Section, TypeOK, SiType
<1>3. /\ ServeEnter(si[i]) \in SiType /\ ~ServeEnter(si[i]).active
      /\ ServeEnter(si[i]).dlheap = si[i].dlheap
  BY <1>2, ServeEnterType DEF HeapInv
<1>4. /\ \A j \in Insts \ {i} : si'[j] = si[j]
      /\ ~si'[i].active /\ si'[i].dlheap = si[i].dlheap
  BY <1>2, <1>3
<1>5. Future' /\ LongLine'
  BY <1>2 DEF Future, LongLine
<1>6. \A j \in Insts \ {i} : InstOK(j)'
  <2>1. \A j \in Insts : ~Serving(j)
    BY <1>2 DEF Serving
  <2>2. \A j \in Insts \ {i} : \A f : f.inst = j => (f \in evheap' <=> f \in evheap)
    BY <1>1, <1>2
  <2>3. QED
    BY <1>2, <1>4, <2>1, <2>2, KeepInst DEF SchedInv
<1>7. InstOK(i)'
  <2>1. Serving(i)'
    BY <1>2 DEF Serving
  <2>2. si'[i].dlheap => Event(dline'[i][1].out, "dl", i) \in evheap'
    <3>1. Event(dline[i][1].out, "dl", i) # e
      BY <1>2 DEF Event
    <3>2. QED
      BY <1>2, <1>4, <3>1 DEF SchedInv, InstOK
  <2>3. ASSUME nconf' = 0 PROVE LineAt(i)'
    <3>1. LineAt(i)
      BY <1>2, <2>3 DEF SchedInv, InstOK
    <3>2. \A k \in DOMAIN dline[i] : dline[i][k].out \in Nat
      <4>1. dline[i] \in Seq(Leaving) /\ \A y \in Leaving : y.out \in Nat
        BY DEF HeapInv, TypeOK, Leaving
      <4>2. QED
        BY <4>1
    <3>3. \A k \in DOMAIN dline[i] : dline[i][k].out <= e.key + link.delay
      BY <1>1, <1>2, <3>1 DEF LineAt
    <3>4. \A k \in DOMAIN dline[i] : dline[i][k].out <= curr_time + link.delay
      BY <1>2, <3>2, <3>3
    <3>5. QED
      BY <1>2, <1>4, <3>1, <3>4 DEF LineAt
  <2>4. QED
    BY <2>1, <2>2, <2>3 DEF InstOK
<1>8. QED
  BY <1>5, <1>6, <1>7 DEF SchedInv

\* The output times of what is left of a delay line.
LEMMA RestOut ==
  ASSUME NEW d \in Seq(Leaving), NEW n \in 0..Len(d)
  PROVE  /\ n < Len(d) => Rest(d, n)[1] = d[n + 1]
         /\ (\A j, k \in DOMAIN d : j <= k => d[j].out <= d[k].out) =>
              \A j, k \in DOMAIN Rest(d, n) : j <= k => Rest(d, n)[j].out <= Rest(d, n)[k].out
         /\ \A k \in DOMAIN Rest(d, n) : \E j \in DOMAIN d : Rest(d, n)[k] = d[j]
<1> DEFINE r == Rest(d, n)
<1>1. /\ Len(d) \in Nat /\ n \in Nat /\ n <= Len(d) /\ DOMAIN d = 1..Len(d)
      /\ DOMAIN r = 1..(Len(d) - n) /\ \A k \in 1..(Len(d) - n) : r[k] = d[k + n]
  <2>1. r \in Seq(Leaving) /\ Len(r) = Len(d) - n /\ \A k \in 1..(Len(d) - n) : r[k] = d[k + n]
    BY RestAt
  <2> HIDE DEF r
  <2>2. QED
    BY <2>1
<1> HIDE DEF r
<1>2. n < Len(d) => r[1] = d[n + 1]
  BY <1>1
<1>3. \A k \in DOMAIN r : k + n \in DOMAIN d /\ r[k] = d[k + n]
  BY <1>1
<1>4. ASSUME \A j, k \in DOMAIN d : j <= k => d[j].out <= d[k].out,
             NEW j \in DOMAIN r, NEW k \in DOMAIN r, j <= k
      PROVE  r[j].out <= r[k].out
  <2>1. j + n <= k + n
    BY <1>1, <1>4
  <2>2. QED
    BY <1>3, <1>4, <2>1
<1>5. QED
  BY <1>2, <1>3, <1>4 DEF r

LEMMA TaskTransmitSched ==
  ASSUME ~AllocMayFail, HeapInv, SchedInv, NEW e \in evheap, TaskTransmit(e)
  PROVE  SchedInv'
<1>1. PICK i \in Insts : i = e.inst
  BY DEF HeapInv, TypeOK
<1>2. /\ e.kind = "dl" /\ pc = "events" /\ lock = Task
      /\ UNCHANGED <<curr_time, link, queue, lock, pc, srv, nconf>>
      /\ si \in [Insts -> SiType] /\ dline \in [Insts -> Seq(Leaving)]
      /\ curr_time \in Nat
  BY DEF TaskTransmit, HeapInv, Section, TypeOK, SiType
<1>3. PICK d \in Seq(Leaving) : d = dline[i]
  BY <1>2
<1>4. PICK n \in 0..Len(d) :
        /\ evheap' \in DlineReinsert(evheap \ {e}, i, d, n)
        /\ si' = [si EXCEPT ![i].dlheap = n < Len(d)]
        /\ dline' = [dline EXCEPT ![i] = Rest(d, n)]
  BY <1>1, <1>3 DEF TaskTransmit
<1>5. PICK g : g = Event(d[n + 1].out, "dl", i)
  OBVIOUS
<1>6. /\ evheap \ {e} \subseteq evheap' /\ evheap' \subseteq evheap \cup {g}
      /\ n < Len(d) => g \in evheap'
      /\ g.inst = i /\ g.kind = "dl"
  BY <1>4, <1>5, DlineReinsertType DEF Event
<1>7. /\ \A j \in Insts \ {i} : si'[j] = si[j] /\ dline'[j] = dline[j]
      /\ si'[i].active = si[i].active /\ (si'[i].dlheap => n < Len(d))
      /\ dline'[i] = Rest(d, n)
  <2> DEFINE more == n < Len(d)
  <2>1. more \in BOOLEAN /\ si' = [si EXCEPT ![i].dlheap = more]
    BY <1>4
  <2> HIDE DEF more
  <2>2. /\ \A j \in Insts \ {i} : si'[j] = si[j] /\ dline'[j] = dline[j]
        /\ si'[i].active = si[i].active /\ si'[i].dlheap = more
        /\ dline'[i] = Rest(d, n)
    BY <1>2, <1>4, <2>1 DEF SiType
  <2>3. QED
    BY <2>2 DEF more
<1>8. Future' /\ LongLine'
  BY <1>2 DEF Future, LongLine
<1>9. \A j \in Insts : ~Serving(j)
  BY <1>2 DEF Serving
<1>10. \A j \in Insts \ {i} : InstOK(j)'
  <2>1. \A j \in Insts \ {i} : \A f : f.inst = j => (f \in evheap' <=> f \in evheap)
    BY <1>1, <1>6
  <2>2. QED
    BY <1>2, <1>7, <1>9, <2>1, KeepInst DEF SchedInv
<1>11. InstOK(i)'
  <2>1. queue'[i] # <<>> => si'[i].active
    BY <1>2, <1>7, <1>9 DEF SchedInv, InstOK
  <2>2. si'[i].dlheap => Event(dline'[i][1].out, "dl", i) \in evheap'
    BY <1>5, <1>6, <1>7, RestOut
  <2>3. ASSUME nconf' = 0 PROVE LineAt(i)'
    <3>1. LineAt(i)
      BY <1>2, <2>3 DEF SchedInv, InstOK
    <3>2. \A j, k \in DOMAIN dline'[i] : j <= k => dline'[i][j].out <= dline'[i][k].out
      BY <1>3, <1>7, <3>1, RestOut DEF LineAt
    <3>3. \A k \in DOMAIN dline'[i] : \E j \in DOMAIN d : dline'[i][k] = d[j]
      BY <1>7, RestOut
    <3>4. \A f \in evheap' : f.kind = "si" => f \in evheap
      BY <1>6
    <3>5. QED
      BY <1>2, <1>3, <1>7, <3>1, <3>2, <3>3, <3>4 DEF LineAt
  <2>4. QED
    BY <2>1, <2>2, <2>3 DEF InstOK
<1>12. QED
  BY <1>8, <1>10, <1>11 DEF SchedInv

LEMMA TaskDoneSched == ASSUME HeapInv, SchedInv, TaskDone PROVE SchedInv'
<1>1. /\ UNCHANGED <<curr_time, link, queue, dline, evheap, nconf>>
      /\ pc' = "none" /\ pc = "events" /\ curr_time \in Nat
      /\ \A e \in evheap : e.key > curr_time
  BY DEF TaskDone, HeapInv, TypeOK
<1>2. Future' /\ LongLine'
  BY <1>1 DEF Future, LongLine
<1>3. ASSUME NEW i \in Insts PROVE InstOK(i)'
  <2>1. ~Serving(i)
    BY <1>1 DEF Serving
  <2>2. CASE si'[i] = si[i]
    BY <1>1, <2>1, <2>2, KeepInst DEF SchedInv
  <2>3. CASE si'[i] = NoInst /\ Drainable(i)
    <3>1. queue[i] = <<>> /\ dline[i] = <<>>
      BY <2>3 DEF Drainable
    <3>2. ~NoInst.dlheap /\ DOMAIN dline[i] = {}
      BY <3>1 DEF NoInst
    <3>3. QED
      BY <1>1, <2>3, <3>1, <3>2 DEF InstOK, LineAt
  <2>4. si'[i] = si[i] \/ (si'[i] = NoInst /\ Drainable(i))
    BY DEF TaskDone
  <2>5. QED
    BY <2>2, <2>3, <2>4
<1>4. QED
  BY <1>2, <1>3 DEF SchedInv

LEMMA ConfigSchedSched == ASSUME HeapInv, SchedInv, ConfigSched PROVE SchedInv'
<1>1. /\ evheap' \subseteq evheap /\ UNCHANGED <<curr_time, lock, pc>> /\ pc = "none"
      /\ nconf' # 0
      /\ \A i \in Insts : /\ si'[i] = NoInst /\ queue'[i] = <<>> /\ dline'[i] = <<>>
  BY DEF ConfigSched, MayConfigure, HeapInv, Section, TypeOK
<1>2. Future' /\ LongLine'
  BY <1>1 DEF SchedInv, Future, LongLine
<1>3. ~NoInst.dlheap
  BY DEF NoInst
<1>4. QED
  BY <1>1, <1>2, <1>3 DEF SchedInv, InstOK

\* What serve_sched() leaves in the event heap.
LEMMA ServedEvent ==
  ASSUME ~AllocMayFail, HeapInv, pc = "serve", NEW i \in Insts, i = srv.inst,
         NEW h \in ServedHeap(i)
  PROVE  /\ si[i].credit >= 0 => h = evheap
         /\ si[i].credit < 0 =>
              /\ TicksToPay(si[i].credit) \in Nat \ {0}
              /\ h = evheap \cup {Event(curr_time + TicksToPay(si[i].credit), "si", i)}
<1>1. /\ TypeOK /\ si[i].credit \in Int
      /\ link.bandwidth = 0 => si[i].credit >= 0
  BY DEF HeapInv, Section, TypeOK
<1>2. si[i].credit >= 0 => h = evheap
  BY DEF ServedHeap
<1>3. ASSUME si[i].credit < 0
      PROVE  /\ TicksToPay(si[i].credit) \in Nat \ {0}
             /\ h = evheap \cup {Event(curr_time + TicksToPay(si[i].credit), "si", i)}
  <2>1. link.bandwidth # 0 /\ ~(si[i].credit >= 0)
    BY <1>1, <1>3
  <2>2. PICK c \in Int : c = si[i].credit
    BY <1>1
  <2>3. TicksToPay(c) \in Nat /\ TicksToPay(c) >= 1
    BY <1>1, <1>3, <2>1, <2>2, TicksToPayType
  <2>4. TicksToPay(c) \in Nat \ {0}
    BY <2>3
  <2>5. h \in HeapInsert(evheap, Event(curr_time + TicksToPay(si[i].credit), "si", i))
    BY <2>1 DEF ServedHeap
  <2>6. QED
    BY <2>2, <2>4, <2>5, HeapInsertType
<1>4. QED
  BY <1>2, <1>3

\* The output times that serve_sched() leaves: t is 0, or what the instance
\* needs to pay for what it sent.
LEMMA ServedOut ==
  ASSUME HeapInv, pc = "serve", NEW i \in Insts, i = srv.inst, LineAt(i),
         NEW d \in Seq(Leaving), d = ServedDline(i),
         NEW t \in Nat, si[i].credit < 0 => t = TicksToPay(si[i].credit)
  PROVE  /\ \A j, k \in DOMAIN d : j <= k => d[j].out <= d[k].out
         /\ \A k \in DOMAIN d : d[k].out <= curr_time + t + link.delay
<1>1. PICK c \in Seq(Leaving) : c = dline[i]
  BY DEF HeapInv, TypeOK
<1>2. ~si[i].active /\ si[i].credit \in Int /\ srv.done \in BOOLEAN
      /\ (srv.done => c # <<>>)
  BY <1>1 DEF HeapInv, Section, TypeOK
<1>3. /\ curr_time \in Nat /\ link.delay \in Nat
      /\ \A k \in 1..Len(c) : c[k].out \in Nat
      /\ Len(c) \in Nat /\ DOMAIN c = 1..Len(c)
  <2>1. curr_time \in Nat /\ link.delay \in Nat /\ \A x \in Leaving : x.out \in Nat
    BY LinkType DEF HeapInv, TypeOK, Leaving
  <2>2. QED
    BY <2>1
<1>4. /\ \A j, k \in 1..Len(c) : j <= k => c[j].out <= c[k].out
      /\ \A k \in 1..Len(c) : c[k].out <= curr_time + link.delay
  BY <1>1, <1>2, <1>3 DEF LineAt
<1>5. /\ Len(d) = Len(c) /\ DOMAIN d = 1..Len(c)
      /\ \A k \in 1..Len(c) :
           k < Len(c) \/ si[i].credit >= 0 \/ ~srv.done => d[k] = c[k]
      /\ si[i].credit < 0 /\ srv.done => d[Len(c)].out = c[Len(c)].out + t
  <2>1. Len(d) = Len(c) /\ DOMAIN d = 1..Len(d)
    BY <1>1, ServedChain
  <2>2. QED
    BY <1>1, <2>1, ServedChain
<1>6. /\ \A k \in 1..Len(c) : c[k].out <= d[k].out /\ d[k].out <= c[k].out + t
      /\ \A k \in 1..Len(c) : d[k].out \in Nat
      /\ \A k \in 1..Len(c) : k < Len(c) => d[k].out = c[k].out
  BY <1>2, <1>3, <1>5
<1>7. ASSUME NEW j \in 1..Len(c), NEW k \in 1..Len(c), j <= k
      PROVE  d[j].out <= d[k].out
  <2>1. CASE j = k
    BY <1>6, <2>1
  <2>2. CASE j < k
    <3>1. j < Len(c)
      BY <1>3, <2>2
    <3>2. d[j].out = c[j].out /\ c[j].out <= c[k].out /\ c[k].out <= d[k].out
      BY <1>4, <1>6, <1>7, <3>1
    <3>3. QED
      BY <1>3, <1>6, <3>2
  <2>3. QED
    BY <1>3, <1>7, <2>1, <2>2
<1>8. ASSUME NEW k \in 1..Len(c) PROVE d[k].out <= curr_time + t + link.delay
  <2>1. d[k].out \in Nat /\ c[k].out \in Nat
        /\ d[k].out <= c[k].out + t /\ c[k].out <= curr_time + link.delay
    BY <1>3, <1>4, <1>6
  <2>2. QED
    BY <1>2, <1>3, <2>1, SMTT(40)
<1>9. QED
  BY <1>5, <1>7, <1>8

LEMMA ServeEndSched == ASSUME ~AllocMayFail, HeapInv, SchedInv, ServeEnd PROVE SchedInv'
<1>1. PICK i \in Insts : i = srv.inst
  BY DEF HeapInv, Section, ServeEnd
<1>2. /\ pc = "serve" /\ ~si[i].active /\ Serving(i)
      /\ si \in [Insts -> SiType] /\ dline \in [Insts -> Seq(Leaving)]
      /\ si[i].credit \in Int /\ curr_time \in Nat /\ link.delay \in Nat
      /\ srv.dlidle \in BOOLEAN /\ srv.done \in BOOLEAN
      /\ srv.done \/ ~srv.dlidle => dline[i] # <<>>
      /\ srv.dlidle => ~si[i].dlheap
      /\ UNCHANGED <<curr_time, link, queue, nconf>>
      /\ pc' # "serve" /\ (lock = Task => lock' = Task)
  BY <1>1, LinkType DEF HeapInv, Section, TypeOK, ServeEnd, SiType, Serving
<1>3. PICK d \in Seq(Leaving) : d = ServedDline(i)
  BY <1>1, <1>2, ServedDlineType
<1>4. PICK f : f = (srv.dlidle /\ srv.done)
  OBVIOUS
<1>5. f \in BOOLEAN
  BY <1>2, <1>4
<1>6. PICK n \in 0..Len(d) :
        /\ IF f THEN IsDuePrefix(d, n) ELSE n = 0
        /\ \E h \in ServedHeap(i) :
             evheap' \in IF f THEN DlineReinsert(h, i, d, n) ELSE {h}
        /\ si' = [si EXCEPT ![i] =
                    [Served(si[i]) EXCEPT !.dlheap = IF f THEN n < Len(d) ELSE @]]
        /\ dline' = [dline EXCEPT ![i] = Rest(d, n)]
  BY <1>1, <1>3, <1>4 DEF ServeEnd
<1>7. PICK h \in ServedHeap(i) :
        evheap' \in IF f THEN DlineReinsert(h, i, d, n) ELSE {h}
  BY <1>6
<1>8. PICK t : /\ t \in Nat /\ (si[i].credit < 0 => t = TicksToPay(si[i].credit) /\ t > 0)
               /\ h = evheap \cup IF si[i].credit < 0 THEN {Event(curr_time + t, "si", i)} ELSE {}
  <2>1. CASE si[i].credit < 0
    BY <1>1, <1>2, <2>1, ServedEvent
  <2>2. CASE ~(si[i].credit < 0)
    <3>1. h = evheap
      BY <1>1, <1>2, <2>2, ServedEvent
    <3>2. QED
      BY <2>2, <3>1
  <2>3. QED
    BY <2>1, <2>2
<1>9. PICK g : g = Event(d[n + 1].out, "dl", i)
  OBVIOUS
<1>10. /\ h \subseteq evheap' /\ evheap' \subseteq h \cup IF f /\ n < Len(d) THEN {g} ELSE {}
       /\ f /\ n < Len(d) => g \in evheap'
       /\ g.kind = "dl" /\ g.inst = i /\ g.key = d[n + 1].out
  <2>1. g.kind = "dl" /\ g.inst = i /\ g.key = d[n + 1].out
    BY <1>9 DEF Event
  <2>2. CASE f
    BY <1>7, <1>9, <2>1, <2>2, DlineReinsertType
  <2>3. CASE ~f
    BY <1>7, <2>1, <2>3
  <2>4. QED
    BY <1>5, <2>2, <2>3
<1>11. PICK a : a = Event(curr_time + t, "si", i)
  OBVIOUS
<1>12. a.kind = "si" /\ a.inst = i /\ a.key = curr_time + t
  BY <1>11 DEF Event
<1>13. /\ \A j \in Insts \ {i} : si'[j] = si[j] /\ dline'[j] = dline[j]
       /\ dline'[i] = Rest(d, n)
       /\ si[i].credit < 0 => si'[i].active
       /\ ~(si[i].credit < 0) => ~si'[i].active
       /\ si'[i].dlheap => IF f THEN n < Len(d) ELSE si[i].dlheap
  <2> DEFINE mark == IF f THEN n < Len(d) ELSE si[i].dlheap
             s == Served(si[i])
  <2>1. /\ s \in SiType /\ s.dlheap = si[i].dlheap
        /\ si[i].credit < 0 => s.active
        /\ ~(si[i].credit < 0) => ~s.active
    <3>1. s \in SiType /\ s.dlheap = si[i].dlheap
      BY <1>1, <1>2, <1>7, ServedHeapType
    <3>2. /\ si[i].credit < 0 => s = [si[i] EXCEPT !.active = TRUE]
          /\ ~(si[i].credit < 0) => s = [si[i] EXCEPT !.idle_time = curr_time]
      BY <1>2 DEF Served
    <3> HIDE DEF s
    <3>3. QED
      BY <1>2, <3>1, <3>2 DEF SiType
  <2>2. mark \in BOOLEAN
    <3>1. si[i].dlheap \in BOOLEAN /\ (n < Len(d)) \in BOOLEAN
      BY <1>2 DEF SiType
    <3>2. PICK more \in BOOLEAN : more = (n < Len(d))
      BY <3>1
    <3>3. PICK old \in BOOLEAN : old = si[i].dlheap
      BY <3>1
    <3>4. (IF f THEN more ELSE old) \in BOOLEAN
      BY <1>5, Zenon
    <3>5. QED
      BY <3>2, <3>3, <3>4, Zenon
  <2>3. [s EXCEPT !.dlheap = IF f THEN n < Len(d) ELSE @] = [s EXCEPT !.dlheap = mark]
    BY <2>1
  <2>4. si' = [si EXCEPT ![i] = [s EXCEPT !.dlheap = mark]]
    BY <1>6, <2>3, Zenon
  <2> HIDE DEF mark, s
  <2>5. /\ \A j \in Insts \ {i} : si'[j] = si[j] /\ dline'[j] = dline[j]
        /\ dline'[i] = Rest(d, n) /\ si'[i].active = s.active /\ si'[i].dlheap = mark
    BY <1>2, <1>6, <2>1, <2>2, <2>4, ZenonT(60) DEF SiType
  <2>6. QED
    BY <2>1, <2>5 DEF mark
<1>14. /\ DOMAIN d = 1..Len(d) /\ Len(d) \in Nat /\ n \in Nat /\ n <= Len(d)
       /\ \A k \in 1..Len(d) : d[k].out \in Nat
  <2>1. \A x \in Leaving : x.out \in Nat
    BY DEF Leaving
  <2>2. QED
    BY <2>1
<1>15. Future'
  <2> SUFFICES ASSUME lock' # Task, NEW e \in evheap' PROVE e.key > curr_time'
    BY DEF Future
  <2>1. CASE e \in evheap
    BY <1>2, <2>1 DEF SchedInv, Future
  <2>2. CASE e = a /\ si[i].credit < 0
    BY <1>2, <1>8, <1>12, <2>2
  <2>3. CASE e = g /\ f /\ n < Len(d)
    <3>1. d[n + 1].out > curr_time
      BY <1>6, <2>3 DEF IsDuePrefix
    <3>2. QED
      BY <1>2, <1>10, <2>3, <3>1
  <2>4. QED
    BY <1>8, <1>10, <1>11, <2>1, <2>2, <2>3
<1>16. LongLine'
  BY <1>2 DEF LongLine
<1>17. \A j \in Insts \ {i} : InstOK(j)'
  <2>1. \A j \in Insts \ {i} : \A e : e.inst = j => (e \in evheap' <=> e \in evheap)
    BY <1>8, <1>10, <1>11, <1>12
  <2>2. \A j \in Insts \ {i} : ~Serving(j)
    BY <1>1 DEF Serving
  <2>3. QED
    BY <1>2, <1>13, <2>1, <2>2, KeepInst DEF SchedInv
<1>18. InstOK(i)'
  <2>1. queue'[i] # <<>> => si'[i].active
    BY <1>1, <1>2, <1>13 DEF ServeEnd
  <2>2. ASSUME si'[i].dlheap PROVE Event(dline'[i][1].out, "dl", i) \in evheap'
    <3>1. CASE f
      BY <1>9, <1>10, <1>13, <2>2, <3>1, RestOut
    <3>2. CASE ~f
      <4>1. /\ si[i].dlheap /\ n = 0 /\ ~srv.dlidle /\ dline[i] # <<>>
        BY <1>2, <1>6, <1>13, <2>2, <3>2
      <4>2. PICK c \in Seq(Leaving) : c = dline[i]
        BY <1>2
      <4>3. Len(d) = Len(c) /\ Len(c) >= 1
        BY <1>1, <1>2, <1>3, <4>1, <4>2, ServedChain
      <4>4. srv.done => Len(c) >= 2
        BY <1>1, <1>2, <4>1, <4>2 DEF SchedInv, LongLine
      <4>5. d[1] = c[1]
        <5>1. 1 \in 1..Len(c)
          BY <4>3, <1>14
        <5>2. 1 < Len(c) \/ ~srv.done
          BY <1>2, <1>14, <4>3, <4>4
        <5>3. QED
          BY <1>1, <1>2, <1>3, <4>2, <5>1, <5>2, ServedChain
      <4>6. dline'[i][1] = d[1]
        BY <1>13, <1>14, <4>1, <4>3, RestOut
      <4>7. Event(c[1].out, "dl", i) \in evheap
        BY <4>1, <4>2 DEF SchedInv, InstOK
      <4>8. QED
        BY <1>8, <1>10, <4>5, <4>6, <4>7
    <3>3. QED
      BY <1>5, <3>1, <3>2
  <2>3. ASSUME nconf' = 0 PROVE LineAt(i)'
    <3>1. LineAt(i)
      BY <1>2, <2>3 DEF SchedInv, InstOK
    <3>2. PICK b : b = IF si[i].credit < 0 THEN t ELSE 0
      OBVIOUS
    <3>3. b \in Nat /\ (si[i].credit < 0 => b = TicksToPay(si[i].credit))
      BY <1>8, <3>2
    <3>4. /\ \A j, k \in DOMAIN d : j <= k => d[j].out <= d[k].out
          /\ \A k \in DOMAIN d : d[k].out <= curr_time + b + link.delay
      BY <1>1, <1>2, <1>3, <3>1, <3>3, ServedOut
    <3>5. \A j, k \in DOMAIN dline'[i] : j <= k => dline'[i][j].out <= dline'[i][k].out
      BY <1>13, <3>4, RestOut
    <3>6. \A k \in DOMAIN dline'[i] : /\ dline'[i][k].out <= curr_time + b + link.delay
      BY <1>13, <3>4, RestOut
    <3>7. \A e \in evheap : ~(e.kind = "si" /\ e.inst = i)
      BY <1>2 DEF HeapInv, NoDanglingEvent
    <3>8. \A e \in evheap' : e.kind = "si" /\ e.inst = i => e = a /\ si[i].credit < 0
      BY <1>8, <1>10, <1>11, <3>7
    <3>9. CASE si[i].credit < 0
      <4>1. curr_time + b + link.delay = a.key + link.delay
        BY <1>2, <1>8, <1>12, <3>2, <3>9
      <4>2. QED
        BY <1>2, <1>13, <3>5, <3>6, <3>8, <3>9, <4>1 DEF LineAt
    <3>10. CASE ~(si[i].credit < 0)
      <4>1. curr_time + b + link.delay = curr_time + link.delay
        BY <1>2, <3>2, <3>10
      <4>2. QED
        BY <1>2, <1>13, <3>5, <3>6, <3>8, <3>10, <4>1 DEF LineAt
    <3>11. QED
      BY <3>9, <3>10
  <2>4. QED
    BY <2>1, <2>2, <2>3 DEF InstOK
<1>19. QED
  BY <1>15, <1>16, <1>17, <1>18 DEF SchedInv

LEMMA StepSched ==
  ASSUME ~AllocMayFail, HeapInv, SchedInv, [Next]_vars
  PROVE  SchedInv'
<1>1. /\ curr_time \in Nat /\ nconf \in Nat /\ si \in [Insts -> SiType]
      /\ lock = Free => pc = "none"
      /\ Free # Task
  BY DEF HeapInv, TypeOK, Section, SiType, Free, Task
<1>2. CASE UNCHANGED vars
  BY <1>1, <1>2, KeepSched DEF vars
<1>3. CASE Io
  <2>1. ASSUME NEW th \in Threads, IoNoMemory(th) PROVE SchedInv'
    BY <1>1, <2>1, KeepSched DEF IoNoMemory
  <2>2. ASSUME NEW th \in Threads, NEW i \in Insts, IoDrop(th, i) PROVE SchedInv'
    <3>1. \A j \in Insts : si'[j].active = si[j].active /\ si'[j].dlheap = si[j].dlheap
      BY <1>1, <2>2, FindKeeps DEF IoDrop
    <3>2. QED
      BY <1>1, <2>2, <3>1, KeepSched DEF IoDrop
  <2>3. QED
    BY <1>3, <2>1, <2>2, IoEnqueueSched DEF Io
<1>4. CASE Serve
  BY <1>4, ServeDequeueSched, ServeEndSched DEF Serve
<1>5. ASSUME NEW step \in TickSteps, TaskTick(step) PROVE SchedInv'
  <2>1. curr_time' \in Nat /\ curr_time' >= curr_time
    BY <1>1, <1>5, ParamAssumption DEF TaskTick
  <2>2. QED
    BY <1>1, <1>5, <2>1, KeepSched DEF TaskTick
<1>6. CASE TaskEvent
  BY <1>6, TaskServeSchedSched, TaskTransmitSched DEF TaskEvent
<1>7. CASE TaskDone
  BY <1>7, TaskDoneSched
<1>8. CASE \E s \in Senders : Send(s)
  BY <1>1, <1>8, KeepSched DEF Send
<1>9. CASE Config
  <2>1. ASSUME NEW l \in Links, ConfigLink(l) PROVE SchedInv'
    <3>1. nconf' # 0 /\ lock = Free
      BY <1>1, <2>1 DEF ConfigLink, MayConfigure
    <3>2. \A j \in Insts : si'[j].active = si[j].active /\ si'[j].dlheap = si[j].dlheap
      BY <1>1, <2>1, ResetCreditType DEF ConfigLink
    <3>3. QED
      BY <1>1, <2>1, <3>1, <3>2, KeepSched DEF ConfigLink
  <2>2. CASE ConfigProfile
    <3>1. nconf' # 0
      BY <1>1, <2>2 DEF ConfigProfile, MayConfigure
    <3>2. QED
      BY <1>1, <2>2, <3>1, KeepSched DEF ConfigProfile
  <2>3. QED
    BY <1>9, <2>1, <2>2, ConfigSchedSched DEF Config
<1>10. QED
  BY <1>2, <1>3, <1>4, <1>5, <1>6, <1>7, <1>8, <1>9 DEF Next

LEMMA EmptySched ==
  ASSUME EmptyPipe, \A i \in Insts : ~si[i].active /\ ~si[i].dlheap
  PROVE  SchedInv /\ MarkedIsInHeap
<1>1. \A i \in Insts : DOMAIN dline[i] = {}
  BY DEF EmptyPipe
<1>2. QED
  BY <1>1, Zenon DEF EmptyPipe, SchedInv, Future, LongLine, InstOK, LineAt, MarkedIsInHeap,
                     UniqueEvents

\* What the invariants say when the lock is free.
LEMMA SchedImplies ==
  ASSUME HeapInv, MarkedIsInHeap, SchedInv
  PROVE  WaitingIsScheduled
<1> SUFFICES ASSUME lock = Free PROVE WaitingIsScheduled
  BY DEF WaitingIsScheduled
<1>1. Free # Task /\ pc = "none" /\ \A i \in Insts : ~Serving(i)
  BY DEF HeapInv, Section, Serving, Free, Task
<1>2. \A e \in evheap : e.key > curr_time
  BY <1>1 DEF SchedInv, Future
<1>3. ASSUME NEW i \in Insts, queue[i] # <<>>
      PROVE  \E e \in evheap : e.kind = "si" /\ e.inst = i
  BY <1>1, <1>3 DEF SchedInv, InstOK, MarkedIsInHeap
<1>4. ASSUME NEW i \in Insts, dline[i] # <<>>
      PROVE  \E e \in evheap : e.kind = "dl" /\ e.inst = i /\ e.key = dline[i][1].out
  <2>1. si[i].dlheap
    BY <1>1, <1>4 DEF HeapInv, Flags
  <2>2. QED
    BY <2>1 DEF SchedInv, InstOK, Event
<1>5. ASSUME NEW i \in Insts, nconf = 0, NEW k \in DOMAIN dline[i]
      PROVE  dline[i][k].out > curr_time
  <2>1. PICK d \in Seq(Leaving) : d = dline[i]
    BY DEF HeapInv, TypeOK
  <2>2. d # <<>> /\ 1 \in DOMAIN d /\ 1 <= k /\ curr_time \in Nat /\ d[1].out \in Nat /\ d[k].out \in Nat
    <3>1. k \in 1..Len(d) /\ Len(d) \in Nat /\ DOMAIN d = 1..Len(d)
      BY <1>5, <2>1
    <3>2. curr_time \in Nat /\ \A x \in Leaving : x.out \in Nat
      BY DEF HeapInv, TypeOK, Leaving
    <3>3. 1 \in 1..Len(d) /\ d # <<>>
      BY <3>1
    <3>4. QED
      BY <3>1, <3>2, <3>3
  <2>3. d[1].out > curr_time
    BY <1>2, <1>4, <2>1, <2>2
  <2>4. d[1].out <= d[k].out
    BY <1>5, <2>1, <2>2 DEF SchedInv, InstOK, LineAt
  <2>5. QED
    BY <2>1, <2>2, <2>3, <2>4
<1>6. QED
  BY <1>2, <1>3, <1>4, <1>5 DEF WaitingIsScheduled

\* So it is in the system that has been running for a tick.
LEMMA WarmSched == WarmInit => HeapInv /\ MarkedIsInHeap /\ SchedInv
<1> SUFFICES ASSUME WarmInit PROVE HeapInv /\ MarkedIsInHeap /\ SchedInv
  OBVIOUS
<1>1. PICK c : c = link.burst + IF IoFast THEN link.bandwidth ELSE 0
  OBVIOUS
<1>2. \A i \in Insts : si[i] = [NoInst EXCEPT !.alive = TRUE, !.credit = c]
  BY <1>1 DEF WarmInit
<1>3. \A i \in Insts : ~si[i].active /\ ~si[i].dlheap
  BY <1>2 DEF NoInst
<1>4. QED
  BY <1>3, EmptySched, WarmInv DEF WarmInit

\* WaitingIsScheduled: between two critical sections everything that waits has
\* its event at the right time, and nothing is overdue.
THEOREM NothingForgotten ==
  ~AllocMayFail => (Spec \/ WarmFairSpec => []WaitingIsScheduled)
<1> SUFFICES ASSUME ~AllocMayFail PROVE Spec \/ WarmFairSpec => []WaitingIsScheduled
  OBVIOUS
<1> DEFINE PipeInv == HeapInv /\ MarkedIsInHeap /\ SchedInv
<1>1. Init => PipeInv
  <2>1. Init => HeapInv
    BY InitInv
  <2>2. ~NoInst.active /\ ~NoInst.dlheap
    BY DEF NoInst
  <2>3. QED
    BY <2>1, <2>2, EmptySched DEF Init
<1>2. WarmInit => PipeInv
  BY WarmSched
<1>3. PipeInv /\ [Next]_vars => PipeInv'
  <2> SUFFICES ASSUME PipeInv, [Next]_vars PROVE PipeInv'
    OBVIOUS
  <2>1. HeapInv'
    BY StepInv
  <2>2. QED
    BY <2>1, MarkedStep, StepSched
<1>4. PipeInv => WaitingIsScheduled
  BY SchedImplies
<1> HIDE DEF PipeInv
<1>5. QED
  BY <1>1, <1>2, <1>3, <1>4, PTL DEF Spec, WarmFairSpec

-----------------------------------------------------------------------------
(***************************************************************************)
(* The pace of the link.  Every instance keeps an account: the time of its *)
(* last service, in the unit of the credit, less the credit.  Only packets *)
(* that are sent move it, each by at least its length, so it follows the   *)
(* real link, which the packets carry in their field fin.                  *)
(***************************************************************************)

\* What serve_sched() may give away: the burst, and what the link sends between
\* two runs of dummynet_task().
Allowance == link.burst + MaxStep * link.bandwidth

\* Up to when, at most, instance i has used the real link.
Pace(i) == si[i].sched_time * link.bandwidth - si[i].credit + Allowance

\* Packet p leaves late enough.
OnTime(p) == (p.out - link.delay) * link.bandwidth + Allowance > p.fin

\* The credit of an instance against its clock and its event.
Charged(i) ==
  /\ si[i].alive /\ si[i].sched_time <= curr_time
  /\ si[i].credit < Allowance
  /\ ~si[i].active /\ ~Serving(i) => si[i].credit >= 0 /\ si[i].sched_time = si[i].idle_time
  /\ Serving(i) => si[i].sched_time = curr_time
  /\ \A e \in evheap :
       e.kind = "si" /\ e.inst = i =>
         si[i].credit < 0 /\ e.key = si[i].sched_time + TicksToPay(si[i].credit)

\* The real link starts each packet of q before P, or after the packet before it.
Follows(q, P) ==
  \A k \in DOMAIN q : \/ q[k].fin - q[k].len < P
                      \/ k > 1 /\ q[k].fin - q[k].len <= q[k - 1].fin

\* The real link is not ahead of the account by more than what is in the queue.
QueuePace(i) ==
  /\ queue[i] = <<>> => ideal[i] < Pace(i)
  /\ queue[i] # <<>> => ideal[i] = queue[i][Len(queue[i])].fin
  /\ Follows(queue[i], Pace(i))

\* The packet that serve_sched() has just sent on credit, and will postpone.
Owing(i, k) ==
  /\ Serving(i) /\ srv.done /\ si[i].credit < 0
  /\ k = Len(dline[i])
  /\ dline[i][k].fin < Pace(i)
  /\ dline[i][k].out = curr_time + link.delay

LinePace(i) == \A k \in DOMAIN dline[i] : OnTime(dline[i][k]) \/ Owing(i, k)

\* An event is served by the first run of dummynet_task() that finds it due.
Prompt == \A e \in evheap : e.key + MaxStep > curr_time

\* The packets that were released.
ChainPace == \A s \in Senders : \A k \in DOMAIN tx[s] : OnTime(tx[s][k])

PaceInv ==
  nconf = 0 /\ link.bandwidth > 0 =>
    /\ Prompt
    /\ \A i \in Insts : Charged(i) /\ QueuePace(i) /\ LinePace(i)
    /\ ChainPace

\* The timer moves the clock by a bounded number of ticks, and forward.
StepsBounded == IsFiniteSet(TickSteps) /\ \E t \in TickSteps : t > 0

LEMMA MaxStepIs ==
  ASSUME StepsBounded
  PROVE  MaxStep \in Nat \ {0} /\ \A t \in TickSteps : t <= MaxStep
<1>1. TickSteps \in SUBSET Nat /\ TickSteps # {} /\ IsFiniteSet(TickSteps)
  BY ParamAssumption DEF StepsBounded
<1>2. \E t \in TickSteps : \A u \in TickSteps : u <= t
  BY <1>1, FiniteMax
<1>3. MaxStep \in TickSteps /\ \A u \in TickSteps : u <= MaxStep
  BY <1>2 DEF MaxStep
<1>4. PICK t \in TickSteps : t > 0
  BY DEF StepsBounded
<1>5. MaxStep \in Nat /\ t \in Nat /\ t <= MaxStep
  BY <1>1, <1>3, <1>4
<1>6. QED
  BY <1>3, <1>4, <1>5

\* The numbers of a link that has a bandwidth.
LEMMA PaceNumbers ==
  ASSUME StepsBounded, TypeOK, link.bandwidth > 0
  PROVE  \E b \in Nat \ {0}, m \in Nat \ {0}, r \in Nat :
           /\ b = link.bandwidth /\ m = MaxStep * b /\ r = link.burst
           /\ Allowance = r + m /\ r + m \in Nat
<1>1. link.bandwidth \in Nat \ {0} /\ link.burst \in Nat
  BY LinkType DEF TypeOK
<1>2. PICK b \in Nat \ {0} : b = link.bandwidth
  BY <1>1
<1>3. PICK x \in Nat \ {0} : x = MaxStep
  BY MaxStepIs
<1>4. x * b \in Nat \ {0}
  OBVIOUS
<1>5. PICK m \in Nat \ {0} : m = MaxStep * b
  BY <1>3, <1>4
<1>6. QED
  BY <1>1, <1>2, <1>5 DEF Allowance

\* When a debt is paid: not one tick earlier.
LEMMA TicksExact ==
  ASSUME NEW b \in Nat \ {0}, b = link.bandwidth, NEW c \in Int, c < 0
  PROVE  /\ TicksToPay(c) \in Nat
         /\ TicksToPay(c) * b >= -c
         /\ (TicksToPay(c) - 1) * b < -c
<1> DEFINE x == b - 1 - c
           q == x \div b
<1>1. x \in Nat /\ x >= b
  OBVIOUS
<1> HIDE DEF x
<1>2. q \in Int /\ q >= 0 /\ q * b <= x /\ x < q * b + b
  BY <1>1
<1>3. PICK p \in Int : p = q * b
  BY <1>2
<1> HIDE DEF q
<1>4. (q - 1) * b = p - b
  BY <1>2, <1>3
<1>5. p >= -c /\ p - b < -c
  BY <1>2, <1>3 DEF x
<1>6. TicksToPay(c) = q
  BY DEF TicksToPay, q, x
<1>7. QED
  BY <1>2, <1>3, <1>4, <1>5, <1>6

LEMMA Distribute ==
  ASSUME NEW x \in Int, NEW y \in Int, NEW b \in Int
  PROVE  (x - y) * b = x * b - y * b /\ (x + y) * b = x * b + y * b
OBVIOUS

\* The account of an instance that a step does not charge.
LEMMA KeepCharged ==
  ASSUME HeapInv, NEW i \in Insts, Charged(i), QueuePace(i),
         si'[i].alive = si[i].alive, si'[i].active = si[i].active,
         si'[i].credit = si[i].credit, si'[i].sched_time = si[i].sched_time,
         si'[i].idle_time = si[i].idle_time,
         queue'[i] = queue[i], ideal'[i] = ideal[i], link' = link,
         \A e \in evheap' : e.kind = "si" /\ e.inst = i => e \in evheap,
         curr_time' \in Nat, curr_time' >= curr_time,
         Serving(i)' <=> Serving(i), Serving(i) => curr_time' = curr_time
  PROVE  Charged(i)' /\ QueuePace(i)' /\ Pace(i)' = Pace(i)
<1>1. Pace(i)' = Pace(i) /\ Allowance' = Allowance
  BY DEF Pace, Allowance
<1>2. QueuePace(i)'
  BY <1>1 DEF QueuePace
<1>3. \A c : TicksToPay(c)' = TicksToPay(c)
  BY DEF TicksToPay
<1>4. si'[i].sched_time <= curr_time'
  <2>1. curr_time \in Nat /\ si[i].sched_time \in Nat
    BY DEF HeapInv, TypeOK
  <2>2. QED
    BY <2>1 DEF Charged
<1>5. Charged(i)'
  BY <1>1, <1>4 DEF Charged, TicksToPay
<1>6. QED
  BY <1>1, <1>2, <1>5

\* An instance that a step leaves alone.
LEMMA KeepPace ==
  ASSUME HeapInv, NEW i \in Insts, Charged(i), QueuePace(i), LinePace(i),
         si'[i] = si[i],
         queue'[i] = queue[i], ideal'[i] = ideal[i], dline'[i] = dline[i], link' = link,
         \A e \in evheap' : e.kind = "si" /\ e.inst = i => e \in evheap,
         curr_time' \in Nat, curr_time' >= curr_time,
         Serving(i)' <=> Serving(i),
         Serving(i) => curr_time' = curr_time /\ srv'.done = srv.done
  PROVE  Charged(i)' /\ QueuePace(i)' /\ LinePace(i)'
<1>1. Charged(i)' /\ QueuePace(i)' /\ Pace(i)' = Pace(i)
  BY KeepCharged
<1>2. LinePace(i)'
  BY <1>1 DEF LinePace, Owing, OnTime, Allowance
<1>3. QED
  BY <1>1, <1>2

\* The credit that an instance gets for the time since its last service leaves
\* its account where it was.
LEMMA EnterPace ==
  ASSUME TypeOK, link.bandwidth > 0, NEW s \in SiType
  PROVE  /\ ServeEnter(s).sched_time = curr_time
         /\ ServeEnter(s).credit = s.credit + (curr_time - s.sched_time) * link.bandwidth
         /\ ServeEnter(s).credit \in Int
         /\ curr_time * link.bandwidth - ServeEnter(s).credit
              = s.sched_time * link.bandwidth - s.credit
<1>1. PICK b \in Nat : b = link.bandwidth
  BY LinkType DEF TypeOK
<1>2. /\ curr_time \in Nat /\ s.sched_time \in Nat /\ s.credit \in Int
  BY DEF TypeOK, SiType
<1>3. PICK t \in Nat, u \in Nat, c \in Int : t = curr_time /\ u = s.sched_time /\ c = s.credit
  BY <1>2
<1>4. PICK x \in Int : x = c + (t - u) * b
  OBVIOUS
<1>5. ServeEnter(s) = [s EXCEPT !.active = FALSE, !.credit = x, !.sched_time = t]
  <2>1. (IF link.bandwidth > 0
         THEN s.credit + (curr_time - s.sched_time) * link.bandwidth ELSE 0) = x
    BY <1>1, <1>3, <1>4
  <2>2. QED
    BY <1>3, <2>1, Zenon DEF ServeEnter
<1>6. ServeEnter(s).sched_time = t /\ ServeEnter(s).credit = x
  BY <1>5 DEF SiType
<1>7. t * b - x = u * b - c
  BY <1>4, Distribute
<1>8. QED
  BY <1>1, <1>3, <1>4, <1>6, <1>7

LEMMA TaskServeSchedPace ==
  ASSUME StepsBounded, HeapInv, HeapInv', PaceInv, nconf = 0, link.bandwidth > 0,
         NEW e \in evheap, TaskServeSched(e)
  PROVE  PaceInv'
<1>1. PICK i \in Insts : i = e.inst
  BY DEF HeapInv, TypeOK
<1>2. /\ e.kind = "si" /\ e.key <= curr_time /\ evheap' = evheap \ {e}
      /\ si' = [si EXCEPT ![i] = ServeEnter(si[i])] /\ pc' = "serve" /\ pc = "events"
      /\ srv' = [inst |-> i, dlidle |-> dline[i] = <<>>, done |-> FALSE, m0 |-> 0]
      /\ UNCHANGED <<curr_time, link, queue, dline, ideal, tx, nconf>>
      /\ si \in [Insts -> SiType] /\ curr_time \in Nat /\ e.key \in Nat
  BY <1>1 DEF TaskServeSched, IsDue, HeapInv, Section, TypeOK, SiType
<1>3. Prompt /\ ChainPace /\ \A j \in Insts : Charged(j) /\ QueuePace(j) /\ LinePace(j)
  BY DEF PaceInv
<1>4. PICK b \in Nat \ {0}, m \in Nat \ {0}, r \in Nat :
        b = link.bandwidth /\ m = MaxStep * b /\ Allowance = r + m
  BY PaceNumbers DEF HeapInv
<1>5. PICK t \in Nat, u \in Nat, c \in Int :
        \E q : /\ t = curr_time /\ u = si[i].sched_time /\ c = si[i].credit
               /\ q = TicksToPay(c)
  BY <1>2 DEF SiType
<1>5b. PICK q : /\ t = curr_time /\ u = si[i].sched_time /\ c = si[i].credit
               /\ q = TicksToPay(c)
  BY <1>5
<1>6. c < 0 /\ e.key = u + q /\ t < u + q + MaxStep /\ u <= t
  <2>1. c < 0 /\ e.key = u + q /\ u <= t
    BY <1>1, <1>2, <1>3, <1>5b DEF Charged
  <2>2. e.key + MaxStep > t
    BY <1>3, <1>5b DEF Prompt
  <2>3. QED
    BY <1>2, <1>5b, <2>1, <2>2, MaxStepIs
<1>7. q \in Nat /\ (q - 1) * b < -c
  BY <1>4, <1>5b, <1>6, TicksExact
<1>8. (t - u) * b <= (q - 1) * b + m
  <2>1. PICK x \in Nat : x = MaxStep
    BY MaxStepIs
  <2>2. t - u <= (q - 1) + x
    BY <1>6, <1>7, <2>1
  <2>3. (t - u) * b <= ((q - 1) + x) * b
    BY <1>7, <2>2, MulMono
  <2>4. ((q - 1) + x) * b = (q - 1) * b + x * b
    BY <1>7, Distribute
  <2>5. QED
    BY <1>4, <2>1, <2>3, <2>4
<1>9. /\ si'[i].sched_time = t /\ si'[i].credit = c + (t - u) * b
      /\ t * b - si'[i].credit = u * b - c
      /\ si'[i].alive = si[i].alive /\ ~si'[i].active
      /\ \A j \in Insts \ {i} : si'[j] = si[j]
  <2>1. /\ si'[i] = ServeEnter(si[i]) /\ si[i] \in SiType
        /\ \A j \in Insts \ {i} : si'[j] = si[j]
    BY <1>2
  <2>2. /\ ServeEnter(si[i]).sched_time = t /\ ServeEnter(si[i]).credit = c + (t - u) * b
        /\ t * b - ServeEnter(si[i]).credit = u * b - c
    BY <1>4, <1>5b, <2>1, EnterPace DEF HeapInv
  <2>3. ServeEnter(si[i]).alive = si[i].alive /\ ~ServeEnter(si[i]).active
    BY <2>1, ServeEnterType DEF HeapInv
  <2>4. QED
    BY <2>1, <2>2, <2>3
<1>10. Pace(i)' = Pace(i) /\ Allowance' = Allowance
  <2>1. Allowance' = Allowance
    BY <1>2 DEF Allowance
  <2>2. Pace(i)' = t * b - si'[i].credit + Allowance
    BY <1>2, <1>4, <1>9, <2>1 DEF Pace
  <2>3. Pace(i) = u * b - c + Allowance
    BY <1>4, <1>5b DEF Pace
  <2>4. PICK x \in Int, y \in Int, z \in Int : x = t * b /\ y = u * b /\ z = si'[i].credit
    <3>1. si'[i].credit \in Int
      BY DEF HeapInv, TypeOK
    <3>2. QED
      BY <3>1
  <2>5. QED
    BY <1>4, <1>9, <2>1, <2>2, <2>3, <2>4
<1>11. Charged(i)'
  <2>1. si'[i].credit < Allowance
    <3>1. PICK x \in Int, y \in Int : x = (t - u) * b /\ y = (q - 1) * b
      BY <1>7
    <3>2. c + x < r + m
      BY <1>7, <1>8, <3>1
    <3>3. QED
      BY <1>4, <1>9, <3>1, <3>2
  <2>2. \A f \in evheap' : ~(f.kind = "si" /\ f.inst = i)
    BY <1>9 DEF HeapInv, NoDanglingEvent
  <2>3. Serving(i)'
    BY <1>2 DEF Serving
  <2>4. t <= t /\ si[i].alive
    BY <1>3 DEF Charged
  <2>5. QED
    BY <1>2, <1>5b, <1>9, <1>10, <2>1, <2>2, <2>3, <2>4 DEF Charged
<1>12. QueuePace(i)'
  BY <1>2, <1>3, <1>10 DEF QueuePace
<1>13. LinePace(i)'
  <2>1. ~Serving(i)
    BY <1>2 DEF Serving
  <2>2. \A k \in DOMAIN dline[i] : OnTime(dline[i][k])
    BY <1>3, <2>1 DEF LinePace, Owing
  <2>3. QED
    BY <1>2, <2>2 DEF LinePace, OnTime, Allowance
<1>14. ASSUME NEW j \in Insts \ {i} PROVE Charged(j)' /\ QueuePace(j)' /\ LinePace(j)'
  <2>1. ~Serving(j) /\ ~Serving(j)'
    BY <1>2 DEF Serving
  <2>2. /\ si'[j] = si[j] /\ queue'[j] = queue[j] /\ ideal'[j] = ideal[j]
        /\ dline'[j] = dline[j] /\ link' = link
        /\ curr_time' \in Nat /\ curr_time' >= curr_time
    BY <1>2, <1>9
  <2>3. \A f \in evheap' : f.kind = "si" /\ f.inst = j => f \in evheap
    BY <1>2
  <2>4. QED
    BY <1>3, <2>1, <2>2, <2>3, KeepPace
<1>15. Prompt' /\ ChainPace'
  BY <1>2, <1>3 DEF Prompt, ChainPace, OnTime, Allowance
<1>16. QED
  BY <1>11, <1>12, <1>13, <1>14, <1>15 DEF PaceInv

LEMMA TaskTickPace ==
  ASSUME StepsBounded, HeapInv, SchedInv, PaceInv, nconf = 0, link.bandwidth > 0,
         NEW step \in TickSteps, TaskTick(step)
  PROVE  PaceInv'
<1>1. /\ lock = Free /\ pc = "none" /\ pc' = "events" /\ Free # Task
      /\ UNCHANGED <<link, si, queue, dline, evheap, ideal, tx, srv, nconf>>
      /\ curr_time \in Nat /\ curr_time' = curr_time + step
  BY DEF TaskTick, HeapInv, Section, TypeOK, Free, Task
<1>2. step \in Nat /\ MaxStep \in Nat /\ step <= MaxStep
  BY MaxStepIs, ParamAssumption
<1>3. Prompt /\ ChainPace /\ \A j \in Insts : Charged(j) /\ QueuePace(j) /\ LinePace(j)
  BY DEF PaceInv
<1>4. Prompt'
  <2>1. ASSUME NEW e \in evheap PROVE e.key + MaxStep > curr_time'
    <3>1. e.key > curr_time /\ e.key \in Nat
      BY <1>1 DEF SchedInv, Future, HeapInv, TypeOK
    <3>2. QED
      BY <1>1, <1>2, <3>1
  <2>2. QED
    BY <1>1, <2>1 DEF Prompt
<1>5. ASSUME NEW j \in Insts PROVE Charged(j)' /\ QueuePace(j)' /\ LinePace(j)'
  <2>1. ~Serving(j) /\ ~Serving(j)'
    BY <1>1 DEF Serving
  <2>2. curr_time' \in Nat /\ curr_time' >= curr_time
    BY <1>1, <1>2
  <2>3. QED
    BY <1>1, <1>3, <2>1, <2>2, KeepPace
<1>6. ChainPace'
  BY <1>1, <1>3 DEF ChainPace, OnTime, Allowance
<1>7. QED
  BY <1>4, <1>5, <1>6 DEF PaceInv

\* A chain of released packets that are all on time.
LEMMA ReleasePace ==
  ASSUME HeapInv, ChainPace, NEW s \in Senders, NEW r \in Seq(Leaving), link' = link,
         tx' = [tx EXCEPT ![s] = tx[s] \o r],
         \A k \in DOMAIN r : OnTime(r[k])
  PROVE  ChainPace'
<1>1. tx \in [Senders -> Seq(Leaving)]
  BY DEF HeapInv, TypeOK
<1>2. PICK u \in Seq(Leaving) : u = tx[s]
  BY <1>1
<1>3. PICK w \in Seq(Leaving) : w = u \o r
  <2>1. u \o r \in Seq(Leaving)
    OBVIOUS
  <2>2. QED
    BY <2>1, Zenon
<1>4. \A k \in DOMAIN w : \/ k \in DOMAIN u /\ w[k] = u[k]
                          \/ k - Len(u) \in DOMAIN r /\ w[k] = r[k - Len(u)]
  <2>1. /\ Len(u) \in Nat /\ Len(r) \in Nat /\ DOMAIN u = 1..Len(u) /\ DOMAIN r = 1..Len(r)
        /\ Len(w) = Len(u) + Len(r) /\ DOMAIN w = 1..Len(w)
    BY <1>3
  <2>2. \A k \in 1..(Len(u) + Len(r)) : w[k] = IF k <= Len(u) THEN u[k] ELSE r[k - Len(u)]
    BY <1>3
  <2>3. QED
    BY <2>1, <2>2
<1>5. tx'[s] = w /\ \A t \in Senders \ {s} : tx'[t] = tx[t]
  BY <1>1, <1>2, <1>3
<1>6. \A k \in DOMAIN w : OnTime(w[k])
  BY <1>2, <1>4 DEF ChainPace
<1>7. \A t \in Senders : \A k \in DOMAIN tx'[t] :
        (tx'[t][k].out - link.delay) * link.bandwidth + Allowance > tx'[t][k].fin
  BY <1>5, <1>6 DEF ChainPace, OnTime
<1>8. QED
  BY <1>7 DEF ChainPace, OnTime, Allowance

LEMMA TaskTransmitPace ==
  ASSUME StepsBounded, HeapInv, PaceInv, nconf = 0, link.bandwidth > 0,
         NEW e \in evheap, TaskTransmit(e)
  PROVE  PaceInv'
<1>1. PICK i \in Insts : i = e.inst
  BY DEF HeapInv, TypeOK
<1>2. /\ e.kind = "dl" /\ pc = "events" /\ pc' = "events" /\ Task \in Senders
      /\ UNCHANGED <<curr_time, link, queue, ideal, lock, srv, nconf>>
      /\ si \in [Insts -> SiType] /\ dline \in [Insts -> Seq(Leaving)]
      /\ curr_time \in Nat
  BY DEF TaskTransmit, HeapInv, Section, TypeOK, SiType, Senders
<1>3. PICK d \in Seq(Leaving) : d = dline[i]
  BY <1>2
<1>4. PICK n \in 0..Len(d) :
        /\ IsDuePrefix(d, n)
        /\ evheap' \in DlineReinsert(evheap \ {e}, i, d, n)
        /\ si' = [si EXCEPT ![i].dlheap = n < Len(d)]
        /\ dline' = [dline EXCEPT ![i] = Rest(d, n)]
        /\ tx' = [tx EXCEPT ![Task] = tx[Task] \o SubSeq(d, 1, n)]
  BY <1>1, <1>3 DEF TaskTransmit
<1>5. Prompt /\ ChainPace /\ \A j \in Insts : Charged(j) /\ QueuePace(j) /\ LinePace(j)
  BY DEF PaceInv
<1>6. \A j \in Insts : ~Serving(j) /\ ~Serving(j)'
  BY <1>2 DEF Serving
<1>7. \A k \in DOMAIN d : OnTime(d[k])
  BY <1>3, <1>5, <1>6 DEF LinePace, Owing
<1>8. \A f \in evheap' : f \in evheap \/ (n < Len(d) /\ f = Event(d[n + 1].out, "dl", i))
  BY <1>4, DlineReinsertType
<1>9. Prompt'
  <2>1. n < Len(d) => d[n + 1].out > curr_time /\ d[n + 1].out \in Nat
    <3>1. \A x \in Leaving : x.out \in Nat
      BY DEF Leaving
    <3>2. n < Len(d) => d[n + 1] \in Leaving
      OBVIOUS
    <3>3. QED
      BY <1>4, <3>1, <3>2 DEF IsDuePrefix
  <2>2. ASSUME NEW f \in evheap' PROVE f.key + MaxStep > curr_time'
    <3>1. CASE f \in evheap
      BY <1>2, <1>5, <3>1 DEF Prompt
    <3>2. CASE n < Len(d) /\ f = Event(d[n + 1].out, "dl", i)
      BY <1>2, <2>1, <3>2, MaxStepIs DEF Event
    <3>3. QED
      BY <1>8, <3>1, <3>2
  <2>3. QED
    BY <2>2 DEF Prompt
<1>10. /\ \A j \in Insts \ {i} : si'[j] = si[j] /\ dline'[j] = dline[j]
       /\ dline'[i] = Rest(d, n)
       /\ si'[i].alive = si[i].alive /\ si'[i].active = si[i].active
       /\ si'[i].credit = si[i].credit /\ si'[i].sched_time = si[i].sched_time
       /\ si'[i].idle_time = si[i].idle_time
  BY <1>2, <1>4 DEF SiType
<1>11. \A f \in evheap' : f.kind = "si" => f \in evheap
  BY <1>8 DEF Event
<1>12. ASSUME NEW j \in Insts \ {i} PROVE Charged(j)' /\ QueuePace(j)' /\ LinePace(j)'
  <2>1. /\ si'[j] = si[j] /\ queue'[j] = queue[j] /\ ideal'[j] = ideal[j]
        /\ dline'[j] = dline[j] /\ link' = link
        /\ curr_time' \in Nat /\ curr_time' >= curr_time
    BY <1>2, <1>10
  <2>2. QED
    BY <1>5, <1>6, <1>11, <2>1, KeepPace
<1>13. Charged(i)' /\ QueuePace(i)'
  <2>1. /\ queue'[i] = queue[i] /\ ideal'[i] = ideal[i] /\ link' = link
        /\ curr_time' \in Nat /\ curr_time' >= curr_time
    BY <1>2
  <2>2. QED
    BY <1>5, <1>6, <1>10, <1>11, <2>1, KeepCharged
<1>14. LinePace(i)'
  <2>1. \A k \in DOMAIN Rest(d, n) : OnTime(Rest(d, n)[k])
    BY <1>7, RestOut
  <2>2. \A k \in DOMAIN dline'[i] :
          (dline'[i][k].out - link.delay) * link.bandwidth + Allowance > dline'[i][k].fin
    BY <1>10, <2>1 DEF OnTime
  <2>3. QED
    BY <1>2, <2>2 DEF LinePace, OnTime, Allowance
<1>15. ChainPace'
  <2>1. PICK a \in Seq(Leaving) : a = SubSeq(d, 1, n)
    BY ChainType
  <2>2. \A k \in DOMAIN a : k \in DOMAIN d /\ a[k] = d[k]
    <3>1. Len(a) = n /\ n \in Nat /\ n <= Len(d) /\ Len(d) \in Nat /\ \A k \in 1..n : a[k] = d[k]
      BY <2>1
    <3>2. DOMAIN a = 1..n /\ DOMAIN d = 1..Len(d)
      BY <3>1
    <3>3. QED
      BY <3>1, <3>2
  <2>3. \A k \in DOMAIN a : OnTime(a[k])
    BY <1>7, <2>2
  <2>4. QED
    BY <1>2, <1>4, <1>5, <2>1, <2>3, ReleasePace
<1>16. QED
  BY <1>9, <1>12, <1>13, <1>14, <1>15 DEF PaceInv

\* The account of an instance that sends the packet at the head of its queue.
LEMMA SpendQueue ==
  ASSUME NEW q \in Seq(Packet), q # <<>>, NEW P \in Int, NEW Q \in Int,
         NEW w \in Nat, w = q[Len(q)].fin,
         NEW l \in Nat, l = q[1].len,
         Follows(q, P), Q >= P + l
  PROVE  /\ q[1].fin < Q
         /\ Tail(q) = <<>> => w < Q
         /\ Tail(q) # <<>> => w = Tail(q)[Len(Tail(q))].fin
         /\ Follows(Tail(q), Q)
<1>1. PICK t : t = Tail(q)
  OBVIOUS
<1>2. /\ Len(q) \in Nat \ {0} /\ DOMAIN q = 1..Len(q) /\ t \in Seq(Packet)
      /\ Len(t) = Len(q) - 1 /\ DOMAIN t = 1..(Len(q) - 1)
      /\ \A k \in 1..(Len(q) - 1) : t[k] = q[k + 1]
  BY <1>1
<1>3. \A k \in 1..Len(q) : q[k].fin \in Nat /\ q[k].len \in Nat
  <2>1. \A x \in Packet : x.fin \in Nat /\ x.len \in Nat
    BY DEF Packet
  <2>2. QED
    BY <2>1
<1>4. 1 \in 1..Len(q) /\ P <= Q
  BY <1>2, <1>3
<1>5. q[1].fin - q[1].len < P
  BY <1>2, <1>4 DEF Follows
<1>6. q[1].fin < Q
  BY <1>3, <1>4, <1>5
<1>7. ASSUME t = <<>> PROVE w < Q
  <2>1. Len(t) = 0
    BY <1>7
  <2>2. Len(q) = 1
    <3>1. PICK m \in Nat : m = Len(q)
      BY <1>2
    <3>2. 0 = m - 1
      BY <1>2, <2>1, <3>1
    <3>3. m = 1
      BY <3>2, SMTT(30)
    <3>4. QED
      BY <3>1, <3>3
  <2>3. QED
    BY <1>6, <2>2
<1>8. t # <<>> => w = t[Len(t)].fin
  <2>1. t # <<>> => Len(t) \in 1..(Len(q) - 1) /\ Len(t) + 1 = Len(q)
    BY <1>2
  <2>2. QED
    BY <1>2, <2>1
<1>9. ASSUME NEW k \in 1..(Len(q) - 1)
      PROVE  t[k].fin - t[k].len < Q \/ (k > 1 /\ t[k].fin - t[k].len <= t[k - 1].fin)
  <2>1. k + 1 \in 1..Len(q) /\ k \in 1..Len(q) /\ (k + 1) - 1 = k /\ t[k] = q[k + 1]
    BY <1>2, SMTT(40)
  <2>2. \/ q[k + 1].fin - q[k + 1].len < P
        \/ q[k + 1].fin - q[k + 1].len <= q[k].fin
    BY <1>2, <2>1 DEF Follows
  <2>3. CASE q[k + 1].fin - q[k + 1].len < P
    BY <1>3, <1>4, <2>1, <2>3, SMTT(40)
  <2>4. CASE k = 1 /\ q[k + 1].fin - q[k + 1].len <= q[k].fin
    BY <1>3, <1>6, <2>1, <2>4
  <2>5. CASE k > 1 /\ q[k + 1].fin - q[k + 1].len <= q[k].fin
    <3>1. k - 1 \in 1..(Len(q) - 1) /\ (k - 1) + 1 = k
      BY <1>2, <2>5
    <3>2. t[k - 1] = q[k]
      BY <1>2, <3>1
    <3>3. QED
      BY <2>1, <2>5, <3>2
  <2>6. k = 1 \/ k > 1
    BY <1>2
  <2>7. QED
    BY <2>2, <2>3, <2>4, <2>5, <2>6
<1>10. QED
  BY <1>1, <1>2, <1>6, <1>7, <1>8, <1>9 DEF Follows

LEMMA ServeDequeuePace ==
  ASSUME StepsBounded, HeapInv, HeapInv', PaceInv, nconf = 0, link.bandwidth > 0,
         ServeDequeue
  PROVE  PaceInv'
<1>1. PICK i \in Insts : i = srv.inst
  BY DEF HeapInv, Section, ServeDequeue
<1>2. /\ pc = "serve" /\ ~si[i].active /\ Serving(i) /\ si[i].credit >= 0
      /\ si \in [Insts -> SiType] /\ dline \in [Insts -> Seq(Leaving)]
      /\ queue \in [Insts -> Seq(Packet)] /\ queue[i] # <<>>
      /\ curr_time \in Nat
      /\ UNCHANGED <<curr_time, link, evheap, lock, pc, ideal, tx, nconf>>
      /\ srv' = [srv EXCEPT !.done = TRUE]
      /\ srv'.inst = srv.inst /\ srv'.done
  BY <1>1 DEF HeapInv, Section, TypeOK, ServeDequeue, SiType, Serving
<1>3. Prompt /\ ChainPace /\ \A j \in Insts : Charged(j) /\ QueuePace(j) /\ LinePace(j)
  BY DEF PaceInv
<1>4. PICK x \in SampleChoices :
        LET m == Head(queue[i])
            cost == IF link.bandwidth = 0 THEN 0 ELSE m.len + x.bits
        IN /\ si' = [si EXCEPT ![i].credit = @ - cost]
           /\ dline' = [dline EXCEPT ![i] =
                          MqAppend(@, [id |-> m.id, out |-> curr_time + link.delay,
                                     drop |-> x.loss, fin |-> m.fin])]
           /\ queue' = [queue EXCEPT ![i] = Tail(@)]
  BY <1>1 DEF ServeDequeue
<1>5. PICK q \in Seq(Packet) : q = queue[i]
  BY <1>2
<1>6. /\ Head(q) = q[1] /\ q # <<>> /\ q[1] \in Packet /\ q[1].len \in Nat /\ q[1].fin \in Nat
      /\ x.bits \in Nat
  <2>1. Head(q) = q[1] /\ q # <<>> /\ q[1] \in Packet
    BY <1>2, <1>5
  <2>2. x.bits \in Nat
    BY ParamAssumption DEF SampleChoices
  <2>3. QED
    BY <2>1, <2>2 DEF Packet
<1>7. PICK c \in Int, z \in Nat, l \in Nat, fin \in Nat :
        c = si[i].credit /\ z = q[1].len + x.bits /\ l = q[1].len /\ z >= l /\ fin = q[1].fin
  <2>1. PICK l \in Nat, y \in Nat : l = q[1].len /\ y = x.bits
    BY <1>6
  <2>2. l + y \in Nat /\ l + y >= l
    OBVIOUS
  <2>3. si[i].credit \in Int
    BY <1>2 DEF SiType
  <2>4. QED
    BY <1>6, <2>1, <2>2, <2>3
<1>8. /\ si' = [si EXCEPT ![i].credit = c - z]
      /\ \A j \in Insts \ {i} : si'[j] = si[j] /\ queue'[j] = queue[j] /\ dline'[j] = dline[j]
      /\ queue'[i] = Tail(q)
  <2>1. (IF link.bandwidth = 0 THEN 0 ELSE Head(queue[i]).len + x.bits) = z
    BY <1>5, <1>6, <1>7
  <2>2. si' = [si EXCEPT ![i].credit = @ - z]
    BY <1>4, <2>1
  <2>3. si' = [si EXCEPT ![i].credit = c - z]
    BY <1>2, <1>7, <2>2
  <2>4. \A j \in Insts \ {i} : si'[j] = si[j] /\ queue'[j] = queue[j] /\ dline'[j] = dline[j]
    BY <1>2, <1>4, <2>3
  <2>5. queue'[i] = Tail(q)
    BY <1>2, <1>4, <1>5
  <2>6. QED
    BY <2>3, <2>4, <2>5
<1>9. /\ si'[i].credit = c - z /\ si'[i].alive = si[i].alive /\ si'[i].active = si[i].active
      /\ si'[i].sched_time = si[i].sched_time /\ si'[i].idle_time = si[i].idle_time
  BY <1>2, <1>8 DEF SiType
<1>10. Serving(i)' /\ \A j \in Insts \ {i} : ~Serving(j) /\ ~Serving(j)'
  BY <1>1, <1>2 DEF Serving
<1>11. PICK b \in Nat \ {0}, w \in Nat : b = link.bandwidth /\ w = Allowance
  BY PaceNumbers DEF HeapInv
<1>12. PICK t \in Nat, dl \in Nat : t = curr_time /\ dl = link.delay /\ t = si[i].sched_time
  <2>1. si[i].sched_time = curr_time
    BY <1>2, <1>3 DEF Charged
  <2>2. link.delay \in Nat
    BY LinkType DEF HeapInv, TypeOK
  <2>3. QED
    BY <1>2, <2>1, <2>2
<1>13. PICK g \in Int : g = t * b
  OBVIOUS
<1>14. Pace(i) = g - c + w /\ Pace(i)' = g - (c - z) + w /\ Allowance' = Allowance
  <2>1. Allowance' = Allowance
    BY <1>2 DEF Allowance
  <2>2. QED
    BY <1>2, <1>7, <1>9, <1>11, <1>12, <1>13, <2>1 DEF Pace
<1>15. PICK P \in Int, Q \in Int : P = Pace(i) /\ Q = Pace(i)' /\ Q >= P + q[1].len
  <2>1. g - c + w \in Int /\ g - (c - z) + w \in Int
    OBVIOUS
  <2>2. g - (c - z) + w >= (g - c + w) + l
    BY <1>7
  <2>3. QED
    BY <1>7, <1>14, <2>1, <2>2
<1>16. /\ q[1].fin < Q
       /\ Tail(q) = <<>> => ideal[i] < Q
       /\ Tail(q) # <<>> => ideal[i] = Tail(q)[Len(Tail(q))].fin
       /\ Follows(Tail(q), Q)
  <2>1. ideal[i] = q[Len(q)].fin /\ Follows(q, P)
    BY <1>2, <1>3, <1>5, <1>15 DEF QueuePace
  <2>2. PICK v \in Nat : v = ideal[i]
    BY DEF HeapInv, TypeOK
  <2>3. v = q[Len(q)].fin /\ Q >= P + l
    BY <1>7, <1>15, <2>1, <2>2
  <2>4. /\ q[1].fin < Q
        /\ Tail(q) = <<>> => v < Q
        /\ Tail(q) # <<>> => v = Tail(q)[Len(Tail(q))].fin
        /\ Follows(Tail(q), Q)
    BY <1>6, <1>7, <2>1, <2>3, SpendQueue
  <2>5. QED
    BY <2>2, <2>4
<1>17. QueuePace(i)'
  BY <1>2, <1>8, <1>15, <1>16 DEF QueuePace
<1>18. Charged(i)'
  <2>1. c < Allowance /\ Allowance \in Nat
    BY <1>3, <1>7, <1>11 DEF Charged
  <2>2. c - z < Allowance
    BY <2>1
  <2>3. \A f \in evheap' : ~(f.kind = "si" /\ f.inst = i)
    BY <1>2, <1>9 DEF HeapInv, NoDanglingEvent
  <2>4. si[i].alive /\ si[i].sched_time <= curr_time
    BY <1>3 DEF Charged
  <2>5. QED
    BY <1>2, <1>9, <1>10, <1>12, <1>14, <2>2, <2>3, <2>4 DEF Charged
<1>19. LinePace(i)'
  <2>1. PICK d \in Seq(Leaving) : d = dline[i]
    BY <1>2
  <2>2. PICK p : p.out = t + dl /\ p.fin = q[1].fin /\ dline'[i] = Append(d, p)
    <3>1. PICK p : p = [id |-> Head(queue[i]).id, out |-> curr_time + link.delay,
                        drop |-> x.loss, fin |-> Head(queue[i]).fin]
      OBVIOUS
    <3>2. p.out = t + dl /\ p.fin = q[1].fin
      BY <1>5, <1>6, <1>12, <3>1
    <3>3. dline'[i] = Append(d, p)
      BY <1>2, <1>4, <2>1, <3>1 DEF MqAppend
    <3>4. QED
      BY <3>2, <3>3
  <2>3. /\ Len(d) \in Nat /\ DOMAIN d = 1..Len(d) /\ Len(dline'[i]) = Len(d) + 1
        /\ DOMAIN dline'[i] = 1..(Len(d) + 1) /\ dline'[i][Len(d) + 1] = p
        /\ \A k \in 1..Len(d) : dline'[i][k] = d[k]
    BY <2>2
  <2>4. \A k \in 1..Len(d) : OnTime(d[k])
    <3>1. ~(si[i].credit < 0)
      BY <1>2, <1>7, SMTT(40)
    <3>2. QED
      BY <1>3, <2>1, <2>3, <3>1 DEF LinePace, Owing
  <2>5. ASSUME NEW k \in 1..Len(d) PROVE OnTime(dline[i][k])' /\ dline'[i][k] = d[k]
    BY <1>2, <2>1, <2>3, <2>4, <2>5 DEF OnTime, Allowance
  <2>6. CASE c - z < 0
    <3>1. Owing(i, Len(d) + 1)'
      BY <1>2, <1>9, <1>10, <1>12, <1>15, <1>16, <2>2, <2>3, <2>6 DEF Owing
    <3>2. QED
      BY <2>3, <2>5, <3>1 DEF LinePace
  <2>7. CASE c - z >= 0
    <3>1. (t + dl) - dl = t
      OBVIOUS
    <3>2. g + w > q[1].fin
      <4>1. fin < g - (c - z) + w
        BY <1>7, <1>14, <1>15, <1>16
      <4>2. fin < g + w
        BY <2>7, <4>1
      <4>3. QED
        BY <1>7, <4>2
    <3>3. (p.out - dl) * b + w > p.fin
      BY <1>13, <2>2, <3>1, <3>2
    <3>4. OnTime(dline[i][Len(d) + 1])'
      BY <1>2, <1>11, <1>12, <1>14, <2>3, <3>3 DEF OnTime
    <3>5. QED
      BY <2>3, <2>5, <3>4 DEF LinePace
  <2>8. QED
    BY <2>6, <2>7
<1>20. ASSUME NEW j \in Insts \ {i} PROVE Charged(j)' /\ QueuePace(j)' /\ LinePace(j)'
  <2>1. /\ si'[j] = si[j] /\ queue'[j] = queue[j] /\ ideal'[j] = ideal[j]
        /\ dline'[j] = dline[j] /\ link' = link
        /\ curr_time' \in Nat /\ curr_time' >= curr_time
        /\ \A f \in evheap' : f.kind = "si" /\ f.inst = j => f \in evheap
    BY <1>2, <1>8
  <2>2. QED
    BY <1>3, <1>10, <2>1, KeepPace
<1>21. Prompt' /\ ChainPace'
  BY <1>2, <1>3 DEF Prompt, ChainPace, OnTime, Allowance
<1>22. QED
  BY <1>17, <1>18, <1>19, <1>20, <1>21 DEF PaceInv

\* A packet joins the queue: on the real link it starts before P, or after the
\* packet before it.
LEMMA JoinQueue ==
  ASSUME NEW q \in Seq(Packet), NEW m \in Packet, NEW P \in Int, NEW v \in Nat,
         q = <<>> => v < P, q # <<>> => v = q[Len(q)].fin, Follows(q, P),
         NEW x \in Int, x = m.fin - m.len, x <= v \/ x < P
  PROVE  /\ Append(q, m) # <<>>
         /\ m.fin = Append(q, m)[Len(Append(q, m))].fin
         /\ Follows(Append(q, m), P)
<1>1. PICK t : t = Append(q, m)
  OBVIOUS
<1>2. /\ Len(q) \in Nat /\ DOMAIN q = 1..Len(q) /\ Len(t) = Len(q) + 1
      /\ DOMAIN t = 1..(Len(q) + 1) /\ t[Len(q) + 1] = m /\ t # <<>>
      /\ \A k \in 1..Len(q) : t[k] = q[k]
  BY <1>1
<1>3. ASSUME NEW k \in 1..Len(q)
      PROVE  t[k].fin - t[k].len < P \/ (k > 1 /\ t[k].fin - t[k].len <= t[k - 1].fin)
  <2>1. t[k] = q[k] /\ (k > 1 => k - 1 \in 1..Len(q))
    BY <1>2
  <2>2. k > 1 => t[k - 1] = q[k - 1]
    BY <1>2, <2>1
  <2>3. q[k].fin - q[k].len < P \/ (k > 1 /\ q[k].fin - q[k].len <= q[k - 1].fin)
    BY <1>2 DEF Follows
  <2>4. QED
    BY <2>1, <2>2, <2>3
<1>4. x < P \/ (Len(q) + 1 > 1 /\ x <= t[(Len(q) + 1) - 1].fin)
  <2>1. CASE q = <<>>
    BY <2>1
  <2>2. CASE q # <<>>
    <3>1. Len(q) \in 1..Len(q) /\ (Len(q) + 1) - 1 = Len(q) /\ Len(q) + 1 > 1
      BY <1>2, <2>2
    <3>2. t[(Len(q) + 1) - 1].fin = v
      BY <1>2, <2>2, <3>1
    <3>3. QED
      BY <3>1, <3>2
  <2>3. QED
    BY <2>1, <2>2
<1>5. \A k \in DOMAIN t : k \in 1..Len(q) \/ k = Len(q) + 1
  BY <1>2
<1>6. Follows(t, P)
  BY <1>2, <1>3, <1>4, <1>5 DEF Follows
<1>7. QED
  BY <1>1, <1>2, <1>6

\* The first packet after the instance was idle: its account does not go back,
\* and the real link has nothing left to send.
LEMMA StartPace ==
  ASSUME ~IoFast, StepsBounded, TypeOK, link.bandwidth > 0, NEW s \in SiType,
         s.credit >= 0, s.credit < Allowance, s.sched_time = s.idle_time,
         s.sched_time <= curr_time,
         NEW u, u = ServeEnter(InitialAllowance(s))
  PROVE  /\ u.sched_time = curr_time /\ u.credit \in Int /\ u.credit < Allowance
         /\ curr_time * link.bandwidth - u.credit >= s.sched_time * link.bandwidth - s.credit
<1>1. PICK b \in Nat \ {0}, m \in Nat \ {0}, r \in Nat :
        b = link.bandwidth /\ r = link.burst /\ Allowance = r + m
  BY PaceNumbers
<1>2. PICK t \in Nat, v \in Nat, c \in Int :
        /\ t = curr_time /\ v = s.sched_time /\ c = s.credit
        /\ v = s.idle_time /\ v <= t /\ c >= 0 /\ c < r + m
  BY <1>1 DEF TypeOK, SiType
<1>3. PICK x \in Int, y \in Int : x = t * b /\ y = v * b /\ (t - v) * b = x - y
  BY Distribute
<1>4. CASE v < t
  <2>1. PICK a \in Int : a = IF x - y < r THEN x - y ELSE r
    OBVIOUS
  <2>2. InitialAllowance(s) = [s EXCEPT !.sched_time = t, !.credit = a]
    <3>1. (IF IoFast THEN link.bandwidth ELSE 0)
          + Smaller((curr_time - s.idle_time) * link.bandwidth, link.burst) = a
      BY <1>1, <1>2, <1>3, <2>1 DEF Smaller
    <3>2. s.idle_time < curr_time
      BY <1>2, <1>4
    <3>3. QED
      BY <1>2, <3>1, <3>2, Zenon DEF InitialAllowance
  <2>3. PICK w : w = InitialAllowance(s)
    OBVIOUS
  <2>4. w \in SiType /\ w.sched_time = t /\ w.credit = a
    BY <2>2, <2>3 DEF SiType
  <2>5. u.sched_time = t /\ u.credit \in Int /\ u.credit = a + (t - t) * b
    BY <1>1, <1>2, <2>3, <2>4, EnterPace
  <2>6. (t - t) * b = 0
    BY Distribute
  <2>7. u.credit = a /\ a <= r /\ a <= x - y
    BY <2>1, <2>5, <2>6
  <2>8. x - a >= y - c /\ a < r + m
    BY <1>2, <2>7
  <2>9. QED
    BY <1>1, <1>2, <1>3, <2>5, <2>7, <2>8
<1>5. CASE ~(v < t)
  <2>1. v = t /\ x = y
    BY <1>2, <1>3, <1>5
  <2>2. InitialAllowance(s) = s
    BY <1>2, <1>5 DEF InitialAllowance
  <2>3. u.sched_time = t /\ u.credit \in Int /\ u.credit = c + (t - t) * b
    BY <1>1, <1>2, <2>1, <2>2, EnterPace
  <2>4. (t - t) * b = 0
    BY Distribute
  <2>5. u.credit = c
    BY <2>3, <2>4
  <2>6. QED
    BY <1>1, <1>2, <1>3, <2>1, <2>3, <2>5
<1>6. QED
  BY <1>4, <1>5

\* While an instance waits for its event the real link has not sent yet what the
\* instance owes.
LEMMA WaitingPace ==
  ASSUME StepsBounded, HeapInv, MarkedIsInHeap, SchedInv, PaceInv, nconf = 0,
         link.bandwidth > 0, lock = Free, NEW i \in Insts, si[i].active
  PROVE  curr_time * link.bandwidth < Pace(i)
<1>1. PICK b \in Nat \ {0}, w \in Nat : b = link.bandwidth /\ w = Allowance
  BY PaceNumbers DEF HeapInv
<1>2. PICK e \in evheap : e.kind = "si" /\ e.inst = i
  BY DEF MarkedIsInHeap
<1>3. PICK t \in Nat, u \in Nat, c \in Int, key \in Nat :
        t = curr_time /\ u = si[i].sched_time /\ c = si[i].credit /\ key = e.key
  BY DEF HeapInv, TypeOK
<1>4. c < 0 /\ key = u + TicksToPay(c)
  BY <1>2, <1>3 DEF PaceInv, Charged
<1>5. t < key
  BY <1>2, <1>3 DEF SchedInv, Future, Free, Task
<1>6. PICK q \in Nat : q = TicksToPay(c) /\ (q - 1) * b < -c
  BY <1>1, <1>4, TicksExact
<1>7. t <= u + (q - 1)
  BY <1>4, <1>5, <1>6
<1>8. t * b <= (u + (q - 1)) * b
  BY <1>7, MulMono
<1>9. PICK x \in Int, y \in Int, z \in Int :
        x = t * b /\ y = u * b /\ z = (q - 1) * b /\ (u + (q - 1)) * b = y + z
  BY Distribute
<1>10. x < y - c + w
  BY <1>6, <1>8, <1>9
<1>11. Pace(i) = y - c + w
  BY <1>1, <1>3, <1>9 DEF Pace
<1>12. QED
  BY <1>1, <1>3, <1>9, <1>10, <1>11

LEMMA IoEnqueuePace ==
  ASSUME StepsBounded, ~IoFast, HeapInv, HeapInv', MarkedIsInHeap, SchedInv, PaceInv,
         nconf = 0, link.bandwidth > 0,
         NEW th \in Threads, NEW i \in Insts, NEW len \in Lens, IoEnqueue(th, i, len)
  PROVE  PaceInv'
<1>1. /\ lock = Free /\ pc = "none" /\ curr_time \in Nat
      /\ si \in [Insts -> SiType] /\ queue \in [Insts -> Seq(Packet)]
      /\ ideal \in [Insts -> Nat]
      /\ UNCHANGED <<curr_time, link, dline, evheap, tx, nconf>>
  BY DEF HeapInv, Section, TypeOK, IoEnqueue, MayArrive, SiType
<1>2. Prompt /\ ChainPace /\ \A j \in Insts : Charged(j) /\ QueuePace(j) /\ LinePace(j)
  BY DEF PaceInv
<1>3. \A j \in Insts : ~Serving(j)
  BY <1>1 DEF Serving
<1>4. SiFind(i) = si[i] /\ si[i].alive /\ si[i] \in SiType
  BY <1>1, <1>2 DEF SiFind, Charged
<1>5. PICK b \in Nat \ {0}, w \in Nat : b = link.bandwidth /\ w = Allowance
  BY PaceNumbers DEF HeapInv
<1>6. PICK q \in Seq(Packet), v \in Nat, t \in Nat, g \in Nat, l \in Nat :
        q = queue[i] /\ v = ideal[i] /\ t = curr_time /\ g = t * b /\ l = len
  <2>1. \A t \in Nat : t * b \in Nat
    OBVIOUS
  <2>2. len \in Nat
    BY ParamAssumption
  <2>3. QED
    BY <1>1, <2>1, <2>2
<1>7. PICK x \in Nat : x = IF v > g THEN v ELSE g
  OBVIOUS
<1>8. RealFinish(i, len) = l + x /\ l + x \in Nat
  BY <1>5, <1>6, <1>7 DEF RealFinish
<1>9. PICK m \in Packet : /\ m = [id |-> nextid, len |-> len, fin |-> RealFinish(i, len)]
                          /\ m.fin = l + x /\ m.len = l
  <2>1. PICK n \in Nat, f \in Nat : n = nextid /\ f = RealFinish(i, len) /\ f = l + x
    BY <1>8 DEF HeapInv, TypeOK
  <2>2. PICK m : m = [id |-> n, len |-> l, fin |-> f]
    OBVIOUS
  <2>3. m \in Packet /\ m.fin = f /\ m.len = l
    BY <2>2 DEF Packet
  <2>4. m = [id |-> nextid, len |-> len, fin |-> RealFinish(i, len)]
    BY <1>6, <2>1, <2>2
  <2>5. QED
    BY <2>1, <2>3, <2>4
<1>10. /\ queue'[i] = Append(q, m) /\ ideal'[i] = m.fin
       /\ \A j \in Insts \ {i} : queue'[j] = queue[j] /\ ideal'[j] = ideal[j] /\ si'[j] = si[j]
  <2>1. queue' = [queue EXCEPT ![i] = Append(queue[i], m)]
    BY <1>9 DEF IoEnqueue, MqAppend
  <2>2. ideal' = [ideal EXCEPT ![i] = RealFinish(i, len)]
    BY DEF IoEnqueue
  <2>3. \E s : si' = [si EXCEPT ![i] = s]
    BY DEF IoEnqueue
  <2>4. QED
    BY <1>1, <1>6, <1>8, <1>9, <2>1, <2>2, <2>3
<1>11. x = m.fin - m.len
  BY <1>7, <1>9
<1>12. /\ \A f \in evheap' : f \in evheap
       /\ Allowance' = Allowance
       /\ \A j \in Insts \ {i} : ~Serving(j)'
  <2>1. \A j \in Insts \ {i} : ~Serving(j)'
    BY <1>1 DEF Serving, IoEnqueue
  <2>2. QED
    BY <1>1, <2>1 DEF Allowance
<1>13. ASSUME NEW j \in Insts \ {i} PROVE Charged(j)' /\ QueuePace(j)' /\ LinePace(j)'
  <2>1. /\ si'[j] = si[j] /\ queue'[j] = queue[j] /\ ideal'[j] = ideal[j]
        /\ dline'[j] = dline[j] /\ link' = link
        /\ curr_time' \in Nat /\ curr_time' >= curr_time
        /\ \A f \in evheap' : f.kind = "si" /\ f.inst = j => f \in evheap
    BY <1>1, <1>10, <1>12
  <2>2. QED
    BY <1>2, <1>3, <1>12, <2>1, KeepPace
<1>14. LinePace(i)'
  <2>1. \A k \in DOMAIN dline[i] : OnTime(dline[i][k])
    BY <1>2, <1>3 DEF LinePace, Owing
  <2>2. QED
    BY <1>1, <2>1 DEF LinePace, OnTime, Allowance
<1>15. Prompt' /\ ChainPace'
  BY <1>1, <1>2 DEF Prompt, ChainPace, OnTime, Allowance
<1>16. ASSUME NEW P \in Int, Pace(i) <= P, g < P
       PROVE  /\ Append(q, m) # <<>>
              /\ m.fin = Append(q, m)[Len(Append(q, m))].fin
              /\ q = <<>> \/ P = Pace(i) => Follows(Append(q, m), P)
  <2>1. Append(q, m) # <<>> /\ m.fin = Append(q, m)[Len(Append(q, m))].fin
    BY <1>9
  <2>2. ASSUME q = <<>> \/ P = Pace(i) PROVE Follows(Append(q, m), P)
    <3>1. (q = <<>> => v < P) /\ (q # <<>> => v = q[Len(q)].fin)
      <4>1. (q = <<>> => v < Pace(i)) /\ (q # <<>> => v = q[Len(q)].fin)
        BY <1>2, <1>6 DEF QueuePace
      <4>2. PICK n \in Int : n = Pace(i)
        <5>1. PICK y \in Int, c \in Int : y = si[i].sched_time * b /\ c = si[i].credit
          BY <1>4 DEF SiType
        <5>2. Pace(i) = y - c + w
          BY <1>5, <5>1 DEF Pace
        <5>3. QED
          BY <5>2
      <4>3. QED
        BY <1>16, <4>1, <4>2
    <3>2. Follows(q, P)
      <4>1. CASE q = <<>>
        <5>1. DOMAIN q = {}
          BY <4>1
        <5>2. QED
          BY <5>1 DEF Follows
      <4>2. CASE P = Pace(i)
        BY <1>2, <1>6, <4>2 DEF QueuePace
      <4>3. QED
        BY <2>2, <4>1, <4>2
    <3>3. x <= v \/ x < P
      BY <1>7, <1>16
    <3>4. QED
      BY <1>11, <3>1, <3>2, <3>3, JoinQueue
  <2>3. QED
    BY <2>1, <2>2
<1>17. CASE si[i].active
  <2>1. si' = si /\ UNCHANGED <<pc, srv>>
    BY <1>1, <1>4, <1>17 DEF IoEnqueue
  <2>2. Pace(i)' = Pace(i)
    BY <1>1, <1>12, <2>1 DEF Pace
  <2>3. PICK P \in Int : P = Pace(i) /\ g < P
    <3>1. PICK y \in Int, c \in Int : y = si[i].sched_time * b /\ c = si[i].credit
      <4>1. PICK a \in Nat, c \in Int : a = si[i].sched_time /\ c = si[i].credit
        BY <1>4 DEF SiType
      <4>2. a * b \in Int
        OBVIOUS
      <4>3. QED
        BY <4>1, <4>2
    <3>2. Pace(i) = y - c + w
      BY <1>5, <3>1 DEF Pace
    <3>3. curr_time * link.bandwidth < Pace(i)
      BY <1>1, <1>17, WaitingPace
    <3>4. QED
      BY <1>5, <1>6, <3>2, <3>3
  <2>4. QueuePace(i)'
    BY <1>10, <1>16, <2>2, <2>3 DEF QueuePace
  <2>5. Charged(i)'
    BY <1>1, <1>2, <1>3, <1>12, <2>1 DEF Charged, Serving, TicksToPay
  <2>6. QED
    BY <1>13, <1>14, <1>15, <2>4, <2>5 DEF PaceInv
<1>18. CASE ~si[i].active
  <2>1. PICK u : u = ServeEnter(InitialAllowance(si[i]))
    OBVIOUS
  <2>2. /\ si' = [si EXCEPT ![i] = u] /\ pc' = "serve"
        /\ srv' = [inst |-> i, dlidle |-> dline[i] = <<>>, done |-> FALSE, m0 |-> nextid]
    BY <1>4, <1>18, <2>1 DEF IoEnqueue
  <2>3. /\ si[i].credit >= 0 /\ si[i].credit < Allowance
        /\ si[i].sched_time = si[i].idle_time /\ si[i].sched_time <= curr_time
    BY <1>2, <1>3, <1>18 DEF Charged
  <2>4. /\ u.sched_time = curr_time /\ u.credit \in Int /\ u.credit < Allowance
        /\ curr_time * link.bandwidth - u.credit
             >= si[i].sched_time * link.bandwidth - si[i].credit
    BY <1>4, <2>1, <2>3, StartPace DEF HeapInv
  <2>5. u \in SiType /\ u.alive /\ ~u.active
    BY <1>4, <2>1, InitialAllowanceType, ServeEnterType DEF HeapInv
  <2>6. si'[i] = u
    BY <1>1, <2>2
  <2>7. PICK P \in Int : P = Pace(i)' /\ Pace(i) <= P /\ g < P
    <3>1. PICK y \in Int, c \in Int, d \in Int :
            y = si[i].sched_time * b /\ c = si[i].credit /\ d = u.credit
      <4>1. PICK a \in Nat, c \in Int : a = si[i].sched_time /\ c = si[i].credit
        BY <1>4 DEF SiType
      <4>2. a * b \in Int
        OBVIOUS
      <4>3. QED
        BY <2>4, <4>1, <4>2
    <3>2. Pace(i) = y - c + w /\ Pace(i)' = g - d + w
      BY <1>1, <1>5, <1>6, <1>12, <2>4, <2>6, <3>1 DEF Pace
    <3>3. g - d >= y - c /\ d < w
      BY <1>5, <1>6, <2>4, <3>1
    <3>4. QED
      BY <3>2, <3>3
  <2>8. q = <<>>
    BY <1>3, <1>6, <1>18 DEF SchedInv, InstOK
  <2>9. QueuePace(i)'
    BY <1>10, <1>16, <2>7, <2>8 DEF QueuePace
  <2>10. Charged(i)'
    <3>1. \A f \in evheap' : ~(f.kind = "si" /\ f.inst = i)
      BY <2>5, <2>6 DEF HeapInv, NoDanglingEvent
    <3>2. Serving(i)'
      BY <2>2 DEF Serving
    <3>3. QED
      BY <1>1, <1>12, <2>4, <2>5, <2>6, <3>1, <3>2 DEF Charged
  <2>11. QED
    BY <1>13, <1>14, <1>15, <2>9, <2>10 DEF PaceInv
<1>19. QED
  BY <1>17, <1>18

\* When serve_sched() ends no packet of the delay line leaves early: the last
\* one is postponed until its debt is paid.
LEMMA ServedPace ==
  ASSUME StepsBounded, HeapInv, pc = "serve", link.bandwidth > 0,
         NEW i \in Insts, i = srv.inst, Charged(i), LinePace(i),
         NEW d \in Seq(Leaving), d = ServedDline(i)
  PROVE  \A k \in DOMAIN d : OnTime(d[k])
<1>1. PICK c \in Seq(Leaving) : c = dline[i]
  BY DEF HeapInv, TypeOK
<1>2. /\ Len(c) \in Nat /\ DOMAIN c = 1..Len(c) /\ DOMAIN d = 1..Len(c)
      /\ \A k \in 1..Len(c) : d[k].fin = c[k].fin
      /\ \A k \in 1..Len(c) :
           k < Len(c) \/ si[i].credit >= 0 \/ ~srv.done => d[k] = c[k]
      /\ si[i].credit < 0 /\ srv.done =>
           d[Len(c)].out = c[Len(c)].out + TicksToPay(si[i].credit)
  BY <1>1, ServedChain
<1>3. Serving(i) /\ si[i].credit \in Int /\ srv.done \in BOOLEAN
  BY DEF Serving, HeapInv, TypeOK, Section
<1>4. PICK b \in Nat \ {0}, w \in Nat : b = link.bandwidth /\ w = Allowance
  BY PaceNumbers DEF HeapInv
<1>5. PICK t \in Nat, dl \in Nat, a \in Int :
        /\ t = curr_time /\ dl = link.delay /\ t = si[i].sched_time /\ a = si[i].credit
  <2>1. si[i].sched_time = curr_time
    BY <1>3 DEF Charged
  <2>2. link.delay \in Nat /\ curr_time \in Nat
    BY LinkType DEF HeapInv, TypeOK
  <2>3. QED
    BY <1>3, <2>1, <2>2
<1>6. ASSUME NEW k \in 1..Len(c), ~Owing(i, k) PROVE OnTime(d[k])
  <2>1. OnTime(c[k])
    BY <1>1, <1>2, <1>6 DEF LinePace
  <2>2. CASE k < Len(c) \/ a >= 0 \/ ~srv.done
    BY <1>2, <1>5, <2>1, <2>2
  <2>3. CASE ~(k < Len(c) \/ a >= 0 \/ ~srv.done)
    <3>1. k = Len(c) /\ a < 0 /\ srv.done
      <4>1. ~(k < Len(c)) /\ ~(a >= 0) /\ srv.done
        BY <2>3
      <4>2. Len(c) \in Nat /\ k \in 1..Len(c)
        BY <1>2, <1>6
      <4>3. k = Len(c)
        BY <4>1, <4>2
      <4>4. a < 0
        BY <4>1
      <4>5. QED
        BY <4>1, <4>3, <4>4
    <3>2. PICK o \in Nat, f \in Nat, u \in Nat :
            o = c[k].out /\ f = c[k].fin /\ u = TicksToPay(a)
      <4>1. \A x \in Leaving : x.out \in Nat /\ x.fin \in Nat
        BY DEF Leaving
      <4>2. TicksToPay(a) \in Nat
        BY <1>4, <3>1, TicksExact
      <4>3. c[k].out \in Nat /\ c[k].fin \in Nat
        BY <4>1
      <4>4. QED
        BY <4>2, <4>3
    <3>3. d[k].out = o + u /\ d[k].fin = f
      BY <1>2, <1>5, <3>1, <3>2
    <3>4. (o - dl) * b + w > f
      BY <1>4, <1>5, <2>1, <3>2 DEF OnTime
    <3>5. (o - dl) * b <= ((o + u) - dl) * b
      <4>1. o - dl \in Int /\ (o + u) - dl \in Int /\ o - dl <= (o + u) - dl
        OBVIOUS
      <4>2. QED
        BY <4>1, MulMono
    <3>6. PICK x \in Int, y \in Int : x = (o - dl) * b /\ y = ((o + u) - dl) * b
      OBVIOUS
    <3>7. y + w > f
      BY <3>4, <3>5, <3>6
    <3>8. QED
      BY <1>4, <1>5, <3>3, <3>6, <3>7 DEF OnTime
  <2>4. QED
    BY <2>2, <2>3
<1>7. ASSUME NEW k \in 1..Len(c), Owing(i, k) PROVE OnTime(d[k])
  <2>1. /\ k = Len(c) /\ a < 0 /\ srv.done /\ c[k].out = t + dl /\ c[k].fin < Pace(i)
    BY <1>1, <1>5, <1>7 DEF Owing
  <2>2. PICK f \in Nat, u \in Nat : f = c[k].fin /\ u = TicksToPay(a) /\ u * b >= -a
    <3>1. TicksToPay(a) \in Nat /\ TicksToPay(a) * b >= -a
      BY <1>4, <2>1, TicksExact
    <3>2. \A x \in Leaving : x.fin \in Nat
      BY DEF Leaving
    <3>3. QED
      BY <3>1, <3>2
  <2>3. PICK x \in Int, y \in Int : x = t * b /\ y = u * b /\ (t + u) * b = x + y
    BY Distribute
  <2>4. Pace(i) = x - a + w
    BY <1>4, <1>5, <2>3 DEF Pace
  <2>5. f < x + y + w
    <3>1. y >= -a
      BY <2>2, <2>3
    <3>2. f < x - a + w
      BY <2>1, <2>2, <2>4
    <3>3. QED
      BY <3>1, <3>2
  <2>6. d[k].out = (t + dl) + u /\ d[k].fin = f
    BY <1>2, <1>5, <2>1, <2>2
  <2>7. ((t + dl) + u) - dl = t + u
    OBVIOUS
  <2>8. QED
    BY <1>4, <1>5, <2>3, <2>5, <2>6, <2>7 DEF OnTime
<1>8. QED
  BY <1>2, <1>6, <1>7

\* The chain that serve_sched() releases, or what its caller keeps of it.
LEMMA ResultPace ==
  ASSUME NEW a \in Seq(Leaving), NEW r \in ServeResults(a), \A k \in DOMAIN a : OnTime(a[k])
  PROVE  r \in Seq(Leaving) /\ \A k \in DOMAIN r : OnTime(r[k])
<1>1. CASE r = a
  BY <1>1
<1>2. CASE a # <<>> /\ r = <<[Head(a) EXCEPT !.drop = FALSE]>>
  <2>1. PICK x : x = [Head(a) EXCEPT !.drop = FALSE]
    OBVIOUS
  <2>2. Head(a) \in Leaving /\ Head(a) = a[1] /\ 1 \in DOMAIN a
    BY <1>2
  <2>3. x \in Leaving /\ x.out = a[1].out /\ x.fin = a[1].fin
    BY <2>1, <2>2 DEF Leaving
  <2>4. OnTime(x)
    BY <2>2, <2>3 DEF OnTime
  <2>5. r = <<x>>
    BY <1>2, <2>1
  <2>6. r \in Seq(Leaving) /\ DOMAIN r = {1} /\ r[1] = x
    BY <2>3, <2>5
  <2>7. QED
    BY <2>4, <2>6
<1>3. QED
  BY <1>1, <1>2 DEF ServeResults

LEMMA ServeEndPace ==
  ASSUME StepsBounded, ~AllocMayFail, HeapInv, HeapInv', PaceInv, nconf = 0,
         link.bandwidth > 0, ServeEnd
  PROVE  PaceInv'
<1>1. PICK i \in Insts : i = srv.inst
  BY DEF HeapInv, Section, ServeEnd
<1>2. /\ pc = "serve" /\ ~si[i].active /\ Serving(i)
      /\ si \in [Insts -> SiType] /\ dline \in [Insts -> Seq(Leaving)]
      /\ si[i].credit \in Int /\ curr_time \in Nat /\ lock \in Senders
      /\ srv.dlidle \in BOOLEAN /\ srv.done \in BOOLEAN
      /\ UNCHANGED <<curr_time, link, queue, ideal, nconf>>
      /\ pc' # "serve"
  BY <1>1 DEF HeapInv, Section, TypeOK, ServeEnd, SiType, Serving
<1>3. Prompt /\ ChainPace /\ \A j \in Insts : Charged(j) /\ QueuePace(j) /\ LinePace(j)
  BY DEF PaceInv
<1>4. PICK d \in Seq(Leaving) : d = ServedDline(i)
  BY <1>1, <1>2, ServedDlineType
<1>5. PICK f \in BOOLEAN : f = (srv.dlidle /\ srv.done)
  BY <1>2
<1>6. PICK n \in 0..Len(d) :
        /\ IF f THEN IsDuePrefix(d, n) ELSE n = 0
        /\ \E h \in ServedHeap(i) :
             evheap' \in IF f THEN DlineReinsert(h, i, d, n) ELSE {h}
        /\ si' = [si EXCEPT ![i] =
                    [Served(si[i]) EXCEPT !.dlheap = IF f THEN n < Len(d) ELSE @]]
        /\ dline' = [dline EXCEPT ![i] = Rest(d, n)]
        /\ \E r \in ServeResults(SubSeq(d, 1, n)) : tx' = [tx EXCEPT ![lock] = @ \o r]
  BY <1>1, <1>4, <1>5 DEF ServeEnd
<1>7. PICK h \in ServedHeap(i) :
        evheap' \in IF f THEN DlineReinsert(h, i, d, n) ELSE {h}
  BY <1>6
<1>8. \A k \in DOMAIN d : OnTime(d[k])
  BY <1>1, <1>2, <1>3, <1>4, ServedPace
<1>9. /\ \A j \in Insts \ {i} : si'[j] = si[j] /\ dline'[j] = dline[j]
      /\ dline'[i] = Rest(d, n)
      /\ si'[i].alive = si[i].alive /\ si'[i].credit = si[i].credit
      /\ si'[i].sched_time = si[i].sched_time
      /\ si[i].credit < 0 => si'[i].active
      /\ si[i].credit >= 0 => si'[i].idle_time = curr_time
  <2>1. PICK s : s = Served(si[i])
    OBVIOUS
  <2>2. /\ s \in SiType /\ s.alive = si[i].alive /\ s.credit = si[i].credit
        /\ s.sched_time = si[i].sched_time
        /\ si[i].credit < 0 => s.active
        /\ si[i].credit >= 0 => s.idle_time = curr_time
    <3>1. /\ si[i].credit < 0 => s = [si[i] EXCEPT !.active = TRUE]
          /\ si[i].credit >= 0 => s = [si[i] EXCEPT !.idle_time = curr_time]
      BY <1>2, <2>1 DEF Served
    <3>2. si[i].credit < 0 \/ si[i].credit >= 0
      BY <1>2
    <3>3. QED
      BY <1>2, <3>1, <3>2 DEF SiType
  <2>3. \E mark : si' = [si EXCEPT ![i] = [s EXCEPT !.dlheap = mark]]
    <3>1. [s EXCEPT !.dlheap = IF f THEN n < Len(d) ELSE @]
            = [s EXCEPT !.dlheap = IF f THEN n < Len(d) ELSE s.dlheap]
      BY <2>2
    <3>2. QED
      BY <1>6, <2>1, <3>1, Zenon
  <2>4. PICK mark : si' = [si EXCEPT ![i] = [s EXCEPT !.dlheap = mark]]
    BY <2>3
  <2>5. PICK u : u = [s EXCEPT !.dlheap = mark]
    OBVIOUS
  <2>6. /\ u.alive = s.alive /\ u.credit = s.credit /\ u.sched_time = s.sched_time
        /\ u.active = s.active /\ u.idle_time = s.idle_time
    BY <2>2, <2>5 DEF SiType
  <2>7. si'[i] = u /\ \A j \in Insts \ {i} : si'[j] = si[j]
    BY <1>2, <2>4, <2>5
  <2>8. \A j \in Insts \ {i} : dline'[j] = dline[j] /\ dline'[i] = Rest(d, n)
    BY <1>2, <1>6
  <2>9. dline'[i] = Rest(d, n)
    BY <1>2, <1>6
  <2>10. QED
    BY <2>2, <2>6, <2>7, <2>8, <2>9
<1>10. Pace(i)' = Pace(i) /\ Allowance' = Allowance
  BY <1>2, <1>9 DEF Pace, Allowance
<1>11. QueuePace(i)'
  BY <1>2, <1>3, <1>10 DEF QueuePace
<1>12. \A e \in evheap' :
         \/ e \in evheap
         \/ e = Event(curr_time + TicksToPay(si[i].credit), "si", i) /\ si[i].credit < 0
         \/ f /\ n < Len(d) /\ e = Event(d[n + 1].out, "dl", i)
  <2>1. \A e \in h :
          \/ e \in evheap
          \/ e = Event(curr_time + TicksToPay(si[i].credit), "si", i) /\ si[i].credit < 0
    <3>1. si[i].credit < 0 \/ si[i].credit >= 0
      BY <1>2
    <3>2. QED
      BY <1>1, <1>2, <3>1, ServedEvent
  <2>2. CASE f
    BY <1>7, <2>1, <2>2, DlineReinsertType
  <2>3. CASE ~f
    BY <1>7, <2>1, <2>3
  <2>4. QED
    BY <2>2, <2>3
<1>13. Charged(i)'
  <2>1. si[i].sched_time = curr_time /\ si[i].alive /\ si[i].credit < Allowance
    BY <1>2, <1>3 DEF Charged
  <2>2. ~Serving(i)'
    BY <1>2 DEF Serving
  <2>3. ~si'[i].active => si'[i].credit >= 0 /\ si'[i].sched_time = si'[i].idle_time
    BY <1>2, <1>9, <2>1
  <2>4. \A c : TicksToPay(c)' = TicksToPay(c)
    BY <1>2 DEF TicksToPay
  <2>5. ASSUME NEW e \in evheap', e.kind = "si", e.inst = i
        PROVE  si[i].credit < 0 /\ e.key = curr_time + TicksToPay(si[i].credit)
    <3>1. ~(e \in evheap)
      BY <1>2, <2>5 DEF HeapInv, NoDanglingEvent
    <3>2. QED
      BY <1>12, <2>5, <3>1 DEF Event
  <2>6. \A e \in evheap' :
          e.kind = "si" /\ e.inst = i =>
            si'[i].credit < 0 /\ e.key = si'[i].sched_time + TicksToPay(si'[i].credit)
    BY <1>9, <2>1, <2>5
  <2>7. /\ si'[i].alive /\ si'[i].sched_time <= curr_time' /\ si'[i].credit < Allowance'
    BY <1>2, <1>9, <1>10, <2>1
  <2>8. QED
    BY <1>2, <2>2, <2>3, <2>6, <2>7 DEF Charged, TicksToPay
<1>14. LinePace(i)'
  <2>1. \A k \in DOMAIN Rest(d, n) : OnTime(Rest(d, n)[k])
    BY <1>8, RestOut
  <2>2. \A k \in DOMAIN dline'[i] :
          (dline'[i][k].out - link.delay) * link.bandwidth + Allowance > dline'[i][k].fin
    BY <1>9, <2>1 DEF OnTime
  <2>3. QED
    BY <1>2, <2>2 DEF LinePace, OnTime, Allowance
<1>15. \A j \in Insts \ {i} : ~Serving(j) /\ ~Serving(j)'
  BY <1>1, <1>2 DEF Serving
<1>16. ASSUME NEW j \in Insts \ {i} PROVE Charged(j)' /\ QueuePace(j)' /\ LinePace(j)'
  <2>1. \A e \in evheap' : e.kind = "si" /\ e.inst = j => e \in evheap
    BY <1>12 DEF Event
  <2>2. /\ si'[j] = si[j] /\ queue'[j] = queue[j] /\ ideal'[j] = ideal[j]
        /\ dline'[j] = dline[j] /\ link' = link
        /\ curr_time' \in Nat /\ curr_time' >= curr_time
    BY <1>2, <1>9
  <2>3. QED
    BY <1>3, <1>15, <2>1, <2>2, KeepPace
<1>17. Prompt'
  <2>1. f /\ n < Len(d) => d[n + 1].out > curr_time /\ d[n + 1].out \in Nat
    <3>1. \A x \in Leaving : x.out \in Nat
      BY DEF Leaving
    <3>2. n < Len(d) => d[n + 1] \in Leaving
      OBVIOUS
    <3>3. QED
      BY <1>6, <3>1, <3>2 DEF IsDuePrefix
  <2>2. ASSUME NEW e \in evheap' PROVE e.key + MaxStep > curr_time'
    <3>1. CASE e \in evheap
      BY <1>2, <1>3, <3>1 DEF Prompt
    <3>2. CASE e = Event(curr_time + TicksToPay(si[i].credit), "si", i) /\ si[i].credit < 0
      <4>1. TicksToPay(si[i].credit) \in Nat \ {0}
        BY <1>1, <1>2, <3>2, ServedEvent
      <4>2. PICK u \in Nat : u = TicksToPay(si[i].credit)
        BY <4>1
      <4>3. e.key = curr_time + u
        BY <3>2, <4>2 DEF Event
      <4>4. QED
        BY <1>2, <4>3, MaxStepIs
    <3>3. CASE f /\ n < Len(d) /\ e = Event(d[n + 1].out, "dl", i)
      BY <1>2, <2>1, <3>3, MaxStepIs DEF Event
    <3>4. QED
      BY <1>12, <3>1, <3>2, <3>3
  <2>3. QED
    BY <2>2 DEF Prompt
<1>18. ChainPace'
  <2>1. PICK a \in Seq(Leaving) : a = SubSeq(d, 1, n)
    BY ChainType
  <2>2. \A k \in DOMAIN a : k \in DOMAIN d /\ a[k] = d[k]
    <3>1. Len(a) = n /\ n \in Nat /\ n <= Len(d) /\ Len(d) \in Nat /\ \A k \in 1..n : a[k] = d[k]
      BY <2>1
    <3>2. DOMAIN a = 1..n /\ DOMAIN d = 1..Len(d)
      BY <3>1
    <3>3. QED
      BY <3>1, <3>2
  <2>3. \A k \in DOMAIN a : OnTime(a[k])
    BY <1>8, <2>2
  <2>4. PICK r \in ServeResults(a) : tx' = [tx EXCEPT ![lock] = tx[lock] \o r]
    BY <1>6, <2>1
  <2>5. PICK s \in Senders : s = lock
    BY <1>2
  <2>6. r \in Seq(Leaving) /\ \A k \in DOMAIN r : OnTime(r[k])
    BY <2>3, ResultPace
  <2>7. tx' = [tx EXCEPT ![s] = tx[s] \o r] /\ link' = link
    BY <1>2, <2>4, <2>5
  <2>8. QED
    BY <1>3, <2>6, <2>7, ReleasePace
<1>19. QED
  BY <1>11, <1>13, <1>14, <1>16, <1>17, <1>18 DEF PaceInv

\* Every step keeps the pace, as long as no command comes.
LEMMA StepPace ==
  ASSUME StepsBounded, ~AllocMayFail, ~Expire, ~IoFast,
         HeapInv, HeapInv', MarkedIsInHeap, SchedInv, PaceInv, [Next]_vars
  PROVE  PaceInv'
<1>1. SUFFICES ASSUME nconf' = 0, link'.bandwidth > 0 PROVE PaceInv'
  BY DEF PaceInv
<1>2. /\ curr_time \in Nat /\ nconf \in Nat /\ si \in [Insts -> SiType]
      /\ tx \in [Senders -> Seq(Leaving)]
  BY DEF HeapInv, TypeOK, SiType
<1>3. ASSUME nconf = 0, link' = link,
             \A i \in Insts : si'[i] = si[i],
             UNCHANGED <<curr_time, queue, dline, evheap, ideal, pc, srv>>,
             ChainPace'
      PROVE  PaceInv'
  <2>1. link.bandwidth > 0 /\ \A i \in Insts : Serving(i)' <=> Serving(i)
    BY <1>1, <1>3 DEF Serving
  <2>2. Prompt /\ \A i \in Insts : Charged(i) /\ QueuePace(i) /\ LinePace(i)
    BY <1>3, <2>1 DEF PaceInv
  <2>3. Prompt'
    BY <1>3, <2>2 DEF Prompt
  <2>4. ASSUME NEW i \in Insts PROVE Charged(i)' /\ QueuePace(i)' /\ LinePace(i)'
    <3>1. /\ si'[i] = si[i] /\ queue'[i] = queue[i] /\ ideal'[i] = ideal[i]
          /\ dline'[i] = dline[i] /\ srv'.done = srv.done
          /\ curr_time' \in Nat /\ curr_time' >= curr_time /\ curr_time' = curr_time
          /\ \A e \in evheap' : e.kind = "si" /\ e.inst = i => e \in evheap
      BY <1>2, <1>3
    <3>2. QED
      BY <1>3, <2>1, <2>2, <3>1, KeepPace
  <2>5. QED
    BY <1>3, <2>3, <2>4 DEF PaceInv
<1>4. nconf = 0 /\ link' = link => link.bandwidth > 0 /\ ChainPace
  BY <1>1 DEF PaceInv
<1>5. link' = link /\ tx' = tx /\ ChainPace => ChainPace'
  BY DEF ChainPace, OnTime, Allowance
<1>6. CASE UNCHANGED vars
  BY <1>1, <1>3, <1>4, <1>5, <1>6 DEF vars
<1>7. CASE Io
  <2>1. ASSUME NEW th \in Threads, IoNoMemory(th) PROVE PaceInv'
    BY <1>1, <1>3, <1>4, <1>5, <2>1 DEF IoNoMemory
  <2>2. ASSUME NEW th \in Threads, NEW i \in Insts, IoDrop(th, i) PROVE PaceInv'
    <3>1. nconf = 0 /\ link' = link /\ link.bandwidth > 0
      BY <1>1, <1>4, <2>2 DEF IoDrop
    <3>2. SiFind(i) = si[i]
      BY <3>1 DEF PaceInv, Charged, SiFind
    <3>3. \A j \in Insts : si'[j] = si[j]
      BY <1>2, <2>2, <3>2 DEF IoDrop
    <3>4. QED
      BY <1>3, <1>4, <1>5, <2>2, <3>1, <3>3 DEF IoDrop
  <2>3. ASSUME NEW th \in Threads, NEW i \in Insts, NEW len \in Lens, IoEnqueue(th, i, len)
        PROVE  PaceInv'
    <3>1. nconf = 0 /\ link.bandwidth > 0
      BY <1>1, <1>4, <2>3 DEF IoEnqueue
    <3>2. QED
      BY <2>3, <3>1, IoEnqueuePace
  <2>4. QED
    BY <1>7, <2>1, <2>2, <2>3 DEF Io
<1>8. CASE Serve
  <2>1. nconf = 0 /\ link.bandwidth > 0
    BY <1>1, <1>4, <1>8 DEF Serve, ServeDequeue, ServeEnd
  <2>2. QED
    BY <1>8, <2>1, ServeDequeuePace, ServeEndPace DEF Serve
<1>9. ASSUME NEW step \in TickSteps, TaskTick(step) PROVE PaceInv'
  <2>1. nconf = 0 /\ link.bandwidth > 0
    BY <1>1, <1>4, <1>9 DEF TaskTick
  <2>2. QED
    BY <1>9, <2>1, TaskTickPace
<1>10. ASSUME NEW e \in evheap, TaskServeSched(e) PROVE PaceInv'
  <2>1. nconf = 0 /\ link.bandwidth > 0
    BY <1>1, <1>4, <1>10 DEF TaskServeSched
  <2>2. QED
    BY <1>10, <2>1, TaskServeSchedPace
<1>11. ASSUME NEW e \in evheap, TaskTransmit(e) PROVE PaceInv'
  <2>1. nconf = 0 /\ link.bandwidth > 0
    BY <1>1, <1>4, <1>11 DEF TaskTransmit
  <2>2. QED
    BY <1>11, <2>1, TaskTransmitPace
<1>12. CASE TaskDone
  <2>1. nconf = 0 /\ link' = link /\ link.bandwidth > 0 /\ pc = "events" /\ pc' = "none"
    BY <1>1, <1>4, <1>12 DEF TaskDone
  <2>2. \A i \in Insts : si'[i] = si[i]
    BY <1>12 DEF TaskDone
  <2>3. \A i \in Insts : ~Serving(i) /\ ~Serving(i)'
    BY <2>1 DEF Serving
  <2>4. Prompt /\ ChainPace /\ \A i \in Insts : Charged(i) /\ QueuePace(i) /\ LinePace(i)
    BY <2>1 DEF PaceInv
  <2>5. UNCHANGED <<curr_time, queue, dline, evheap, ideal, tx>>
    BY <1>12 DEF TaskDone
  <2>6. ASSUME NEW i \in Insts PROVE Charged(i)' /\ QueuePace(i)' /\ LinePace(i)'
    <3>1. /\ si'[i] = si[i] /\ queue'[i] = queue[i] /\ ideal'[i] = ideal[i]
          /\ dline'[i] = dline[i]
          /\ curr_time' \in Nat /\ curr_time' >= curr_time
          /\ \A e \in evheap' : e.kind = "si" /\ e.inst = i => e \in evheap
      BY <1>2, <2>2, <2>5
    <3>2. QED
      BY <2>1, <2>3, <2>4, <3>1, KeepPace
  <2>7. Prompt' /\ ChainPace'
    BY <1>5, <2>1, <2>4, <2>5 DEF Prompt
  <2>8. QED
    BY <2>6, <2>7 DEF PaceInv
<1>13. ASSUME NEW s \in Senders, Send(s) PROVE PaceInv'
  <2>1. nconf = 0 /\ link' = link /\ ChainPace
    BY <1>1, <1>4, <1>13 DEF Send
  <2>2. PICK q \in Seq(Leaving) : q = tx[s] /\ q # <<>> /\ tx' = [tx EXCEPT ![s] = Tail(q)]
    BY <1>2, <1>13 DEF Send
  <2>3. \A k \in DOMAIN Tail(q) : k + 1 \in DOMAIN q /\ Tail(q)[k] = q[k + 1]
    BY <2>2
  <2>4. \A k \in DOMAIN Tail(q) : OnTime(Tail(q)[k])
    BY <2>1, <2>2, <2>3 DEF ChainPace
  <2>5. tx'[s] = Tail(q) /\ \A t \in Senders \ {s} : tx'[t] = tx[t]
    BY <1>2, <2>2
  <2>6. \A t \in Senders : \A k \in DOMAIN tx'[t] :
          (tx'[t][k].out - link.delay) * link.bandwidth + Allowance > tx'[t][k].fin
    BY <2>1, <2>4, <2>5 DEF ChainPace, OnTime
  <2>7. ChainPace'
    BY <2>1, <2>6 DEF ChainPace, OnTime, Allowance
  <2>8. QED
    BY <1>3, <1>13, <2>1, <2>7 DEF Send
<1>14. CASE Config
  <2>1. MayConfigure
    BY <1>14, Zenon DEF Config, ConfigLink, ConfigProfile, ConfigSched
  <2>2. nconf' # 0
    BY <1>2, <2>1 DEF MayConfigure
  <2>3. QED
    BY <1>1, <2>2
<1>15. QED
  BY <1>6, <1>7, <1>8, <1>9, <1>10, <1>11, <1>12, <1>13, <1>14 DEF Next, TaskEvent

\* An idle instance that has its whole burst.
LEMMA WarmPace == ASSUME StepsBounded, ~IoFast, WarmInit PROVE PaceInv
<1>1. SUFFICES ASSUME link.bandwidth > 0 PROVE PaceInv
  BY DEF PaceInv
<1>2. HeapInv
  BY WarmInv
<1>3. PICK b \in Nat \ {0}, m \in Nat \ {0}, r \in Nat :
        b = link.bandwidth /\ m = MaxStep * b /\ r = link.burst /\ Allowance = r + m
  BY <1>1, <1>2, PaceNumbers DEF HeapInv
<1>4. \A i \in Insts : /\ si[i].alive /\ ~si[i].active /\ si[i].credit = r
                       /\ si[i].sched_time = 0 /\ si[i].idle_time = 0
  <2>1. PICK c : c = link.burst + IF IoFast THEN link.bandwidth ELSE 0
    OBVIOUS
  <2>2. c = r
    BY <1>3, <2>1
  <2>3. PICK u : u = [NoInst EXCEPT !.alive = TRUE, !.credit = c]
    OBVIOUS
  <2>4. u.alive /\ ~u.active /\ u.credit = c /\ u.sched_time = 0 /\ u.idle_time = 0
    BY <2>3 DEF NoInst
  <2>5. \A i \in Insts : si[i] = u
    BY <2>1, <2>3 DEF WarmInit
  <2>6. QED
    BY <2>2, <2>4, <2>5
<1>5. /\ curr_time = 1 /\ evheap = {} /\ pc = "none"
      /\ \A i \in Insts : queue[i] = <<>> /\ dline[i] = <<>> /\ ideal[i] = 0
      /\ \A s \in Senders : tx[s] = <<>>
  BY DEF WarmInit, EmptyPipe
<1>6. Prompt /\ ChainPace
  BY <1>5 DEF Prompt, ChainPace
<1>7. ASSUME NEW i \in Insts PROVE Charged(i) /\ QueuePace(i) /\ LinePace(i)
  <2>1. Charged(i)
    BY <1>3, <1>4, <1>5 DEF Charged, Serving
  <2>2. Pace(i) = m
    <3>1. 0 * b = 0 /\ 0 - r + (r + m) = m
      OBVIOUS
    <3>2. QED
      BY <1>3, <1>4, <3>1 DEF Pace
  <2>3. QueuePace(i)
    BY <1>5, <2>2 DEF QueuePace, Follows
  <2>4. LinePace(i)
    BY <1>5 DEF LinePace
  <2>5. QED
    BY <2>1, <2>3, <2>4
<1>8. QED
  BY <1>6, <1>7 DEF PaceInv

LEMMA PaceImplies ==
  ASSUME StepsBounded, HeapInv, PaceInv PROVE NotFasterThanLink
<1> DEFINE Late(p) == (p.out - link.delay) * link.bandwidth
                        + link.burst + MaxStep * link.bandwidth > p.fin
<1> SUFFICES ASSUME nconf = 0, lock = Free, link.bandwidth > 0
             PROVE  /\ \A i \in Insts : \A k \in DOMAIN dline[i] : Late(dline[i][k])
                    /\ \A s \in Senders : \A k \in DOMAIN tx[s] : Late(tx[s][k])
  BY DEF NotFasterThanLink
<1>1. \A i \in Insts : ~Serving(i)
  BY DEF HeapInv, Section, Serving
<1>2. PICK b \in Nat \ {0}, m \in Nat \ {0}, r \in Nat, dl \in Nat :
        b = link.bandwidth /\ m = MaxStep * b /\ r = link.burst /\ dl = link.delay
        /\ Allowance = r + m
  <2>1. link.delay \in Nat
    BY LinkType DEF HeapInv, TypeOK
  <2>2. QED
    BY <2>1, PaceNumbers DEF HeapInv
<1>3. ASSUME NEW p \in Leaving, OnTime(p) PROVE Late(p)
  <2>1. PICK o \in Nat, f \in Nat : o = p.out /\ f = p.fin
    BY DEF Leaving
  <2>2. PICK x \in Int : x = (o - dl) * b
    OBVIOUS
  <2>3. x + (r + m) > f
    BY <1>2, <1>3, <2>1, <2>2 DEF OnTime
  <2>4. x + r + m > f
    BY <2>3
  <2>5. QED
    BY <1>2, <2>1, <2>2, <2>4
<1> HIDE DEF Late
<1>4. /\ \A i \in Insts : \A k \in DOMAIN dline[i] : dline[i][k] \in Leaving
      /\ \A s \in Senders : \A k \in DOMAIN tx[s] : tx[s][k] \in Leaving
  <2>1. dline \in [Insts -> Seq(Leaving)] /\ tx \in [Senders -> Seq(Leaving)]
    BY DEF HeapInv, TypeOK
  <2>2. \A q \in Seq(Leaving) : \A k \in DOMAIN q : q[k] \in Leaving
    OBVIOUS
  <2>3. QED
    BY <2>1, <2>2
<1>5. /\ \A i \in Insts : \A k \in DOMAIN dline[i] : OnTime(dline[i][k])
      /\ \A s \in Senders : \A k \in DOMAIN tx[s] : OnTime(tx[s][k])
  BY <1>1 DEF PaceInv, LinePace, Owing, ChainPace
<1>6. QED
  BY <1>3, <1>4, <1>5

\* NotFasterThanLink, from a pipe that has been running for a tick: with
\* io_fast=0 and no command, and when no instance is removed and heap_insert()
\* does not fail, no packet leaves before the link could have sent it, but for
\* the burst and for less than what the link sends in one run of the timer.
THEOREM NotTooFast ==
  ~AllocMayFail /\ ~Expire /\ ~IoFast /\ StepsBounded
    => (WarmFairSpec => []NotFasterThanLink)
<1> SUFFICES ASSUME ~AllocMayFail, ~Expire, ~IoFast, StepsBounded
             PROVE  WarmFairSpec => []NotFasterThanLink
  OBVIOUS
<1> DEFINE PipeInv == HeapInv /\ MarkedIsInHeap /\ SchedInv /\ PaceInv
<1>1. WarmInit => PipeInv
  BY WarmSched, WarmPace
<1>2. PipeInv /\ [Next]_vars => PipeInv'
  <2> SUFFICES ASSUME PipeInv, [Next]_vars PROVE PipeInv'
    OBVIOUS
  <2>1. HeapInv'
    BY StepInv
  <2>2. QED
    BY <2>1, MarkedStep, StepSched, StepPace
<1>3. PipeInv => NotFasterThanLink
  BY PaceImplies
<1> HIDE DEF PipeInv
<1>4. QED
  BY <1>1, <1>2, <1>3, PTL DEF WarmFairSpec

=============================================================================
