------------------------------- MODULE DnPipe -------------------------------
(***************************************************************************)
(* The dummynet data path (sys/netinet/ipfw/ip_dn_io.c): packets enter a   *)
(* pipe through dummynet_io(), wait in the queue of a scheduler instance,  *)
(* are moved by serve_sched() to the delay line of that instance when the  *)
(* token bucket ("credit") allows, and leave through transmit_event() when *)
(* their output time has come.  dummynet_task() is the periodic timer      *)
(* handler; it serves the event heap.  The scheduler is the FIFO one       *)
(* (dn_sched_fifo.c): one queue embedded in each instance.                 *)
(*                                                                         *)
(* One lock (DN_BH_WLOCK) protects everything here.  The long critical     *)
(* sections are split in the steps of their loops; "lock" says who is      *)
(* inside, so that the steps of one critical section are never interleaved *)
(* with those of another, while dummynet_send() runs after the unlock.     *)
(*                                                                         *)
(* Units: bandwidth is what one tick adds to the credit, and a packet's    *)
(* len is what its transmission takes from it (hz * 8 * bytes in the C     *)
(* code); all times are ticks.                                             *)
(***************************************************************************)
EXTENDS Integers, Sequences, FiniteSets

CONSTANTS
  Insts,        \* flows that the scheduler mask tells apart: one instance each
  Threads,      \* CPUs that may be inside dummynet_io()
  Links,        \* link parameters: records [bandwidth, delay, burst]
  Lens,         \* packet lengths
  Samples,      \* samples of the delay profile: records [bits, loss]
  QSize,        \* fs.qsize, in slots
  IoFast,       \* dn_cfg.io_fast
  RandomDrop,   \* the flowset has plr or RED: dn_enqueue() may drop at random
  Expire,       \* dn_cfg.expire is not 0: do_drain() removes idle instances
  IdleTick,     \* dn_cfg.object_idle_tick
  AllocMayFail, \* malloc(M_NOWAIT) may return NULL
  TickSteps,    \* how far one run of dummynet_task() may move curr_time
  MaxTime,      \* bound on curr_time
  LastArrival,  \* bound: no packet and no command arrives after this time
  MaxPkts,      \* bound on the number of packets
  MaxConf       \* bound on the number of configuration commands

ASSUME ParamAssumption ==
  /\ Links \subseteq [bandwidth : Nat, delay : Nat, burst : Nat]
  /\ Links # {}
  /\ Lens \subseteq Nat \ {0}
  /\ Samples \subseteq [bits : Nat, loss : BOOLEAN]
  /\ QSize \in Nat \ {0}
  /\ IdleTick \in Nat
  /\ TickSteps \subseteq Nat
  /\ MaxTime \in Nat /\ LastArrival \in Nat /\ MaxPkts \in Nat /\ MaxConf \in Nat
  /\ IoFast \in BOOLEAN /\ RandomDrop \in BOOLEAN
  /\ Expire \in BOOLEAN /\ AllocMayFail \in BOOLEAN

\* The context that runs dummynet_task(), and the value of lock when it is free.
Task == "task"
Free == "free"

ASSUME ThreadAssumption == Task \notin Threads /\ Free \notin Threads

Senders == Threads \cup {Task}

VARIABLES
  curr_time,  \* dn_cfg.curr_time
  link,       \* s->link
  profile,    \* s->profile is set: packets take samples of a delay profile
  si,         \* the instances: credit, times and flags (struct dn_sch_inst)
  queue,      \* packets of the queue embedded in each instance
  dline,      \* packets of the delay line of each instance
  evheap,     \* dn_cfg.evheap: a set of entries [key, kind, inst]
  lock,       \* the holder of the dummynet lock
  pc,         \* where the holder is: "none", "events" or "serve"
  srv,        \* locals of serve_sched(): [inst, dlidle, done, m0]
  tx,         \* packets each context has collected for dummynet_send()
  nextid,     \* identity of the next packet to arrive
  gone,       \* what became of each packet: "inside", "delivered" or "freed"
  ideal,      \* ghost: when a real link would have sent all that came so far
  nconf,      \* configuration commands issued
  panicked    \* heap_extract() of an object that is not in the heap

vars == <<curr_time, link, profile, si, queue, dline, evheap, lock, pc, srv, tx,
          nextid, gone, ideal, nconf, panicked>>

-----------------------------------------------------------------------------
Kinds == {"si", "dl"}     \* DN_SCH_I and DN_DELAY_LINE entries of the heap

Event(key, kind, i) == [key |-> key, kind |-> kind, inst |-> i]

\* heap_insert(): the callers ignore its result, so a failed allocation
\* leaves the heap as it was.
HeapInsert(h, e) == {h \cup {e}} \cup (IF AllocMayFail THEN {h} ELSE {})

EventsOf(h, i) == {e \in h : e.inst = i}

\* A zeroed instance: what malloc(M_ZERO) returns and what is left after free.
NoInst == [alive |-> FALSE, active |-> FALSE, dlheap |-> FALSE, credit |-> 0,
           sched_time |-> 0, idle_time |-> 0]

\* si_reset_credit()
ResetCredit(s, l) ==
  [s EXCEPT !.idle_time = curr_time,
            !.credit = l.burst + IF IoFast THEN l.bandwidth ELSE 0]

\* ipdn_si_find() and si_new(): the instance for a flow, created on demand.
SiFind(i) == IF si[i].alive THEN si[i]
             ELSE ResetCredit([NoInst EXCEPT !.alive = TRUE], link)

Smaller(a, b) == IF a < b THEN a ELSE b

\* dummynet_io(): the allowance of the first packet on an idle pipe.
InitialAllowance_mutantTime(s) ==
  IF s.idle_time < curr_time
  THEN [s EXCEPT
         !.credit = (IF IoFast THEN link.bandwidth ELSE 0)
                    + Smaller((curr_time - s.idle_time) * link.bandwidth, link.burst)]
  ELSE s

InitialAllowance(s) ==
  IF s.idle_time < curr_time
  THEN [s EXCEPT
         !.sched_time = curr_time,
         !.credit = (IF IoFast THEN link.bandwidth ELSE 0)
                    + Smaller((curr_time - s.idle_time) * link.bandwidth, link.burst)]
  ELSE s

\* serve_sched(), up to its loop.
ServeEnter_mutantActive(s) ==
  [s EXCEPT !.credit = s.credit + (curr_time - s.sched_time) * link.bandwidth,
            !.sched_time = curr_time]

ServeEnter(s) ==
  [s EXCEPT !.active = FALSE,
            !.credit = IF link.bandwidth > 0
                       THEN s.credit + (curr_time - s.sched_time) * link.bandwidth
                       ELSE 0,
            !.sched_time = curr_time]

\* transmit_event(): n is the number of packets that are due, the longest
\* prefix of the delay line whose output times have come.
IsDuePrefix_mutantLess(d, n) ==
  /\ \A k \in 1..n : d[k].out < curr_time
  /\ n < Len(d) => d[n + 1].out >= curr_time

IsDuePrefix(d, n) ==
  /\ \A k \in 1..n : d[k].out <= curr_time
  /\ n < Len(d) => d[n + 1].out > curr_time

\* transmit_event(): the heap after the first n packets of d are gone.
DlineReinsert(h, i, d, n) ==
  IF n < Len(d) THEN HeapInsert(h, Event(d[n + 1].out, "dl", i)) ELSE {h}

\* mq_append()
MqAppend_mutantHead(q, m) == <<m>> \o q
MqAppend(q, m) == Append(q, m)

\* What is left of a chain when its first n packets are gone.
Rest_mutantSkip(s, n) == SubSeq(s, n + 2, Len(s))
Rest(s, n) == SubSeq(s, n + 1, Len(s))

NoServe == [inst |-> Free, dlidle |-> FALSE, done |-> FALSE, m0 |-> 0]

-----------------------------------------------------------------------------
\* A configured pipe without packets.
EmptyPipe ==
  /\ link \in Links
  /\ profile \in (IF Samples = {} THEN {FALSE} ELSE BOOLEAN)
  /\ queue = [i \in Insts |-> <<>>]
  /\ dline = [i \in Insts |-> <<>>]
  /\ evheap = {}
  /\ lock = Free
  /\ pc = "none"
  /\ srv = NoServe
  /\ tx = [s \in Senders |-> <<>>]
  /\ nextid = 1
  /\ gone = <<>>
  /\ ideal = [i \in Insts |-> 0]
  /\ nconf = 0
  /\ panicked = FALSE

Init ==
  /\ EmptyPipe
  /\ curr_time = 0
  /\ si = [i \in Insts |-> NoInst]

\* dummynet_io() can take a packet on thread th.
MayArrive(th) ==
  /\ lock = Free
  /\ ~panicked
  /\ tx[th] = <<>>
  /\ nextid <= MaxPkts
  /\ curr_time <= LastArrival

\* The packet is dropped before it reaches an instance: no memory for its tag
\* or for the instance.
IoNoMemory(th) ==
  /\ MayArrive(th)
  /\ AllocMayFail
  /\ nextid' = nextid + 1
  /\ gone' = Append(gone, "freed")
  /\ UNCHANGED <<curr_time, link, profile, si, queue, dline, evheap, lock, pc, srv,
                 tx, ideal, nconf, panicked>>

\* dn_enqueue() drops the packet (random loss, RED or a full queue).  It counts
\* the drop, and dummynet_io() counts it again.
IoDrop(th, i) ==
  /\ MayArrive(th)
  /\ RandomDrop \/ Len(queue[i]) >= QSize
  /\ si' = [si EXCEPT ![i] = SiFind(i)]
  /\ nextid' = nextid + 1
  /\ gone' = Append(gone, "freed")
  /\ UNCHANGED <<curr_time, link, profile, queue, dline, evheap, lock, pc, srv, tx,
                 ideal, nconf, panicked>>

\* Ghost: a link with nothing but its bandwidth sends a packet of this length
\* after what came before it.  The unit is that of credit: time * bandwidth.
RealFinish(i, len) ==
  len + IF ideal[i] > curr_time * link.bandwidth THEN ideal[i]
                                                 ELSE curr_time * link.bandwidth

\* dummynet_io(): the packet is queued.  An active instance is served later by
\* the event heap; otherwise serve_sched() runs now, in this critical section.
IoEnqueue(th, i, len) ==
  LET s == SiFind(i) IN
  /\ MayArrive(th)
  /\ Len(queue[i]) < QSize
  /\ queue' = [queue EXCEPT ![i] = MqAppend(@, [id |-> nextid, len |-> len,
                                                  fin |-> RealFinish(i, len)])]
  /\ ideal' = [ideal EXCEPT ![i] = RealFinish(i, len)]
  /\ nextid' = nextid + 1
  /\ gone' = Append(gone, "inside")
  /\ IF s.active
     THEN /\ si' = [si EXCEPT ![i] = s]
          /\ UNCHANGED <<lock, pc, srv>>
     ELSE /\ si' = [si EXCEPT ![i] = ServeEnter(InitialAllowance(s))]
          /\ lock' = th
          /\ pc' = "serve"
          /\ srv' = [inst |-> i, dlidle |-> dline[i] = <<>>, done |-> FALSE,
                     m0 |-> nextid]
  /\ UNCHANGED <<curr_time, link, profile, dline, evheap, tx, nconf,
                 panicked>>

-----------------------------------------------------------------------------
\* extra_bits(): called only for a link that has a bandwidth.
SampleChoices == IF profile /\ link.bandwidth > 0
                 THEN Samples ELSE {[bits |-> 0, loss |-> FALSE]}

\* serve_sched(), one round of its loop: the scheduler's dequeue() returns a
\* packet, which pays for itself and joins the delay line.
ServeDequeue ==
  LET i == srv.inst IN
  /\ pc = "serve"
  /\ si[i].credit >= 0
  /\ queue[i] # <<>>
  /\ \E x \in SampleChoices :
       LET m == Head(queue[i])
           cost == IF link.bandwidth = 0 THEN 0 ELSE m.len + x.bits
       IN /\ si' = [si EXCEPT ![i].credit = @ - cost]
          /\ dline' = [dline EXCEPT ![i] =
                         MqAppend(@, [id |-> m.id, out |-> curr_time + link.delay,
                                    drop |-> x.loss, fin |-> m.fin])]
  /\ queue' = [queue EXCEPT ![i] = Tail(@)]
  /\ srv' = [srv EXCEPT !.done = TRUE]
  /\ UNCHANGED <<curr_time, link, profile, evheap, lock, pc, tx, nextid, gone,
                 ideal, nconf, panicked>>

\* Ticks until a negative credit is paid back.
TicksToPay(credit) == (link.bandwidth - 1 - credit) \div link.bandwidth

\* serve_sched() after its loop: the instance becomes idle, or goes back to
\* the heap and the last packet waits until it would be fully transmitted.
Served(s) ==
  IF s.credit >= 0 THEN [s EXCEPT !.idle_time = curr_time]
                   ELSE [s EXCEPT !.active = TRUE]

ServedHeap_mutantNoInsert(i) == {evheap}

ServedHeap(i) ==
  IF si[i].credit >= 0 THEN {evheap}
  ELSE HeapInsert(evheap, Event(curr_time + TicksToPay(si[i].credit), "si", i))

ServedDline(i) ==
  IF si[i].credit < 0 /\ srv.done
  THEN [dline[i] EXCEPT ![Len(dline[i])].out = @ + TicksToPay(si[i].credit)]
  ELSE dline[i]

\* What the caller of serve_sched() does with the packets it returned.
\* dummynet_task() adds them to its chain.  In dummynet_io(), if the first one
\* is the packet that just arrived, and it is not a layer 2 packet, it goes
\* back to the caller (fast path: its dn_dir is not looked at, and a chain is
\* cut after it); otherwise the whole chain goes to dummynet_send().
ServeResults(released) ==
  {released} \cup
  IF lock # Task /\ released # <<>> /\ Head(released).id = srv.m0
  THEN {<<[Head(released) EXCEPT !.drop = FALSE]>>} ELSE {}

\* The end of serve_sched(), and what its caller does with the result:
\* dummynet_task() goes on with the heap, dummynet_io() unlocks.
ServeEnd ==
  LET i == srv.inst
      d == ServedDline(i)
      flush == srv.dlidle /\ srv.done       \* transmit_event() is called
  IN
  /\ pc = "serve"
  /\ si[i].credit < 0 \/ queue[i] = <<>>
  /\ \E n \in 0..Len(d) :
       LET released == SubSeq(d, 1, n) IN
       /\ IF flush THEN IsDuePrefix(d, n) ELSE n = 0
       /\ \E h \in ServedHeap(i) :
            evheap' \in IF flush THEN DlineReinsert(h, i, d, n) ELSE {h}
       /\ si' = [si EXCEPT ![i] =
                   [Served(si[i]) EXCEPT !.dlheap = IF flush THEN n < Len(d) ELSE @]]
       /\ dline' = [dline EXCEPT ![i] = Rest(d, n)]
       /\ \E r \in ServeResults(released) : tx' = [tx EXCEPT ![lock] = @ \o r]
  /\ IF lock = Task THEN /\ pc' = "events"
                         /\ UNCHANGED lock
                    ELSE /\ pc' = "none"
                         /\ lock' = Free
  /\ srv' = NoServe
  /\ UNCHANGED <<curr_time, link, profile, queue, nextid, gone, ideal, nconf,
                 panicked>>

-----------------------------------------------------------------------------
\* dummynet_task(): take the lock and advance the clock.  How far it moves is
\* computed from the real time that has passed; it may also stand still.
TaskTick(step) ==
  /\ lock = Free
  /\ ~panicked
  /\ tx[Task] = <<>>
  /\ curr_time + step <= MaxTime
  /\ curr_time' = curr_time + step
  /\ lock' = Task
  /\ pc' = "events"
  /\ UNCHANGED <<link, profile, si, queue, dline, evheap, srv, tx, nextid, gone,
                 ideal, nconf, panicked>>

\* e is at the top of the heap and its time has come.
IsDue(e) == /\ e \in evheap
            /\ e.key <= curr_time
            /\ \A f \in evheap : e.key <= f.key

\* dummynet_task(): the event is a scheduler instance.
TaskServeSched(e) ==
  /\ pc = "events"
  /\ IsDue(e)
  /\ e.kind = "si"
  /\ evheap' = evheap \ {e}
  /\ si' = [si EXCEPT ![e.inst] = ServeEnter(@)]
  /\ srv' = [inst |-> e.inst, dlidle |-> dline[e.inst] = <<>>, done |-> FALSE,
             m0 |-> 0]
  /\ pc' = "serve"
  /\ UNCHANGED <<curr_time, link, profile, queue, dline, lock, tx, nextid, gone,
                 ideal, nconf, panicked>>

\* dummynet_task(): the event is a delay line, handled by transmit_event().
TaskTransmit(e) ==
  LET i == e.inst
      d == dline[i]
  IN
  /\ pc = "events"
  /\ IsDue(e)
  /\ e.kind = "dl"
  /\ \E n \in 0..Len(d) :
       /\ IsDuePrefix(d, n)
       /\ evheap' \in DlineReinsert(evheap \ {e}, i, d, n)
       /\ si' = [si EXCEPT ![i].dlheap = n < Len(d)]
       /\ dline' = [dline EXCEPT ![i] = Rest(d, n)]
       /\ tx' = [tx EXCEPT ![Task] = @ \o SubSeq(d, 1, n)]
  /\ UNCHANGED <<curr_time, link, profile, queue, lock, pc, srv, nextid, gone,
                 ideal, nconf, panicked>>

\* drain_scheduler_cb(): the instance may be removed.  The subtraction is
\* unsigned, so before object_idle_tick every instance counts as expired.
Drainable(i) ==
  /\ si[i].alive
  /\ ~si[i].active
  /\ dline[i] = <<>>
  /\ queue[i] = <<>>
  /\ curr_time < IdleTick \/ si[i].idle_time < curr_time - IdleTick

\* dummynet_task(): no event is left.  do_drain() visits one bucket at a time
\* and only when there are many idle objects: any set of expired instances may
\* go.  Then the lock is released.
TaskDone ==
  /\ pc = "events"
  /\ \A e \in evheap : e.key > curr_time
  /\ \E D \in SUBSET {i \in Insts : Expire /\ Drainable(i)} :
       si' = [i \in Insts |-> IF i \in D THEN NoInst ELSE si[i]]
  /\ pc' = "none"
  /\ lock' = Free
  /\ UNCHANGED <<curr_time, link, profile, queue, dline, evheap, srv, tx, nextid,
                 gone, ideal, nconf, panicked>>

\* dummynet_send(), one packet, or the caller of dummynet_io() on the fast
\* path.  It runs without the lock, together with everybody else.
Send(s) ==
  /\ lock # s
  /\ ~panicked
  /\ tx[s] # <<>>
  /\ gone' = [gone EXCEPT ![Head(tx[s]).id] =
                IF Head(tx[s]).drop THEN "freed" ELSE "delivered"]
  /\ tx' = [tx EXCEPT ![s] = Tail(@)]
  /\ UNCHANGED <<curr_time, link, profile, si, queue, dline, evheap, lock, pc,
                 srv, nextid, ideal, nconf, panicked>>

-----------------------------------------------------------------------------
\* A command may come.
MayConfigure ==
  /\ lock = Free
  /\ ~panicked
  /\ nconf < MaxConf
  /\ curr_time <= LastArrival
  /\ nconf' = nconf + 1

\* config_link(): new parameters, no profile, and schk_reset_credit() on all
\* the instances, busy or not.
ConfigLink(l) ==
  /\ MayConfigure
  /\ link' = l
  /\ profile' = FALSE
  /\ si' = [i \in Insts |-> IF si[i].alive THEN ResetCredit(si[i], l) ELSE si[i]]
  /\ UNCHANGED <<curr_time, queue, dline, evheap, lock, pc, srv, tx, nextid, gone,
                 ideal, panicked>>

\* config_profile()
ConfigProfile ==
  /\ MayConfigure
  /\ Samples # {}
  /\ profile' = ~profile
  /\ UNCHANGED <<curr_time, link, si, queue, dline, evheap, lock, pc, srv, tx,
                 nextid, gone, ideal, panicked>>

\* The ids of the packets an instance holds.
Held(i) == {queue[i][k].id : k \in DOMAIN queue[i]}
           \cup {dline[i][k].id : k \in DOMAIN dline[i]}

\* si_destroy(): heap_extract() panics on an object that is not in the heap,
\* unless the heap, which all pipes share, is empty.
DestroyMayPanic(i) ==
  \/ si[i].active /\ \A e \in EventsOf(evheap, i) : e.kind # "si"
  \/ si[i].dlheap /\ \A e \in EventsOf(evheap, i) : e.kind # "dl"

\* si_destroy(): what heap_extract() takes out of the heap.
DestroyExtracts_mutantLine(i) ==
  {e \in EventsOf(evheap, i) : e.kind = "si" /\ si[i].active}

DestroyExtracts(i) ==
  {e \in EventsOf(evheap, i) : IF e.kind = "si" THEN si[i].active ELSE si[i].dlheap}

\* config_sched() with a new type or mask: schk_delete_cb() destroys all the
\* instances, with their packets; the link is kept, the profile is not.
\* Deleting the pipe and creating it again does the same.
ConfigSched ==
  /\ MayConfigure
  /\ panicked' \in {FALSE, \E i \in Insts : DestroyMayPanic(i)}
  /\ evheap' = evheap \ UNION {DestroyExtracts(i) : i \in Insts}
  /\ gone' = [p \in DOMAIN gone |->
                IF \E i \in Insts : p \in Held(i) THEN "freed" ELSE gone[p]]
  /\ si' = [i \in Insts |-> NoInst]
  /\ queue' = [i \in Insts |-> <<>>]
  /\ dline' = [i \in Insts |-> <<>>]
  /\ profile' = FALSE
  /\ UNCHANGED <<curr_time, link, lock, pc, srv, tx, nextid, ideal>>

-----------------------------------------------------------------------------
Io == \E th \in Threads :
        \/ IoNoMemory(th)
        \/ \E i \in Insts : IoDrop(th, i)
        \/ \E i \in Insts, len \in Lens : IoEnqueue(th, i, len)

Serve == ServeDequeue \/ ServeEnd

TaskEvent == \E e \in evheap : TaskServeSched(e) \/ TaskTransmit(e)

Config == ConfigSched \/ ConfigProfile \/ \E l \in Links : ConfigLink(l)

\* A panic, in ConfigSched, stops the machine: nothing else happens after it.
Next ==
  \/ Io
  \/ Serve
  \/ \E step \in TickSteps : TaskTick(step)
  \/ TaskEvent
  \/ TaskDone
  \/ \E s \in Senders : Send(s)
  \/ Config

Spec == Init /\ [][Next]_vars

\* The lock is always released, the timer keeps firing and the clock it reads
\* goes forward, and packets handed to dummynet_send() are sent.  Nothing is
\* assumed of arrivals and commands.
Fairness ==
  /\ WF_vars(Serve)
  /\ WF_vars(TaskEvent \/ TaskDone)
  /\ \A s \in Senders : WF_vars(Send(s))
  /\ SF_vars(\E step \in TickSteps \ {0} : TaskTick(step))

\* The same system from a later state: the pipe was configured at time 0, a
\* packet of each flow came and was dropped, and the first tick has passed.
WarmInit ==
  /\ EmptyPipe
  /\ curr_time = 1
  /\ si = [i \in Insts |->
             [NoInst EXCEPT !.alive = TRUE,
                            !.credit = link.burst + IF IoFast THEN link.bandwidth ELSE 0]]

WarmFairSpec == WarmInit /\ [][Next]_vars /\ Fairness

-----------------------------------------------------------------------------
Packet == [id : Nat, len : Nat, fin : Nat]
Leaving == [id : Nat, out : Nat, drop : BOOLEAN, fin : Nat]

\* Every variable stays in its type.
TypeOK ==
  /\ curr_time \in Nat
  /\ link \in Links
  /\ profile \in BOOLEAN
  /\ si \in [Insts -> [alive : BOOLEAN, active : BOOLEAN, dlheap : BOOLEAN,
                       credit : Int, sched_time : Nat, idle_time : Nat]]
  /\ queue \in [Insts -> Seq(Packet)]
  /\ dline \in [Insts -> Seq(Leaving)]
  /\ evheap \subseteq [key : Nat, kind : Kinds, inst : Insts]
  /\ lock \in Senders \cup {Free}
  /\ pc \in {"none", "events", "serve"}
  /\ srv \in [inst : Insts \cup {Free}, dlidle : BOOLEAN, done : BOOLEAN, m0 : Nat]
  /\ tx \in [Senders -> Seq(Leaving)]
  /\ nextid \in Nat \ {0}
  /\ gone \in Seq({"inside", "delivered", "freed"})
  /\ ideal \in [Insts -> Nat]
  /\ nconf \in Nat
  /\ panicked \in BOOLEAN

\* serve_sched() is at work on instance i.
Serving(i) == pc = "serve" /\ srv.inst = i

\* The event heap never refers to memory that was freed: an entry belongs to a
\* live instance that is marked as being in the heap (DN_ACTIVE, or subtype of
\* the delay line), so that si_destroy() and the drain will find and extract it.
NoDanglingEvent ==
  \A e \in evheap :
    /\ si[e.inst].alive
    /\ e.kind = "si" => si[e.inst].active
    /\ e.kind = "dl" => si[e.inst].dlheap /\ dline[e.inst] # <<>>

\* No object is in the heap twice.
UniqueEvents == \A e, f \in evheap : e.kind = f.kind /\ e.inst = f.inst => e = f

\* DN_ACTIVE "object is in evheap" and the subtype of a delay line "in heap"
\* (ip_dn_private.h, transmit_event()): a marked object is in the heap, once.
MarkedIsInHeap ==
  /\ UniqueEvents
  /\ \A i \in Insts :
       /\ si[i].active => \E e \in evheap : e.kind = "si" /\ e.inst = i
       /\ si[i].dlheap => \E e \in evheap : e.kind = "dl" /\ e.inst = i

\* What holds while a critical section is under way, and between them: the
\* part of the inductive invariant that the properties above rest on.
Section ==
  /\ lock = Free <=> pc = "none"
  /\ pc = "events" => lock = Task
  /\ pc = "serve" =>
       /\ srv.inst \in Insts
       /\ si[srv.inst].alive /\ ~si[srv.inst].active
       /\ link.bandwidth = 0 => si[srv.inst].credit >= 0
       /\ srv.done \/ ~srv.dlidle => dline[srv.inst] # <<>>
       /\ srv.dlidle => ~si[srv.inst].dlheap
       /\ srv.dlidle /\ ~srv.done => dline[srv.inst] = <<>>

\* The flags of each instance against its delay line.
Flags ==
  \A i \in Insts :
    /\ si[i].active => si[i].alive
    /\ si[i].dlheap => si[i].alive /\ dline[i] # <<>>
    /\ dline[i] # <<>> => si[i].dlheap \/ (Serving(i) /\ srv.dlidle)

\* The inductive invariant.
HeapInv == TypeOK /\ Section /\ Flags /\ NoDanglingEvent /\ UniqueEvents

\* No packet is forgotten.  Whenever the lock is free a queued packet has an
\* instance that serve_sched() will look at in the future, and a delay line with
\* packets will be looked at when the first of them is due, not before and not
\* after; no event is overdue.  As long as the link is not reconfigured no packet of
\* the line is overdue either, not only the first: serve_sched() fills the line in
\* the order of the output times, though it postpones the last one.
WaitingIsScheduled ==
  lock = Free =>
    /\ \A e \in evheap : e.key > curr_time
    /\ \A i \in Insts :
         /\ queue[i] # <<>> =>
              \E e \in evheap : e.kind = "si" /\ e.inst = i
         /\ dline[i] # <<>> =>
              \E e \in evheap : e.kind = "dl" /\ e.inst = i /\ e.key = dline[i][1].out
         /\ nconf = 0 => \A k \in DOMAIN dline[i] : dline[i][k].out > curr_time

\* The packets of a flow never pass each other in the pipe, reconfigured or
\* not: the delay line and then the queue hold them in the order of arrival.
InOrder ==
  \A i \in Insts :
    LET ids == [k \in DOMAIN dline[i] |-> dline[i][k].id]
               \o [k \in DOMAIN queue[i] |-> queue[i][k].id]
    IN \A j, k \in DOMAIN ids : j < k => ids[j] < ids[k]

\* The places where packet p is.
Places(p) ==
  (UNION {{<<"queue", i, k>> : k \in {k \in DOMAIN queue[i] : queue[i][k].id = p}}
          \cup {<<"dline", i, k>> : k \in {k \in DOMAIN dline[i] : dline[i][k].id = p}}
          : i \in Insts})
  \cup (UNION {{<<"tx", s, k>> : k \in {k \in DOMAIN tx[s] : tx[s][k].id = p}}
               : s \in Senders})

\* No packet is lost, duplicated or freed twice: a packet that has neither been
\* sent nor freed is in exactly one queue, delay line or chain, any other in
\* none.  (dummynet_io() cuts the chain that follows a fast path packet.)
Conservation ==
  \A p \in 1..(nextid - 1) :
    Cardinality(Places(p)) = IF gone[p] = "inside" THEN 1 ELSE 0

\* The longest time, in ticks, between two runs of dummynet_task().
MaxStep == CHOOSE t \in TickSteps : \A u \in TickSteps : u <= t

\* With io_fast=0 a packet does not leave faster than on the real link
\* (ipfw.8, the io_fast sysctl), but for the burst and for less than what the
\* link sends between two runs of dummynet_task(): the credit that is left
\* when the instance becomes idle is not lost in that time.
NotFasterThanLink ==
  nconf = 0 /\ lock = Free /\ link.bandwidth > 0 =>
    LET onTime(p) == (p.out - link.delay) * link.bandwidth
                       + link.burst + MaxStep * link.bandwidth > p.fin
    IN /\ \A i \in Insts : \A k \in DOMAIN dline[i] : onTime(dline[i][k])
       /\ \A s \in Senders : \A k \in DOMAIN tx[s] : onTime(tx[s][k])

\* A packet that was accepted leaves the pipe or is freed: the pipe cannot
\* stall, whatever the order of arrivals, ticks and commands.
EveryPacketLeaves ==
  \A p \in 1..MaxPkts :
    (p < nextid /\ p \in DOMAIN gone /\ gone[p] = "inside")
      ~> (p \in DOMAIN gone /\ gone[p] # "inside")

=============================================================================
