# A TLA+ verification of dummynet and ipfw

dummynet is the traffic shaper of ipfw. A packet that matches a `pipe` or `queue` rule is put in a
queue; a scheduler chooses which queue is served next, a token bucket decides when, a delay line
holds the packet for the propagation delay of the emulated link, and a periodic task moves
everything forward. The packet then goes back to the rule that it left. The rules themselves are
compiled by the program `ipfw`, checked, sorted and interpreted by the kernel, and may remember
sessions (dynamic rules) and look addresses up in tables.

This directory holds TLA+ models of that machinery, translated from the C code under
`sys/netinet/ipfw/`, `sys/net/radix.c` and `ipfw/`, the TLC runs that check them on small instances,
and proofs, checked by TLAPS, that hold for every instance.

Source names are kept (`serve_sched()` is `ServeEnter`, `ServeDequeue`, `ServeEnd`; `evheap` is
`evheap`; `rn_addroute()` is `rn_addroute`). `PROJECT.json` maps every definition to its lines,
lists the hazards the properties are for, and the mutants that show that each property can fail.
File names below are relative to `sys/netinet/ipfw/` unless they start with another directory.

## 1. Inventory

| Component | State | Operations | What makes it correct | Model |
|---|---|---|---|---|
| Packet path (`ip_dn_io.c`) | per instance: credit, sched/idle time, DN_ACTIVE, queue, delay line; event heap; clock; the lock | `dummynet_io`, `serve_sched`, `transmit_event`, `dummynet_task`, `dummynet_send` | nothing lost, duplicated or reordered; heap refers to live objects; nothing waits without an event; rate of the link respected; every packet leaves | DnPipe |
| Event heap (`dn_heap.c`, first half) | array, element count, position stored in each object | init, free, insert, extract from top and middle, scan, heapify | a priority queue: smallest key first, random extraction removes the right object | DnHeap, DnPriorityQueue |
| FIFO (`dn_sched_fifo.c`) | one queue inside the instance | enqueue, dequeue, new/free | order | in DnPipe |
| PRIO (`dn_sched_prio.c`) | bitmap, array of queue pointers | enqueue, dequeue, new/free queue | strict priority, no stale pointer, no forgotten packet | DnSchedPrio |
| RR (`dn_sched_rr.c`) | ring of backlogged queues, credits | enqueue, dequeue, new/free queue | ring intact, weighted fairness, dequeue returns | DnSchedRR, DnScheduler |
| WF2Q+ (`dn_sched_wf2q.c`), the default | three heaps, virtual time, start and finish times, sum of weights | enqueue, dequeue, new/free queue | each flow in the right heap, sum of weights, fairness, contract | DnSchedWF2Q, DnScheduler |
| QFQ (`dn_sched_qfq.c`) | groups with bucket lists, four bitmaps, virtual time | enqueue, dequeue, new/free queue | each group in the right set, each class in the right bucket, times near V, fairness, contract | DnSchedQFQ, DnScheduler |
| Configuration (`ip_dummynet.c`) | schedulers and links, flowsets, their lists and hash tables, pointers between them | `sched/pipe/queue ... config`, profile, delete, flush | pointers, lists and counters agree; flowsets linked; twins consistent; commands end | DnConfig |
| State export (`dummynet_get`), old formats (`ip_dn_glue.c`) | counters of objects, buffer | measure, allocate, copy | what is copied fits in what was measured | DnConfig |
| Drain of idle objects | ages, counters | `do_drain` and its callbacks | removes only what is idle and old | DnPipe, DnConfig, the schedulers |
| Clock, RED, profile | `curr_time`; average; samples | `dummynet_task`; `red_drops`; `config_profile` | monotonic; -; survives reconfiguration | steps and drops chosen freely |
| Rule chain (`ip_fw2.c`, `ip_fw_sockopt.c`, `ip_fw_pfil.c`) | map of rules, its version, sets, cached skipto targets, packets that are away | `ipfw_chk` (the walk), `ipfw_add_rule`, `del_entry`, return from dummynet | map sorted, a packet resumes where it left, scans end, sessions have rules | FwChain |
| Rule interpretation (`ip_fw2.c`, `check_ipfw_struct`) | a rule, a packet's headers | parse, match, combine with `not`/`or`, act | reads only headers that are there | FwRule |
| Rule compiler and printer (`ipfw/ipfw2.c`, `ipfw/ipv6.c`) | the instruction being built; what has been printed | `ipfw_add`, `show_ipfw` | a rule means its text; a listing means its rule; the kernel accepts it | FwCompile, FwShow, FwLang |
| Dynamic rules (`ip_fw_dynamic.c`) | hash table of sessions and parents, counters, lifetimes, timer | lookup, install, limit, remove, `ipfw_tick` | one session per flow, limits hold, keepalives in time, lists and counters agree | FwDynTable, FwDyn |
| Tables (`ip_fw_table.c`, `sys/net/radix.c`) | radix tree, chains of equal keys, lists of masks | add, delete, lookup, dump, flush | longest prefix is found; the tree survives every sequence | FwRadix, FwTable |
| Hash table, module load | buckets; list of schedulers | find, insert, scan; `load_dn_sched` | | a set of numbers in DnConfig; `Init` |
| NAT, log, kernel glue, test bench, packaging | | | | not modelled |

**How they interact.** `ipfw_check_hook()` gives each packet to `ipfw_chk()`, which goes through the
rules. A `pipe` or `queue` rule calls `dummynet_io()`. It finds the flowset by number, the queue by
the flowset's mask and the scheduler instance by the scheduler's mask, calls the scheduler's
`enqueue()` through `struct dn_alg`, and, if the instance is not in the event heap, `serve_sched()`
at once. That calls `dequeue()` as long as there is credit, appends to the delay line, and puts the
instance and the delay line in the event heap. `dummynet_task()`, run by a timer at `hz`, takes due
events from the heap and calls `serve_sched()` or `transmit_event()`. The packet, tagged with the
rule it left, comes back through `ipfw_check_hook()`. Commands (`do_config()`, `ipfw_ctl()`) create,
change and destroy the objects the others are working with. One lock protects dummynet; only
`dummynet_send()` and the allocation in `dummynet_get()` run without it. ipfw has a lock for the
chain, which packets take for reading, one that serialises requests, and one for dynamic rules.

**What is hard here.** The flags that say that an object is in the heap are set and cleared in
different functions than the ones that free the object. Results of `heap_insert()` are ignored. A
command may come between any two critical sections, while packets are in flight and events are
pending. Objects are freed by four different routes (delete, reconfiguration, flush, drain). Time
may stand still or jump; subtractions of times are unsigned, keys wrap. Schedulers keep pointers to
queues that the framework frees. A packet returns to a chain that changed while it was away; a
skipto target is cached without a write lock; a rule is deleted while its sessions match packets.
Flags of the rule compiler wait for the next instruction, which may not come. A prefix that is added
or removed moves mask lists between nodes of a tree. `PROJECT.json` lists these with their lines.

## 2. Modules

`DnPipe` composes the packet path with the token bucket, the delay line, the FIFO scheduler, the
drain and the commands that disturb it. `DnHeap` is the heap that `DnPipe` takes as a set with a
smallest element; that this is legitimate is what `DnPriorityQueue` and theorem `Refinement` say.
`DnSchedPrio`, `DnSchedRR`, `DnSchedWF2Q` and `DnSchedQFQ` are alternatives to the FIFO queue of
`DnPipe`, the last three shown to implement the contract `DnScheduler` of `struct dn_alg`.
`DnConfig` is the configuration, at the level of objects and pointers. `FwChain` composes packets,
control requests and the sessions' pointers to rules; `FwRule` is what one rule does, `FwCompile`
and `FwShow` how it is made of words and turned into words, `FwLang` composes the three.
`FwDynTable` has the functions on the table of dynamic rules, `FwDyn` lets packets, rules, time and
the timer use them. `FwRadix` implements `FwTable`. `MC*` instantiate them for TLC; `*_proofs` hold
the theorems about the module they are named for, `DnPriority_proofs` those of `DnHeap` and of
`DnSchedPrio`, the two by which a smallest or highest element is found, and `ProofLemmas` the facts
about numbers and copies of sequences that several of them use.

### DnPipe (`ip_dn_io.c`, `dn_sched_fifo.c`, parts of `ip_dummynet.c`)

*State.* `si[i]` has the fields of `struct dn_sch_inst` that decide anything: `active` is DN_ACTIVE,
`dlheap` the subtype that marks a delay line in the heap. `queue[i]` and `dline[i]` are its packets.
`evheap` is a set of `[key, kind, inst]`. `lock` and `pc` say who is in which critical section,
`srv` are the locals of `serve_sched()`, `tx[s]` the chain a context will send after unlocking.
`gone` and `ideal` are ghosts: the fate of each packet, and when a real link would have sent it.

*Actions.* `IoEnqueue`, `IoDrop`, `IoNoMemory` are the ways through `dummynet_io()`; `ServeDequeue`
one round of the loop of `serve_sched()`, `ServeEnd` all that follows it; `TaskTick`,
`TaskServeSched`, `TaskTransmit`, `TaskDone` are `dummynet_task()`; `Send` is one packet of
`dummynet_send()`; `ConfigLink`, `ConfigProfile` and `ConfigSched` are the commands that change an
existing pipe. Steps of one critical section are not interleaved with another; `Send` is interleaved
with everything.

*Abstractions.* Bandwidth and length are in units of the credit one tick adds; a packet is its
identity and length. The instance a packet belongs to is an input. RED and `plr` are a free choice
to drop (`RandomDrop`). `do_drain()` may remove any set of instances that its callback would remove.
The step of the clock is any member of `TickSteps`, 0 included.

### DnHeap and DnPriorityQueue (`dn_heap.c`, `dn_heap.h`)

One step for each iteration of a loop; a call starts when `pc = "idle"`. `heap_extract()` leaves a
hole that moves down (`"down"`), then fills it with the last entry, which bubbles up (`"up"`, the
code of `heap_insert()` reused). `heapify()` is a sequence of such loops. Keys are integers modulo
`KeyMod`, compared as in `DN_KEY_LT`. The assumption on keys is that those in use lie within half of
the range, which makes the comparison an order.

### DnSchedPrio, DnSchedRR, DnScheduler

One instance of each scheduler with the queues attached to it; queues appear and disappear in any
order, packets arrive and are dropped as `dn_enqueue()` does. PRIO has no loop, so each function is
one step; `IntBits` is the width of the argument of `ffs()`. `rr_dequeue()` takes a step for each
iteration. `DnScheduler` is what the comments in `dn_sched.h` ask: per-queue FIFO order and NULL
only if no packet is available.

### DnSchedWF2Q (`dn_sched_wf2q.c`)

The default scheduler. Each heap is a set of entries `[key, object]`, of which a smallest is taken,
as `DnHeap` shows of the array; ties are broken either way. `V`, `S`, `F` and `wsum` are the fields
of the C structures, in fixed point with a unit of `ONE_FP` and modulo `KeyMod`, with the truncating
divisions that give `inv_w` and `inv_wsum`. `wf2qp_dequeue()` is one step: `Expired` is
`idle_check()`, `Advanced` and `Eligible` are the part of its loop that runs before and after
`Served`. The entries that become eligible together are moved together, since the set that results
does not depend on the order. The `S >= F + 1` of `wf2qp_free_queue()` is a comparison of integers
here as there (`NotInAnyHeap`), and not the modular one.

Two ghosts serve `FairShare`. `lead[a][b]` is how much more than its share a queue has sent, compared
with another, since both are backlogged. `cut` says that a queue was deleted from a heap since the
scheduler was last without backlog. A queue that has been served ahead of V owes the others that
time; if it is deleted, its weight leaves `wsum` with the debt unpaid, and V runs away from the start
times of the queues that stay. Repeated, this takes V ahead by more than any fixed number of packets,
queues that come back start there, and the shares are no longer bounded by three packets.
`FairShare` speaks of the stretches without such a deletion.

The comment "invariant: sch > 0 || V >= min(S in neh)" (`dn_sched_wf2q.c:183`) is not an invariant
of the model: `DeleteQueue` may take the only eligible queue, as the TODO at line 333 admits.
`WF2QOK` and `SchedSpec` hold all the same, because the next dequeue moves V and the next enqueue
does not need an eligible queue; the message "ouch! not eligible but empty scheduler" of line 175 is
what remains of it.

### DnSchedQFQ (`dn_sched_qfq.c`)

A bitmap is a set of groups (`bm["ER"]`, `"EB"`, `"IR"`, `"IB"`), a group has its first slot
`front`, the set `full_slots` of those in use, counted from there, and a sequence of classes in
each. `enqueue` and `dequeue` are one step each and composed of the functions of the code, which
keep their names. Times are integers modulo `KeyMod` and `qfq_gt` is the signed difference, but the
run ends, at `MaxV`, long before they wrap: nothing in the code ever resets `V`, and once it has
gone half of the range ahead of the old finish time of an idle class, `qfq_update_start()` takes
that for a future one (section 5). Packets obey the length that the flowset declares, which
`qfq_enqueue()` does not check, and a queue is freed when it is empty, which `qfq_free_queue()` asks
of its caller.

### DnConfig (`ip_dummynet.c`, `ip_dn_glue.c`)

Pipe *i* is scheduler *i* and scheduler *i* + `N`, a FIFO that gets the traffic of "pipe" rules (`N`
is DN_MAX_ID); flowsets have numbers up to 3`N`. The functions of the code (`fsk_detach`,
`fsk_attach`, `update_fs`, `schk_delete_cb`, ...) are operators on a record of the tables, so that
an action can apply several of them in the order of the code. `config_sched()` goes over its body up
to four times (delete and create again, for the scheduler and its twin): each pass is a step and
`cmd` are its locals. A flowset has at most one queue, and a scheduler at most one instance: enough
for the counters and pointers, since masks only multiply them. Two reads through a NULL or freed
pointer are modelled as `panicked`.

*State export.* `Reply(req)` is the set of objects of each kind that a request copies
(`copy_data_helper()`, `copy_flowset()`, and the `dn_compat_` functions for an old ipfw),
`compute_space(req)` how many it made room for, by halving and adding the counters of `dn_cfg`. Both
run under one hold of the lock, so they are operators, and a property relates them. `FsCommands`
includes the numbers that the pipes and queues of an old ipfw turn into (`CompatFsCommands`).

### FwChain (`ip_fw2.c`, `ip_fw_sockopt.c`, `ip_fw_pfil.c`)

`map` is the array of pointers to rules, `id` its version, `rule` the memory of the rules. Packets
scan under the read lock, one thread each; a request (`ctl`) sizes the new map without a lock
(`AddRule`), takes the lock of requests (`GetMap`) and the write lock (`Insert`, `DelSwap`), and
frees rules at the end (`Reap`). A step is what a thread does between two accesses to what others
write, so the two stores that cache a skipto target are two steps, and moves of rules between sets
go rule by rule. `away` are packets in dummynet or a divert socket, with the version of the chain,
position and identity of the rule they left. A rule's patterns are the set of flows they match; a
flow's session is the rule that it points to, and it may expire at any time. `left`, in a packet, is
a ghost: the rule it left.

### FwRule, FwCompile, FwShow, FwLang (`ip_fw2.c`, `ip_fw_sockopt.c`, `ipfw/ipfw2.c`, `ipfw/ipv6.c`)

An instruction is its opcode, argument, length, the key of a generic lookup and the flags F_NOT and
F_OR. `Parse` is the parser of headers (fragments, IPv6 extension headers, packets that are too
short), `Guard` what the interpreter requires before an instruction compares, `Combine` its treatment
of the flags, `Accepted` is `check_ipfw_struct()`. Comparing a field with an argument is data: a
packet carries the opcodes, and the keys of lookups, for which the comparison succeeds. `Compile` is
`ipfw_add()` with its flags that wait
for the next instruction, the groups it opens and closes, the reordering of `O_PROBE_STATE`,
keep-state and limit at the end, and `show_ipfw` is the printer with its flags `HAVE_*`. `Meaning`
in `FwLang` is the reference: what a text says of a packet by ipfw.8, defined on the structure of
the text and not on instructions, and without the limits of the code: by it a fragment is one that
is not the first, a uid is of either family.

Four sets name what the properties except, and section 5 lists them: `Careless` (texts that ipfw
compiles to something else), `Departs` (packets to which the kernel does something else than the text
says), `Refusable` (texts of which the kernel refuses what ipfw makes) and `Unlistable` (texts whose
listing is another rule). Every clause of `Departs` and the clauses of `Unlistable` for icmp6types,
ext6hdr and flow-id are needed: without any one of them the run finds a text and a packet.

### FwDynTable and FwDyn (`ip_fw_dynamic.c`)

A table is a record of its lists, entries and counters; each function of the code is an operator on
it, so that a caller may run several under one hold of the lock, as `ipfw_install_state()` does. The
walk of `lookup_dyn_rule_locked()` is given by its result: where the first match is (`Find`), and
which entries before it are freed (`Freed`).
`FwDyn` adds rules, packets, the timer and the clock. Lifetimes are what is left of them in seconds
(`ttl`). `Garbage` is what an uninitialised IPv6 address of a masked id may hold. `rounds` and
`probed` are ghosts: how often a session was asked, and whether it was.

### FwRadix and FwTable (`sys/net/radix.c`, `ip_fw_table.c`)

A node is a leaf or an internal node of an entry; the operators follow `radix.c` pointer by pointer:
`rn_insert()` splits at the first differing bit, `rn_addroute()` chains equal keys by mask, promotes
masks from below and annotates the highest node, `rn_delete()` undoes all three and moves an
internal node that is still in use, `rn_walktree()` takes its next leaf before it calls a function
that may delete the present one. `FwTable` is the table that ipfw.8 describes: a set of prefixes
with the longest match. The length byte in front of a key is kept as
`KEY_OFS`.

## 3. Runs

| Run | What it shows | States |
|---|---|---|
| pipe_safety | flags, heap, queues and delay lines agree and no event dangles, even if any allocation fails; nothing is reordered, lost or duplicated | 2.8 M |
| pipe_live | with memory, what is marked is in the heap, what waits has an event that is not late, packets are not faster than the link, every accepted packet leaves or is freed | 280 k |
| heap | invariant inside the loops, refinement of the priority queue | 690 k |
| prio | strict priority in order of arrival; nothing forgotten when there is no random loss | 120 k |
| rr | ring, fairness, contract of `dn_sched.h`, termination of `rr_dequeue()` | 360 k |
| wf2q | each queue in the right heap, sum of weights, fairness, contract of `dn_sched.h` | 1.1 M |
| qfq | each group in the right set, each class in the right bucket, times near V, fairness, contract of `dn_sched.h` | 400 k |
| config | lists and links, counters against objects and replies, twins, termination of `config_sched()` | 330 k |
| chain | map sorted, caches right, sessions have rules, packets resume after the rule they left, scans go forward | 470 k |
| rule | a compiled rule means its text, is accepted, reads only headers that are there, and is listed as it is | 25 k |
| dyn | lists and counters, one session per flow, limits, keepalives in time and not for closed sessions | 250 k |
| table | tree and walk, longest match, refinement of the table of ipfw.8 | 30 k |

All runs pass. Every property has a mutant in `PROJECT.json`: a plausible mistake in one mapped
definition that breaks it in its run.

**Bounds, and why they suffice.** *pipe_safety*: two flows (they share nothing but the heap, the
lock and the link, so two show every interference), one CPU in `dummynet_io()` besides the task (a
second one only adds a second `tx` chain), three packets of two lengths, drops at
random, time up to 3 with steps 1 and 2, two links, a profile with loss, one command,
drain at once. With length 3 on bandwidth 2 credits become negative. *pipe_live*: one flow, packets
that take up to three ticks, three links (slow with delay, with burst, unlimited) and steps 0, 1, 2;
it starts from `WarmInit`, a reachable state in which the instance has been idle, since the rate of
a new instance is the first divergence of section 5. `MaxTime` leaves 17 ticks after the last
arrival, more than the slowest link needs for three packets, so reaching the bound never cuts a
packet off. *heap*: four objects give a tree of three levels, where a hole may be filled from
another subtree; four keys, two on each side of the wrap. *prio*: two queues of one priority and two
of others, one above the bits of `ffs()`. *rr*: three queues with weights 1, 1, 2, quanta smaller
than the largest packet. *wf2q*: three queues of weights 1, 1, 4 and five packets of two lengths;
four packets of a light queue against one of the heavy one exceed the bound of `FairShare` if the
weights are not respected, `QSize` 2 overflows, and `KeyMod` is far above the times that five
packets reach. *qfq*: two groups of two classes each are what blocking needs (a group is blocked
by one of a larger index), the four queues together are more than the sum of weights allows, and
`MaxV` lets every group pass its four slots and a queue that is served alone exceed the bound of
`FairShare`, which takes eight packets. *config*: one pipe with its twin and flowsets, both types of
scheduler, two masks, two links, two flowset parameters; objects with different numbers touch only
through `sched_nr`, for which the two schedulers and three flowsets of `N = 2` give all cases.
*chain*: two processors and two control processes; the chain starts with two rules besides the
default, of which one keeps state and one is a tee, or one is a skipto and one a pipe; two
requests, so that one may come while a packet is away and one between the steps of another; numbers
0 (automatic) and 2 (between and behind the others). *rule*: 6524 texts, every word of the
language alone, negated, in the old and the new form, and in blocks of up to three with those that
change how it is compiled or printed, the generic lookup with each of its keys; 52 packets: the
protocols of both families that the parser tells apart, whole, too short, as first and as later
fragment, IPv6 behind each kind of extension header, and neither IPv4 nor IPv6; from and to addresses
in and out of the sets; in and out, with a link header, already tagged. An option compares one field,
so a packet satisfies every comparison or none.
*dyn*: four entries and `DynMax` 3, so that the table fills with a parent and its child; three
sessions, of which one comes from both sides; lifetimes that keep the order of the defaults against
interval and period. *table*: twelve prefixes of four-bit addresses, nested four deep, adjacent, and
at both ends, ending in both "bytes" of two bits; at most seven at a time.

CHECK_DEADLOCK is off where the system may stop: DnPipe at its bounds on time and packets,
DnSchedPrio and DnConfig after a crash, DnSchedPrio when no packet is left.

**Symmetry** (flows, threads, heap objects, queues of equal weight, processes) is used only where
the properties are invariants or action properties.

**Fairness.** *pipe_live* assumes that a critical section goes on and ends (`Serve`, `TaskEvent \/
TaskDone`: a CPU that holds the lock runs), that a chain handed to `dummynet_send()` is sent, and
strong fairness of ticks that move the clock: the callout is rearmed by every run of the task
(`dn_reschedule()`), and it reads the system's uptime, which advances, though a single tick may be
throttled to 0. It is strong since the lock may be taken by others in between. Nothing is assumed of
arrivals and commands. *rr* and *config* assume that a loop that runs under the lock goes on.
*chain* and *table* need none: that a scan ends is stated as an action property, `ScansForward`,
which gives each packet a measure that grows.

## 4. Proofs

The theorems hold for every value of the constants under the named assumptions of the modules, which
TLC evaluates in every run. `ParamAssumption`, `ThreadAssumption`, `FailAssumption`,
`PrioAssumption`, `RRAssumption`, `WF2QAssumption`, `ChainAssumption`, `ConfigAssumption`,
`DynAssumption` and `FlowAssumption` state types, non-emptiness, and that the null pointer is no
object; `RRAssumption` and `WF2QAssumption` also that queues and lengths are finitely many, without
which there is no longest packet. `KeyAssumption` says that the keys in
use are ordered by `DN_KEY_LT`. `StartAssumption` says that the rules with which a run of FwChain
starts are in order, as `ipfw_add_rule()` would have left them, and that there is memory for them.
What a theorem needs besides stands in its statement, before the arrow.

| Theorem | States | Needs |
|---|---|---|
| `HeapInvariant`, `TypeCorrect`, `NoUseAfterFree` (DnPipe) | events refer to live objects, with failing allocations | |
| `MarkedInvariant` | a marked object is in the heap | memory |
| `FlowInvariant`, `OrderKept`, `NoPacketLost` | no packet overtakes, none is lost or in two places | |
| `NothingForgotten` (DnPipe) | what waits has an event, which is not late | memory |
| `NotTooFast` | the rate of the link, but for burst and one step of the clock | see below |
| `HeapCorrect`, `PositionsCorrect`, `TopCorrect`, `ExtractCorrect`, `Refinement` (DnHeap) | the heap is a priority queue | |
| `PrioCorrect`, `HighestFirst` (DnSchedPrio) | bitmap and pointers agree; strict priority, in order of arrival | |
| `NoNullPointer`, `NothingForgotten` (DnSchedPrio) | no NULL is followed; no packet is forgotten | bits for all priorities; no random loss |
| `RRInvariant`, `RingCorrect`, `Fair`, `SchedRefinement` (DnSchedRR) | the ring, the share of each queue, the contract of `dn_sched.h` | |
| `WF2QConsistent`, `WF2QRefinement` (DnSchedWF2Q) | heaps, stamps, V and the sum of weights; the contract of `dn_sched.h` | no time wraps |
| `NoTimeWraps`, `WF2QCorrect` (DnSchedWF2Q) | no time wraps, and so the invariant | few enough packets for the range |
| `FairShares` (DnSchedWF2Q) | two queues that stay backlogged share the link by weight, up to three packets | the same, and weights that divide `ONE_FP` |
| `ConfigInvariant`, `ListsCorrect` (DnConfig) | lists and pointers agree, with failing allocations | |
| `TwinsTogether`, `CountersAgree` | a pipe and its twin; what is measured suffices for what is copied | memory |
| `ChainInvariant`, `ChainSorted`, `SessionsSafe`, `PacketsResume`, `PacketsScanForward` (FwChain) | map and caches, sessions, return of packets, end of the scan | |
| `DynInvariant`, `TableCorrect`, `LimitNeverExceeded`, `ClosedSessionGoes` (FwDyn) | lists, counters and families of sessions; limits; closed sessions are not kept alive | |
| `PeersAreAsked` (FwDyn) | a session is probed before it expires | period < interval <= life of an established session |

* *DnPipe, events.* That no event dangles (`NoDanglingEvent`) is not inductive: when `serve_sched()`
  inserts an event one must know that the instance is alive and not in the heap already, and that a
  delay line with packets is marked unless it was empty when the section began. The inductive
  invariant `HeapInv` adds `Section` (what holds at each program counter), `Flags` (marks against
  delay lines) and `UniqueEvents`.
* *DnPipe, packets.* `InOrder` and `Conservation` speak of sequences that are
  cut and joined at each step. The invariant `FlowInv` replaces the count of a packet's places by
  ownership: the identities that instances and senders hold are pairwise disjoint sets, and together
  those of the packets that are "inside". Order is that of the identities, which grow; the packet
  that `dummynet_io()` may hand back at once is the newest (`NewestOK`).
* *DnPipe, schedule.* `SchedInv` adds to `MarkedIsInHeap` that a queue with packets belongs to an
  instance that is active or being served, that a marked delay line has its event at the time of its
  first packet, that output times do not decrease, the next one included, and that outside of the
  task no event is due (`Future`). All of it needs memory: after a failed `heap_insert()` packets
  wait for ever (section 5).
* *DnPipe, rate.* Each instance keeps an account, the work of the link until its last service less
  its credit, which only packets that are sent move. `PaceInv` compares it with the finish times of
  an ideal link (`ideal`): that link starts a packet of the queue before the account, plus the
  allowance, or after the packet before; a packet in the delay line is on time or is the one just
  sent on credit, which `serve_sched()` postpones when it ends (`Owing`). The hypotheses of
  `NotTooFast` are those of run pipe_live: instances are not removed and created again (`~Expire`),
  `io_fast` is off, there is memory, the step of the clock is bounded, and the instance is warm. A
  new instance does exceed the rate (section 5), and the allowance is that of one step of the clock.
* *DnHeap.* `HeapOK` is inductive: besides the order it states what is left of it during a loop: the
  entry that bubbles up is exempt from the comparison with its father, the hole has no entry, and
  entries below either are not smaller than the one above. `Prefix` extends this to `heapify()`.
  `TopCorrect` goes from the local order to the smallest element by taking the least position with
  a smaller key. `Refinement` shows that each step changes the abstract content as the priority
  queue may, and that `HEAP_TOP()` is a smallest object whenever no call runs.
* *DnSchedPrio.* `PrioOK` is inductive as it stands. `HighestFirst` adds that a queue holds packets
  of its own priority, in the order in which they came, although packets of other queues join it;
  the rest is that the queue of a bit is the only one with packets of that priority.
  `NothingForgotten` adds that the queue of a bit is not empty, which random loss breaks.
* *DnSchedRR.* The ring is a numbering of the backlogged queues, 1 to *n* from the head, along which
  `qnext` goes round (`IsRing`). Insertion before the head, removal of the head, and unlinking from
  the middle each give the numbering of the new ring. Fairness is not inductive pair by pair: how
  far *a* may be ahead of *b* depends on which of the two comes first. `Account` is the lead plus
  what either may still send, and changes only when a queue gets the credit of another round;
  `InTurn` bounds it for queues in the order of the ring, and the head that goes to the end has had
  one round more. Credits stay below the quantum plus the longest packet (`CreditOK`).
* *DnSchedWF2Q.* All promises rest on stamps that compare as integers do, so the proofs are made
  relative to a state predicate, that no time has wrapped. Under it `WInv` is inductive: which of the
  three heaps a queue is in is told by its backlog and by its stamps against V (`InHeaps`), S is
  never above F + 1, which marks invalid stamps, and those of a backlogged queue are valid (`Stamps`),
  `wsum` is the sum over the queues that are attached (`Weights`). `NoTimeWraps` discharges the
  predicate: each enqueue or dequeue moves
  the largest of the times by no more than the longest packet in units of `ONE_FP`, and there are at
  most two calls for each packet that come to that.
* *DnSchedWF2Q, fairness.* A lead is a distance of start times, but for a packet of each queue
  (`Shares`), so what matters is how far the start times of backlogged queues can be apart. None is
  more than a packet after V, since only a queue that V has reached is served (`Near`). That none is
  more than a packet before V (`Lag`) is harder: V moves by the weights of all queues in the heaps,
  whatever a single one gets. Each queue has a claim until a time T: what its weight gives it from
  its start time to T, if its packet is due by then; an idle one has none before its finish time.
  The invariant `Balanced` says that for every T from V on the claims are at most the sum of the
  weights times the time from V to T, and a packet. Service takes from both sides alike, for the
  served queue has the smallest finish time; a queue that comes brings its claim and its weight; an
  idle queue that V has passed takes both with it. A deleted queue may take its weight and no claim,
  if it was served ahead of V, which is what `cut` is about. Two start times within a packet of V are
  close enough that a served queue exceeds its share by three packets at most (`ShareLimit`,
  `Leading`). This takes divisions in `inv_w` that are exact, as they are for weights that are powers
  of two (`ONE_FP` is 2^30); for others each packet is off by less than its length in units of
  1/`ONE_FP`, and the theorem does not add these up.
* *DnConfig.* A command may run ten functions on the tables before it ends, so the invariant is one
  on the record of the tables (`GOK`: types, each flowset in the list that its pointer leads to, each
  counter the size of the set that it counts), and there is a lemma for each function of the code
  that says what it gives to the next one. `Found` and `Linked` hold or not depending on where in
  `config_sched()` the command is, and failing allocations may come anywhere. The twins need more:
  `CmdOK` says in which order the scheduler and its twin are deleted and created again. What
  `dummynet_get()` copies fits in what it measured since half of the schedulers, and of the flowsets
  that belong to them, are twins; with a failed allocation a scheduler loses its twin and this is
  no longer so, hence the hypothesis.
* *FwChain.* `ipfw_find_rule()` finds the first rule that is not before its argument (`SearchWorks`,
  by induction on the length of the interval). The map that `del_entry()` copies is a selection from
  the old one that keeps its order (`Picks`), the one of `ipfw_add_rule()` has the rule where the
  search put it. The invariant says of each tag that it is either of the present version of the
  chain, and then leads to its rule's position, or of an older one, and then names number and
  identity of the rule (`RefOK`); of each session that its rule is in the map, or that the request
  that removed it has not yet freed it and will let go of the session first (`Spared`); of each
  packet under way how its position relates to the rule that it left. That scans go forward is then
  a matter of what each step does to `Rank` and position.
* *FwDyn.* The invariant of the table, `Good`, says besides `TableOK` that the parent of a child has
  the id that the mask leaves of the child's and may not be over its limit (`Family`), that no two
  parents have the same rule and id and no two sessions the same flow, whichever direction each was
  seen from (`Unique`), and that the lifetime of a closed session is below the period (`LifeOK`). Each
  function of the code has a lemma that takes a good table to a good one and says which sessions are
  left (`Less`), which came (`Extends`), and which were changed, by which packet (`Renewed`,
  `Installed`); the actions are compositions of these, and their effect on a session that remains is
  one of two, `Kept` or `Seen`. Freeing needs most care: a parent may go only when its last child
  does, and the walk of a lookup frees both in one pass (`Leaving`, `FreedOK`). A limit follows since
  the sessions that share a masked id share a parent. For time, `LetGo` bounds what is left of a
  closed session that was probed by what is left until the next probe, and `Asked` says that an
  established session that was not probed will still be there when the timer fires.

*Induction.* Theorems of the library that take an operator as a parameter cannot be used here.
`NatMin` and `NatSetInduction` state the principle for sets: the numbers for which a formula holds
are a set, which contains 0 and the successor of each of its members. With it `ProofLemmas` shows
that a finite set of numbers has a largest (`FiniteMax`) and counts what a numbering enumerates
(`CountedSet`), and the proofs above go through binary searches, copies of arrays and lengths of
sequences. Recursive functions are characterised by their equation, which the library derives for
functions on the naturals.

**Only model-checked.** Liveness (`EveryPacketLeaves`, `DequeueReturns`, `ConfigReturns`): the
prover has no rule for ENABLED, nor for fairness. FwRadix and FwLang have recursive operators,
with which the arithmetic prover is not available: in the one the shape of a tree, in the other the
structure of a text is what an induction would go over. DnSchedQFQ rests on the arithmetic of
powers of two (groups, slots, rounding), which is nonlinear, and on a bound on V that the run ensures
and no assumption of the code does. So all of DnSchedQFQ (`QFQOK`, `FairShare`, `SchedSpec`) is
checked only. Its bound of four slots
of each queue is that of `TimesBounded`: both start times lie within two slots of V when the stretch
begins and when it ends.

## 5. Where the code departs from what is said of it

Met while modelling. The models have the code's behaviour unless it is said otherwise; properties
leave out the cases named here, by a guard, a constant or one of the sets of section 2, so that they
say what does hold.

*dummynet.*

* A new instance sends without limit in the tick of its creation: `si_new()` leaves `sched_time` 0
  and the allowance is that of the whole time since boot (`ip_dn_io.c:913`; ipfw.8:2124 says that
  the rate is not exceeded but for the burst). `NotFasterThanLink` starts from `WarmInit`.
* `prio_enqueue()` marks a queue before `dn_enqueue()` may drop its packet (`dn_sched_prio.c:84`):
  dequeue then returns NULL with packets waiting, against `dn_sched.h:84-85`. `NullMeansEmpty` fails
  with `RandomDrop = TRUE`.
* `wf2qp_free_queue()` compares times that wrap as integers (`dn_sched_wf2q.c:322`): a queue deleted
  between the wrap of F and that of S stays in its heap, though line 323 says "not in any heap". Run
  wf2q has no wrap.
* The internal flowset of a FIFO may be the user's (`ip_dummynet.c:1535`): `queue i delete` frees it
  and the scheduler keeps the pointer (`ip_dn_private.h:279`).
* When QFQ's times wrap, `qfq_update_start()` (`dn_sched_qfq.c:617-627`) takes the stale finish time
  of an idle class for a future one; `qfq_free_queue()` of a queue with packets leaves a pointer in
  its bucket (`dn_delete_queue()` calls it so when a flowset is deleted); packets longer than `lmax`
  overflow the slots.
* `heap_insert()` may fail and its callers do not look: the instance is then marked active and is in
  no heap, its packets wait until it is deleted, and `heap_extract()` may panic then.
  `MarkedIsInHeap` fails with `AllocMayFail = TRUE`.
* The age test of the drain wraps shortly after boot (`ip_dummynet.c:2033`): instances that just
  became idle are removed, although `object_idle_tick` is described as the "Time (in ticks) to
  cosiderer an object as idle" (`ip_dn_io.c:154`).
* `config_sched()` reads the size of the saved profile through a NULL pointer
  (`ip_dummynet.c:1484`), for the first scheduler; for the twin the profile is lost, since the saved
  one has the number of the first.
* A failed allocation at `ip_dummynet.c:1545` frees a scheduler that stays in the hash.
* After ten tries `dummynet_get()` copies without the lock (`ip_dummynet.c:1919`).
  `dn_compat_configure()` frees the pointer that it advanced (`ip_dn_glue.c:552`).
* The reference count of a scheduler type is read (`ip_dummynet.c:2348`) and never written: a module
  in use can be unloaded.
* A dropped packet is counted twice, one lost by the profile never (`ip_dn_io.c:956`).
* `ffs()` on a bitmap wider than an int (`dn_sched_prio.c:118`); the index becomes -1.
* The burst after an idle time is the smaller of the configured size and what that time earned
  (`ip_dn_io.c:920-922`); `ipfw/ipfw.8:2208-2215` gives the larger.
* The limit on objects a drain examines is never reached (`(*arg++)`, `ip_dummynet.c:2015`),
  `red_lookup_depth` is a divisor before it is tested for 0 (`ip_dummynet.c:1089`), and
  `rr_config()` writes to a scheduler that has no room for it (`schk_datalen` is 0,
  `dn_sched_rr.c:292`).

*Rules.*

* `del_entry()` waits for packets when it swaps the map, and removes sessions afterwards
  (`ip_fw_sockopt.c:380`): a packet that comes in between may jump to the action of a rule that is
  then freed, although `ip_fw_dynamic.c:109` says that rules are not freed while referenced.
  `SessionsHaveRules` says what holds: no session is left with a freed rule.
* Moving or swapping sets changes one rule after the other while packets read them
  (`ip_fw_sockopt.c:398`); ipfw.8 calls it atomic.
* *Careless* texts, which compile to something else: `not any`, `not ip`, `not ::/0` or `{ A or any
  }` leave the flag for the next instruction or the last (`ipfw/ipfw2.c:3046`); `not` before tcpseq,
  tcpack, icmp6types (`ipfw/ipv6.c:138` clears the instruction), limit or keep-state is lost or
  installs the state first; `::/0` compiles to `me6`; after
  `{ tcp or ip6 }`, `me` means the IPv6 addresses; words after check-state are ignored.
* *Departing* packets. The offset of an IPv6 fragment includes the flag that more follow
  (`ip_fw2.c:1006-1009`): the first fragment matches `frag`, and ports, TCP options and icmp6types
  fail on it, against ipfw.8:1367-1369 and 1291-1294. uid, gid, jail, iplen, ipversion and lookups of
  ports, uid, jail and dscp look at IPv4 only and tcpdatalen reads an IPv4 header in IPv6
  (`ip_fw2.c:1254`, `1364-1402`, `1525-1535`, `1574`); ipfw.8:1373, 1380, 1444 and 1528 speak of all
  packets. `src-ip me` and `dst-ip me` find IPv6 addresses too
  (`ip_fw2.c:1429-1442`). `versrcreach` looks up a route for outgoing packets too:
  `oif != NULL || is_ipv6 ? ... : ...` takes the disjunction as its condition
  (`ip_fw2.c:1675-1681`), against the comment before it and ipfw.8:1791. A rule with `tag` does not
  apply to a packet that has the tag (`ip_fw2.c:1788-1793`, ipfw.8:605). `reass` reads an IPv4 header
  in any packet (`ip_fw2.c:2137-2141`). Within a comparison, `established` is also true of a packet
  with no flags (`ip_fw2.c:1616-1622`, ipfw.8:1336).
* *Refusable* texts: `sockarg` and `call` make instructions the kernel does not know; lists of more
  than 30 ports or 15 masks are longer than it allows (`ip_fw_sockopt.c:642`).
* *Unlistable* rules: options on addresses, protocols or lookups right after the old form are
  printed as a second address there; `{ x or ip6 }` as `ip6 ... { x or }`; `not tcp ... frag ip6`
  with the `not` before `ip6`; icmp6types in a block as two alternatives, since it is printed as
  `ip6 icmp6types` (`ipfw/ipv6.c:166`); ext6hdr as `extension header: ...`, which ipfw does not read
  (`ipfw/ipv6.c:265`); flow-id without `not`, brace and the addresses before it
  (`ipfw/ipfw2.c:1334-1337`), so that `ip6 from any to any flow-id 1` is listed as `flow-id 1`, which
  is refused (`ipfw/ipfw2.c:3585`).
* Without `fw_deny_unknown_exthdrs` an unknown IPv6 header lets later instructions read what was not
  parsed; `ReadsOnlyParsed` is checked with it set, as it is by default.
* O_TCPDATALEN reads IPv4 fields of packets of any kind; later IPv6 fragments put payload into the
  ports of the flow id.
* A list request of a new ipfw after an add of a FreeBSD 7 one is answered in the old format (the
  flag is static); the conversion turns O_REASS into O_NAT.

*Dynamic rules.*

* `dyn_count` may reach `dyn_max` + 1, as a limit adds a parent and a child (`ip_fw_dynamic.c:765`;
  the comment at line 103 says no more than `dyn_max`). `TableOK` has the bound that holds.
* The masked id of an IPv6 limit is partly uninitialised (`ip_fw_dynamic.c:801`): the parent may not
  be found again and the limit is exceeded. `LimitHolds` leaves such ids out (`Defined`).
* `dyn_buckets` = 0 passes the test for a power of 2 (`ip_fw_dynamic.c:571`). `Wanted` is positive.

*Tables.*

* A lookup of the last address returns nothing unless it has an entry of its own, not even the entry
  0/0, and the walk stops before that entry (`sys/net/radix.c:318`, `1117`): 255.255.255.255/32 is
  neither listed nor flushed. `LongestMatch` and the prefixes of the run leave that address out.
* If memory for a mask is missing, `rn_new_radix_mask()` cuts the list it was to extend
  (`sys/net/radix.c:781`). The model has memory.
* `ipfw -q table N add` of an entry that exists deletes it and adds it again (`ipfw/ipfw2.c:3905`):
  packets in between find nothing.

## 6. Plan

Done: the modules above; the proofs of DnPipe, DnHeap, DnSchedPrio, DnSchedRR, DnSchedWF2Q, DnConfig,
FwChain and FwDyn, of which all invariants and action properties are proved. What could follow:

1. Proofs: the groups of `QFQOK`; `FairShares` with the rounding of `inv_w`.
2. `dummynet_get()` with commands between its critical sections.
3. The idle counters of `do_drain()` and the age of queues; `dn_ht_scan_bucket()`.

## 7. Not modelled, and why

NAT calls libalias, which is outside of the repository, and is not compiled here, nor is
`ip_fw_lookup.c`; logging is output. The kernel glue for Linux and Windows (`kipfw/`) maps
interfaces and keeps no state that the properties speak of; the models use timers, locks and task
queues as these interfaces promise. RED's fixed-point average is a number that only decides whether
a packet is dropped, which is a free choice here, and so are the tick arithmetic of the clock and
the counters that start a drain. Of ipfw the commands other than those on rules, pipes and tables,
and the numbers inside words (ranges, dates, rates), are parsing of text. The hash tables of
`dn_heap.c` are sets: the order of a bucket decides only the order of visits. The test bench and the
packaging are not part of the running system.
