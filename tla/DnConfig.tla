------------------------------ MODULE DnConfig ------------------------------
(***************************************************************************)
(* The configuration of dummynet: schedulers (each with its link), the     *)
(* flowsets attached to them, and the pointers between the two             *)
(* (ip_dummynet.c).  Pipe i is scheduler i and a twin, scheduler i + N,    *)
(* that is always a FIFO; N is DN_MAX_ID.  A flowset is in the list of its *)
(* scheduler or, if that does not exist, in the list of unlinked ones.     *)
(*                                                                         *)
(* Every command runs under the dummynet lock.  config_sched() goes over   *)
(* its body several times: each pass is a step, with cmd as its locals.    *)
(* An object is named by its number, so a pointer to an object that was    *)
(* freed and allocated again looks valid, as it does in memory.            *)
(***************************************************************************)
EXTENDS Integers, FiniteSets

CONSTANTS
  N,             \* DN_MAX_ID
  Types,         \* the scheduler types that are loaded
  Multi,         \* the ones with DN_MULTIQUEUE
  FIFO, WF2QP,   \* the types the kernel chooses by itself
  NoType,        \* a command that names no type
  Masks,         \* sched_mask and the other parameters of a scheduler
  NoMask,        \* ... when there is no mask
  LinkParams,    \* bandwidth, delay and burst
  NoParams,      \* ... of a link that was not configured
  FsParams,      \* the parameters of a flowset
  Reuse,         \* ... that are to be left as they are (par[] is -1)
  NULL,
  AllocMayFail   \* a malloc() with M_NOWAIT may fail

BaseNrs == 1..(N - 1)
SchedNrs == BaseNrs \cup (N + 1)..(2 * N - 1)
FsNrs == BaseNrs \cup (N + 1)..(2 * N - 1) \cup (2 * N + 1)..(3 * N - 1)

\* struct dn_schk.  inst: it has an instance (siht).
SchedType ==
  [type : Types, mask : Masks, link : LinkParams, profile : BOOLEAN,
   fs : FsNrs \cup {NULL}, inst : BOOLEAN, q_count : Nat]

\* struct dn_fsk.  qht: the scheduler its queue is in, if it has a queue.
FsType ==
  [sched_nr : SchedNrs, par : FsParams \cup {0}, sched : SchedNrs \cup {NULL},
   qht : SchedNrs \cup {NULL}]

\* The arguments and the locals of config_sched().
CmdType ==
  [nr : SchedNrs, type : Types \cup {NoType}, mask : Masks, pipe : BOOLEAN,
   saved : Masks, p : LinkParams \cup {NULL}, pf : BaseNrs \cup {NULL}]

ASSUME ConfigAssumption ==
  /\ N \in Nat \ {0, 1}
  /\ {FIFO, WF2QP} \subseteq Types /\ NoType \notin Types
  /\ Multi \subseteq Types /\ WF2QP \in Multi /\ FIFO \notin Multi
  /\ NoMask \in Masks /\ NoParams \in LinkParams /\ Reuse \notin FsParams
  /\ NULL \notin Nat \cup LinkParams \cup SchedType \cup FsType \cup CmdType
  /\ AllocMayFail \in BOOLEAN

VARIABLES
  schk,       \* the schedulers, by number; NULL if there is none
  schedhash,  \* the numbers that are found in dn_cfg.schedhash
  fsk,        \* the flowsets, by number
  fsu,        \* dn_cfg.fsu, the flowsets that are not linked to a scheduler
  fsk_list,   \* s->fsk_list of each scheduler
  cmd,        \* the config_sched() under way
  panicked    \* the kernel follows a pointer to nothing, or to freed memory

vars == <<schk, schedhash, fsk, fsu, fsk_list, cmd, panicked>>

NewSched(type, mask, link) ==
  [type |-> type, mask |-> mask, link |-> link, profile |-> FALSE, fs |-> NULL,
   inst |-> FALSE, q_count |-> 0]

NewFs(sched_nr, par) == [sched_nr |-> sched_nr, par |-> par, sched |-> NULL, qht |-> NULL]

\* The state the functions below transform.
State == [schk |-> schk, fsk |-> fsk, fsu |-> fsu, fsk_list |-> fsk_list]

Becomes(g) ==
  schk' = g.schk /\ fsk' = g.fsk /\ fsu' = g.fsu /\ fsk_list' = g.fsk_list

\* Whether a malloc() succeeds.
Alloc == IF AllocMayFail THEN BOOLEAN ELSE {TRUE}

-----------------------------------------------------------------------------
\* qht_delete() with DN_DESTROY, as all callers have it
QhtDelete(g, f) ==
  IF g.fsk[f].qht = NULL THEN g
  ELSE [g EXCEPT !.schk[g.fsk[f].qht].q_count = @ - 1, !.fsk[f].qht = NULL]

\* fsk_detach() with DN_DETACH: the list that the flowset is removed from.
Unlink(g, f) ==
  IF g.fsk[f].sched = NULL THEN [g EXCEPT !.fsu = @ \ {f}]
  ELSE [g EXCEPT !.fsk_list[g.fsk[f].sched] = @ \ {f}]

\* fsk_detach(): DN_DETACH | DN_DESTROY, and with DN_DELETE_FS
Detach(g, f) ==
  [QhtDelete(Unlink(g, f), f) EXCEPT !.fsk[f].sched = NULL, !.fsu = @ \cup {f}]

DeleteFs(g, f) ==
  IF g.fsk[f] = NULL THEN g ELSE [QhtDelete(Unlink(g, f), f) EXCEPT !.fsk[f] = NULL]

\* fsk_detach_list(&s->fsk_list, DN_DESTROY)
DetachList_mutantPointer(g, s) ==
  [g EXCEPT !.schk[s].q_count = 0,
            !.fsk = [f \in FsNrs |-> IF f \notin g.fsk_list[s] THEN @[f]
                                     ELSE [@[f] EXCEPT !.qht = NULL]],
            !.fsu = @ \cup g.fsk_list[s],
            !.fsk_list[s] = {}]

DetachList(g, s) ==
  [g EXCEPT !.schk[s].q_count = @ - Cardinality({f \in g.fsk_list[s] : g.fsk[f].qht = s}),
            !.fsk = [f \in FsNrs |-> IF f \notin g.fsk_list[s] THEN @[f]
                                     ELSE [@[f] EXCEPT !.sched = NULL, !.qht = NULL]],
            !.fsu = @ \cup g.fsk_list[s],
            !.fsk_list[s] = {}]

\* schk_delete_cb()
SchkDelete(g, s) == [DetachList(g, s) EXCEPT !.schk[s] = NULL]

\* delete_schk()
DeleteSchk(g, s) ==
  IF s \notin schedhash THEN g ELSE SchkDelete(DeleteFs(g, s + N), s)

\* fsk_attach() of the flowsets F, which it takes from the unlinked ones.
Attach(g, F, s) ==
  [g EXCEPT !.fsu = @ \ F,
            !.fsk_list[s] = @ \cup F,
            !.fsk = [f \in FsNrs |-> IF f \notin F THEN @[f]
                                     ELSE [@[f] EXCEPT !.sched = s, !.qht = NULL]]]

\* update_fs()
UpdateFs(g, s) == Attach(g, {f \in g.fsu : g.fsk[f].sched_nr = s}, s)

\* config_fs() of a flowset that is there or that can be allocated; tbl are the
\* schedulers that locate_scheduler() finds.
Configured(g, tbl, f, sched_nr, par) ==
  LET old == g.fsk[f]
      h == IF old = NULL THEN [g EXCEPT !.fsu = @ \cup {f}, !.fsk[f] = NewFs(sched_nr, par)]
           ELSE IF old.sched = NULL THEN g ELSE Detach(g, f)
      k == [h EXCEPT !.fsk[f].sched_nr = sched_nr, !.fsk[f].par = par]
  IN  IF old # NULL /\ old.sched_nr = sched_nr /\ old.par = par THEN g
      ELSE IF sched_nr \in tbl THEN Attach(k, {f}, sched_nr)
      ELSE k

-----------------------------------------------------------------------------
\* A command has the lock.
Ready == cmd = NULL /\ ~panicked

\* config_fs(), for a DN_FS object: "queue i config", and the flowset that goes
\* with "sched i config" and "pipe i config" (ipfw/dummynet.c), or with the pipe or
\* queue of an old ipfw.
CompatFsCommands ==
  (BaseNrs \X SchedNrs) \cup {<<i + 2 * N, i + N>> : i \in BaseNrs}

FsCommands ==
  (BaseNrs \X {0}) \cup {<<i + N, i>> : i \in SchedNrs} \cup CompatFsCommands

ConfigFs(f, nr, par) ==
  /\ Ready
  /\ nr = 0 => fsk[f] # NULL
  /\ LET old == fsk[f]
         sched_nr == IF nr = 0 THEN old.sched_nr ELSE nr
         newpar == IF par # Reuse THEN par ELSE IF old = NULL THEN 0 ELSE old.par
     IN  \E ok \in Alloc :
           IF ok \/ old # NULL THEN Becomes(Configured(State, schedhash, f, sched_nr, newpar))
           ELSE UNCHANGED <<schk, fsk, fsu, fsk_list>>
  /\ UNCHANGED <<schedhash, cmd, panicked>>

\* config_sched(): the call.
ConfigSched(i, type, mask, pipe) ==
  /\ Ready
  /\ cmd' = [nr |-> i, type |-> type, mask |-> mask, pipe |-> pipe, saved |-> mask,
             p |-> NULL, pf |-> NULL]
  /\ UNCHANGED <<schk, schedhash, fsk, fsu, fsk_list, panicked>>

\* What a pass looks up: the type, and the mask, which "pipe i config" means for
\* the twin.
Exists == cmd.nr \in schedhash

Type ==
  IF cmd.type # NoType THEN cmd.type ELSE IF Exists THEN schk[cmd.nr].type ELSE WF2QP

Mask == IF cmd.type = NoType /\ ~Exists /\ cmd.pipe THEN NoMask ELSE cmd.mask

Skips == cmd.type = NoType /\ Exists /\ cmd.pipe

Differs == schk[cmd.nr].type # Type \/ schk[cmd.nr].mask # cmd.mask

\* From label next: go on with the twin, or end.
NextPass_mutantBase ==
  IF cmd.nr > N \/ (~cmd.pipe /\ cmd.nr + N \in schedhash) THEN NULL
  ELSE [cmd EXCEPT !.type = FIFO, !.mask = cmd.saved, !.p = NULL]

NextPass ==
  IF cmd.nr > N \/ (~cmd.pipe /\ cmd.nr + N \in schedhash) THEN NULL
  ELSE [cmd EXCEPT !.nr = @ + N, !.type = FIFO, !.mask = cmd.saved, !.p = NULL]

\* The internal flowset of a scheduler that is not MULTIQUEUE: the flowset with
\* the number of the scheduler, if there is one, or number i + DN_MAX_ID.
NeedsFs(g, s) == g.schk[s].type \notin Multi /\ g.schk[s].fs = NULL

InternalFs(g, tbl, s) ==
  IF ~NeedsFs(g, s) THEN g
  ELSE IF g.fsk[s] # NULL THEN [g EXCEPT !.schk[s].fs = s]
  ELSE [Configured(g, tbl, s + N, s, 0) EXCEPT !.schk[s].fs = s + N]

\* "complete initialization" of scheduler s.  If the internal flowset cannot be
\* allocated s is freed and stays in the hash table.
Complete(g, tbl, s) ==
  /\ schedhash' = tbl
  /\ \E ok \in Alloc :
       IF ok \/ ~NeedsFs(g, s) \/ g.fsk[s] # NULL \/ g.fsk[s + N] # NULL
       THEN Becomes(UpdateFs(InternalFs(g, tbl, s), s)) /\ cmd' = NextPass
            /\ UNCHANGED panicked
       ELSE Becomes(SchkDelete(g, s)) /\ cmd' = NULL /\ panicked' = TRUE

\* The scheduler is there and "pipe i config" leaves it alone.
SchedSkip ==
  /\ cmd # NULL /\ ~panicked /\ Skips
  /\ cmd' = NextPass
  /\ UNCHANGED <<schk, schedhash, fsk, fsu, fsk_list, panicked>>

\* The scheduler changes: remember link and profile, delete it, and again.
\* (config_profile() gives both schedulers a profile with the number of the first.)
SchedChange ==
  /\ cmd # NULL /\ ~panicked /\ ~Skips /\ Exists /\ Differs
  /\ \E ok \in Alloc :
       cmd' = [cmd EXCEPT
                 !.type = Type, !.p = schk[cmd.nr].link,
                 !.pf = IF schk[cmd.nr].profile /\ @ = NULL /\ ok
                        THEN IF cmd.nr > N THEN cmd.nr - N ELSE cmd.nr
                        ELSE @]
  /\ schedhash' = schedhash \ {cmd.nr}
  /\ Becomes(SchkDelete(State, cmd.nr))
  /\ UNCHANGED panicked

SchedSame ==
  /\ cmd # NULL /\ ~panicked /\ ~Skips /\ Exists /\ ~Differs
  /\ Complete(State, schedhash, cmd.nr)

\* The link of the scheduler that is allocated.
RestoredLink_mutantLost == NoParams

RestoredLink == IF cmd.p = NULL THEN NoParams ELSE cmd.p

\* The size of the saved profile is read through s->profile, which is NULL.
RestoresProfile == cmd.p # NULL /\ cmd.pf = cmd.nr

SchedNew ==
  /\ cmd # NULL /\ ~panicked /\ ~Exists
  /\ \E ok \in Alloc :
       IF ~ok THEN cmd' = NULL /\ UNCHANGED <<schk, schedhash, fsk, fsu, fsk_list, panicked>>
       ELSE IF RestoresProfile
       THEN panicked' = TRUE /\ UNCHANGED <<schk, schedhash, fsk, fsu, fsk_list, cmd>>
       ELSE Complete([State EXCEPT !.schk[cmd.nr] = NewSched(Type, Mask, RestoredLink)],
                     schedhash \cup {cmd.nr}, cmd.nr)

SchedPass == SchedSkip \/ SchedChange \/ SchedSame \/ SchedNew

-----------------------------------------------------------------------------
\* The schedulers that config_link() and config_profile() reach: the first that
\* is missing ends the loop.
Reached(i) ==
  IF i \notin schedhash THEN {} ELSE IF i + N \notin schedhash THEN {i} ELSE {i, i + N}

ConfigLink(i, params) ==
  /\ Ready
  /\ schk' = [s \in SchedNrs |-> IF s \notin Reached(i) THEN schk[s]
                                 ELSE [schk[s] EXCEPT !.link = params, !.profile = FALSE]]
  /\ UNCHANGED <<schedhash, fsk, fsu, fsk_list, cmd, panicked>>

\* The schedulers that get the samples when a malloc() may fail on the way.
GetSamples(i, samples) ==
  IF AllocMayFail /\ samples THEN {{}, Reached(i) \cap {i}, Reached(i)} ELSE {Reached(i)}

ConfigProfile(i, samples) ==
  /\ Ready
  /\ \E done \in GetSamples(i, samples) :
       schk' = [s \in SchedNrs |->
                  IF s \in done THEN [schk[s] EXCEPT !.profile = samples]
                  ELSE IF s \in Reached(i) /\ (s = i \/ i \in done)
                  THEN [schk[s] EXCEPT !.profile = FALSE]
                  ELSE schk[s]]
  /\ UNCHANGED <<schedhash, fsk, fsu, fsk_list, cmd, panicked>>

\* "pipe i delete": both schedulers
DeletePipe(i) ==
  /\ Ready
  /\ Becomes(DeleteSchk(DeleteSchk(State, i), i + N))
  /\ schedhash' = schedhash \ {i, i + N}
  /\ UNCHANGED <<cmd, panicked>>

\* "queue i delete"
DeleteQueue(i) ==
  /\ Ready
  /\ Becomes(DeleteFs(State, i))
  /\ UNCHANGED <<schedhash, cmd, panicked>>

\* dummynet_flush()
Flush ==
  /\ Ready
  /\ schk' = [s \in SchedNrs |-> NULL] /\ schedhash' = {}
  /\ fsk' = [f \in FsNrs |-> NULL] /\ fsu' = {}
  /\ fsk_list' = [s \in SchedNrs |-> {}]
  /\ UNCHANGED <<cmd, panicked>>

\* dummynet_io(): the first packet of flowset f makes the queue and the instance.
Packet(f) ==
  /\ Ready
  /\ fsk[f] # NULL /\ fsk[f].sched # NULL
  /\ LET s == fsk[f].sched
     IN  IF schk[s].type \in Multi
         THEN IF fsk[f].qht # NULL THEN UNCHANGED <<schk, fsk>>
              ELSE /\ fsk' = [fsk EXCEPT ![f].qht = s]
                   /\ schk' = [schk EXCEPT ![s].inst = TRUE, ![s].q_count = @ + 1]
         ELSE /\ schk' = [schk EXCEPT ![s].inst = TRUE]
              /\ UNCHANGED fsk
  /\ UNCHANGED <<schedhash, fsu, fsk_list, cmd, panicked>>

\* drain_queue_cb() of an idle queue
DrainQueue(f) ==
  /\ Ready
  /\ fsk[f] # NULL /\ fsk[f].qht # NULL
  /\ Becomes(QhtDelete(State, f))
  /\ UNCHANGED <<schedhash, cmd, panicked>>

\* drain_scheduler_cb() of an idle instance
DrainInst(s) ==
  /\ Ready
  /\ s \in schedhash /\ schk[s].inst
  /\ schk[s].type \in Multi => schk[s].q_count = 0
  /\ schk' = [schk EXCEPT ![s].inst = FALSE]
  /\ UNCHANGED <<schedhash, fsk, fsu, fsk_list, cmd, panicked>>

\* dummynet_get() under the lock: what "pipe show", "sched show", "queue show" and
\* an old ipfw ask for, the objects that copy_data_helper() copies, by structure, ...
Requests == {"DN_LINK", "DN_SCH", "DN_FS", "DN_GET_COMPAT"}

Shown_mutantAll(req) == schedhash

Shown(req) == {s \in schedhash : IF req = "DN_SCH" THEN s < N ELSE s > N}

UserFs == {f \in BaseNrs : fsk[f] # NULL}
WithQueue == {f \in FsNrs : fsk[f] # NULL /\ fsk[f].qht # NULL}
WithInst == {s \in SchedNrs : schk[s] # NULL /\ schk[s].inst}

copy_data_helper(S) ==
  [dn_link |-> S, dn_sch |-> S, dn_id |-> S,
   dn_profile |-> {s \in S : schk[s].profile}, dn_fs |-> {s \in S : schk[s].fs # NULL},
   fs_nr |-> UNION {fsk_list[s] \cap BaseNrs : s \in S}, dn_flow |-> S \cap WithInst]

copy_flowset == [dn_fs |-> UserFs, dn_flow |-> UserFs \cap WithQueue]

\* (The numbers of these schedulers are above those of these flowsets.)
dn_compat_copy_pipe(S) == [dn_pipe |-> S, dn_flow_queue |-> S \cap WithInst]
dn_compat_copy_queue == [dn_flow_set |-> UserFs, dn_flow_queue |-> UserFs \cap WithQueue]

copy_data_helper_compat(S) ==
  LET p == dn_compat_copy_pipe({s \in S : schk[s].type = FIFO})
      q == dn_compat_copy_queue
  IN  [dn_pipe |-> p.dn_pipe, dn_flow_set |-> q.dn_flow_set,
       dn_flow_queue |-> p.dn_flow_queue \cup q.dn_flow_queue]

Reply(req) ==
  CASE req = "DN_FS" -> copy_flowset
    [] req = "DN_GET_COMPAT" -> copy_data_helper_compat(Shown(req))
    [] req \in {"DN_LINK", "DN_SCH"} -> copy_data_helper(Shown(req))

\* ... and how many of each compute_space() has counted, under the same lock.
schk_count == Cardinality({s \in SchedNrs : schk[s] # NULL})
fsk_count == Cardinality({f \in FsNrs : fsk[f] # NULL})
si_count == Cardinality(WithInst)
queue_count == Cardinality(WithQueue)

dn_compat_calc_size ==
  [dn_pipe |-> schk_count \div 2, dn_flow_set |-> fsk_count,
   dn_flow_queue |-> si_count + queue_count]

compute_space(req) ==
  LET half == schk_count \div 2
  IN  CASE req = "DN_FS" -> [dn_fs |-> fsk_count, dn_flow |-> queue_count]
        [] req = "DN_GET_COMPAT" -> dn_compat_calc_size
        [] req \in {"DN_LINK", "DN_SCH"} ->
             [dn_link |-> half, dn_sch |-> half, dn_id |-> half, dn_profile |-> half,
              dn_fs |-> half, fs_nr |-> fsk_count, dn_flow |-> si_count]

Init ==
  /\ schk = [s \in SchedNrs |-> NULL] /\ schedhash = {}
  /\ fsk = [f \in FsNrs |-> NULL] /\ fsu = {}
  /\ fsk_list = [s \in SchedNrs |-> {}]
  /\ cmd = NULL /\ panicked = FALSE

Next ==
  \/ \E i \in BaseNrs, type \in Types \cup {NoType}, mask \in Masks, pipe \in BOOLEAN :
       ConfigSched(i, type, mask, pipe)
  \/ SchedPass
  \/ \E c \in FsCommands, par \in FsParams \cup {Reuse} : ConfigFs(c[1], c[2], par)
  \/ \E i \in BaseNrs :
       \/ \E params \in LinkParams : ConfigLink(i, params)
       \/ \E samples \in BOOLEAN : ConfigProfile(i, samples)
       \/ DeletePipe(i)
       \/ DeleteQueue(i)
  \/ Flush
  \/ \E f \in FsNrs : Packet(f) \/ DrainQueue(f)
  \/ \E s \in SchedNrs : DrainInst(s)

Spec == Init /\ [][Next]_vars

\* config_sched() runs under the lock and does not wait.
FairSpec == Spec /\ WF_vars(SchedPass)

-----------------------------------------------------------------------------
TypeOK ==
  /\ schk \in [SchedNrs -> SchedType \cup {NULL}]
  /\ schedhash \subseteq SchedNrs
  /\ fsk \in [FsNrs -> FsType \cup {NULL}]
  /\ fsu \subseteq FsNrs
  /\ fsk_list \in [SchedNrs -> SUBSET FsNrs]
  /\ cmd \in CmdType \cup {NULL}
  /\ panicked \in BOOLEAN

\* Every flowset is in exactly one list, the one that fs->sched leads to, and
\* fs->sched is the scheduler that fs.sched_nr names: SLIST_REMOVE() finds what it
\* removes, and no flowset points to a scheduler that was freed.  No flowset is left
\* unlinked while its scheduler exists, whichever of the two was configured first:
\* dummynet_io() drops the packets of unlinked flowsets.  The queue of a flowset
\* belongs to an instance of its scheduler, so that "qht is never set" when
\* fsk_attach() is called.
ListsOK ==
  /\ TypeOK
  /\ \A f \in FsNrs : f \in fsu <=> fsk[f] # NULL /\ fsk[f].sched = NULL
  /\ \A f \in FsNrs, s \in SchedNrs :
       f \in fsk_list[s] <=> fsk[f] # NULL /\ fsk[f].sched = s
  /\ \A f \in FsNrs : fsk[f] # NULL /\ fsk[f].sched # NULL =>
       fsk[f].sched = fsk[f].sched_nr /\ schk[fsk[f].sched] # NULL
  /\ \A f \in FsNrs : fsk[f] # NULL /\ fsk[f].qht # NULL =>
       fsk[f].qht = fsk[f].sched /\ schk[fsk[f].qht].inst
  /\ ~panicked =>
       /\ \A s \in SchedNrs : s \in schedhash <=> schk[s] # NULL
       /\ \A f \in FsNrs : fsk[f] # NULL /\ fsk[f].sched_nr \in schedhash =>
            fsk[f].sched = fsk[f].sched_nr

\* The counters agree with what they count.  q_count is what keeps the drain from
\* freeing an instance with queues.  The counters of objects, of which half the
\* schedulers are taken for pipes, give compute_space() enough for all that
\* dummynet_get() copies: no reply is cut short (copy_obj(), ip_dummynet.c:833).
CountersOK ==
  /\ \A s \in SchedNrs : schk[s] # NULL =>
       schk[s].q_count = Cardinality({f \in FsNrs : fsk[f] # NULL /\ fsk[f].qht = s})
  /\ Ready => \A req \in Requests : \A k \in DOMAIN Reply(req) :
       Cardinality(Reply(req)[k]) <= compute_space(req)[k]

\* Between commands a scheduler and its FIFO twin exist together, and their links
\* have the same parameters: config_sched() deletes and creates schedulers, and
\* "preserve link" must hold for both.
TwinsAgree ==
  cmd = NULL /\ ~panicked =>
    \A i \in BaseNrs :
      /\ i \in schedhash <=> i + N \in schedhash
      /\ i \in schedhash => /\ schk[i + N].type = FIFO
                            /\ schk[i].link = schk[i + N].link

\* config_sched() ends: deleting and allocating again is not repeated forever.
ConfigReturns == (cmd # NULL) ~> (cmd = NULL \/ panicked)
=============================================================================
