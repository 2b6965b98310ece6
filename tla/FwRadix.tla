------------------------------ MODULE FwRadix ------------------------------
(***************************************************************************)
(* A lookup table of ipfw (ip_fw_table.c) and the radix tree that holds it *)
(* (sys/net/radix.c).  The tree has a leaf for each address; entries with  *)
(* the same address and different masks hang off one leaf in a chain, the  *)
(* longest mask first.  An internal node tests one bit.  An entry that may *)
(* also match addresses which end elsewhere in the tree is annotated in    *)
(* the mask list of the highest internal node below which all addresses    *)
(* have the bits of the entry; a lookup climbs from the leaf it reaches    *)
(* and tries these lists.  Every operation runs under the lock of the rule *)
(* chain, so it is one step.                                               *)
(*                                                                         *)
(* A table_entry is identified by its prefix <<address, length>>: its      *)
(* memory holds a leaf and an internal node, <<p, 0>> and <<p, 1>>.  Bits  *)
(* are counted from the start of the sockaddr, whose first byte is the     *)
(* length, and a radix_mask is named after the leaf it was made for.  All  *)
(* masks of a table are contiguous: the one that the code does not flag as *)
(* "normal" is that of length 0.  Memory for masks is always found.        *)
(***************************************************************************)
EXTENDS Integers, SequencesExt

CONSTANTS
  TablePrefixes, \* the prefixes that commands may name
  AddrBits,      \* 32 in the code
  ByteBits,      \* 8 in the code
  MaxEntries     \* bound on the number of entries

\* KEY_OFS: the address starts after the length byte.
KEY_OFS == ByteBits
Addrs == 0..(2^AddrBits - 1)
AllOnes == 2^AddrBits - 1

\* The bit of address a at position i
Bit(a, i) == (a \div 2^(KEY_OFS + AddrBits - 1 - i)) % 2 = 1

Covers(p, a) == \A i \in KEY_OFS..(KEY_OFS + p[2] - 1) : Bit(a, i) = Bit(p[1], i)

\* The address of an entry is masked, and the last address has no entry: see the
\* README for what becomes of an entry that has it.
ASSUME RadixAssumption ==
  /\ AddrBits \in Nat \ {0} /\ ByteBits \in Nat \ {0} /\ MaxEntries \in Nat
  /\ \A p \in TablePrefixes :
       /\ p[1] \in Addrs \ {AllOnes} /\ p[2] \in 0..AddrBits
       /\ \A i \in (KEY_OFS + p[2])..(KEY_OFS + AddrBits - 1) : ~Bit(p[1], i)

VARIABLES
  node,     \* the nodes: those of the entries and the three of the table itself
  res       \* the result of the last command

vars == <<node, res>>

-----------------------------------------------------------------------------
NULL == <<>>
Table == <<>>    \* the radix_node_head, in the place of an entry
Leaf(p) == <<p, 0>>
Top == <<Table, 1>>
LeftEnd == <<Table, 0>>
RightEnd == <<Table, 2>>
NoMask == -1

Nodes == {Leaf(p) : p \in TablePrefixes} \cup {<<p, 1>> : p \in TablePrefixes}
         \cup {LeftEnd, Top, RightEnd}

\* struct radix_node.  rn_mklist of a leaf is its own annotation, or NULL.
Zeroed == [bit |-> 0, parent |-> NULL, L |-> NULL, R |-> NULL, key |-> 0,
           mask |-> NoMask, dup |-> NULL, mklist |-> <<>>, active |-> FALSE]

IsRoot(x) == x \in {LeftEnd, Top, RightEnd}

\* rn_addmask(): where the mask of length l has its first 0, and whether the mask is
\* flagged as normal.  An empty mask is found to be the left end of the mask tree.
Index(l) == IF l = 0 THEN 0 ELSE KEY_OFS + l
Normal(l) == l > 0

\* The length of the mask in whole bytes, in bits: where exact comparison ends.
ByteEnd(l) == IF l = 0 THEN 0 ELSE KEY_OFS + ByteBits * ((l + ByteBits - 1) \div ByteBits)

\* rn_refines() and rn_lexobetter() on contiguous masks
Refines_mutantOrder(l, k) == l < k

Refines(l, k) == l > k

-----------------------------------------------------------------------------
Child(n, x, v) == IF Bit(v, n[x].bit) THEN n[x].R ELSE n[x].L

\* rn_search(v), from node x
RECURSIVE rn_search(_, _, _)
rn_search(n, x, v) == IF n[x].bit < 0 THEN x ELSE rn_search(n, Child(n, x, v), v)

\* rn_search_m() with the empty mask, and the way down in rn_walktree()
RECURSIVE Leftmost(_, _)
Leftmost(n, x) == IF n[x].bit < 0 THEN x ELSE Leftmost(n, n[x].L)

\* The chain of entries with the address of leaf x.
RECURSIVE Chain(_, _)
Chain(n, x) == IF x = NULL THEN <<>> ELSE <<x>> \o Chain(n, n[x].dup)

FirstDiff(a, b) ==
  CHOOSE i \in KEY_OFS..(KEY_OFS + AddrBits - 1) :
    Bit(a, i) # Bit(b, i) /\ \A j \in KEY_OFS..(i - 1) : Bit(a, j) = Bit(b, j)

\* The first position of list s that satisfies Test, or the one after its end.
FirstAt(s, Test(_)) ==
  CHOOSE k \in 1..(Len(s) + 1) :
    (k = Len(s) + 1 \/ Test(s[k])) /\ \A j \in 1..(k - 1) : ~Test(s[j])

\* Node new takes the place of old below p.
Relink(n, p, old, new) ==
  IF n[p].L = old THEN [n EXCEPT ![p].L = new] ELSE [n EXCEPT ![p].R = new]

\* *to = *from for an internal node, and the links that lead to it.
MoveNode(n, from, to) ==
  LET n1 == Relink([n EXCEPT ![to] = n[from]], n[from].parent, from, to)
  IN  [n1 EXCEPT ![n1[to].L].parent = to, ![n1[to].R].parent = to]

-----------------------------------------------------------------------------
\* rn_insert(): the node after whose bit the new pair goes, from x down.
RECURSIVE Above(_, _, _, _)
Above(n, x, v, b) ==
  LET y == Child(n, x, v)
  IN  IF n[y].bit >= 0 /\ b > n[y].bit THEN Above(n, y, v, b) ELSE x

\* The rest of rn_insert() and rn_newpair(), for an address that is new.
Inserted(n, e, b) ==
  LET v == e[1]
      p == Above(n, Top, v, b)
      x == Child(n, p, v)
      leaf == [Zeroed EXCEPT !.bit = -1, !.key = v, !.parent = <<e, 1>>, !.active = TRUE]
      pair == [Zeroed EXCEPT !.bit = b, !.parent = p, !.active = TRUE,
                             !.L = IF Bit(v, b) THEN x ELSE Leaf(e),
                             !.R = IF Bit(v, b) THEN Leaf(e) ELSE x]
  IN  [Relink(n, p, x, <<e, 1>>) EXCEPT ![x].parent = <<e, 1>>,
                                       ![Leaf(e)] = leaf, ![<<e, 1>>] = pair]

\* rn_addroute(): the entry joins the chain that starts at head, before its
\* element number k.
Chained(n, e, head, k) ==
  LET chain == Chain(n, head)
      leaf == [Zeroed EXCEPT !.bit = -1, !.key = e[1], !.active = TRUE]
      up == n[head].parent
      t == chain[k - 1]
      next == n[t].dup
      n1 == [n EXCEPT ![t].dup = Leaf(e), ![Leaf(e)] = [leaf EXCEPT !.dup = next, !.parent = t]]
  IN  IF k = 1
      THEN [Relink(n, up, head, Leaf(e)) EXCEPT
              ![head].parent = Leaf(e),
              ![Leaf(e)] = [leaf EXCEPT !.dup = head, !.parent = up]]
      ELSE IF next = NULL THEN n1 ELSE [n1 EXCEPT ![next].parent = Leaf(e)]

\* ... "Promote general routes from below" to the new internal node of e.
Promoted(n, e) ==
  LET t == <<e, 1>>
      x == IF n[t].R = Leaf(e) THEN n[t].L ELSE n[t].R
      b == -1 - n[t].bit
      general == SelectSeq(Chain(n, x), LAMBDA y : /\ n[y].mask # NoMask /\ n[y].bit >= b
                                                  /\ n[y].mklist = <<>>)
      list == n[x].mklist
      k == FirstAt(list, LAMBDA m : n[m].bit >= b)
  IN  IF n[x].bit < 0
      THEN [y \in DOMAIN n |->
              IF y = t THEN [n[y] EXCEPT !.mklist = general]
              ELSE IF y \in ToSet(general) THEN [n[y] EXCEPT !.mklist = <<y>>] ELSE n[y]]
      ELSE [n EXCEPT ![t].mklist = SubSeq(list, k, Len(list)),
                     ![x].mklist = SubSeq(list, 1, k - 1)]

\* The highest node from t up that still tests bit b or a later one.
RECURSIVE Lifted(_, _, _)
Lifted(n, t, b) ==
  LET up == n[t].parent
  IN  IF b <= n[up].bit /\ t # Top THEN Lifted(n, up, b) ELSE t

\* ... "Add new route to highest possible ancestor's list", t being the node above
\* the chain of the entry.
Annotated(n, e, t) ==
  LET tt == Leaf(e)
      b == Index(e[2])
      x == Lifted(n, t, b)
      list == n[x].mklist
      k == FirstAt(list, LAMBDA m : n[m].bit >= n[tt].bit)
      same == k <= Len(list) /\ n[list[k]].bit = n[tt].bit
  IN  IF b > n[t].bit \/ same THEN n
      ELSE [n EXCEPT ![x].mklist = InsertAt(list, k, tt), ![tt].mklist = <<tt>>]

\* rn_addroute() of entry e; the result is n itself when the entry exists.
rn_addroute(n, e) ==
  LET t == rn_search(n, Top, e[1])
      chain == Chain(n, t)
      k == FirstAt(chain, LAMBDA y : n[y].mask = e[2] \/ (n[y].mask # NoMask /\ Refines(e[2], n[y].mask)))
      Masked(m) == [m EXCEPT ![Leaf(e)].mask = e[2], ![Leaf(e)].bit = -1 - Index(e[2])]
  IN  IF n[t].key # e[1]
      THEN Annotated(Promoted(Masked(Inserted(n, e, FirstDiff(e[1], n[t].key))), e), e, <<e, 1>>)
      ELSE IF k <= Len(chain) /\ n[chain[k]].mask = e[2] THEN n
      ELSE LET n1 == Masked(Chained(n, e, t, k))
           IN  Annotated(n1, e, n[t].parent)

-----------------------------------------------------------------------------
\* rn_delete(): the annotation of leaf tt, below the node t, is taken out of its
\* list; the result says whether it was found.
Unannotated(n, tt, t) ==
  LET b == -1 - n[tt].bit
      x == Lifted(n, t, b)
  IN  IF n[tt].mklist = <<>> \/ b > n[t].bit THEN [ok |-> TRUE, n |-> n]
      ELSE [ok |-> Contains(n[x].mklist, tt) \/ ~Normal(n[tt].mask),
            n |-> [n EXCEPT ![x].mklist = Remove(@, tt)]]

\* ... tt leaves the chain that starts at head; if the internal node of its entry is
\* in use, the entry at the start of the chain provides another one.
Unchained(n, tt, head) ==
  LET next == n[tt].dup
      prev == CHOOSE y \in ToSet(Chain(n, head)) : n[y].dup = tt
      first == IF tt = head THEN next ELSE head
      n1 == IF tt = head
            THEN [Relink(n, n[tt].parent, tt, next) EXCEPT ![next].parent = n[tt].parent]
            ELSE IF next = NULL THEN [n EXCEPT ![prev].dup = NULL]
            ELSE [n EXCEPT ![prev].dup = next, ![next].parent = prev]
      own == <<tt[1], 1>>
  IN  IF n1[own].active THEN MoveNode(n1, own, <<first[1], 1>>) ELSE n1

\* ... "Demote routes attached to us": the mask list of t goes to its child x, or
\* back to the leaves if x is one.
Demoted_mutantLost(n, t, x) == n

Demoted(n, t, x) ==
  IF n[x].bit >= 0 THEN [n EXCEPT ![x].mklist = @ \o n[t].mklist]
  ELSE [y \in DOMAIN n |-> IF y \in ToSet(n[t].mklist) /\ y \in ToSet(Chain(n, x))
                           THEN [n[y] EXCEPT !.mklist = <<>>] ELSE n[y]]

\* ... tt, alone with its address, leaves the tree with the node t above it; if that
\* is not the internal node of its entry, t replaces the one that is.
Removed(n, tt) ==
  LET t == n[tt].parent
      x == IF n[t].L = tt THEN n[t].R ELSE n[t].L
      n1 == [Relink(n, n[t].parent, t, x) EXCEPT ![x].parent = n[t].parent]
      n2 == Demoted(n1, t, x)
      own == <<tt[1], 1>>
  IN  IF t = own THEN n2 ELSE MoveNode(n2, own, t)

\* rn_delete() of entry e, and the free() that follows; the result is n itself when
\* the entry is not found.
rn_delete(n, e) ==
  LET head == rn_search(n, Top, e[1])
      tts == {y \in ToSet(Chain(n, head)) : n[y].mask = e[2]}
      tt == CHOOSE y \in tts : TRUE
      u == Unannotated(n, tt, n[head].parent)
      n1 == IF n[head].dup # NULL THEN Unchained(u.n, tt, head) ELSE Removed(u.n, tt)
  IN  IF n[head].key # e[1] \/ tts = {} \/ ~u.ok THEN n
      ELSE [n1 EXCEPT ![tt] = Zeroed, ![<<tt[1], 1>>] = Zeroed]

-----------------------------------------------------------------------------
\* rn_match(): the leaf of the chain of t that matches v, which differs from the
\* address of t at bit b, or NULL.
InChain(n, t, b) ==
  LET chain == SelectSeq(Chain(n, t), LAMBDA y : n[y].mask # NoMask)
      k == FirstAt(chain, LAMBDA y : ~Normal(n[y].mask) \/ b >= Index(n[y].mask))
  IN  IF k <= Len(chain) THEN chain[k] ELSE NULL

\* ... the same for the mask lists from node t up.
RECURSIVE InLists(_, _, _)
InLists(n, t, b) ==
  LET list == n[t].mklist
      Default == {y \in ToSet(Chain(n, Leftmost(n, t))) : n[y].mask = 0}
      k == FirstAt(list, LAMBDA m : IF Normal(n[m].mask) THEN b >= Index(n[m].mask)
                                    ELSE Default # {})
  IN  IF k > Len(list)
      THEN IF t = Top THEN NULL ELSE InLists(n, n[t].parent, b)
      ELSE IF Normal(n[list[k]].mask) THEN list[k] ELSE CHOOSE y \in Default : TRUE

\* rn_match() of address v; the leaf that is reached matches if it agrees with v in
\* all the bytes of its mask.
rn_match(n, v) ==
  LET t == rn_search(n, Top, v)
      end == IF n[t].mask = NoMask THEN KEY_OFS + AddrBits ELSE ByteEnd(n[t].mask)
      exact == \A i \in KEY_OFS..(end - 1) : Bit(v, i) = Bit(n[t].key, i)
      b == FirstDiff(v, n[t].key)
      leaf == InChain(n, t, b)
  IN  IF exact THEN IF IsRoot(t) THEN n[t].dup ELSE t
      ELSE IF leaf # NULL THEN leaf
      ELSE InLists(n, n[t].parent, b)

\* rn_walktree(): the leaf that follows leaf x
RECURSIVE UpFromRight(_, _)
UpFromRight(n, x) ==
  IF n[n[x].parent].R = x /\ ~IsRoot(x) THEN UpFromRight(n, n[x].parent) ELSE x

NextLeaf(n, x) == Leftmost(n, n[n[UpFromRight(n, x)].parent].R)

\* rn_walktree() from leaf x, with a function that changes nothing: the leaves that
\* it is called for.  The walk ends when it reaches the right end.
RECURSIVE Walk(_, _)
Walk(n, x) ==
  SelectSeq(Chain(n, x), LAMBDA y : ~IsRoot(y))
  \o (IF IsRoot(NextLeaf(n, x)) THEN <<>> ELSE Walk(n, NextLeaf(n, x)))

\* ipfw_dump_table() copies the entries in the order of the walk; the buffer was
\* sized by ipfw_count_table(), which walks in the same way.
ipfw_dump_table(n) == Walk(n, Leftmost(n, Top))

\* ipfw_lookup_table(): the entry found for an address, in a set
ipfw_lookup_table(n, a) == {<<n[y].key, n[y].mask>> : y \in {rn_match(n, a)} \ {NULL}}

\* rn_walktree() with flush_table_entry(), which deletes the leaf it is called for:
\* each successor is found before the deletion.
RECURSIVE FlushChain_mutantAfter(_, _)
FlushChain_mutantAfter(n, x) ==
  LET m == IF x = NULL \/ IsRoot(x) THEN n ELSE rn_delete(n, <<n[x].key, n[x].mask>>)
  IN  IF x = NULL THEN n ELSE FlushChain_mutantAfter(m, m[x].dup)

RECURSIVE FlushChain(_, _)
FlushChain(n, x) ==
  IF x = NULL THEN n
  ELSE FlushChain(IF IsRoot(x) THEN n ELSE rn_delete(n, <<n[x].key, n[x].mask>>), n[x].dup)

RECURSIVE FlushWalk(_, _)
FlushWalk(n, x) ==
  LET next == NextLeaf(n, x)
  IN  IF IsRoot(next) THEN FlushChain(n, x) ELSE FlushWalk(FlushChain(n, x), next)

-----------------------------------------------------------------------------
\* ipfw_add_table_entry()
AddEntry(e) ==
  /\ Cardinality({p \in TablePrefixes : node[Leaf(p)].active}) < MaxEntries
  /\ node' = rn_addroute(node, e)
  /\ res' = IF rn_addroute(node, e) = node THEN "EEXIST" ELSE "OK"

\* ipfw_del_table_entry()
DelEntry(e) ==
  /\ node' = rn_delete(node, e)
  /\ res' = IF rn_delete(node, e) = node THEN "ESRCH" ELSE "OK"

\* ipfw_flush_table()
FlushTable ==
  /\ node' = FlushWalk(node, Leftmost(node, Top))
  /\ res' = "OK"

\* rn_inithead()
Init ==
  /\ node = [x \in Nodes |->
       CASE x = Top -> [Zeroed EXCEPT !.bit = KEY_OFS, !.parent = Top, !.L = LeftEnd,
                                      !.R = RightEnd, !.active = TRUE]
         [] x \in {LeftEnd, RightEnd} ->
              [Zeroed EXCEPT !.bit = -1 - KEY_OFS, !.parent = Top, !.active = TRUE,
                             !.key = IF x = LeftEnd THEN 0 ELSE AllOnes]
         [] OTHER -> Zeroed]
  /\ res = "OK"

Next ==
  \/ \E e \in TablePrefixes : AddEntry(e) \/ DelEntry(e)
  \/ FlushTable

Spec == Init /\ [][Next]_vars

-----------------------------------------------------------------------------
Entries == {p \in TablePrefixes : node[Leaf(p)].active}

\* The table obeys the commands: an entry is there if it was added and not removed
\* since, and the results say so.
TableImpl == INSTANCE FwTable WITH entries <- Entries

TableSpec == TableImpl!Spec

\* A lookup finds the entry with the longest prefix that covers the address, and none
\* only if there is none, whatever was added and removed before: ipfw_lookup_table().
\* The last address is not among those asked for.
LongestMatch ==
  \A a \in Addrs \ {AllOnes} :
    ipfw_lookup_table(node, a) = TableImpl!Answers(a)

\* The pointers of the tree agree with each other and lead to memory in use only:
\* parents and children, the chains, which are sorted by mask, and the mask lists,
\* which name each annotated entry once, sorted by mask.  The walk that lists, counts
\* and flushes the table calls its function once for each entry, in the order of the
\* addresses.
TreeOK ==
  /\ \A x \in Nodes : node[x].active /\ node[x].bit >= 0 =>
       /\ node[node[x].L].parent = x /\ node[node[x].R].parent = x
       /\ node[node[x].L].active /\ node[node[x].R].active
       /\ \A k \in DOMAIN node[x].mklist :
            LET m == node[x].mklist[k]
            IN  /\ node[m].active /\ node[m].mklist = <<m>>
                /\ k > 1 => node[node[x].mklist[k - 1]].bit < node[m].bit
  /\ \A x \in Nodes : node[x].active /\ node[x].bit < 0 /\ node[x].dup # NULL =>
       LET y == node[x].dup
       IN  /\ node[y].active /\ node[y].parent = x /\ node[y].key = node[x].key
           /\ node[x].mask # NoMask => node[x].mask > node[y].mask
  /\ \A p \in Entries :
       Cardinality({x \in Nodes : node[x].bit >= 0 /\ Contains(node[x].mklist, Leaf(p))})
         = IF node[Leaf(p)].mklist = <<>> THEN 0 ELSE 1
  /\ LET walk == ipfw_dump_table(node)
     IN  /\ ToSet(walk) = {Leaf(p) : p \in Entries} /\ IsInjective(walk)
         /\ \A j, k \in DOMAIN walk : j < k => node[walk[j]].key <= node[walk[k]].key
=============================================================================
