------------------------------- MODULE BTree --------------------------------
(***************************************************************************)
(* The B-tree engine of the chapter 3 lab, src/src/modules/btree.ts: pages *)
(* of at most Order keys, splits that climb to the root, a redo log that   *)
(* rebuilds the tree.                                                      *)
(*                                                                         *)
(* Keys are ordered as numbers; the value of a put is its number.  Pages   *)
(* are numbered as they are allocated.  Counters of costs are left out.    *)
(***************************************************************************)
EXTENDS Integers, Sequences, FiniteSets, SequencesExt, TLC

CONSTANTS
  Key,            \* a set of numbers
  Order,          \* BTREE_ORDER
  Within(_)       \* bound: the writes and faults of a behaviour

VARIABLES
  state,          \* of the node
  hist            \* history: what was acknowledged, and what was used

vars == <<state, hist>>

Deleted == 0
Faults  == {"crash-mid-write", "disk-full", "recover"}

EmptyLeaf == [leaf |-> TRUE, keys |-> <<>>, vals |-> <<>>, children |-> <<>>]

Fresh == [pages |-> <<EmptyLeaf>>, rootId |-> 1, height |-> 1, wal |-> <<>>, diskFull |-> FALSE]

Init ==
  /\ state = Fresh
  /\ hist = [latest |-> [k \in Key |-> Deleted], writes |-> 0, deletes |-> 0,
             faults |-> [f \in Faults |-> 0]]

-----------------------------------------------------------------------------
(* The child after the last separator not above the key. *)
ChildFor(page, key) ==
  LET below == {i \in DOMAIN page.keys : key >= page.keys[i]}
  IN page.children[1 + (IF below = {} THEN 0 ELSE CHOOSE i \in below : \A j \in below : j <= i)]

(* The pages from the root to the leaf of the key. *)
FindLeaf(s, key) ==
  LET path[p \in DOMAIN s.pages] ==
        IF s.pages[p].leaf THEN <<p>>
        ELSE <<p>> \o path[ChildFor(s.pages[p], key)]
  IN path[s.rootId]

BtreeGet(s, key) ==
  LET leaf == s.pages[Last(FindLeaf(s, key))]
      at   == {i \in DOMAIN leaf.keys : leaf.keys[i] = key}
  IN IF at = {} THEN Deleted ELSE leaf.vals[CHOOSE i \in at : TRUE]

LeafInsert(leaf, key, val) ==
  LET at == {i \in DOMAIN leaf.keys : leaf.keys[i] = key}
      i  == 1 + Cardinality({j \in DOMAIN leaf.keys : leaf.keys[j] < key})
  IN IF at # {} THEN [leaf EXCEPT !.vals[CHOOSE x \in at : TRUE] = val]
     ELSE [leaf EXCEPT !.keys = InsertAt(@, i, key), !.vals = InsertAt(@, i, val)]

(* A leaf's separator stays in the right half, an index page's leaves both.*)
Halves(node) ==
  LET mid == Len(node.keys) \div 2
      Up(seq, n) == SubSeq(seq, n + 1, Len(seq))
  IN IF node.leaf
     THEN [left  |-> [node EXCEPT !.keys = SubSeq(@, 1, mid), !.vals = SubSeq(@, 1, mid)],
           right |-> [node EXCEPT !.keys = Up(@, mid), !.vals = Up(@, mid)],
           separator |-> node.keys[mid + 1]]
     ELSE [left  |-> [node EXCEPT !.keys = SubSeq(@, 1, mid), !.children = SubSeq(@, 1, mid + 1)],
           right |-> [node EXCEPT !.keys = Up(@, mid + 1), !.children = Up(@, mid + 1)],
           separator |-> node.keys[mid + 1]]

(* The separator of a split is put at the end of its parent. *)
LiftedAtEnd(parent, child, separator, rightId) ==
  [parent EXCEPT !.keys = Append(@, separator), !.children = Append(@, rightId)]

Lifted(parent, child, separator, rightId) ==
  LET i == CHOOSE x \in DOMAIN parent.children : parent.children[x] = child
  IN [parent EXCEPT !.keys = InsertAt(@, i, separator),
                    !.children = InsertAt(@, i + 1, rightId)]

(* One round of the loop: the page at this depth of the path.              *)
SplitPage(s, path, depth) ==
  LET cur == path[depth]
      h   == Halves(s.pages[cur])
      rightId == Len(s.pages) + 1
      split == [s EXCEPT !.pages = Append([@ EXCEPT ![cur] = h.left], h.right)]
      root  == [leaf |-> FALSE, keys |-> <<h.separator>>, vals |-> <<>>,
                children |-> <<cur, rightId>>]
  IN CASE Len(s.pages[cur].keys) <= Order -> s
       [] Len(s.pages[cur].keys) > Order /\ cur = s.rootId ->
            [split EXCEPT !.pages = Append(@, root), !.rootId = rightId + 1, !.height = @ + 1]
       [] OTHER ->
            [split EXCEPT !.pages[path[depth - 1]] = Lifted(@, cur, h.separator, rightId)]

(* From the leaf up.  The loop ends at the first page that fits: above it  *)
(* nothing was lifted, so the rest of the path fits too.                   *)
SplitUp(s, path) ==
  IF s.diskFull THEN s
  ELSE FoldRight(LAMBDA depth, x : SplitPage(x, path, depth), [i \in DOMAIN path |-> i], s)

ApplyWrite(s, key, val) ==
  LET path == FindLeaf(s, key)
      with == [s EXCEPT !.wal = Append(@, [key |-> key, val |-> val]),
                        !.pages[Last(path)] = LeafInsert(@, key, val)]
  IN SplitUp(with, path)

(* The log replayed into a fresh tree: there is room on the disk again.    *)
RebuildFromWal(s) == FoldLeft(LAMBDA x, r : ApplyWrite(x, r.key, r.val), Fresh, s.wal)

AfterFault(s, f) == IF f = "disk-full" THEN [s EXCEPT !.diskFull = TRUE] ELSE RebuildFromWal(s)

-----------------------------------------------------------------------------
Write(key, val) ==
  /\ state' = ApplyWrite(state, key, val)
  /\ hist' = [hist EXCEPT !.latest[key] = val, !.writes = @ + 1,
                          !.deletes = IF val = Deleted THEN @ + 1 ELSE @]
  /\ Within(hist')

Put    == \E key \in Key : Write(key, hist.writes + 1)
Delete == \E key \in Key : Write(key, Deleted)

Fault(f) ==
  /\ state' = AfterFault(state, f)
  /\ hist' = [hist EXCEPT !.faults[f] = @ + 1]
  /\ Within(hist')

Next == Put \/ Delete \/ \E f \in Faults : Fault(f)

Spec == Init /\ [][Next]_vars

-----------------------------------------------------------------------------
(* Properties.                                                             *)

TypeOK ==
  /\ state.rootId \in DOMAIN state.pages /\ state.diskFull \in BOOLEAN
  /\ \A p \in DOMAIN state.pages :
       LET page == state.pages[p] IN
       /\ Range(page.keys) \subseteq Key /\ Range(page.children) \subseteq DOMAIN state.pages
       /\ IF page.leaf THEN Len(page.vals) = Len(page.keys)
          ELSE Len(page.children) = Len(page.keys) + 1

(* The keys of a subtree lie between the separators around it. *)
Between(page, i, keys) ==
  \A k \in keys : /\ i > 1 => page.keys[i - 1] <= k
                  /\ i <= Len(page.keys) => k < page.keys[i]

Ordered(keys) == \A i \in 1..Len(keys) - 1 : keys[i] < keys[i + 1]

(* At every moment, with the disk full or after a crash, a descent from    *)
(* the root finds the last value acknowledged of every key: splits move    *)
(* keys between pages and never past a separator (btree.ts: findLeaf and   *)
(* splitUp agree on which side a separator's own key is).                  *)
ReadsLatest == \A k \in Key : BtreeGet(state, k) = hist.latest[k]

(* The tree is a B-tree: keys in order, each subtree between its           *)
(* separators, every leaf at depth `height' - what the lab shows as the    *)
(* cost of a read - and no page above Order unless the disk is full        *)
(* (btree.ts:118-125).                                                     *)
Balanced ==
  LET height[p \in DOMAIN state.pages] ==
        IF state.pages[p].leaf THEN {1}
        ELSE {1 + h : h \in UNION {height[c] : c \in Range(state.pages[p].children)}}
      keys[p \in DOMAIN state.pages] ==
        Range(state.pages[p].keys) \cup UNION {keys[c] : c \in Range(state.pages[p].children)}
  IN /\ height[state.rootId] = {state.height}
     /\ \A p \in DOMAIN state.pages :
          LET page == state.pages[p] IN
          /\ Ordered(page.keys)
          /\ Len(page.keys) <= Order \/ (page.leaf /\ state.diskFull)
          /\ \A i \in DOMAIN page.children : Between(page, i, keys[page.children[i]])
=============================================================================
