-------------------------------- MODULE BTree --------------------------------
(***************************************************************************)
(* The B+ tree under heads, vectors and terminals (store/hexastore/btree.c)*)
(* as it lies in memory: pages with a sorted array of (key, child) pairs,  *)
(* a pointer to the parent and a doubly linked list through the pages of a *)
(* level.  An inner page has, for each child, a key that is at least every *)
(* key below the child.                                                    *)
(*                                                                         *)
(* An operator with an underscore in its name is a mutated form of the one *)
(* it is named after, a bug this code might have had, and is used by no    *)
(* specification.                                                          *)
(***************************************************************************)
EXTENDS Integers, Sequences, SequencesExt, FiniteSets, FiniteSetsExt

CONSTANTS
  Key,        \* keys that are inserted and removed
  Branching   \* branching_size

ASSUME KeyAssumption       == Key \subseteq Nat \ {0}
ASSUME BranchingAssumption == Branching \in Nat /\ Branching >= 2

VARIABLES
  root,       \* tree->root, a page
  page,       \* the memory: a function from the pages in use to their fields
  stored,     \* history: the keys inserted and not removed
  complaints  \* the "***" messages remove has printed

vars == <<root, page, stored, complaints>>

NULL == 0     \* pages are numbered from 1

Entry(k, c) == [key |-> k, child |-> c]
NewPage     == [leaf |-> FALSE, parent |-> NULL, prev |-> NULL, next |-> NULL,
                ptr |-> <<>>]
Used(H, n)  == Len(H[n].ptr)
LastKey(H, n) == H[n].ptr[Used(H, n)].key

\* malloc: any number that is not in use would do.
FreshPage(H) == Min({n \in 1..Cardinality(DOMAIN H) + 1 : n \notin DOMAIN H})
With(H, n, fields) == [m \in DOMAIN H \cup {n} |-> IF m = n THEN fields ELSE H[m]]

-----------------------------------------------------------------------------
(* Pages.                                                                  *)

RECURSIVE Bisect(_, _, _, _)
Bisect(ptr, k, low, high) ==
  LET mid == low + (high - low) \div 2
  IN  IF low > high THEN [found |-> FALSE, index |-> low]
      ELSE IF ptr[mid].key > k THEN Bisect(ptr, k, low, mid - 1)
      ELSE IF ptr[mid].key < k THEN Bisect(ptr, k, mid + 1, high)
      ELSE [found |-> TRUE, index |-> mid]

BinarySearch(ptr, k) == Bisect(ptr, k, 1, Len(ptr))

Added   == 0
Already == 1
Full    == 2

\* hx_btree_node_add_child
AddChildResult(H, n, k) ==
  IF BinarySearch(H[n].ptr, k).found THEN Already
  ELSE IF Used(H, n) >= Branching THEN Full ELSE Added

AddChild(H, n, k, c) ==
  IF AddChildResult(H, n, k) # Added THEN H
  ELSE [H EXCEPT ![n].ptr = InsertAt(@, BinarySearch(@, k).index, Entry(k, c))]

\* A key that equals that of a child is looked for in the next one.
ChildIndex_Strict(ptr, k) ==
  Min({i \in 1..Len(ptr) : i < Len(ptr) => k < ptr[i].key})

\* The first child whose key is not below k, or else the last one.
ChildIndex(ptr, k) ==
  Min({i \in 1..Len(ptr) : i < Len(ptr) => k <= ptr[i].key})

RECURSIVE SearchPage(_, _, _)
SearchPage(H, n, k) ==
  IF H[n].leaf THEN n
  ELSE SearchPage(H, H[n].ptr[ChildIndex(H[n].ptr, k)].child, k)

\* hx_btree_node_search
Search(H, r, k) == BinarySearch(H[SearchPage(H, r, k)].ptr, k).found

\* _hx_btree_node_reset_keys
ResetKeys(H, n) ==
  [H EXCEPT ![n].ptr = [i \in 1..Len(@) |-> Entry(LastKey(H, @[i].child), @[i].child)]]

\* hx_btree_node_set_parent for the children in a range of entries.
Adopt(H, n, entries) ==
  LET children == {entries[i].child : i \in 1..Len(entries)}
  IN  [m \in DOMAIN H |-> IF m \in children THEN [H[m] EXCEPT !.parent = n] ELSE H[m]]

-----------------------------------------------------------------------------
(* Insertion.                                                              *)

Half(H, n) == Used(H, n) \div 2
Lower(H, n) == SubSeq(H[n].ptr, 1, Used(H, n) - Half(H, n))
Upper(H, n) == SubSeq(H[n].ptr, Used(H, n) - Half(H, n) + 1, Used(H, n))

\* The child is not linked to the new page; it has no key.
LowerPage_NoNext(H, child, z) == [H[child] EXCEPT !.ptr = Lower(H, child)]
LowerKey_Unset(H, child) == NULL

\* What a split makes of a child, of the new page, and of the child's key.
LowerPage(H, child, z) == [H[child] EXCEPT !.next = z, !.ptr = Lower(H, child)]
UpperPage(H, n, child) ==
  [H[child] EXCEPT !.parent = n, !.prev = child, !.ptr = Upper(H, child)]
LowerKey(H, child)     == H[child].ptr[Used(H, child) - Half(H, child)].key

\* _hx_btree_node_split_child: the upper half of a child moves to a page z of
\* its own, next to it.  The pages below z keep their parent.
SplitChild(H, n, i, child) ==
  LET z == FreshPage(H)
  IN  AddChild(
        [m \in DOMAIN H \cup {z} |->
           CASE m = z             -> UpperPage(H, n, child)
             [] m = child         -> LowerPage(H, child, z)
             [] m = H[child].next -> [H[m] EXCEPT !.prev = z]
             [] m = n             -> [H[m] EXCEPT !.ptr[i].key = LowerKey(H, child)]
             [] OTHER             -> H[m]],
        n, LastKey(H, child), z)

\* _hx_btree_node_insert_nonfull: [heap, result].  On the way down the key of
\* the child is raised to the key that is inserted below it.
RECURSIVE InsertNonfull(_, _, _)
InsertBelow(H, n, j, k) ==
  InsertNonfull(IF k > H[n].ptr[j].key THEN [H EXCEPT ![n].ptr[j].key = k] ELSE H,
                H[n].ptr[j].child, k)

InsertAfterSplit(H, n, i, k) ==
  InsertBelow(H, n, IF k > H[n].ptr[i].key THEN i + 1 ELSE i, k)

InsertNonfull(H, n, k) ==
  IF H[n].leaf
  THEN [heap |-> AddChild(H, n, k, NULL), result |-> AddChildResult(H, n, k)]
  ELSE LET i == ChildIndex(H[n].ptr, k)
           u == H[n].ptr[i].child
       IN  IF Used(H, u) = Branching
           THEN InsertAfterSplit(SplitChild(H, n, i, u), n, i, k)
           ELSE InsertBelow(H, n, i, k)

\* A new root s above the root r, with r as its only child.
Grown(H, r, s) ==
  AddChild([With(H, s, NewPage) EXCEPT ![r].parent = s], s, LastKey(H, r), r)

\* hx_btree_node_insert: [root, heap].
InsertKey(H, r, k) ==
  IF Used(H, r) < Branching
  THEN [root |-> r, heap |-> InsertNonfull(H, r, k).heap]
  ELSE LET s == FreshPage(H)
       IN  [root |-> s,
            heap |-> InsertNonfull(SplitChild(Grown(H, r, s), s, 1, r), s, k).heap]

-----------------------------------------------------------------------------
(* Removal.                                                                *)

Minimal == Branching \div 2

\* AddChild for each entry in turn, then their pages get n as their parent.
AddEntries(H, n, entries) ==
  LET filled == FoldLeft(LAMBDA G, e : AddChild(G, n, e.key, e.child), H, entries)
  IN  IF H[n].leaf THEN filled ELSE Adopt(filled, n, entries)

\* How many entries of `from' are taken.
Taken(H, from) == (Used(H, from) - Minimal + 1) \div 2

\* _hx_btree_rebalance from the previous page: one entry more than is taken is
\* copied, and the keys of the parent are reset before `from' is shortened.
RebalanceFromPrev(H, n, from) ==
  LET used == Used(H, from)
      kept == used - Taken(H, from)
  IN  [ResetKeys(AddEntries(H, n, SubSeq(H[from].ptr, kept, used)), H[n].parent)
         EXCEPT ![from].ptr = SubSeq(@, 1, kept)]

\* The keys of the parent are not refreshed.
RebalanceFromNext_NoReset(H, n, from) ==
  [AddEntries(H, n, SubSeq(H[from].ptr, 1, Taken(H, from)))
     EXCEPT ![from].ptr = SubSeq(@, Taken(H, from) + 1, Len(@))]

\* _hx_btree_rebalance from the next page.  When the keys are reset the entry
\* that was last in `from' still lies at its old place, so that its key is read.
RebalanceFromNext(H, n, from) ==
  [ResetKeys(AddEntries(H, n, SubSeq(H[from].ptr, 1, Taken(H, from))), H[n].parent)
     EXCEPT ![from].ptr = SubSeq(@, Taken(H, from) + 1, Len(@))]

\* Page a takes the place of b in front of the page after b.
Bypass(H, a, b) ==
  LET c == H[b].next
  IN  [m \in DOMAIN H |-> [H[m] EXCEPT !.next = IF m = a THEN c ELSE @,
                                       !.prev = IF m = c THEN a ELSE @]]

\* _hx_btree_merge_nodes, called for two pages of one parent that fit in one.
\* When b is the page before a, its next page is a itself.
MergeNodes(H, a, b) ==
  ResetKeys(Bypass(AddEntries(H, a, H[b].ptr), a, b), H[a].parent)

Sibling(H, n, m) == m # NULL /\ H[m].parent = H[n].parent
Spare(H, m)      == m # NULL /\ Used(H, m) > Minimal

NoMerge  == "merge should have occurred, but didn't"
NotFound == "didn't find node as a child"

\* From REMOVE_NODE on: entry i leaves page n.  [root, heap, complaints].
RECURSIVE RemoveEntry(_, _, _, _, _)

\* Page n has been merged with `other', if that is a page: the entry of `other'
\* leaves their parent.
RemoveMerged(H, r, n, other, i, said) ==
  LET parent == H[n].parent
      slots  == {j \in 1..Used(H, parent) : H[parent].ptr[j].child = other}
  IN  RemoveEntry(H, r, parent, IF slots = {} THEN i ELSE Min(slots),
             said \cup (IF other = NULL THEN {NoMerge} ELSE {})
                  \cup (IF slots = {} THEN {NotFound} ELSE {}))

\* Page n has lost entry i.
Repair(H, r, n, i, said) ==
  LET prev == H[n].prev
      next == H[n].next
      Done(s, G) == [root |-> s, heap |-> G, complaints |-> said]
  IN  IF Used(H, n) >= Minimal \/ (n = r /\ (H[n].leaf \/ Used(H, n) # 1))
      THEN Done(r, H)
      ELSE IF n = r THEN Done(H[r].ptr[1].child, [m \in DOMAIN H \ {r} |-> H[m]])
      ELSE IF Spare(H, prev) THEN Done(r, RebalanceFromPrev(H, n, prev))
      ELSE IF Spare(H, next) THEN Done(r, RebalanceFromNext(H, n, next))
      ELSE IF Sibling(H, n, prev)
           THEN RemoveMerged(MergeNodes(H, n, prev), r, n, prev, i, said)
      ELSE IF Sibling(H, n, next)
           THEN RemoveMerged(MergeNodes(H, n, next), r, n, next, i, said)
      ELSE RemoveMerged(H, r, n, NULL, i, said)

RemoveEntry(H, r, n, i, said) ==
  Repair([H EXCEPT ![n].ptr = IF i <= Len(@) THEN RemoveAt(@, i)
                                             ELSE SubSeq(@, 1, Len(@) - 1)],
         r, n, i, said)

\* hx_btree_node_remove, when the key is found in its page.
RemoveKey(H, r, k) ==
  LET n == SearchPage(H, r, k)
  IN  RemoveEntry(H, r, n, BinarySearch(H[n].ptr, k).index, {})

-----------------------------------------------------------------------------
(* The tree as its clients drive it, one operation after another.          *)

\* Pages that nothing points to any more are no part of the state.
RECURSIVE Reach(_, _)
Reach(H, S) ==
  LET T == S \cup UNION {{H[n].parent, H[n].prev, H[n].next} \cup
                         (IF H[n].leaf THEN {} ELSE {e.child : e \in Range(H[n].ptr)})
                           : n \in S}
      U == T \cap DOMAIN H
  IN  IF U = S THEN S ELSE Reach(H, U)

Reachable(H, r) == LET R == Reach(H, {r}) IN [n \in R |-> H[n]]

Insert(k) ==
  /\ \E ins \in {InsertKey(page, root, k)} :
       root' = ins.root /\ page' = Reachable(ins.heap, ins.root)
  /\ stored' = stored \cup {k}
  /\ UNCHANGED complaints

\* A key that is not found is not removed, and the caller is told so.
Delete(k) ==
  /\ Search(page, root, k)
  /\ \E rem \in {RemoveKey(page, root, k)} :
       /\ root' = rem.root
       /\ page' = Reachable(rem.heap, rem.root)
       /\ complaints' = complaints \cup rem.complaints
  /\ stored' = stored \ {k}

Init ==
  /\ root = 1
  /\ page = [n \in {1} |-> [NewPage EXCEPT !.leaf = TRUE]]
  /\ stored = {}
  /\ complaints = {}

\* The page that a page takes for its parent has it as a child: not so for the pages
\* that were below the upper half of an inner page when that was split.
OwnParent(H, n) == \E e \in Range(H[H[n].parent].ptr) : e.child = n

\* When an entry leaves page n, all is done with the pages that come next: nothing is
\* to repair, or the next page of the same parent lends entries or is merged, and the
\* same is so of the entry that then leaves the parent.
RECURSIVE RepairsForward(_, _, _)
RepairsForward(H, r, n) ==
  \/ n = r \/ Used(H, n) > Minimal
  \/ LET prev == H[n].prev
         next == H[n].next
     IN  /\ OwnParent(H, n) /\ Sibling(H, n, next) /\ OwnParent(H, next)
         /\ ~Spare(H, prev)
         /\ ~Spare(H, next) => ~Sibling(H, n, prev) /\ RepairsForward(H, r, H[n].parent)

\* What a client does: insert, and remove any key whose removal is repaired forward
\* (the smallest is one, which is the order of the large tests); insert and remove as
\* it likes.
InsertNext  == \E k \in Key : Insert(k)
ForwardNext ==
  \/ InsertNext
  \/ \E k \in {m \in stored : RepairsForward(page, root, SearchPage(page, root, m))} : Delete(k)
Next        == InsertNext \/ \E k \in Key : Delete(k)

ForwardSpec == Init /\ [][ForwardNext]_vars
Spec        == Init /\ [][Next]_vars

-----------------------------------------------------------------------------
(* Iteration: hx_btree_iter_finished, _current and _next from the first    *)
(* page on.  A page without entries yields one that is not there.          *)

RECURSIVE FirstLeaf(_, _)
FirstLeaf(H, n) == IF H[n].leaf THEN n ELSE FirstLeaf(H, H[n].ptr[1].child)

PageEntries(H, n) == IF H[n].ptr = <<>> THEN <<NULL>>
                     ELSE [i \in 1..Used(H, n) |-> H[n].ptr[i].key]

\* The keys of the pages from n on; at most limit pages, as a list that runs
\* in a circle never ends.
RECURSIVE Walk(_, _, _)
Walk(H, n, limit) ==
  IF n = NULL \/ limit = 0 THEN <<>>
  ELSE PageEntries(H, n) \o Walk(H, H[n].next, limit - 1)

Iteration == Walk(page, FirstLeaf(page, root), Cardinality(DOMAIN page) + 1)

-----------------------------------------------------------------------------
(* Properties.                                                             *)

PageType == [leaf : BOOLEAN, parent : Nat, prev : Nat, next : Nat,
             ptr : Seq([key : Key, child : Nat])]

TypeOK ==
  /\ root \in DOMAIN page
  /\ \A n \in DOMAIN page : page[n] \in PageType
  /\ stored \subseteq Key
  /\ complaints \subseteq {NoMerge, NotFound}

\* hx_btree_node_search finds the keys that were inserted and not removed, and
\* no others: the raised keys of inner pages and the splits lead it right.
SearchFinds == \A k \in Key : Search(page, root, k) <=> k \in stored

\* An iterator yields the stored keys in increasing order, each once, and
\* then finishes (hx_btree_iter_next along the list of leaves).
IterationAscends ==
  stored # {} => LET it == Iteration IN
    /\ Range(it) = stored
    /\ \A i \in 1..Len(it) - 1 : it[i] < it[i + 1]

RECURSIVE KeysBelow(_)
KeysBelow(n) ==
  LET p == page[n] IN
  IF p.leaf THEN {e.key : e \in Range(p.ptr)}
  ELSE UNION {KeysBelow(e.child) : e \in Range(p.ptr)}

RECURSIVE Depth(_)
Depth(n) == IF page[n].leaf THEN 0 ELSE 1 + Depth(page[n].ptr[1].child)

RECURSIVE Below(_)
Below(n) == IF page[n].leaf THEN {n}
            ELSE {n} \cup UNION {Below(e.child) : e \in Range(page[n].ptr)}

\* Pages are at least half full and all leaves are equally deep, so a search
\* is logarithmic; the key of a child separates it from the next one.
Balanced ==
  \A n \in Below(root) :
    LET p == page[n].ptr IN
    /\ Len(p) \in (IF n = root THEN 0 ELSE Minimal)..Branching
    /\ ~page[n].leaf =>
         \A i \in 1..Len(p) :
           /\ Depth(p[i].child) = Depth(p[1].child)
           /\ \A k \in KeysBelow(p[i].child) :
                k <= p[i].key /\ (i > 1 => k > p[i - 1].key)

\* The two directions of the list of a level agree, at every level: removal
\* looks for a neighbour to borrow from or to merge with both ways.
NeighboursMirror ==
  \A n \in Below(root) :
    /\ page[n].next # NULL => page[page[n].next].prev = n
    /\ page[n].prev # NULL => page[page[n].prev].next = n

\* What the operations rely on at every page: it is filled, its level is linked both
\* ways, and removal never runs into what its messages say cannot be.
WellFormed == Balanced /\ NeighboursMirror /\ complaints = {}
==============================================================================
