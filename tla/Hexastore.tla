------------------------------ MODULE Hexastore ------------------------------
(***************************************************************************)
(* The in-memory store of store/hexastore: up to six indexes of the same   *)
(* set of triples.  An index is a head (a tree from a node to a vector), a *)
(* vector is a tree from a node to a terminal and a terminal is a tree of  *)
(* nodes.  Two indexes that agree on the third position (spo and pso, osp  *)
(* and sop, pos and ops) share their terminals, which count references.    *)
(*                                                                         *)
(* Here a tree is the map it implements (module BTree is about the tree).  *)
(* The store is single-threaded: an operation is one step, made of the     *)
(* index operations the code calls, in the code's order.                   *)
(*                                                                         *)
(* An operator with an underscore in its name is a mutated form of the one *)
(* that follows it: a bug this code might have had.  No specification uses *)
(* it; PROJECT.json says which property tells it from the code.            *)
(***************************************************************************)
EXTENDS Integers, Sequences, FiniteSets

CONSTANTS
  Node,         \* node identifiers; positive, the nodemap starts at 1
  Variable,     \* identifiers of the variables in a pattern; negative
  Indexes,      \* the indexes the store was created with
  NULL,
  MaxCount      \* bound: a triple is added while every head counts fewer

Order == {"spo", "sop", "pso", "pos", "osp", "ops"}

ASSUME NodeAssumption     == Node \subseteq Nat \ {0}
ASSUME VariableAssumption == \A v \in Variable : v \in Int /\ v < 0
ASSUME IndexesAssumption  == Indexes \subseteq Order
ASSUME BoundAssumption    == MaxCount \in Nat

Triple == Node \X Node \X Node

(***************************************************************************)
(* index->order: the positions of a triple in the order of an index.       *)
(***************************************************************************)
IndexOrdered(i, x) ==
  CASE i = "spo" -> <<x[1], x[2], x[3]>>
    [] i = "sop" -> <<x[1], x[3], x[2]>>
    [] i = "pso" -> <<x[2], x[1], x[3]>>
    [] i = "pos" -> <<x[2], x[3], x[1]>>
    [] i = "osp" -> <<x[3], x[1], x[2]>>
    [] i = "ops" -> <<x[3], x[2], x[1]>>

\* The index that has the same third position.
Partner(i) ==
  CASE i = "spo" -> "pso" [] i = "pso" -> "spo"
    [] i = "osp" -> "sop" [] i = "sop" -> "osp"
    [] i = "pos" -> "ops" [] i = "ops" -> "pos"

(***************************************************************************)
(* A terminal is an address.  It is named by the vector slot it was        *)
(* allocated for; RefcountExact says no name is given out twice.           *)
(***************************************************************************)
Slot     == Node \X Node
Terminal == Order \X Node \X Node

ASSUME NullAssumption == NULL \notin Terminal

VARIABLES
  hx,       \* the hx_store_hexastore: see Store
  known     \* the nodes in its nodemap

vars == <<hx, known>>

Store ==
  [ vectors     : [Order -> SUBSET Node],               \* keys of a head's tree
    headCount   : [Order -> Int],                       \* head->triples_count
    vectorCount : [Order -> [Node -> Int]],             \* vector->triples_count
    terminal    : [Order -> [Slot -> Terminal \cup {NULL}]],  \* vector trees
    nodes       : [Terminal -> SUBSET Node],            \* terminal trees
    refcount    : [Terminal -> Int] ]                   \* terminal->refcount

TypeOK == hx \in Store /\ known \subseteq Node

One(b) == IF b THEN 1 ELSE 0

-----------------------------------------------------------------------------
(* Operations of one index.                                                *)

\* hx_store_hexastore_index_add_triple_terminal: [store, terminal, added].
AddTripleTerminal(S, i, x) ==
  LET k     == IndexOrdered(i, x)
      slot  == <<k[1], k[2]>>
      isNew == S.terminal[i][slot] = NULL
      t     == IF isNew THEN <<i, k[1], k[2]>> ELSE S.terminal[i][slot]
      added == k[3] \notin S.nodes[t]
  IN  [ terminal |-> t,
        added    |-> added,
        store    |->
          [ vectors     |-> [S.vectors     EXCEPT ![i]       = @ \cup {k[1]}],
            headCount   |-> [S.headCount   EXCEPT ![i]       = @ + One(added)],
            vectorCount |-> [S.vectorCount EXCEPT ![i][k[1]] = @ + One(added)],
            terminal    |-> [S.terminal    EXCEPT ![i][slot] = t],
            nodes       |-> [S.nodes       EXCEPT ![t]       = @ \cup {k[3]}],
            refcount    |-> [S.refcount    EXCEPT ![t]       = @ + One(isNew)] ] ]

AddTriple1(S, i, x) == AddTripleTerminal(S, i, x).store

\* The terminal is put into a second vector without counting the reference.
AddTripleWithTerminal_NoReference(S, i, t, x, added) ==
  LET k == IndexOrdered(i, x)
  IN  [S EXCEPT !.vectors[i] = @ \cup {k[1]}, !.headCount[i] = @ + One(added),
                !.vectorCount[i][k[1]] = @ + One(added),
                !.terminal[i] = [@ EXCEPT ![<<k[1], k[2]>>] = IF @ = NULL THEN t ELSE @]]

\* hx_store_hexastore_index_add_triple_with_terminal.  A slot that already
\* holds a terminal keeps it: only the counts change.
AddTripleWithTerminal(S, i, t, x, added) ==
  LET k     == IndexOrdered(i, x)
      slot  == <<k[1], k[2]>>
      isNew == S.terminal[i][slot] = NULL
  IN  [ vectors     |-> [S.vectors     EXCEPT ![i]       = @ \cup {k[1]}],
        headCount   |-> [S.headCount   EXCEPT ![i]       = @ + One(added)],
        vectorCount |-> [S.vectorCount EXCEPT ![i][k[1]] = @ + One(added)],
        terminal    |-> [S.terminal    EXCEPT ![i][slot] = IF isNew THEN t ELSE @],
        nodes       |-> S.nodes,
        refcount    |-> [S.refcount    EXCEPT ![t]       = @ + One(isNew)] ]

\* What removal is made of: the node leaves the terminal (or, if `all', every
\* node does), `less' is what the counts lose, and a vector without terminals
\* leaves the head (or, if `keep', stays).
Removed(S, i, x, all, less, keep) ==
  LET k    == IndexOrdered(i, x)
      slot == <<k[1], k[2]>>
      t    == S.terminal[i][slot]
      left == IF all THEN {} ELSE S.nodes[t] \ {k[3]}
      last == left = {} /\ \A b \in Node \ {k[2]} : S.terminal[i][<<k[1], b>>] = NULL
  IN  IF k[1] \notin S.vectors[i] \/ t = NULL THEN S
      ELSE [S EXCEPT !.vectors[i] = IF last /\ ~keep THEN @ \ {k[1]} ELSE @,
                     !.headCount[i] = @ - less,
                     !.vectorCount[i][k[1]] = IF last THEN 0 ELSE @ - less,
                     !.terminal[i] = [@ EXCEPT ![slot] = IF left = {} THEN NULL ELSE @],
                     !.nodes[t] = left,
                     !.refcount[t] = @ - One(left = {})]

IndexRemoveTriple_AlwaysCounts(S, i, x)  == Removed(S, i, x, FALSE, 1, FALSE)
IndexRemoveTriple_KeepsVector(S, i, x)   == Removed(S, i, x, FALSE, 0, TRUE)
IndexRemoveTriple_DropsTerminal(S, i, x) == Removed(S, i, x, TRUE, 0, FALSE)

\* hx_store_hexastore_index_remove_triple, and hx_vector_remove_terminal with
\* hx_terminal_dec_refcount.  A vector that loses its last terminal leaves
\* the head, and a later one starts counting at zero.
IndexRemoveTriple(S, i, x) ==
  LET k       == IndexOrdered(i, x)
      slot    == <<k[1], k[2]>>
      t       == S.terminal[i][slot]
      removed == k[3] \in S.nodes[t]
      left    == S.nodes[t] \ {k[3]}
      emptied == left = {}
      last    == emptied /\ \A b \in Node \ {k[2]} : S.terminal[i][<<k[1], b>>] = NULL
      counted == S.vectorCount[i][k[1]] - One(removed)
  IN  IF k[1] \notin S.vectors[i] \/ t = NULL THEN S
      ELSE [ vectors     |-> [S.vectors     EXCEPT ![i] = IF last THEN @ \ {k[1]} ELSE @],
             headCount   |-> [S.headCount   EXCEPT ![i] = @ - One(removed)],
             vectorCount |-> [S.vectorCount EXCEPT ![i][k[1]] = IF last THEN 0 ELSE counted],
             terminal    |-> [S.terminal    EXCEPT ![i][slot] = IF emptied THEN NULL ELSE @],
             nodes       |-> [S.nodes       EXCEPT ![t] = left],
             refcount    |-> [S.refcount    EXCEPT ![t] = @ - One(emptied)] ]

-----------------------------------------------------------------------------
(* Operations of the store.                                                *)

\* Two indexes get terminals of their own; only the first of two indexes gets
\* the triple; a lone second one does not; the terminal is made for the second.
AddPair_Unshared(S, i, j, x) ==
  LET T == IF i \in Indexes THEN AddTriple1(S, i, x) ELSE S
  IN  IF j \in Indexes THEN AddTriple1(T, j, x) ELSE T

AddPair_FirstOnly(S, i, j, x) == IF i \in Indexes THEN AddTriple1(S, i, x) ELSE S

AddPair_SecondFirst(S, i, j, x) ==
  IF {i, j} \subseteq Indexes
  THEN LET r == AddTripleTerminal(S, j, x)
       IN  AddTripleWithTerminal(r.store, i, r.terminal, x, r.added)
  ELSE AddPair_Unshared(S, i, j, x)

\* One of the three blocks of _hx_store_hexastore_add_triple_id.
AddPair(S, i, j, x) ==
  IF {i, j} \subseteq Indexes
  THEN LET r == AddTripleTerminal(S, i, x)
       IN  AddTripleWithTerminal(r.store, j, r.terminal, x, r.added)
  ELSE LET T == IF i \in Indexes THEN AddTriple1(S, i, x) ELSE S
       IN  IF j \in Indexes THEN AddTriple1(T, j, x) ELSE T

\* Partners are mixed up.
AddTripleId_WrongPartner(S, x) ==
  AddPair(AddPair(AddPair(S, "spo", "sop", x), "osp", "pso", x), "pos", "ops", x)

AddTripleId(S, x) ==
  AddPair(AddPair(AddPair(S, "spo", "pso", x), "osp", "sop", x), "pos", "ops", x)

RemoveFrom(S, i, x) == IF i \in Indexes THEN IndexRemoveTriple(S, i, x) ELSE S

\* hx_store_hexastore_remove_triple goes through the indexes in this order.
RemoveTripleFromAll(S, x) ==
  LET s1 == RemoveFrom(S,  "spo", x)
      s2 == RemoveFrom(s1, "sop", x)
      s3 == RemoveFrom(s2, "pso", x)
      s4 == RemoveFrom(s3, "pos", x)
      s5 == RemoveFrom(s4, "osp", x)
  IN  RemoveFrom(s5, "ops", x)

AddTriple(x) ==
  /\ \A i \in Indexes : hx.headCount[i] < MaxCount
  /\ known' = known \cup {x[1], x[2], x[3]}
  /\ hx' = AddTripleId(hx, x)

\* The node ids of the triple are looked up and put into the nodemap if missing.
RemoveTriple_AddsZero(x) ==
  /\ hx' = RemoveTripleFromAll(hx, x)
  /\ known' = known \cup {0}

\* A node the nodemap does not know has id 0 and is in no tree.
RemoveTriple(x) ==
  /\ hx' = RemoveTripleFromAll(hx, x)
  /\ UNCHANGED known

-----------------------------------------------------------------------------
(* Writing and reading.  Each slot is written with the terminal it holds,  *)
(* so that no two indexes of the store that is read share one.             *)

\* hx_terminal_write, hx_terminal_read: the nodes of the copy made for each slot.
TerminalsRead(S) ==
  [t \in Terminal |->
     LET held == S.terminal[t[1]][<<t[2], t[3]>>] IN IF held = NULL THEN {} ELSE S.nodes[held]]

\* hx_vector_write, hx_vector_read: the copies, in the slots they were written for.
VectorsRead(S) ==
  [i \in Order |-> [s \in Slot |->
     IF S.terminal[i][s] = NULL THEN NULL ELSE <<i, s[1], s[2]>>]]

\* hx_vector_add_terminal counts each copy once.
ReferencesRead(S) ==
  [t \in Terminal |-> One(S.terminal[t[1]][<<t[2], t[3]>>] # NULL)]

\* hx_head_write: the iterator of an empty tree yields a NULL vector, which
\* hx_vector_write reads, so an empty head is not written.
HeadWritten(S, i) == S.vectors[i] # {}

\* hx_store_hexastore_write, then hx_store_hexastore_read by another process.
\* The counts of heads and vectors are written as they are.
Reload ==
  /\ \A i \in Indexes : HeadWritten(hx, i)
  /\ hx' = [hx EXCEPT !.terminal = VectorsRead(hx),
                      !.nodes    = TerminalsRead(hx),
                      !.refcount = ReferencesRead(hx)]
  /\ UNCHANGED known

Init ==
  /\ hx = [ vectors     |-> [i \in Order |-> {}],
            headCount   |-> [i \in Order |-> 0],
            vectorCount |-> [i \in Order |-> [n \in Node |-> 0]],
            terminal    |-> [i \in Order |-> [s \in Slot |-> NULL]],
            nodes       |-> [t \in Terminal |-> {}],
            refcount    |-> [t \in Terminal |-> 0] ]
  /\ known = {}

Next == \E x \in Triple : AddTriple(x) \/ RemoveTriple(x)

Spec == Init /\ [][Next]_vars

\* The same with a store that is saved and loaded now and then.
ReloadSpec == Init /\ [][Next \/ Reload]_vars

-----------------------------------------------------------------------------
(* Queries.  A pattern is a triple of nodes and variables.                 *)

Pattern == LET T == Node \cup Variable IN T \X T \X T

Matches(pat, x) ==
  /\ \A k \in 1..3 : pat[k] \in Node => x[k] = pat[k]
  /\ \A j, k \in 1..3 : pat[j] = pat[k] => x[j] = x[k]

\* The triples a walk through index i comes across.
HoldsIn(S, i, x) ==
  LET k == IndexOrdered(i, x)
      t == S.terminal[i][<<k[1], k[2]>>]
  IN  k[1] \in S.vectors[i] /\ t # NULL /\ k[3] \in S.nodes[t]

Holds(i, x)     == HoldsIn(hx, i, x)
TriplesIn(S, i) == {x \in Triple : HoldsIn(S, i, x)}
TriplesOf(i)    == TriplesIn(hx, i)
Content         == {x \in Triple : \E i \in Indexes : Holds(i, x)}

\* _hx_store_hexastore_get_ordered_index: bound positions come first, then the
\* one to sort by, then those that repeat its variable, then the others ...
OrderRank(pat, position, j) ==
  CASE pat[j] \in Node -> 0
    [] pat[j] \notin Node /\ j = position -> 1
    [] pat[j] \notin Node /\ j # position -> IF pat[j] = pat[position] THEN 2 ELSE 3

\* ... each group as it stands in the triple.
PreferredIndex(pat, position) ==
  CHOOSE i \in Order :
    LET o       == IndexOrdered(i, <<1, 2, 3>>)
        rank(n) == OrderRank(pat, position, o[n])
    IN  \A m, n \in 1..3 : m < n =>
          \/ rank(m) < rank(n)
          \/ rank(m) = rank(n) /\ o[m] < o[n]

\* It takes the index of that order, or else its partner, or else NULL.
OrderedIndex(pat, position) ==
  LET want == PreferredIndex(pat, position)
  IN  IF want \in Indexes THEN want
      ELSE IF Partner(want) \in Indexes THEN Partner(want) ELSE NULL

Subject == 1    \* HX_SUBJECT, the position a query without an order sorts by

\* hx_store_hexastore_size, in a store that has its spo index.
Size == hx.headCount["spo"]

\* hx_store_hexastore_contains_triple, when one of spo and pso is there.
ContainsTriple(x) == Holds(OrderedIndex(x, Subject), x)

\* hx_store_hexastore_count: the counters along the path of the bound nodes.
\* A variable at a place the index needs bound is in no tree.
Count(pat) ==
  LET i    == OrderedIndex(pat, Subject)
      k    == IndexOrdered(i, pat)
      vars3 == Cardinality({j \in 1..3 : pat[j] \in Variable})
  IN  CASE vars3 = 3 -> Size
        [] vars3 = 2 -> IF k[1] \in hx.vectors[i] THEN hx.vectorCount[i][k[1]] ELSE 0
        [] vars3 = 1 -> IF /\ {k[1], k[2]} \subseteq Node
                           /\ hx.terminal[i][<<k[1], k[2]>>] # NULL
                        THEN Cardinality(hx.nodes[hx.terminal[i][<<k[1], k[2]>>]])
                        ELSE 0
        [] vars3 = 0 -> One(ContainsTriple(pat))

\* hx_store_hexastore_get_statements, with the iterator of module IndexIter.
GetStatements(pat) ==
  {x \in TriplesOf(OrderedIndex(pat, Subject)) : Matches(pat, x)}

\* What a count can return: for a node the nodemap does not know
\* get_ordered_index returns before it sets the index and the ordered nodes,
\* and the count goes on with whatever the stack holds.
CountResults(pat) ==
  IF {pat[1], pat[2], pat[3]} \subseteq known \cup Variable
  THEN {Count(pat)} ELSE 0..MaxCount

-----------------------------------------------------------------------------
(* Properties.                                                             *)

\* add_triple_id and remove_triple change the content of every index by that
\* triple and no other, and leave no index behind, although each pair changes
\* one terminal through two indexes.
OperationsExact ==
  \A x \in Triple :
    LET added == AddTripleId(hx, x)
        less  == RemoveTripleFromAll(hx, x)
    IN  \A i \in Indexes : /\ TriplesIn(added, i) = Content \cup {x}
                           /\ TriplesIn(less, i)  = Content \ {x}

\* Between two partners both indexes reach the same terminal from their two
\* sides, and no terminal is in a third place: that is what makes one call of
\* hx_terminal_add_node update two indexes (_hx_store_hexastore_add_triple_id).
TerminalsShared ==
  \A i \in Indexes, a, b \in Node :
    Partner(i) \in Indexes => hx.terminal[i][<<a, b>>] = hx.terminal[Partner(i)][<<b, a>>]

References(t) == {r \in Indexes \X Slot : hx.terminal[r[1]][r[2]] = t}

\* A terminal counts the vectors that hold it, so hx_terminal_dec_refcount
\* frees it with the last of them: none is freed early, none is leaked, and
\* the name a new terminal gets is not in use (see Terminal).
RefcountExact ==
  /\ \A t \in Terminal : /\ hx.refcount[t] = Cardinality(References(t))
                         /\ hx.refcount[t] = 0 => hx.nodes[t] = {}
  /\ \A i \in Indexes \cap {"spo", "osp", "pos"}, a, b \in Node :
       hx.terminal[i][<<a, b>>] = NULL => hx.refcount[<<i, a, b>>] = 0

\* No vector and no terminal that can be reached is empty.  The iterators
\* rely on it: that of an empty tree yields an entry that is not there
\* (_hx_btree_iter_prime), which a writer and an index iterator dereference.
NothingEmpty ==
  \A i \in Indexes, a \in Node :
    /\ \A b \in Node : hx.terminal[i][<<a, b>>] # NULL
                         => hx.nodes[hx.terminal[i][<<a, b>>]] # {}
    /\ a \in hx.vectors[i] <=> \E b \in Node : hx.terminal[i][<<a, b>>] # NULL

\* The indexes a removed triple is taken out of before their partner.
RemovedFirst ==
  {i \in Indexes : i \in {"spo", "sop", "pos"} \/ Partner(i) \notin Indexes}

UnderVector(i, n) == {x \in TriplesOf(i) : IndexOrdered(i, x)[1] = n}

\* Heads and vectors count the triples below them, in the indexes a triple is
\* removed from first.  The partner of such an index finds the node gone from
\* the shared terminal and keeps its count, so there it may only be too high.
CountsKept ==
  \A i \in Indexes :
    /\ hx.headCount[i] >= Cardinality(TriplesOf(i))
    /\ i \in RemovedFirst => hx.headCount[i] = Cardinality(TriplesOf(i))
    /\ \A n \in Node :
         /\ hx.vectorCount[i][n] >= Cardinality(UnderVector(i, n))
         /\ i \in RemovedFirst => hx.vectorCount[i][n] = Cardinality(UnderVector(i, n))

Distinct(pat)    == \A j, k \in 1..3 : pat[j] = pat[k] /\ pat[j] \in Variable => j = k
AllKnown(pat)    == {pat[1], pat[2], pat[3]} \subseteq known \cup Variable
Answer(pat)      == {x \in Content : Matches(pat, x)}
CountRight(pat)  == CountResults(pat) = {Cardinality(Answer(pat))}
OneBound(pat)    == Cardinality({j \in 1..3 : pat[j] \in Variable}) = 2

\* hx_store_hexastore_count is right for every pattern of known nodes and
\* distinct variables except two: only a predicate or only an object is bound.
\* That rests on the counters, which are exact where a triple is removed first.
CountMostlyRight ==
  /\ CountsKept
  /\ \A pat \in Pattern : Distinct(pat) /\ AllKnown(pat) /\ (OneBound(pat) => pat[1] \in Node)
                            => CountRight(pat)

\* get_statements yields the triples that match, whichever index it walks.
StatementsComplete == \A pat \in Pattern : GetStatements(pat) = Answer(pat)

\* The indexes whose terminals new triples are put into, spo, osp and pos,
\* keep all triples, however often the store is saved and loaded.  Their
\* partners hold no triple that is not there.
CreatorsComplete ==
  \A i \in Indexes, x \in Triple :
    Holds(i, x) => \A j \in Indexes \cap {"spo", "osp", "pos"} : Holds(j, x)

\* What a store keeps that is saved and loaded now and then: although partners
\* come back with terminals of their own, every reference is counted, nothing
\* that can be reached is empty, and no triple is lost where new ones are put.
SoundAfterReload == CreatorsComplete /\ RefcountExact /\ NothingEmpty

\* "Return the number of triples matching a triple pattern" (hexastore.c:134),
\* for every pattern of known nodes and distinct variables.
CountExact == \A pat \in Pattern : Distinct(pat) /\ AllKnown(pat) => CountRight(pat)

\* The store is the set of triples that TripleStore promises, through
\* additions, removals and reloads.
Abstract == INSTANCE TripleStore WITH triples <- Content

ImplementsTripleStore == Abstract!Spec

==============================================================================
