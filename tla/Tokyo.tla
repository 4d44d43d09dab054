------------------------------- MODULE Tokyo -------------------------------
(***************************************************************************)
(* The store of store/tokyocabinet: two maps between nodes and ids, six    *)
(* ordered tables of triples and a table of counts, all in files that are  *)
(* written through.  An order is the sequence of the positions by which a  *)
(* table is keyed; the keys of a table compare byte by byte, and the       *)
(* lowest byte of an id is stored first.  The maps and tables are those of *)
(* the library of this name, used as sets and functions.                   *)
(*                                                                         *)
(* Not kept: the value under the id 0, the next id, which is written and   *)
(* never read; the parse and print of a node (a node is its string).       *)
(*                                                                         *)
(* An operator with an underscore in its name is a mutated form of the one *)
(* that follows it, and is used by no specification.                       *)
(***************************************************************************)
EXTENDS Integers, Sequences, FiniteSets

CONSTANT Base     \* the ids that one byte tells apart: 256, in a model 2 or more

\* HX_STORE_TCINDEX_ORDER_*
Orders == {<<1,2,3>>, <<1,3,2>>, <<2,1,3>>, <<2,3,1>>, <<3,1,2>>, <<3,2,1>>}

\* hx_new_tokyocabinet_index, for each order: a new file
NewTables == [o \in Orders |-> {}]

\* The store in a new directory.
EmptyStore ==
  [node2id |-> <<>>, id2node |-> <<>>, next_id |-> 1, bulk |-> FALSE,
   index |-> NewTables, counts |-> <<>>]

\* hx_new_store_tokyocabinet on the files that hx_store_tokyocabinet_close left
Reopen(S) == [S EXCEPT !.next_id = 1, !.bulk = FALSE]

\* hx_store_tokyocabinet_node2id
Node2Id(S, n) == IF n \in DOMAIN S.node2id THEN S.node2id[n] ELSE 0

\* _hx_store_tokyocabinet_get_node_id; it ends the process for an unknown node.
GetNodeId(S, n) == IF n < 0 THEN n ELSE S.node2id[n]

Known(S, x) == \A k \in 1..3 : x[k] < 0 \/ x[k] \in DOMAIN S.node2id

Ids(S, x) == [k \in 1..3 |-> GetNodeId(S, x[k])]

\* tcbdbput: a key gets a value, whether it has one or not.
Put(f, key, value) == [k \in DOMAIN f \cup {key} |-> IF k = key THEN value ELSE f[k]]

\* _hx_nodemap_add_node
AddNode(S, n) ==
  IF n \in DOMAIN S.node2id THEN S
  ELSE [S EXCEPT !.node2id = Put(@, n, S.next_id), !.id2node = Put(@, S.next_id, n),
                 !.next_id = @ + 1]

AddNodes(S, x) == AddNode(AddNode(AddNode(S, x[1]), x[2]), x[3])

\* hx_store_tokyocabinet_index_add_triple and _remove_triple, for a table or several
IndexAdd(S, into, i) ==
  [S EXCEPT !.index = [o \in Orders |-> IF o \in into THEN @[o] \cup {i} ELSE @[o]]]

IndexRemove(S, i) == [S EXCEPT !.index = [o \in Orders |-> @[o] \ {i}]]

\* hx_store_tokyocabinet_begin_bulk_load
BeginBulk(S) == [S EXCEPT !.bulk = TRUE]

\* hx_store_tokyocabinet_end_bulk_load: the other tables get what the first has.
EndBulk_NotLast(S) ==
  [S EXCEPT !.bulk = FALSE,
            !.index = [o \in Orders |-> IF o = <<3,2,1>> THEN @[o]
                                        ELSE @[o] \cup @[<<1,2,3>>]]]

EndBulk(S) ==
  [S EXCEPT !.bulk = FALSE, !.index = [o \in Orders |-> @[o] \cup @[<<1,2,3>>]]]

\* The keys under which a triple is counted: some nodes, not all, kept, and 0
\* for the others.
CountKeys(i) ==
  {[k \in 1..3 |-> IF k \in kept THEN i[k] ELSE 0] :
     kept \in (SUBSET (1..3)) \ {{}, 1..3}}

Counter(S, key) == IF key \in DOMAIN S.counts THEN S.counts[key] ELSE 0

\* _hx_store_tokyocabinet_add_triple_id: the counts grow for a triple that the
\* store holds already, too.
AddTripleId(S, i) ==
  LET into == IF S.bulk THEN {<<1,2,3>>} ELSE Orders
  IN  [IndexAdd(S, into, i) EXCEPT
         !.counts = [key \in CountKeys(i) \cup DOMAIN @ |->
                       Counter(S, key) + (IF key \in CountKeys(i) THEN 1 ELSE 0)]]

\* hx_store_tokyocabinet_add_triple
AddTriple(S, x) ==
  LET T == AddNodes(S, x) IN AddTripleId(T, Ids(T, x))

\* hx_store_tokyocabinet_remove_triple; the counts stay.
RemoveTriple(S, x) == IndexRemove(S, Ids(S, x))

\* hx_store_tokyocabinet_index_triples_count
TriplesCount(table) == Cardinality(table)

\* hx_store_tokyocabinet_size
Size(S) == TriplesCount(S.index[<<1,2,3>>])

-----------------------------------------------------------------------------
\* The rank of an id in a table, by its lowest byte first.
ByteRank(id) == (id % Base) * Base + id \div Base

\* The order of the keys of a table.
Before(o, a, b) ==
  \E k \in 1..3 : /\ ByteRank(a[o[k]]) < ByteRank(b[o[k]])
                  /\ \A j \in 1..k - 1 : a[o[j]] = b[o[j]]

\* The keys of a table, as triples, in order.
Keys(S, o) ==
  LET T == S.index[o]
  IN  [n \in 1..Cardinality(T) |->
         CHOOSE t \in T : Cardinality({u \in T : Before(o, u, t)}) = n - 1]

\* Bound nodes come first, then the position to sort by, then positions with its
\* variable, then the rest.
OrderRank(i, sort, k) ==
  CASE i[k] > 0 -> 0
    [] i[k] <= 0 /\ k = sort -> 1
    [] i[k] <= 0 /\ k # sort -> IF i[k] = i[sort] THEN 2 ELSE 3

\* _hx_store_tokyocabinet_get_ordered_index
OrderedIndex(i, sort) ==
  CHOOSE o \in Orders :
    \A a, b \in 1..3 : a < b =>
      \/ OrderRank(i, sort, o[a]) < OrderRank(i, sort, o[b])
      \/ OrderRank(i, sort, o[a]) = OrderRank(i, sort, o[b]) /\ o[a] < o[b]

\* The first position of the variable to sort by; the subject if there is none.
SortPosition(pat, variable) ==
  IF \E k \in 1..3 : pat[k] = variable
  THEN CHOOSE k \in 1..3 : pat[k] = variable /\ \A j \in 1..k - 1 : pat[j] # variable
  ELSE 1

\* The rows before the first that is not in the set, and those from that one on.
Leading(rows, set) ==
  LET end == CHOOSE n \in 0..Len(rows) :
               /\ \A j \in 1..n : rows[j] \in set
               /\ n < Len(rows) => rows[n + 1] \notin set
  IN  SubSeq(rows, 1, end)

Remaining(rows, set) == SubSeq(rows, Len(Leading(rows, set)) + 1, Len(rows))

\* hx_store_tokyocabinet_index_new_iter1 and the steps of its iterator: from the
\* first key that is not before the bound nodes on, while the bound nodes are in
\* it.  Nodes of equal mask are compared when the iterator has moved, which ends
\* it; the first row is handed on with or without them.  With three bound nodes the
\* third is compared with what lies behind the key (current[3]), so which rows then
\* follow the first is not defined; here none does.
Statements(S, i, o) ==
  LET bound == [k \in 1..3 |-> IF i[k] > 0 THEN i[k] ELSE 0]
      table == S.index[o]
      from  == Remaining(Keys(S, o), {t \in table : Before(o, t, bound)})
      run   == Leading(from, {t \in table : \A k \in 1..3 : i[k] > 0 => t[k] = i[k]})
      same  == {t \in table : \A j, k \in 1..3 : i[j] = i[k] => t[j] = t[k]}
  IN  IF run # <<>> /\ run[1] \notin same THEN <<run[1]>> ELSE Leading(run, same)

\* hx_store_tokyocabinet_get_statements, as triples
GetStatements(S, pat, variable) ==
  Statements(S, Ids(S, pat), OrderedIndex(Ids(S, pat), SortPosition(pat, variable)))

\* hx_store_tokyocabinet_contains_triple
Contains(S, x) == GetStatements(S, x, 0) # <<>>

\* _hx_store_tokyocabinet_iter_vb_sorted_by: the array that is read gives the
\* column of a position; it is taken for the position of a column.
SortedBy(i, o, column) ==
  LET columns == [k \in 1..3 |-> IF i[k] < 0 THEN Cardinality({j \in 1..k : i[j] < 0}) ELSE 1]
      at      == CHOOSE n \in 1..3 : o[n] = columns[column]
  IN  \A n \in 1..at - 1 : i[o[n]] > 0

\* hx_store_tokyocabinet_count
Count(S, pat) ==
  LET i == Ids(S, pat)
  IN  CASE \A k \in 1..3 : i[k] < 0 -> Size(S)
        [] \A k \in 1..3 : i[k] > 0 -> IF Contains(S, pat) THEN 1 ELSE 0
        [] OTHER -> Counter(S, [k \in 1..3 |-> IF i[k] < 0 THEN 0 ELSE i[k]])

\* The variable of two or three positions, or 0; its positions must come first in
\* the order when no node is bound.
Repeated(pat) ==
  LET pairs == {p \in (1..3) \X (1..3) : p[1] < p[2] /\ pat[p[1]] < 0 /\ pat[p[1]] = pat[p[2]]}
  IN  IF pairs = {} THEN 0 ELSE pat[(CHOOSE p \in pairs : TRUE)[1]]

\* _hx_store_tokyocabinet_index_ok_for_triple
IndexOk(pat, o) ==
  LET bound == Cardinality({k \in 1..3 : pat[k] > 0})
  IN  /\ \A n \in 1..bound : pat[o[n]] > 0
      /\ bound = 0 /\ Repeated(pat) # 0 =>
           pat[o[1]] = Repeated(pat) /\ pat[o[2]] = Repeated(pat)

\* hx_store_tokyocabinet_triple_orderings
TripleOrderings(pat) == {o \in Orders : IndexOk(pat, o)}
=============================================================================
