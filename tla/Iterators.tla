----------------------------- MODULE Iterators -----------------------------
(***************************************************************************)
(* The iterators over variable bindings (engine/, and those of the         *)
(* hexastore store).  Nobody but its client moves an iterator, so what it  *)
(* is to its client is fixed when it is made: its names, the columns it    *)
(* says it is sorted by, and the rows it yields.  The three joins are also *)
(* given as the machines they are, with one step per result, and the rows  *)
(* of a join are those its machine yields.                                 *)
(*                                                                         *)
(* A constructor that returns NULL, or that is handed NULL and crashes,    *)
(* yields NULLITER.                                                        *)
(*                                                                         *)
(* An operator with an underscore in its name is a mutated form of the one *)
(* that follows it, and is used by no specification.                       *)
(***************************************************************************)
EXTENDS Bindings, SequencesExt, FiniteSetsExt, TLC

Iter(names, sorted, rows) == [ok |-> TRUE, names |-> names, sorted |-> sorted, rows |-> rows]

NULLITER == [ok |-> FALSE, names |-> <<>>, sorted |-> {}, rows |-> <<>>]

\* hx_variablebindings_new_empty_iter_with_names
EmptyIter(names) == Iter(names, {}, <<>>)

-----------------------------------------------------------------------------
(* Triples: hx_store_get_statements and the iterators of the hexastore.  A *)
(* pattern is a triple of ids, negative ones for variables.                *)

IsVariable(n) == n < 0

VariablePositions(pat) == SelectSeq(<<1, 2, 3>>, LAMBDA k : IsVariable(pat[k]))

\* get_ordered_index: bound positions, then the one to sort by, then repeats of
\* a variable, then the rest.  All six indexes are there.
OrderFor(pat, position) ==
  LET bound  == SelectSeq(<<1, 2, 3>>, LAMBDA k : ~IsVariable(pat[k]))
      sorted == IF position \in Range(bound) THEN bound ELSE Append(bound, position)
      again  == sorted \o SelectSeq(<<1, 2, 3>>, LAMBDA k :
                   k \notin Range(sorted) /\ \E j \in Range(sorted) : pat[j] = pat[k])
  IN  again \o SelectSeq(<<1, 2, 3>>, LAMBDA k : k \notin Range(again))

TripleMatches(pat, x) ==
  /\ \A k \in 1..3 : ~IsVariable(pat[k]) => x[k] = pat[k]
  /\ \A j, k \in 1..3 : pat[j] = pat[k] => x[j] = x[k]

Before(order, x, y) ==
  \E k \in 1..3 : /\ x[order[k]] < y[order[k]]
                  /\ \A j \in 1..k - 1 : x[order[j]] = y[order[j]]

\* hx_store_hexastore_index_iter_is_sorted_by_index
IndexIsSortedBy(pat, order, position) ==
  \A k \in 1..3 : order[k] = position => \A j \in 1..k - 1 : ~IsVariable(pat[order[j]])

\* index_to_triple_pos holds the column of each position, and 0 for a position
\* that is bound; sorted_by (581-586) reads it at a column, to get a position.
PositionClaimed(pat, column) ==
  IF IsVariable(pat[column])
  THEN CHOOSE c \in 1..3 : VariablePositions(pat)[c] = column
  ELSE 1

\* _hx_store_hexastore_iter_vb_current: a triple as a row
RowOf(pat, x) ==
  LET positions == VariablePositions(pat)
  IN  Row([c \in DOMAIN positions |-> pat[positions[c]]],
          [c \in DOMAIN positions |-> x[positions[c]]])

\* hx_store_hexastore_get_statements_with_index and the iterator it returns
StatementsWithIndex(content, pat, order) ==
  LET positions == VariablePositions(pat)
      found     == SortSeq(FoldSet(LAMBDA x, seq : Append(seq, x), <<>>,
                                   {x \in content : TripleMatches(pat, x)}),
                           LAMBDA x, y : Before(order, x, y))
      names     == [c \in DOMAIN positions |-> pat[positions[c]]]
  IN  Iter(names,
           {c \in DOMAIN positions : IndexIsSortedBy(pat, order, PositionClaimed(pat, c))},
           [r \in DOMAIN found |-> RowOf(pat, found[r])])

\* hx_model_new_variablebindings_iter_for_triple sorts by a variable or not at all;
\* here, by the positions of the variable.
SortNode(pat, position) ==
  IF IsVariable(pat[position]) THEN {k \in 1..3 : pat[k] = pat[position]} ELSE {}

\* hx_store_hexastore_get_statements takes the first position of the node.
Statements(content, pat, position) ==
  LET at == SortNode(pat, position)
  IN  StatementsWithIndex(content, pat, OrderFor(pat, IF at = {} THEN 1 ELSE Min(at)))

-----------------------------------------------------------------------------
(* Iterators with one child or a list of them.                             *)

\* hx_new_materialize_iter, _hx_materialize_prime_results: every row takes the
\* names of the iterator, whatever its own were.
Materialize(s) ==
  Iter(s.names, IF s.sorted = {} THEN {} ELSE {Max(s.sorted)},
       [r \in DOMAIN s.rows |-> SetNames(s.rows[r], s.names)])

\* hx_new_materialize_iter_with_data
Materialized(names, rows) == Iter(names, {}, rows)

\* hx_materialize_sort_iter_by_column
SortByColumn(s, column) ==
  Iter(s.names, {column},
       SortSeq(s.rows, LAMBDA a, b :
         NodeIdForBinding(a, column) < NodeIdForBinding(b, column)))

\* hx_variablebindings_sort_iter
SortIter_Trusting(s, column) == s

SortIter(s, column) ==
  IF column \in s.sorted THEN s ELSE SortByColumn(Materialize(s), column)

\* hx_materialize_sort_iter
SortWhole(s) == Iter(s.names, {1}, SortSeq(s.rows, LAMBDA a, b : Cmp(a, b) < 0))

\* hx_new_union_iter: names of the first, rows of one after the other
Union(children) ==
  IF children = <<>> \/ \E c \in DOMAIN children : ~children[c].ok THEN NULLITER
  ELSE Iter(children[1].names, {},
            FlattenSeq([c \in DOMAIN children |-> children[c].rows]))

\* hx_new_project_iter
ProjectIter(s, names) ==
  IF ~s.ok THEN NULLITER
  ELSE LET columns == [n \in DOMAIN names |-> Column(s.names, names[n])]
       IN  Iter(names, {}, [r \in DOMAIN s.rows |-> Project(s.rows[r], columns)])

\* hx_new_delay_iter takes its time, and nothing else.
Delay(s) == s

-----------------------------------------------------------------------------
(* Merge join.  A batch is a run of rows with one key; the machine goes    *)
(* through the pairs of two batches of equal key.                          *)

Shared(l, r) == {c \in DOMAIN l.names : Column(r.names, l.names[c]) # 0}

Run(rows, column) ==
  LET n == {k \in 1..Len(rows) : \A j \in 1..k :
              NodeIdForBinding(rows[j], column) = NodeIdForBinding(rows[1], column)}
  IN  Cardinality(n)

\* The names of a join, the same in all three
JoinIterNames(l, r) == JoinNames(l.names, r.names)

\* hx_new_mergejoin_iter: the key is the first column of lhs that rhs has too.
MergeNew(l, r) ==
  LET lcol == Min(Shared(l, r))
      rcol == Column(r.names, l.names[lcol])
      lhs  == SortIter(l, lcol)
      rhs  == SortIter(r, rcol)
  IN  [kind |-> "merge", names |-> JoinIterNames(l, r),
       lcol |-> lcol, rcol |-> rcol, lhs |-> lhs.rows, rhs |-> rhs.rows,
       lbatch |-> <<>>, rbatch |-> <<>>, i |-> 1, j |-> 1,
       current |-> <<>>, finished |-> FALSE]

\* _hx_mergejoin_get_batch, for each side
GetLhs(m) == LET n == Run(m.lhs, m.lcol)
             IN  [m EXCEPT !.lbatch = SubSeq(m.lhs, 1, n),
                           !.lhs    = SubSeq(m.lhs, n + 1, Len(m.lhs))]
GetRhs(m) == LET n == Run(m.rhs, m.rcol)
             IN  [m EXCEPT !.rbatch = SubSeq(m.rhs, 1, n),
                           !.rhs    = SubSeq(m.rhs, n + 1, Len(m.rhs))]

LKey(m)      == NodeIdForBinding(m.lbatch[1], m.lcol)
RKey(m)      == NodeIdForBinding(m.rbatch[1], m.rcol)
OneEmpty(m)  == m.lbatch = <<>> \/ m.rbatch = <<>>
Pair(m)      == NaturalJoin(m.lbatch[m.i], m.rbatch[m.j])
Finished(m)  == [m EXCEPT !.lbatch = <<>>, !.rbatch = <<>>, !.current = <<>>, !.finished = TRUE]

\* The side with the smaller key goes on (31-35, 111-115).
Behind(m) == IF LKey(m) < RKey(m) THEN GetLhs(m) ELSE GetRhs(m)

RECURSIVE Align(_)
Align(m) ==
  IF OneEmpty(m) THEN Finished(m)
  ELSE IF LKey(m) = RKey(m) THEN [m EXCEPT !.i = 1, !.j = 1]
  ELSE Align(Behind(m))

\* The step to the next pair (99-144); both sides go on after the last.
Advance_LhsOnly(m) ==
  CASE m.j < Len(m.rbatch) -> [m EXCEPT !.j = @ + 1]
    [] m.j >= Len(m.rbatch) /\ m.i < Len(m.lbatch) -> [m EXCEPT !.i = @ + 1]
    [] OTHER -> Align(GetRhs(GetLhs(m)))

Advance(m) ==
  CASE m.j < Len(m.rbatch) -> [m EXCEPT !.j = @ + 1]
    [] m.j >= Len(m.rbatch) /\ m.i < Len(m.lbatch) -> [m EXCEPT !.i = @ + 1, !.j = 1]
    [] OTHER -> Align(GetRhs(GetLhs(m)))

\* _hx_mergejoin_iter_vb_next
RECURSIVE MergeNext(_)
MergeNext(m) ==
  LET n == Advance(m)
  IN  IF n.finished THEN n
      ELSE IF Pair(n) # <<>> THEN [n EXCEPT !.current = Pair(n)]
      ELSE MergeNext(n)

\* _hx_mergejoin_prime_first_result, once it has the first batches.  When the
\* first pair does not join, next finds one that does; the loop then joins it
\* again and, once out of it, goes back to the first pair of the batches.
RECURSIVE MergeFirst(_)
MergeFirst(m) ==
  IF OneEmpty(m) THEN Finished(m)
  ELSE IF LKey(m) # RKey(m) THEN MergeFirst(Behind(m))
  ELSE IF Pair(m) # <<>> THEN [m EXCEPT !.current = Pair(m), !.i = 1, !.j = 1]
  ELSE MergeFirst(MergeNext(m))

MergePrime(m) == MergeFirst(GetRhs(GetLhs(m)))

\* _hx_mergejoin_iter_sorted_by
MergeSorted(m, l) == {c \in DOMAIN m.names : Column(l.names, m.names[c]) = m.lcol}

-----------------------------------------------------------------------------
(* Nested loop join, which first reads all rows of both sides.  i and j are *)
(* those of the current pair; seen: the left row has had a result.          *)

NestedNew(l, r, left) ==
  [kind |-> "nested", names |-> JoinIterNames(l, r), left |-> left,
   lhs |-> l.rows, rhs |-> r.rows, i |-> 1, j |-> 0, seen |-> FALSE,
   current |-> <<>>, finished |-> FALSE]

NestedDone(n) == [n EXCEPT !.current = <<>>, !.finished = TRUE]

\* A left join yields a left row that met no right one (111-118, 150-157).
Alone(n) == n.left /\ ~n.seen
Yield(n) == [n EXCEPT !.seen = TRUE, !.current = <<n.lhs[n.i]>>]

NextLhs(n) == [n EXCEPT !.i = @ + 1, !.j = 1, !.seen = FALSE]

RECURSIVE NestedNext(_), NestedPair(_)

NestedPair(n) ==
  LET joined == NaturalJoin(n.lhs[n.i], n.rhs[n.j])
  IN  IF joined # <<>> THEN [n EXCEPT !.current = joined, !.seen = TRUE] ELSE NestedNext(n)

\* _hx_nestedloopjoin_iter_vb_next
NestedNext(n) ==
  CASE n.i = Len(n.lhs) /\ n.j = Len(n.rhs) -> IF Alone(n) THEN Yield(n) ELSE NestedDone(n)
    [] n.j < Len(n.rhs)                     -> NestedPair([n EXCEPT !.j = @ + 1])
    [] OTHER -> IF Alone(n) THEN Yield([n EXCEPT !.j = @ + 1])
                ELSE IF n.i = Len(n.lhs) THEN NestedDone(n)
                ELSE NestedPair(NextLhs(n))

\* _hx_nestedloopjoin_prime_results: its loops are those of next, from before
\* the first pair.  With either side empty there is no result, left join or not.
NestedPrime(n) == IF n.lhs = <<>> \/ n.rhs = <<>> THEN NestedDone(n) ELSE NestedNext(n)

-----------------------------------------------------------------------------
(* Hash join: a table of the right rows by the shared columns.  k is the   *)
(* place among the matches of the left row at i.  It is never a left join: *)
(* a plan does not keep the word (hx_new_optimizer_join_plan), and nobody  *)
(* else asks for one.                                                      *)

HashNew(l, r) ==
  [kind |-> "hash", names |-> JoinIterNames(l, r),
   pairs |-> {p \in (DOMAIN l.names) \X (DOMAIN r.names) : l.names[p[1]] = r.names[p[2]]},
   lhs |-> l.rows, rhs |-> r.rows, i |-> 0, k |-> 0,
   matches |-> <<>>, current |-> <<>>, finished |-> FALSE]

\* The keys of a left and of a right row, in the hash table and in its buckets
SameKey(h, left, b) ==
  \A p \in h.pairs : NodeIdForBinding(left, p[1]) = NodeIdForBinding(b, p[2])

\* hx_hash_add for all rows on the right, and hx_hash_apply with a key: whatever
\* the buckets, the rows with that key in the order of their addition
Matches(h, left) == SelectSeq(h.rhs, LAMBDA b : SameKey(h, left, b))

Item(seq, k) == IF k <= Len(seq) THEN <<seq[k]>> ELSE <<>>   \* hx_container_item

HashDone(h) == [h EXCEPT !.current = <<>>, !.finished = TRUE]

\* _hx_hashjoin_prime_results: the first left row with a match
HashPrime(h) ==
  LET with == {i \in DOMAIN h.lhs : Matches(h, h.lhs[i]) # <<>>}
  IN  IF with = {} THEN HashDone(h)
      ELSE LET found == Matches(h, h.lhs[Min(with)])
           IN  [h EXCEPT !.i = Min(with), !.k = 1, !.matches = found,
                         !.current = NaturalJoin(h.lhs[Min(with)], found[1])]

\* From match k up to a limit (187-206); the row joined has the right names first.
RECURSIVE HashFrom(_, _), HashNext(_)
HashFrom(h, limit) ==
  IF h.k > limit THEN HashNext(h)
  ELSE IF Item(h.matches, h.k) # <<>> /\ NaturalJoin(h.matches[h.k], h.lhs[h.i]) # <<>>
  THEN [h EXCEPT !.current = NaturalJoin(h.matches[h.k], h.lhs[h.i])]
  ELSE HashFrom([h EXCEPT !.k = @ + 1], limit)

\* _hx_hashjoin_iter_vb_next.  The loop over the matches of a new left row is
\* still bounded by the number of matches of the one before: the size that is
\* computed for the new row is that of an inner variable (156, 172, 182).
HashNext(h) ==
  IF h.k + 1 <= Len(h.matches) THEN HashFrom([h EXCEPT !.k = @ + 1], Len(h.matches))
  ELSE IF h.i = Len(h.lhs) THEN HashDone(h)
  ELSE HashFrom([h EXCEPT !.i = @ + 1, !.k = 1, !.matches = Matches(h, h.lhs[h.i + 1])],
                Len(h.matches))

-----------------------------------------------------------------------------
(* Calls of a join by its client, and the iterator it is to its client.    *)

Prime(j) == CASE j.kind = "merge"  -> MergePrime(j)
              [] j.kind = "nested" -> NestedPrime(j)
              [] j.kind = "hash"   -> HashPrime(j)

NextResult(j) == CASE j.kind = "merge"  -> MergeNext(j)
                   [] j.kind = "nested" -> NestedNext(j)
                   [] j.kind = "hash"   -> HashNext(j)

RECURSIVE Drain(_)
Drain(j) == IF j.finished THEN <<>> ELSE j.current \o Drain(NextResult(j))

\* Merge and hash joins need a shared variable.
CanJoin(kind, l, r) == l.ok /\ r.ok /\ (kind \in {"nested", "left"} \/ Shared(l, r) # {})

NewJoin(kind, l, r) == CASE kind = "merge"  -> MergeNew(l, r)
                         [] kind = "nested" -> NestedNew(l, r, FALSE)
                         [] kind = "left"   -> NestedNew(l, r, TRUE)
                         [] kind = "hash"   -> HashNew(l, r)

Join(kind, l, r) ==
  IF ~CanJoin(kind, l, r) THEN NULLITER
  ELSE LET j == NewJoin(kind, l, r)
       IN  Iter(j.names, IF kind = "merge" THEN MergeSorted(j, l) ELSE {}, Drain(Prime(j)))

-----------------------------------------------------------------------------
(* When joins are known to go wrong, for the properties to say where.      *)

\* Sorted in a column where the iterator says so; with rows of its own columns.
Trusted(s, column) ==
  column \in s.sorted =>
    \A k \in 2..Len(s.rows) : s.rows[k - 1].nodes[column] <= s.rows[k].nodes[column]
Straight(s) == \A k \in DOMAIN s.rows : s.rows[k].names = s.names

\* A merge join takes its key by column, and does not look twice at a claim.
MergesWell(l, r) ==
  LET j == MergeNew(l, r)
  IN  Straight(l) /\ Straight(r) /\ Trusted(l, j.lcol) /\ Trusted(r, j.rcol)

\* A hash join takes its keys by column too, and forgets a match of a left row that
\* follows one without matches, once it has yielded a row.
HashForgets(l, r) ==
  LET has(i) == Matches(HashNew(l, r), l.rows[i]) # <<>>
  IN  \E h, i \in DOMAIN l.rows : h < i - 1 /\ has(h) /\ ~has(i - 1) /\ has(i)
HashesWell(l, r) == Straight(l) /\ Straight(r) /\ ~HashForgets(l, r)
==============================================================================
