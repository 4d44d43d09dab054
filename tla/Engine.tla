------------------------------- MODULE Engine -------------------------------
(***************************************************************************)
(* A client that reads the results of a query (as the loops of             *)
(* cli/query.c and of every consumer in engine/ do): it makes the iterator *)
(* of a join of two tables or of a graph pattern, and then asks for        *)
(* `finished', `current' and `next' in turn.  The first question primes    *)
(* the iterator.                                                           *)
(***************************************************************************)
EXTENDS Query

CONSTANT Tasks      \* what is asked; see TaskOK

VARIABLES task,     \* the query
          iter,     \* its iterator: a join, or a row cursor for other patterns
          answers,  \* the rows the client has read
          phase     \* "new", "made", "running", "finished", or "null"

vars == <<task, iter, answers, phase>>

\* A join of two iterators, or a graph pattern over the content of a store.
TaskOK(t) ==
  \/ /\ t.type = "join" /\ t.kind \in {"merge", "nested", "left", "hash"}
     /\ CanJoin(t.kind, t.lhs, t.rhs)
  \/ t.type = "pattern" /\ \A x \in t.content : x \in [1..3 -> Nat \ {0}]

\* The iterators that keep no rows of their own hand on those of their children;
\* the remaining rows are all that can be seen of them.
Cursor(s) == [kind |-> "rows", rows |-> s.rows, current |-> <<>>, finished |-> FALSE]

Init == /\ task \in Tasks
        /\ iter = Cursor(NULLITER)
        /\ answers = <<>>
        /\ phase = "new"

\* hx_new_mergejoin_iter and the like
MakeJoin ==
  /\ phase = "new" /\ task.type = "join"
  /\ iter' = NewJoin(task.kind, task.lhs, task.rhs)
  /\ phase' = "made"
  /\ UNCHANGED <<task, answers>>

\* hx_graphpattern_execute
MakePattern ==
  /\ phase = "new" /\ task.type = "pattern"
  /\ LET s == Execute(task.content, task.pattern)
     IN  /\ iter' = Cursor(s)
         /\ phase' = IF s.ok THEN "made" ELSE "null"
  /\ UNCHANGED <<task, answers>>

\* What the client does after every step: it reads the result, if there is one.
Read(i) == /\ iter' = i
           /\ answers' = answers \o i.current
           /\ phase' = IF i.finished THEN "finished" ELSE "running"
           /\ UNCHANGED task

NextRow(c) == IF c.rows = <<>> THEN [c EXCEPT !.current = <<>>, !.finished = TRUE]
              ELSE [c EXCEPT !.current = <<Head(c.rows)>>, !.rows = Tail(@)]

\* hx_variablebindings_iter_finished, asked for the first time
PrimeJoin == phase = "made" /\ iter.kind # "rows" /\ Read(Prime(iter))
PrimeRows == phase = "made" /\ iter.kind = "rows" /\ Read(NextRow(iter))

\* hx_variablebindings_iter_next
NextJoin == phase = "running" /\ iter.kind # "rows" /\ Read(NextResult(iter))
NextRows == phase = "running" /\ iter.kind = "rows" /\ Read(NextRow(iter))

Next == MakeJoin \/ MakePattern \/ PrimeJoin \/ PrimeRows \/ NextJoin \/ NextRows

Spec == Init /\ [][Next]_vars /\ WF_vars(Next)

-----------------------------------------------------------------------------
(* What joins of tables must yield.                                        *)

ASSUME TasksAssumption == \A t \in Tasks : TaskOK(t)

JoinTask == task.type = "join"

\* Pairs of rows that agree on the variables they share, and what they say.
Meeting == {p \in (DOMAIN task.lhs.rows) \X (DOMAIN task.rhs.rows) :
              Compatible(Mapping(task.lhs.rows[p[1]]), Mapping(task.rhs.rows[p[2]]))}
Met(p)  == Mapping(task.lhs.rows[p[1]]) \cup Mapping(task.rhs.rows[p[2]])
Single  == IF task.kind = "left" THEN {i \in DOMAIN task.lhs.rows : \A p \in Meeting : p[1] # i}
           ELSE {}

\* How often a mapping is to be answered, and how often it has been.
Expected(m) == Cardinality({p \in Meeting : Met(p) = m}) +
               Cardinality({i \in Single : Mapping(task.lhs.rows[i]) = m})
Times(m)    == Cardinality({k \in DOMAIN answers : Mapping(answers[k]) = m})
Promised    == {Met(p) : p \in Meeting} \cup {Mapping(task.lhs.rows[i]) : i \in Single}
Said        == {Mapping(answers[k]) : k \in DOMAIN answers}

\* The joins that are known to go wrong.  A hash join forgets a match of a left
\* row that follows one without matches; a left join with an empty right side
\* yields nothing; a merge join of several shared variables repeats answers when
\* the first pair of equal key disagrees elsewhere.
Forgets      == task.kind = "hash" /\ HashForgets(task.lhs, task.rhs)
LeftOfNone   == task.kind = "left" /\ task.rhs.rows = <<>>
MergeRepeats == task.kind = "merge" /\ Cardinality(Shared(task.lhs, task.rhs)) > 1

\* A join of two tables yields every pair of rows that agree on all variables
\* they share, and as often as there are such pairs; a left join also the left
\* rows that met none; and no row ever that is neither.  Except where the code
\* is known to forget or to repeat rows (see above), and there it never invents
\* one, and a merge join that repeats rows still yields all of them.  While it is
\* not finished there is a row to read, and a row names each of its values.
JoinYieldsThePairs ==
  JoinTask =>
    /\ phase = "running" => iter.current # <<>>
    /\ \A k \in DOMAIN answers : IsRow(answers[k])
    /\ Said \subseteq Promised
    /\ phase = "finished" /\ ~Forgets /\ ~LeftOfNone => Said = Promised
    /\ ~MergeRepeats => \A m \in Said : Times(m) <= Expected(m)
    /\ phase = "finished" /\ ~Forgets /\ ~LeftOfNone /\ ~MergeRepeats =>
         \A m \in Promised : Times(m) = Expected(m)

\* A merge join keeps its word on sorting at every moment: the rows it has
\* yielded ascend in each column for which _hx_mergejoin_iter_sorted_by says so,
\* or the merge join above it would lose rows.
MergedInOrder ==
  JoinTask /\ task.kind = "merge" =>
    \A c \in MergeSorted(MergeNew(task.lhs, task.rhs), task.lhs), k \in 2..Len(answers) :
      answers[k - 1].nodes[c] <= answers[k].nodes[c]

-----------------------------------------------------------------------------
(* What graph patterns must yield.                                         *)

\* All patterns in a pattern.
RECURSIVE Within(_)
Within(p) == {p} \cup IF p.type = "bgp" THEN {}
                      ELSE UNION {Within(p.part[k]) : k \in DOMAIN p.part}

\* The pairs of iterators that the evaluation of one pattern hands to merge joins.
MergeInputs(content, p) ==
  CASE p.type = "bgp" ->
         {LET before == BgpJoin(content, SubSeq(p.triples, 1, i - 1), 2,
                                BgpStart(content, p.triples))
          IN  <<Statements(content, p.triples[i], SortForVbJoin(p.triples[i], before)), before>> :
            i \in 2..Len(p.triples)}
    [] p.type = "group" ->
         {<<Execute(content, [p EXCEPT !.part = SubSeq(@, 1, i - 1)]), Execute(content, p.part[i])>> :
            i \in 2..Len(p.part)}
    [] OTHER -> {}

\* What is known to go wrong: merge joins that trust a wrong claim or take rows
\* with other columns than announced, and optional parts that match nothing.
EvaluatesWell(content, p) ==
  \A q \in Within(p) :
    /\ \A pair \in MergeInputs(content, q) :
         CanJoin("merge", pair[1], pair[2]) => MergesWell(pair[1], pair[2])
    /\ q.type = "optional" => Execute(content, q.part[2]).rows # <<>>

\* The answers of the evaluation of a graph pattern are the mappings that the
\* pattern has over the content of the store, but for the defects above.
PatternAnswers ==
  task.type = "pattern" /\ phase = "finished" /\ EvaluatesWell(task.content, task.pattern) =>
    Said = Answers(task.content, task.pattern)

-----------------------------------------------------------------------------
(* What the algebra must keep.                                             *)

\* The rows a caller can substitute into a pattern: a variable and a node.
RowsOver(variables) ==
  {Row(<<v>>, <<n>>) : v \in {u \in variables : Distinguished(u)}, n \in DOMAIN NodeKind}

\* A pattern into which a row was substituted has, with the row, just those
\* answers of the pattern that agree with the row, and no variable of the row is
\* left.  (Where the code returns NULL there is no such pattern.)
SubstitutionSelects ==
  task.type = "pattern" /\ phase \in {"finished", "null"} =>
    \A row \in RowsOver(PatternVariables(task.pattern)) :
      LET selected == Substitute(task.pattern, row)
      IN  selected # <<>> =>
            /\ PatternVariables(selected[1]) = PatternVariables(task.pattern) \ Range(row.names)
            /\ JoinAnswers(Answers(task.content, selected[1]), {Mapping(row)}) =
               JoinAnswers(Answers(task.content, task.pattern), {Mapping(row)})

\* The counts of the triples, as hx_bgp_reorder gets them from the store.
Counts(content, b) ==
  [i \in DOMAIN b |-> Cardinality({x \in content :
                        \A k \in 1..3 : ~IsVariable(b[i][k]) => x[k] = b[i][k]})]

\* The triples share variables, each with some other, and are not of two kinds that
\* share none.
Connected(b) ==
  \A part \in SUBSET (DOMAIN b) \ {{}, DOMAIN b} :
    \E i \in part, j \in DOMAIN b \ part : TripleVariables(b[i]) \cap TripleVariables(b[j]) # {}

\* Reordering keeps all triples and begins with the cheapest, and each other triple
\* shares a variable with an earlier one, so that no join of the pattern is without a
\* key: in a connected pattern of up to three triples, which is always reordered, and
\* in others up to the first triple that is swapped, after which the code takes note of
\* the wrong variables (see BgpReorder).
ReorderedTriplesJoin ==
  task.type = "pattern" /\ task.pattern.type = "bgp" /\ phase \in {"finished", "null"} =>
    LET b     == task.pattern.triples
        cost  == Counts(task.content, b)
        new   == BgpReorder(b, cost)
        few   == Connected(b) /\ Len(b) <= 3
        moved == {i \in DOMAIN b : new[1][i] # ByCost(b, cost)[i]}
    IN  /\ few /\ (\A i \in DOMAIN b : cost[i] > 0) => new # <<>>
        /\ new # <<>> =>
          /\ \E f \in Permutations(DOMAIN b) :
               /\ \A i \in DOMAIN b : new[1][f[i]] = b[i]
               /\ \A i, j \in DOMAIN b : f[i] = 1 => cost[i] <= cost[j]
          /\ \A i \in 2..Len(b) : few \/ (\A m \in moved : i <= m) => \E j \in 1..i - 1 :
               TripleVariables(new[1][i]) \cap TripleVariables(new[1][j]) # {}
==============================================================================
