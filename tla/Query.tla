------------------------------- MODULE Query -------------------------------
(***************************************************************************)
(* Basic graph patterns, graph patterns and expressions (algebra/) and how *)
(* the engine evaluates them (engine/bgp.c, graphpattern.c, expr.c), next  *)
(* to what they mean: the set of mappings from variables to nodes that     *)
(* answer a pattern.                                                       *)
(*                                                                         *)
(* A graph pattern is a record; `part' is the sequence of its parts:       *)
(*   [type |-> "bgp", triples |-> <<t1, ..., tn>>]                         *)
(*   [type |-> "group" / "optional" / "union", part |-> <<p1, ..., pn>>]   *)
(*   [type |-> "filter", expr |-> e, part |-> <<p>>]                       *)
(*   [type |-> "graph" / "service", part |-> <<p>>], of a named graph or a  *)
(*     named service, which the engine refuses (the optimizer plans services) *)
(* An expression is [op |-> "node", node |-> id], or an operation with a   *)
(* sequence of arguments, [op |-> "isliteral", args |-> <<e>>].            *)
(*                                                                         *)
(* An operator with an underscore in its name is a mutated form of the one *)
(* that follows it, and is used by no specification.                       *)
(***************************************************************************)
EXTENDS Iterators

CONSTANT NodeKind   \* what each node is: "iri", "blank" or "literal"

TrueNode  == 98     \* the literals that comparisons and tests yield
FalseNode == 99

-----------------------------------------------------------------------------
(* Basic graph patterns.                                                   *)

TripleVariables(t) == {n \in Range(t) : IsVariable(n)}

\* hx_node_is_distinguished_variable: variables that stand for blank nodes are not.
Distinguished(v) == v > -100

\* hx_bgp_variables
BgpVariables(b) == UNION {TripleVariables(b[i]) : i \in DOMAIN b}

\* _hx_bgp_sort_for_triple_join: the first position of l with a variable of r
SortForTripleJoin(l, r) ==
  LET common == {k \in 1..3 : l[k] \in TripleVariables(r)}
  IN  IF common = {} THEN 1 ELSE Min(common)

\* _hx_bgp_sort_for_vb_join: the position of the first column that the iterator
\* is sorted by and l has; failing that the first of l that the iterator has.
SortForVbJoin(l, iter) ==
  LET with(c) == {k \in 1..3 : IsVariable(l[k]) /\ l[k] = iter.names[c]}
      sorted  == {c \in iter.sorted : with(c) # {}}
      common  == {k \in 1..3 : IsVariable(l[k]) /\ l[k] \in Range(iter.names)}
  IN  IF sorted # {} THEN Min(with(Min(sorted)))
      ELSE IF common # {} THEN Min(common) ELSE 1

\* The loop of hx_bgp_execute: the new triple is on the left of the join.
RECURSIVE BgpJoin(_, _, _, _)
BgpJoin(content, b, i, iter) ==
  IF i > Len(b) \/ ~iter.ok THEN iter
  ELSE BgpJoin(content, b, i + 1,
               Join("merge", Statements(content, b[i], SortForVbJoin(b[i], iter)), iter))

BgpStart(content, b) ==
  Statements(content, b[1], IF Len(b) > 1 THEN SortForTripleJoin(b[1], b[2]) ELSE 1)

\* hx_bgp_execute.  If some variables are not distinguished it projects to those
\* that are, in the order that hx_bgp_variables gives.
BgpExecute(content, b) ==
  LET all  == BgpJoin(content, b, 2, BgpStart(content, b))
      kept == SetToSortSeq({v \in BgpVariables(b) : Distinguished(v)}, LAMBDA m, n : m > n)
  IN  IF \A v \in BgpVariables(b) : Distinguished(v) THEN all ELSE ProjectIter(all, kept)

\* hx_bgp_substitute_variables
SubstituteTriple_Subject(t, row) ==
  IF IsVariable(t[1]) /\ NodeIdForBindingName(row, t[1]) # 0
  THEN [t EXCEPT ![1] = NodeIdForBindingName(row, t[1])] ELSE t

SubstituteTriple(t, row) ==
  [k \in 1..3 |-> IF IsVariable(t[k]) /\ NodeIdForBindingName(row, t[k]) # 0
                  THEN NodeIdForBindingName(row, t[k]) ELSE t[k]]

BgpSubstitute(b, row) == [i \in DOMAIN b |-> SubstituteTriple(b[i], row)]

\* hx_bgp_reorder.  `cost' are the counts of the triples; a count of 0, or no
\* triple left that joins with those before, returns 1 and leaves the pattern as
\* it is.  After a swap `t' is still the triple that was there before, and it is
\* the variables of that one that count as seen (336, 350-368): it then seems to join,
\* if only with itself.
JoinsWithSeen_Next(s, i, seen) == {i}
JoinsWithSeen(s, i, seen) == {j \in i..Len(s) : TripleVariables(s[j]) \cap seen # {}}

RECURSIVE ReorderFrom(_, _, _)
ReorderFrom(s, i, seen) ==
  IF i > Len(s) THEN <<s>>
  ELSE LET joins == JoinsWithSeen(s, i, seen)
           j     == Min(joins)
           t     == s[i]
       IN  IF i > 1 /\ joins = {} THEN <<>>
           ELSE ReorderFrom(IF i = 1 THEN s ELSE [s EXCEPT ![i] = s[j], ![j] = t],
                            i + 1, seen \cup TripleVariables(t))

ByCost(b, cost) ==
  LET places == SortSeq([i \in DOMAIN b |-> i], LAMBDA i, j : cost[i] < cost[j])
  IN  [i \in DOMAIN b |-> b[places[i]]]

BgpReorder(b, cost) ==
  IF \E i \in DOMAIN b : cost[i] = 0 THEN <<>> ELSE ReorderFrom(ByCost(b, cost), 1, {})

-----------------------------------------------------------------------------
(* Expressions (engine/expr.c).  An error is the empty sequence.           *)

Truth(b) == <<IF b THEN TrueNode ELSE FalseNode>>

Kind(n) == IF n \in {TrueNode, FalseNode} THEN "literal" ELSE NodeKind[n]

\* hx_expr_eval.  Operators it does not know end in an error.
RECURSIVE ExprEval(_, _)
ExprEval(e, row) ==
  LET value(k) == ExprEval(e.args[k], row)
      one      == value(1) # <<>>
      both     == value(1) # <<>> /\ value(2) # <<>>
  IN  CASE e.op = "node" ->
             IF ~IsVariable(e.node) THEN <<e.node>>
             ELSE IF NodeIdForBindingName(row, e.node) = 0 THEN <<>>
             ELSE <<NodeIdForBindingName(row, e.node)>>
        [] e.op = "isiri"     -> IF one THEN Truth(Kind(value(1)[1]) = "iri") ELSE <<>>
        [] e.op = "isblank"   -> IF one THEN Truth(Kind(value(1)[1]) = "blank") ELSE <<>>
        [] e.op = "isliteral" -> IF one THEN Truth(Kind(value(1)[1]) = "literal") ELSE <<>>
        [] e.op = "equal"     -> IF both THEN Truth(value(1) = value(2)) ELSE <<>>
        [] e.op = "nequal"    -> IF both THEN Truth(value(1) # value(2)) ELSE <<>>
        [] OTHER              -> <<>>

\* hx_node_ebv, of the nodes that come up: -1 for what is not a literal
Ebv(n) == IF Kind(n) # "literal" THEN -1 ELSE IF n = FalseNode THEN 0 ELSE 1

\* What _hx_filter_get_next_result lets pass
Passes_Errors(e, row) == ExprEval(e, row) = <<>> \/ Ebv(ExprEval(e, row)[1]) = 1
Passes(e, row)        == ExprEval(e, row) # <<>> /\ Ebv(ExprEval(e, row)[1]) = 1

\* hx_new_filter_iter
Filter(s, e) ==
  IF ~s.ok THEN NULLITER
  ELSE Iter(s.names, s.sorted, SelectSeq(s.rows, LAMBDA b : Passes(e, b)))

\* hx_expr_substitute_variables
RECURSIVE ExprSubstitute(_, _)
ExprSubstitute(e, row) ==
  IF e.op = "node"
  THEN IF IsVariable(e.node) /\ NodeIdForBindingName(row, e.node) # 0
       THEN [e EXCEPT !.node = NodeIdForBindingName(row, e.node)] ELSE e
  ELSE [e EXCEPT !.args = [k \in DOMAIN e.args |-> ExprSubstitute(e.args[k], row)]]

-----------------------------------------------------------------------------
(* Graph patterns.                                                         *)

\* hx_graphpattern_execute
RECURSIVE Execute(_, _)
Execute(content, p) ==
  LET part(k) == Execute(content, p.part[k])
  IN  CASE p.type = "bgp"      -> BgpExecute(content, p.triples)
        [] p.type = "group"    -> FoldLeft(LAMBDA l, r : Join("merge", l, r), part(1),
                                           [k \in 1..Len(p.part) - 1 |-> part(k + 1)])
        [] p.type = "filter"   -> Filter(part(1), p.expr)
        [] p.type = "optional" -> Join("left", part(1), part(2))
        [] p.type = "union"    -> Union(<<part(1), part(2)>>)
        [] p.type \in {"graph", "service"} -> NULLITER

\* hx_graphpattern_substitute_variables: only under bgp and filter; NULL for the
\* others, which is also what a filter over one of them then holds.
RECURSIVE Substitute(_, _)
Substitute(p, row) ==
  CASE p.type = "bgp"    -> <<[p EXCEPT !.triples = BgpSubstitute(@, row)]>>
    [] p.type = "filter" ->
         LET inner == Substitute(p.part[1], row)
         IN  IF inner = <<>> THEN <<>>
             ELSE <<[p EXCEPT !.part = inner, !.expr = ExprSubstitute(@, row)]>>
    [] OTHER             -> <<>>

\* hx_graphpattern_variables
RECURSIVE PatternVariables(_)
PatternVariables(p) ==
  CASE p.type = "bgp"   -> BgpVariables(p.triples)
    [] p.type = "graph" -> {}
    [] OTHER            -> UNION {PatternVariables(p.part[k]) : k \in DOMAIN p.part}

-----------------------------------------------------------------------------
(* What patterns mean: the mappings that answer them, each a set of pairs  *)
(* of a variable and a node.                                               *)

TripleAnswers(content, t) ==
  {{<<t[k], x[k]>> : k \in {j \in 1..3 : IsVariable(t[j])}} :
     x \in {y \in content : TripleMatches(t, y)}}

JoinAnswers(A, B) ==
  {p[1] \cup p[2] : p \in {q \in A \X B : Compatible(q[1], q[2])}}

LeftAnswers(A, B) ==
  JoinAnswers(A, B) \cup {m \in A : \A n \in B : ~Compatible(m, n)}

BgpAnswers(content, b) ==
  {{a \in m : Distinguished(a[1])} :
     m \in FoldLeft(LAMBDA A, t : JoinAnswers(A, TripleAnswers(content, t)), {{}}, b)}

AsRow(m) == LET pairs == SetToSeq(m)
            IN  Row([k \in DOMAIN pairs |-> pairs[k][1]], [k \in DOMAIN pairs |-> pairs[k][2]])

\* An expression holds when it has a value, and that is a literal and not false.
Holds(e, row) ==
  \E v \in Range(ExprEval(e, row)) : Kind(v) = "literal" /\ v # FalseNode

RECURSIVE Answers(_, _)
Answers(content, p) ==
  LET part(k) == Answers(content, p.part[k])
  IN  CASE p.type = "bgp"      -> BgpAnswers(content, p.triples)
        [] p.type = "group"    -> FoldLeft(LAMBDA A, k : JoinAnswers(A, part(k)), {{}},
                                           [k \in DOMAIN p.part |-> k])
        [] p.type = "filter"   -> {m \in part(1) : Holds(p.expr, AsRow(m))}
        [] p.type = "optional" -> LeftAnswers(part(1), part(2))
        [] p.type = "union"    -> part(1) \cup part(2)
        [] p.type \in {"graph", "service"} -> {}
==============================================================================
