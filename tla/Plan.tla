-------------------------------- MODULE Plan --------------------------------
(***************************************************************************)
(* The query optimizer (optimizer/): plans for the evaluation of a basic   *)
(* graph pattern, their costs, the search for the cheapest one and its     *)
(* execution; and the federated variant, in which every triple may be      *)
(* answered by any of several services.                                    *)
(*                                                                         *)
(* A plan is a record; location 0 is the local engine, i > 0 service i.    *)
(*   [type |-> "index", index |-> name, triple |-> t, ...]                 *)
(*   [type |-> "join", join |-> "hash" / "merge" / "nested",               *)
(*    lhs |-> p, rhs |-> q, ...]                                           *)
(*   [type |-> "union", plans |-> <<p1, ..., pn>>, ...]                    *)
(* `order' are the variables it is said to be sorted by.                   *)
(*                                                                         *)
(* An operator with an underscore in its name is a mutated form of the one *)
(* that follows it, and is used by no specification.                       *)
(***************************************************************************)
EXTENDS Query

IndexOrder == [SPO |-> <<1, 2, 3>>, SOP |-> <<1, 3, 2>>, PSO |-> <<2, 1, 3>>,
               POS |-> <<2, 3, 1>>, OSP |-> <<3, 1, 2>>, OPS |-> <<3, 2, 1>>]

AccessPlan(index, t, order) ==
  [type |-> "index", index |-> index, triple |-> t, order |-> order, location |-> 0]
JoinPlan(join, lhs, rhs, order) ==
  [type |-> "join", join |-> join, lhs |-> lhs, rhs |-> rhs, order |-> order, location |-> 0]
UnionPlan(plans) ==
  [type |-> "union", plans |-> plans, order |-> <<>>, location |-> 0]

-----------------------------------------------------------------------------
(* Access plans: the indexes that can answer a triple.                     *)

Bound(t) == {k \in 1..3 : ~IsVariable(t[k])}

\* The variable that is repeated in three variables, or 0.  The scan keeps the
\* one of the last pair it meets.
Repeated(t) ==
  LET pairs == {k \in 1..3 : IsVariable(t[k]) /\ \E j \in k + 1..3 : t[j] = t[k]}
  IN  IF pairs = {} THEN 0 ELSE t[Max(pairs)]

\* _hx_store_hexastore_index_ok_for_triple
IndexOk(order, t) ==
  /\ \A k \in 1..Cardinality(Bound(t)) : order[k] \in Bound(t)
  /\ Bound(t) = {} /\ Repeated(t) # 0 => t[order[1]] = Repeated(t) /\ t[order[2]] = Repeated(t)

\* hx_store_hexastore_iter_sorting
IterSorting_FromTheStart(order, t) ==
  [k \in 1..3 - Cardinality(Bound(t)) |-> t[order[k]]]

IterSorting(order, t) ==
  LET bound == Cardinality(Bound(t)) IN [k \in 1..3 - bound |-> t[order[bound + k]]]

\* hx_optimizer_access_plans, over hx_store_hexastore_triple_orderings
AccessPlans(t) ==
  {AccessPlan(name, t, IterSorting(IndexOrder[name], t)) :
     name \in {n \in DOMAIN IndexOrder : IndexOk(IndexOrder[n], t)}}

-----------------------------------------------------------------------------
(* Costs.  The penalties are those of a new execution context.             *)

Penalty == [nested |-> 3, hash |-> 1, merge |-> 2]
RemoteLatencyCost == 100

\* hx_model_count_statements, with all indexes: it sees the bound positions only.
CountStatements(content, t) ==
  Cardinality({x \in content : \A k \in Bound(t) : x[k] = t[k]})

\* _hx_optimizer_plan_mergeable_sorting
MergeableSorting(p) ==
  /\ p.lhs.order # <<>> /\ p.rhs.order # <<>>
  /\ p.lhs.order[1] = p.rhs.order[1]

\* _hx_optimizer_plan_cost: the cost of a plan, and what it adds to the
\* accumulator for intermediate results and remote calls.
RECURSIVE CostAt(_, _, _)
CostAt(content, p, level) ==
  CASE p.type = "index" -> <<CountStatements(content, p.triple), 0>>
    [] p.type = "union" ->
         FoldLeft(LAMBDA sum, q : LET c == CostAt(content, q, level + 1)
                                  IN  <<sum[1] + c[1], sum[2] + c[2]>>, <<0, 0>>, p.plans)
    [] p.type = "join" ->
         LET l    == CostAt(content, p.lhs, level + 1)
             r    == CostAt(content, p.rhs, level + 1)
             cost == l[1] * r[1] +
                     (IF p.join = "merge" /\ MergeableSorting(p) THEN 0 ELSE Penalty[p.join])
         IN  <<cost, l[2] + r[2] + (IF p.location = 0 THEN cost * level
                                    ELSE RemoteLatencyCost)>>

\* hx_optimizer_plan_cost
Cost(content, p) == LET c == CostAt(content, p, 1) IN c[1] + c[2]

\* hx_optimizer_plan_string, as far as strcmp tells strings apart: one number
\* for each name, in the order of the names; a service comes after no service,
\* a variable after a node, and the end of a union before its next plan.
Rank == [OPS |-> 1, OSP |-> 2, POS |-> 3, PSO |-> 4, SOP |-> 5, SPO |-> 6,
         hash |-> 7, merge |-> 8, nested |-> 9, union |-> 10]

RECURSIVE PlanString(_)
PlanString(p) ==
  CASE p.type = "index" ->
         <<Rank[p.index], p.location>> \o
         [k \in 1..3 |-> IF IsVariable(p.triple[k]) THEN 100 - p.triple[k] ELSE p.triple[k]]
    [] p.type = "join"  -> <<Rank[p.join], p.location>> \o PlanString(p.lhs) \o PlanString(p.rhs)
    [] p.type = "union" ->
         <<Rank["union"], p.location>> \o
         FlattenSeq([i \in DOMAIN p.plans |-> PlanString(p.plans[i])]) \o <<0>>

StrBefore(s, t) ==
  \E k \in DOMAIN t : /\ \A j \in 1..k - 1 : j \in DOMAIN s /\ s[j] = t[j]
                      /\ k \in DOMAIN s => s[k] < t[k]

\* hx_optimizer_prune_plans: no plan is interesting, the cheapest one stays; of
\* several the one that comes last as a string (_hx_optimizer_cmp_plan_by_cost).
Prune(content, plans) ==
  LET priced   == {<<Cost(content, p), p>> : p \in plans}
      least    == Min({c[1] : c \in priced})
      cheapest == {c[2] : c \in {d \in priced : d[1] = least}}
      named    == {<<PlanString(p), p>> : p \in cheapest}
  IN  (CHOOSE a \in named : \A b \in named : a = b \/ ~StrBefore(a[1], b[1]))[2]

-----------------------------------------------------------------------------
(* Join plans, and the rewriting that moves joins below unions.            *)

\* _hx_optimizer_plan_normalize_unions, applied by hx_optimizer_plan_rewrite: it
\* goes on below a plan that has been rewritten, and only there.
RECURSIVE NormalizeUnions(_)
NormalizeUnions(p) ==
  LET over(q)    == q.type = "union"
      pushed(ps) == UnionPlan([i \in DOMAIN ps |-> NormalizeUnions(ps[i])])
  IN  CASE p.type # "join" \/ p.location # 0 -> p
        [] p.type = "join" /\ p.location = 0 /\ over(p.lhs) ->
             IF p.lhs.location # 0 THEN p
             ELSE pushed([i \in DOMAIN p.lhs.plans |->
                            JoinPlan("hash", p.lhs.plans[i], p.rhs, <<>>)])
        [] OTHER ->
             IF ~over(p.rhs) \/ p.rhs.location # 0 THEN p
             ELSE pushed([i \in DOMAIN p.rhs.plans |->
                            JoinPlan("hash", p.lhs, p.rhs.plans[i], <<>>)])

\* _hx_optimizer_plan_merge_unions, applied by hx_optimizer_plan_visit: the unions
\* directly in a union are dissolved, then those in its plans.  The sort by the
\* number of service calls does nothing: qsort_r is a function with no body.
RECURSIVE MergeUnions(_)
MergeUnions(p) ==
  IF p.type # "union" THEN p
  ELSE LET merged == FlattenSeq([i \in DOMAIN p.plans |->
                       IF p.plans[i].type = "union" THEN p.plans[i].plans ELSE <<p.plans[i]>>])
       IN  [p EXCEPT !.plans = [i \in DOMAIN merged |-> MergeUnions(merged[i])]]

\* hx_optimizer_join_plans, of two plans: both ways round, with every join
JoinPlans(l, r) ==
  {MergeUnions(NormalizeUnions(JoinPlan(join, s[1], s[2], s[1].order))) :
     join \in {"nested", "hash", "merge"}, s \in {<<l, r>>, <<r, l>>}}

-----------------------------------------------------------------------------
(* Federation (optimizer-federated.c).                                     *)

\* hx_optimizer_federated_access_plans: source 0 is the local one.
FederatedAccessPlans(t, services) ==
  {UnionPlan([i \in 1..services |-> [p EXCEPT !.location = i]]) : p \in AccessPlans(t)}

\* _hx_optimizer_federated_plan_merge
FederatedMerge_AnyTwo(p) ==
  IF p.type = "join"
  THEN [p EXCEPT !.location = p.lhs.location, !.lhs.location = 0, !.rhs.location = 0]
  ELSE p

FederatedMerge(p) ==
  IF p.type = "join" /\ p.lhs.location = p.rhs.location
  THEN [p EXCEPT !.location = p.lhs.location, !.lhs.location = 0, !.rhs.location = 0]
  ELSE p

\* hx_optimizer_plan_visit with it as the visitor: a plan before its parts
RECURSIVE FederatedVisit(_)
FederatedParts(p) ==
  CASE p.type = "index" -> p
    [] p.type = "join"  -> [p EXCEPT !.lhs = FederatedVisit(@), !.rhs = FederatedVisit(@)]
    [] p.type = "union" -> [p EXCEPT !.plans = [i \in DOMAIN p.plans |->
                                                  FederatedVisit(p.plans[i])]]
FederatedVisit(p) == FederatedParts(FederatedMerge(p))

\* hx_optimizer_plan_visit_postfix: its parts are visited in the other order
FederatedVisitPostfix(p) == FederatedMerge(FederatedParts(p))

\* hx_optimizer_federated_join_plans
FederatedJoinPlans(l, r) == {FederatedVisitPostfix(p) : p \in JoinPlans(l, r)}

-----------------------------------------------------------------------------
(* The execution of a plan.                                                *)

\* hx_optimizer_plan_execute; a remote plan only takes longer.
RECURSIVE ExecutePlan(_, _)
ExecutePlan(content, p) ==
  LET iter == CASE p.type = "index" -> StatementsWithIndex(content, p.triple, IndexOrder[p.index])
                [] p.type = "join"  -> Join(p.join, ExecutePlan(content, p.lhs),
                                                    ExecutePlan(content, p.rhs))
                [] p.type = "union" -> Union([i \in DOMAIN p.plans |->
                                                ExecutePlan(content, p.plans[i])])
  IN  IF p.location > 0 /\ iter.ok THEN Delay(iter) ELSE iter

\* hx_optimizer_plan_service_calls
RECURSIVE ServiceCalls(_)
ServiceCalls(p) ==
  CASE p.location > 0     -> 1
    [] p.location = 0 /\ p.type = "index" -> 0
    [] p.location = 0 /\ p.type = "join"  -> ServiceCalls(p.lhs) + ServiceCalls(p.rhs)
    [] p.location = 0 /\ p.type = "union" ->
         FoldLeft(LAMBDA n, q : n + ServiceCalls(q), 0, p.plans)

-----------------------------------------------------------------------------
(* What a plan does: its ways, each a function from the triples it answers *)
(* to the places that answer them.  A plan at a service is answered there  *)
(* as a whole.                                                             *)

RECURSIVE Ways(_, _)
Ways(p, at) ==
  LET here == IF p.location # 0 THEN p.location ELSE at
  IN  CASE p.type = "index" -> {{<<p.triple, here>>}}
        [] p.type = "join"  -> {w[1] \cup w[2] : w \in Ways(p.lhs, here) \X Ways(p.rhs, here)}
        [] p.type = "union" -> UNION {Ways(p.plans[i], here) : i \in DOMAIN p.plans}
==============================================================================
