------------------------------ MODULE Optimizer ------------------------------
(***************************************************************************)
(* hx_optimizer_optimize_bgp at work (optimizer/optimizer.c): it finds the *)
(* plans of all sets of one triple, of two, and so on, each from the plans *)
(* of its parts, and then the plan of the whole pattern is executed.       *)
(***************************************************************************)
EXTENDS Plan

CONSTANTS Contents,  \* contents of the store
          Bgps,      \* patterns, sequences of triples
          Services   \* numbers of services; 0 for the local optimizer

VARIABLES content, bgp, services,
          opt,       \* optPlans: the best plan of each set of triples so far
          size,      \* size of the sets planned last
          iter       \* the iterator of the final plan, or <<>>

vars == <<content, bgp, services, opt, size, iter>>

\* The plans of one triple, and of two plans: with no services the optimizer
\* is the local one.
AccessTo(t)     == IF services = 0 THEN AccessPlans(t) ELSE FederatedAccessPlans(t, services)
JoinsOf(l, r)   == IF services = 0 THEN JoinPlans(l, r) ELSE FederatedJoinPlans(l, r)

\* _hx_optimizer_plan_subsets_of_size, _hx_optimizer_plan_subsets
Sets(k)         == {S \in SUBSET DOMAIN bgp : Cardinality(S) = k}
ProperSubsets(S) == SUBSET S \ {{}, S}

TripleOf(S) == bgp[CHOOSE i \in S : TRUE]

\* hx_optimizer_optimize_bgp, up to the call of hx_optimizer_optimize_optplans
Init ==
  /\ content \in Contents /\ bgp \in Bgps /\ services \in Services
  /\ opt = [S \in Sets(1) |-> Prune(content, AccessTo(TripleOf(S)))]
  /\ size = 1
  /\ iter = <<>>

\* One round of the outer loop of hx_optimizer_optimize_optplans
Combine ==
  /\ size < Len(bgp)
  /\ opt' = opt @@ [S \in Sets(size + 1) |->
               Prune(content, UNION {JoinsOf(opt[O], opt[S \ O]) : O \in ProperSubsets(S)})]
  /\ size' = size + 1
  /\ UNCHANGED <<content, bgp, services, iter>>

\* hx_optimizer_plan_execute, of the plan that was found
ExecuteBest ==
  /\ size = Len(bgp) /\ iter = <<>>
  /\ iter' = <<ExecutePlan(content, opt[DOMAIN bgp])>>
  /\ UNCHANGED <<content, bgp, services, opt, size>>

Next == Combine \/ ExecuteBest

Spec == Init /\ [][Next]_vars

-----------------------------------------------------------------------------
\* All ways of assigning services to the triples of a set.
AllWays(S) == {{<<bgp[i], f[i]>> : i \in S} :
                 f \in [S -> IF services = 0 THEN {0} ELSE 1..services]}

\* There is a plan for every set of at most size triples.  Local or federated, it
\* answers each triple of its set once in every way; the ways of a federated plan
\* ask every combination of services, whatever joins have been moved below unions
\* and whatever unions have been dissolved.  Not for federated plans of three
\* triples: a join that has moved to a service (plan.h: "location for the plan to be
\* executed") is moved back when its plan is merged again, in the next round.
EveryWayOnce ==
  /\ DOMAIN opt = UNION {Sets(k) : k \in 1..size}
  /\ \A S \in DOMAIN opt : services = 0 \/ Cardinality(S) < 3 => Ways(opt[S], 0) = AllWays(S)

\* Two plans answer the same set, so a plan promises an order at most for
\* variables it has; an access plan keeps its promise row by row: each row comes
\* after the one before in the order of the variables (so that a merge join that
\* is priced as sorted is).
PlannedOrder ==
  \A S \in DOMAIN opt :
    /\ Range(opt[S].order) \subseteq UNION {TripleVariables(bgp[i]) : i \in S}
    /\ opt[S].type = "index" =>
         LET s == StatementsWithIndex(content, opt[S].triple, IndexOrder[opt[S].index])
             before(a, b) == \E k \in DOMAIN opt[S].order :
               /\ NodeIdForBindingName(a, opt[S].order[k]) < NodeIdForBindingName(b, opt[S].order[k])
               /\ \A j \in 1..k - 1 : NodeIdForBindingName(a, opt[S].order[j]) =
                                      NodeIdForBindingName(b, opt[S].order[j])
         IN  \A k \in 2..Len(s.rows) : before(s.rows[k - 1], s.rows[k])

\* A plan whose joins do not meet one of the defects of the joins, and whose hash
\* and merge joins have a variable to join on.
RECURSIVE RunsWell(_)
RunsWell(p) ==
  CASE p.type = "index" -> TRUE
    [] p.type = "union" -> \A i \in DOMAIN p.plans : RunsWell(p.plans[i])
    [] p.type = "join"  ->
         LET l == ExecutePlan(content, p.lhs)
             r == ExecutePlan(content, p.rhs)
         IN  /\ RunsWell(p.lhs) /\ RunsWell(p.rhs) /\ CanJoin(p.join, l, r)
             /\ p.join = "merge" => MergesWell(l, r)
             /\ p.join = "hash"  => HashesWell(l, r)

\* The plan that is chosen, out of all the joins and orders that could have been,
\* has the answers of the pattern: no rewriting, exchange of sides, union or
\* choice of index loses an answer or makes one up.
PlanAnswers ==
  iter # <<>> /\ RunsWell(opt[DOMAIN bgp]) =>
    {Mapping(iter[1].rows[k]) : k \in DOMAIN iter[1].rows} = BgpAnswers(content, bgp)
==============================================================================
