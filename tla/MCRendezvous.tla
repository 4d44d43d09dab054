---------------------------- MODULE MCRendezvous ----------------------------
(* Two ranks.  Terms 1 to 4 are nodes, 5 and 6 predicates.  The ranks know  *)
(* the nodes in different orders, and not all of them.                      *)
EXTENDS Rendezvous

MCLoads ==
  { (0 :> <<<<1, 5, 2>>, <<3, 6, 4>>>>) @@ (1 :> <<<<2, 6, 3>>, <<4, 5, 1>>>>),
    (0 :> <<<<1, 5, 2>>, <<1, 5, 3>>, <<3, 6, 1>>>>) @@ (1 :> <<<<3, 6, 2>>, <<2, 6, 1>>>>),
    (0 :> <<<<1, 5, 2>>, <<2, 6, 1>>, <<2, 5, 3>>>>) @@ (1 :> <<>>) }

MCQueries ==
  { <<<<-1, 5, -2>>, <<-2, 6, -3>>>>,
    <<<<-1, 5, -2>>, <<-2, 6, -3>>, <<-3, -4, -1>>>>,
    <<<<-1, 5, -2>>, <<-2, 6, -1>>>>,
    <<<<-1, 5, -2>>, <<3, 6, -3>>>> }

MCDigest == [n \in 1..6 |-> IF n \in {1, 4} THEN 1 ELSE 2]
MCNodeKind == [n \in 1..6 |-> "iri"]
=============================================================================
