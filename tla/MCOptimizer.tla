---------------------------- MODULE MCOptimizer ----------------------------
(* Two nodes; contents of up to two triples, of half and of all triples; the *)
(* local optimizer and a federation of two services.                         *)
EXTENDS Optimizer

MCNodeKind == <<"iri", "literal">>
Nodes      == DOMAIN MCNodeKind

x == -1
y == -2
z == -3
w == -4

MCContents == {c \in SUBSET (Nodes \X Nodes \X Nodes) : Cardinality(c) \in {0, 1, 2, 4, 8}}
MCServices == {0, 2}

MCBgps ==
  {<< <<x, 1, y>> >>, << <<x, y, x>> >>, << <<1, 2, 1>> >>,
   << <<x, 1, y>>, <<y, 1, z>> >>, << <<x, 1, y>>, <<x, 2, z>> >>,
   << <<x, 1, y>>, <<y, 2, x>> >>, << <<x, 1, y>>, <<z, 2, w>> >>,
   << <<x, y, z>>, <<x, y, w>> >>,
   << <<x, 1, y>>, <<y, 1, z>>, <<z, 2, w>> >>, << <<x, 1, y>>, <<y, 1, z>>, <<z, 1, x>> >>,
   << <<x, 1, 1>>, <<x, 2, y>>, <<y, 2, z>> >>, << <<x, 1, 1>>, <<y, 2, 1>>, <<x, 2, y>> >>}
==============================================================================
