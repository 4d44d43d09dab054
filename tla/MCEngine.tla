------------------------------ MODULE MCEngine ------------------------------
(* Two nodes.  Joins of all tables of up to three and two rows, with one or   *)
(* two shared variables; patterns of every kind over every set of triples.    *)
(* The last three basic patterns are of parts that share no variable, and one *)
(* of four triples that a swap tears apart.                                   *)
EXTENDS Engine

MCNodeKind == <<"iri", "literal">>
Nodes      == DOMAIN MCNodeKind

x == -1
y == -2
z == -3
w == -4
b == -101    \* a blank node

Rows(names)      == {Row(names, n) : n \in [DOMAIN names -> Nodes]}
Ascending(rows)  == {c \in 1..2 : \A k \in 2..Len(rows) : rows[k - 1].nodes[c] <= rows[k].nodes[c]}
Tables(names, n) == {Iter(names, Ascending(s), s) : s \in UNION {[1..k -> Rows(names)] : k \in 0..n}}

JoinTasks ==
  {[type |-> "join", kind |-> kind, lhs |-> l, rhs |-> r] :
     kind \in {"merge", "nested", "left", "hash"},
     l \in Tables(<<x, y>>, 3), r \in Tables(<<y, z>>, 2) \cup Tables(<<y, x>>, 2)}

Bgp(triples)   == [type |-> "bgp", triples |-> triples]
Group(l, r)    == [type |-> "group", part |-> <<l, r>>]
Optional(l, r) == [type |-> "optional", part |-> <<l, r>>]
Either(l, r)   == [type |-> "union", part |-> <<l, r>>]
Where(e, p)    == [type |-> "filter", expr |-> e, part |-> <<p>>]
Op(op, args)   == [op |-> op, args |-> [k \in DOMAIN args |-> [op |-> "node", node |-> args[k]]]]

XY == Bgp(<< <<x, 1, y>> >>)
YZ == Bgp(<< <<y, 1, z>> >>)

Patterns ==
  {XY, Bgp(<< <<x, y, x>> >>),
   Bgp(<< <<x, 1, y>>, <<y, 1, z>> >>), Bgp(<< <<x, 1, y>>, <<x, 2, z>> >>),
   Bgp(<< <<x, 1, y>>, <<y, 2, x>> >>), Bgp(<< <<x, y, z>>, <<x, y, w>> >>),
   Bgp(<< <<x, 1, y>>, <<y, 1, z>>, <<z, 1, x>> >>),
   Bgp(<< <<y, 1, z>>, <<z, 2, w>>, <<x, 1, y>> >>),
   Bgp(<< <<x, 1, y>>, <<w, 2, z>>, <<y, 2, z>> >>),
   Bgp(<< <<x, 1, b>>, <<b, 2, y>> >>), Group(Bgp(<< <<b, 1, y>> >>), YZ),
   Group(XY, YZ), Group(XY, Bgp(<< <<z, 2, y>> >>)), Group(XY, Bgp(<< <<x, 2, y>> >>)),
   Optional(XY, YZ), Optional(Group(XY, Bgp(<< <<x, 2, z>> >>)), Bgp(<< <<z, 1, w>> >>)),
   Either(XY, YZ), Group(Either(XY, Bgp(<< <<x, 2, y>> >>)), YZ),
   Group(Either(XY, Bgp(<< <<y, 2, x>> >>)), YZ), Group(Optional(XY, YZ), Bgp(<< <<x, 2, w>> >>)),
   Where(Op("isliteral", <<y>>), XY), Where(Op("isiri", <<y>>), YZ),
   Where(Op("equal", <<x, y>>), XY),
   Where(Op("nequal", <<y, z>>), Optional(XY, Bgp(<< <<y, 2, z>> >>))),
   Bgp(<< <<x, 1, 1>>, <<z, 2, 2>> >>), Bgp(<< <<x, 1, 1>>, <<z, 2, 2>>, <<x, 2, 1>> >>),
   Bgp(<< <<x, 1, 1>>, <<z, 2, 2>>, <<x, 2, y>>, <<y, 1, z>> >>),
   [type |-> "graph", part |-> <<XY>>], [type |-> "service", part |-> <<XY>>]}

MCTasks == JoinTasks \cup {[type |-> "pattern", content |-> content, pattern |-> p] :
                             content \in SUBSET (Nodes \X Nodes \X Nodes), p \in Patterns}
==============================================================================
