------------------------------ MODULE Bindings ------------------------------
(***************************************************************************)
(* Variable bindings (algebra/variablebindings.c), the rows that all       *)
(* iterators of the engine hand on: a sequence of names and a sequence of  *)
(* node ids, column by column.  Names are the negative ids of variables;   *)
(* 0 is the name NULL and the id of no node.  Columns count from 1.        *)
(*                                                                         *)
(* A function of the code that may return NULL instead of a row is here a  *)
(* sequence of at most one row.                                            *)
(*                                                                         *)
(* An operator with an underscore in its name is a mutated form of the one *)
(* that follows it, and is used by no specification.                       *)
(***************************************************************************)
EXTENDS Integers, Sequences, FiniteSets

NULLNAME == 0

Row(names, nodes) == [names |-> names, nodes |-> nodes]

IsRow(b) == Len(b.names) = Len(b.nodes)

\* hx_variablebindings_node_id_for_binding
NodeIdForBinding(b, column) == IF column > Len(b.nodes) THEN 0 ELSE b.nodes[column]

\* The first column of a name, or 0: the loop all lookups by name share.
Column(names, name) ==
  IF \E c \in DOMAIN names : names[c] = name
  THEN CHOOSE c \in DOMAIN names :
         names[c] = name /\ \A d \in DOMAIN names : names[d] = name => c <= d
  ELSE 0

\* hx_variablebindings_node_id_for_binding_name
NodeIdForBindingName(b, name) ==
  IF Column(b.names, name) = 0 THEN 0 ELSE b.nodes[Column(b.names, name)]

\* hx_variablebindings_cmp: a longer row is greater.
Cmp(a, b) ==
  LET differ == {c \in DOMAIN a.nodes : a.nodes[c] # b.nodes[c]}
      first  == CHOOSE c \in differ : \A d \in differ : c <= d
  IN  IF Len(a.nodes) # Len(b.nodes)
      THEN IF Len(a.nodes) < Len(b.nodes) THEN -1 ELSE 1
      ELSE IF differ = {} THEN 0
      ELSE IF a.nodes[first] < b.nodes[first] THEN -1 ELSE 1

\* Keeps the first of equal names.  A column is kept when no earlier one has
\* its name; the n-th kept column is the one with n - 1 kept before it.
Distinct(names) ==
  LET kept == {c \in DOMAIN names : \A d \in 1..c - 1 : names[d] # names[c]}
  IN  [n \in 1..Cardinality(kept) |->
         names[CHOOSE c \in kept : Cardinality({d \in kept : d < c}) = n - 1]]

\* _hx_variablebindings_join_names
JoinNames(lhs, rhs) == Distinct(lhs \o rhs)

\* The columns of two rows with the same name hold the same node.
Agree_FirstColumn(left, right) ==
  \A c \in DOMAIN left.names, d \in DOMAIN right.names :
    left.names[c] = right.names[d] /\ c = 1 => left.nodes[c] = right.nodes[d]

Agree(left, right) ==
  \A c \in DOMAIN left.names, d \in DOMAIN right.names :
    left.names[c] = right.names[d] => left.nodes[c] = right.nodes[d]

\* The value of a name in the joined row: the left one, unless that is 0.
JoinedValue(left, right, name) ==
  LET value == NodeIdForBindingName(left, name)
  IN  IF value # 0 THEN value ELSE NodeIdForBindingName(right, name)

\* hx_variablebindings_natural_join
NaturalJoin(left, right) ==
  LET names == JoinNames(left.names, right.names)
  IN  IF Agree(left, right)
      THEN << Row(names, [n \in DOMAIN names |-> JoinedValue(left, right, names[n])]) >>
      ELSE << >>

\* hx_variablebindings_project: a column that is not there becomes NULL.
Project(b, columns) ==
  Row([n \in DOMAIN columns |-> IF columns[n] = 0 THEN NULLNAME ELSE b.names[columns[n]]],
      [n \in DOMAIN columns |-> IF columns[n] = 0 THEN 0 ELSE b.nodes[columns[n]]])

\* hx_variablebindings_project_names.  A name is dropped as well when its column
\* lies beyond the size of the new row (line 126).
ProjectNames(b, names) ==
  LET column(n) == LET c == Column(b.names, names[n])
                   IN  IF c > Len(names) THEN 0 ELSE c
  IN  Project(b, [n \in DOMAIN names |-> column(n)])

\* hx_variablebindings_set_names
SetNames(b, names) == Row(SubSeq(names, 1, Len(b.nodes)), b.nodes)

-----------------------------------------------------------------------------
(* Rows that travel between processes: freeze writes the nodes themselves, *)
(* thaw looks their ids up in the receiver's map.                          *)

\* hx_variablebindings_freeze, given the sender's map from ids to nodes
Freeze(b, id2node) == Row(b.names, [c \in DOMAIN b.nodes |-> id2node[b.nodes[c]]])

\* hx_variablebindings_thaw_noadd: NULL if the receiver does not know the node
\* of a column of the join.  Other nodes it does not know are added, in column
\* order, although the row may be refused later on.  The receiver's map is a
\* sequence of nodes, the id being the place.
IdOf(map, node) == Column(map, node)

Unknown(b, map, upto) ==
  SelectSeq(Distinct(SubSeq(b.nodes, 1, upto)), LAMBDA n : IdOf(map, n) = 0)

\* A node that an earlier column has added is known at the later one.
Refused(b, map, joinVars) ==
  {c \in DOMAIN b.nodes : /\ b.names[c] \in joinVars
                          /\ IdOf(map, b.nodes[c]) = 0
                          /\ \A d \in 1..c - 1 : b.nodes[d] # b.nodes[c]}

ThawNoadd(b, map, joinVars) ==
  LET bad   == Refused(b, map, joinVars)
      first == CHOOSE c \in bad : \A d \in bad : c <= d
      grown == map \o Unknown(b, map, IF bad = {} THEN Len(b.nodes) ELSE first - 1)
  IN  [row |-> IF bad = {}
               THEN << Row(b.names, [c \in DOMAIN b.nodes |-> IdOf(grown, b.nodes[c])]) >>
               ELSE << >>,
       map |-> grown]

\* hx_variablebindings_thaw
Thaw(b, map) == ThawNoadd(b, map, {})

-----------------------------------------------------------------------------
\* What a row says, whatever the order of its columns: 0 is no value.
Mapping(b) == {<<b.names[c], b.nodes[c]>> : c \in {d \in DOMAIN b.nodes : b.nodes[d] # 0}}

Compatible(m, n) == \A a \in m, b \in n : a[1] = b[1] => a[2] = b[2]
==============================================================================
