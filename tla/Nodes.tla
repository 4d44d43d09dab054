------------------------------- MODULE Nodes -------------------------------
(***************************************************************************)
(* RDF nodes (rdf/node.c): a type, a value, and for a literal with a       *)
(* language or a datatype that, too.  Values and tags are numbers, in the  *)
(* order of strcmp; the value of a variable is its number, a negative one. *)
(***************************************************************************)
EXTENDS Integers, Sequences, FiniteSets

Literals  == {"L", "G", "D"}    \* plain, with a language, with a datatype
Variables == {"?", "["}         \* distinguished, or standing for a blank node
NodeTypes == {"R", "B"} \cup Literals \cup Variables

Node(type, value, tag) == [type |-> type, value |-> value, tag |-> tag]

IsNode(n) == /\ n.type \in NodeTypes
             /\ n.value \in Int /\ n.tag \in Int
             /\ n.type \in Variables => n.value < 0

NodeIsVariable(n) == n.type \in Variables
NodeIsLiteral(n)  == n.type \in Literals

\* hx_node_cmp.  Literals are compared by their values alone, and of two variables
\* of different types each is greater than the other.
SameType(a, b) == a.type = b.type \/ (NodeIsLiteral(a) /\ NodeIsLiteral(b))

Sign(i) == IF i < 0 THEN -1 ELSE IF i > 0 THEN 1 ELSE 0

NodeCmp(a, b) ==
  CASE SameType(a, b)  -> IF NodeIsVariable(a) THEN b.value - a.value
                          ELSE Sign(a.value - b.value)
    [] ~SameType(a, b) ->
         CASE a.type = "B"      -> -1
           [] a.type = "R"      -> IF b.type = "B" THEN 1 ELSE -1
           [] NodeIsLiteral(a)  -> IF NodeIsVariable(b) THEN -1 ELSE 1
           [] NodeIsVariable(a) -> 1

\* hx_node_write: what it puts into a file; a variable is not written.
NodeWrite(n) ==
  CASE NodeIsVariable(n)     -> <<>>
    [] n.type \in {"G", "D"} -> <<n.type, n.value, n.tag>>
    [] OTHER                 -> <<n.type, n.value>>

\* hx_node_read
NodeRead(bytes) ==
  Node(bytes[1], bytes[2], IF bytes[1] \in {"G", "D"} THEN bytes[3] ELSE 0)
=============================================================================
