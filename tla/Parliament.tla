----------------------------- MODULE Parliament -----------------------------
(***************************************************************************)
(* The store of store/parliament: a table of nodes and a list of           *)
(* statements.  A statement is in three chains, one for each of its nodes: *)
(* a node holds the last statement with it as subject (fs), predicate (fp) *)
(* and object (fo), a statement the one before (ns, np, no).  A removed    *)
(* statement stays in its chains and is marked as deleted.  Ids count from *)
(* 1; 0 ends a chain and is the id of a node that is not in the table.     *)
(*                                                                         *)
(* The nodes of triples and patterns are terms (positive) or variables     *)
(* (negative).  An operation is an operator on a store; an assertion that  *)
(* fails ends the process, which is the empty sequence here.               *)
(*                                                                         *)
(* An operator with an underscore in its name is a mutated form of the one *)
(* that follows it, and is used by no specification.                       *)
(***************************************************************************)
EXTENDS Integers, Sequences, FiniteSets

CONSTANTS
  MaxResources,    \* the places in the table of nodes: 1024
  MaxStatements    \* the places in the list of statements: 4096

EmptyStore == [records |-> <<>>, statements |-> <<>>, count |-> 0]

\* hx_store_parliament_node2id, with the tree from nodes to ids
Node2Id(S, n) ==
  IF n < 0 THEN n
  ELSE IF \E id \in DOMAIN S.records : S.records[id].value = n
  THEN CHOOSE id \in DOMAIN S.records : S.records[id].value = n ELSE 0

Ids(S, x) == [k \in 1..3 |-> Node2Id(S, x[k])]

\* _hx_store_parliament_add_node
AddNode(S, n) ==
  IF Node2Id(S, n) # 0 THEN S
  ELSE [S EXCEPT !.records = Append(@, [value |-> n, fs |-> 0, fp |-> 0, fo |-> 0,
                                        sc |-> 0, pc |-> 0, oc |-> 0])]

AddNodes(S, x) == AddNode(AddNode(AddNode(S, x[1]), x[2]), x[3])

\* The loops that look for a statement along the chain of its subject, for each
\* statement they may begin with; 0 if there is none.
Search(S, i) ==
  LET from[id \in 0..Len(S.statements)] ==
        IF id = 0 \/ (S.statements[id].p = i[2] /\ S.statements[id].o = i[3]) THEN id
        ELSE from[S.statements[id].ns]
  IN  from

\* 0 as well if a node is not in the table.
FindStatement(S, x) ==
  LET i == Ids(S, x)
  IN  IF 0 \in {i[1], i[2], i[3]} THEN 0 ELSE Search(S, i)[S.records[i[1]].fs]

\* _hx_store_parliament_contains_triple: 1, -1 for deleted, 0
ContainsStatement(S, x) ==
  LET id == FindStatement(S, x)
  IN  IF id = 0 THEN 0 ELSE IF S.statements[id].deleted THEN -1 ELSE 1

\* hx_store_parliament_contains_triple
Contains(S, x) == ContainsStatement(S, x) = 1

\* The record of a node counts the triples it is subject, predicate and object of.
Raised(S, i, id, change) ==
  LET more(k) == IF i[k] = id THEN change ELSE 0
  IN  [S.records[id] EXCEPT !.sc = @ + more(1), !.pc = @ + more(2), !.oc = @ + more(3)]

Counted(S, i, change) ==
  [S EXCEPT !.count = @ + change,
            !.records = [id \in DOMAIN S.records |-> Raised(S, i, id, change)]]

\* A new statement is put at the front of its chains.
Linked_SubjectOnly(S, i, id) ==
  [S EXCEPT !.records[i[1]].fs = id, !.records[i[2]].fp = id,
            !.records[i[3]].fo = IF @ = 0 THEN id ELSE @]

Linked(S, i, id) ==
  [S EXCEPT !.records[i[1]].fs = id, !.records[i[2]].fp = id, !.records[i[3]].fo = id]

AppendStatement(S, x) ==
  LET i == Ids(S, x)
      T == [S EXCEPT !.statements = Append(@,
              [s |-> i[1], p |-> i[2], o |-> i[3], ns |-> S.records[i[1]].fs,
               np |-> S.records[i[2]].fp, no |-> S.records[i[3]].fo, deleted |-> FALSE])]
  IN  Counted(Linked(T, i, Len(T.statements)), i, 1)

\* hx_store_parliament_add_triple
AddTriple_OneMore(S, x) ==
  LET T    == AddNodes(S, x)
      full == Len(T.records) > MaxResources \/ Len(T.statements) > MaxStatements
  IN  CASE ContainsStatement(S, x) = 1  -> <<S>>
        [] ContainsStatement(S, x) = 0  -> IF full THEN <<>> ELSE << AppendStatement(T, x) >>
        [] ContainsStatement(S, x) = -1 ->
             << Counted([S EXCEPT !.statements[FindStatement(S, x)].deleted = FALSE],
                        Ids(S, x), 1) >>

AddTriple_NotRevived(S, x) ==
  LET T    == AddNodes(S, x)
      full == Len(T.records) > MaxResources \/ Len(T.statements) = MaxStatements
  IN  IF ContainsStatement(S, x) # 0 THEN <<S>>
      ELSE IF full THEN <<>> ELSE << AppendStatement(T, x) >>

AddTriple(S, x) ==
  LET T    == AddNodes(S, x)
      full == Len(T.records) > MaxResources \/ Len(T.statements) = MaxStatements
  IN  CASE ContainsStatement(S, x) = 1  -> <<S>>
        [] ContainsStatement(S, x) = 0  -> IF full THEN <<>> ELSE << AppendStatement(T, x) >>
        [] ContainsStatement(S, x) = -1 ->
             << Counted([S EXCEPT !.statements[FindStatement(S, x)].deleted = FALSE],
                        Ids(S, x), 1) >>

\* hx_store_parliament_remove_triple
RemoveTriple(S, x) ==
  IF Contains(S, x)
  THEN Counted([S EXCEPT !.statements[FindStatement(S, x)].deleted = TRUE], Ids(S, x), -1)
  ELSE S

\* hx_store_parliament_size
Size(S) == S.count

\* A statement is counted that is not deleted and has the other nodes of the pattern,
\* which are ids, or negative and then any.
Meets(i, node) == i > 0 => node = i

\* The loops that count along the chain of a subject, and of an object.
SubjectCount(S, i) ==
  LET fits(q) == ~q.deleted /\ Meets(i[2], q.p) /\ Meets(i[3], q.o)
      from[id \in 0..Len(S.statements)] ==
        IF id = 0 THEN 0
        ELSE (IF fits(S.statements[id]) THEN 1 ELSE 0) + from[S.statements[id].ns]
  IN  from

ObjectCount(S, i) ==
  LET fits(q) == ~q.deleted /\ Meets(i[2], q.p) /\ Meets(i[1], q.s)
      from[id \in 0..Len(S.statements)] ==
        IF id = 0 THEN 0
        ELSE (IF fits(S.statements[id]) THEN 1 ELSE 0) + from[S.statements[id].no]
  IN  from

\* hx_store_parliament_count: what it may return, for a pattern of nodes of which
\* `unknown' are the values that a read outside the table may have.  With one
\* bound node the count is that of the subject, whichever node is bound; the
\* record of a variable lies before the table.
Count(S, pat, unknown) ==
  LET i     == Ids(S, pat)
      bound == Cardinality({k \in 1..3 : pat[k] > 0})
  IN  CASE 0 \in {i[1], i[2], i[3]} -> {0}
        [] OTHER ->
             CASE bound = 0 -> {Size(S)}
               [] bound = 1 -> IF i[1] > 0 THEN {S.records[i[1]].sc} ELSE unknown
               [] bound = 2 -> {IF i[1] > 0 THEN SubjectCount(S, i)[S.records[i[1]].fs]
                                ELSE ObjectCount(S, i)[S.records[i[3]].fo]}
               [] bound = 3 -> {IF Contains(S, pat) THEN 1 ELSE 0}

\* The triples of the store.
Content(S) ==
  {[k \in 1..3 |-> S.records[<<q.s, q.p, q.o>>[k]].value] :
     q \in {S.statements[id] : id \in {d \in DOMAIN S.statements : ~S.statements[d].deleted}}}
==============================================================================
