------------------------------- MODULE Parser -------------------------------
(***************************************************************************)
(* Files of triples parsed into a model (parser/parser.c, mentok.c, and    *)
(* cli/parse.c around them).  The parser is called for each blank node, to *)
(* name it, and then with the triple; triples are added to the store in    *)
(* batches.  The store is the one in files, and may be loading in bulk.    *)
(*                                                                         *)
(* A triple of a file has terms (positive), labels of blank nodes          *)
(* (negative) and blank nodes without a label (0).                         *)
(*                                                                         *)
(* An operator with an underscore in its name is a mutated form of the one *)
(* that follows it, and is used by no specification.                       *)
(***************************************************************************)
EXTENDS Integers, Sequences, FiniteSets

CONSTANTS
  Files,        \* sequences of triples
  BatchSize,    \* TRIPLES_BATCH_SIZE
  Times,        \* when a parser may be made
  LastTime,     \* a time that no clock gets beyond
  FirstName,    \* the names of blank nodes are numbers from this one up
  MaxFiles,     \* bound of the model: how many files are parsed
  Base          \* see Tokyo

ASSUME ParserAssumption ==
  /\ BatchSize \in Nat \ {0} /\ MaxFiles \in Nat
  /\ Base \in Nat \ {0, 1}
  /\ LastTime \in Nat /\ Times \subseteq 0..LastTime
  /\ FirstName \in Nat \ {0}
  /\ Files \subseteq Seq([1..3 -> Int])
  /\ \A f \in Files : \A n \in DOMAIN f, k \in 1..3 : f[n][k] < FirstName

VARIABLES
  store,     \* see Tokyo
  parser,    \* the hx_parser
  rest,      \* what is to come of the file
  parsing,   \* within hx_parser_parse_file_into_model
  files,     \* the files begun so far
  parsers,   \* history: the parsers made so far
  handled,   \* history: the triples of the parser, in order
  named      \* history: each blank node met, and its name

vars == <<store, parser, rest, parsing, files, parsers, handled, named>>

T == INSTANCE Tokyo

\* hx_new_parser
NewParser(tv) ==
  [tv |-> tv, next_bnode |-> 0, bnode_map |-> <<>>, triples |-> <<>>, total |-> 0]

\* The name of a blank node spells out the time of its parser and its number there,
\* each by digits that determine it, with a letter between them that is no digit.
Spelled(tv, number) == FirstName + tv + (LastTime + 1) * number

\* _hx_parser_generate_id; label 0 is the NULL of a node without a label.
GenerateId(p, label) ==
  IF label \in DOMAIN p.bnode_map THEN [parser |-> p, node |-> p.bnode_map[label]]
  ELSE LET name == Spelled(p.tv, p.next_bnode)
       IN  [node   |-> name,
            parser |-> [p EXCEPT !.next_bnode = @ + 1,
                                 !.bnode_map = IF label = 0 THEN @ ELSE T!Put(@, label, name)]]

\* _hx_parser_node
NameNode(p, n) == IF n > 0 THEN [parser |-> p, node |-> n] ELSE GenerateId(p, n)

\* _hx_parser_get_triple_nodes
NameNodes(p, x) ==
  LET s == NameNode(p, x[1])
      v == NameNode(s.parser, x[2])
      o == NameNode(v.parser, x[3])
  IN  [parser |-> o.parser, nodes |-> <<s.node, v.node, o.node>>]

\* _hx_parser_add_triples_batch, and hx_model_add_triple for each triple of it
AddTriplesBatch(S, p) ==
  LET after[n \in 0..Len(p.triples)] ==
        IF n = 0 THEN S ELSE T!AddTriple(after[n - 1], p.triples[n])
  IN  after[Len(p.triples)]

Flushed(p) == [p EXCEPT !.total = @ + Len(p.triples), !.triples = <<>>]

\* hx_new_model_with_store
Init ==
  /\ store = T!EmptyStore
  /\ \E tv \in Times : parser = NewParser(tv)
  /\ rest = <<>> /\ parsing = FALSE /\ files = 0
  /\ parsers = 1 /\ handled = <<>> /\ named = {}

\* hx_free_parser and a new one
AnotherParser ==
  /\ ~parsing /\ parsers < MaxFiles
  /\ \E tv \in Times : parser' = NewParser(tv)
  /\ parsers' = parsers + 1 /\ handled' = <<>>
  /\ UNCHANGED <<store, rest, parsing, files, named>>

\* hx_store_begin_bulk_load, hx_store_end_bulk_load around a file
BeginBulk ==
  /\ ~parsing /\ ~store.bulk
  /\ store' = T!BeginBulk(store)
  /\ UNCHANGED <<parser, rest, parsing, files, parsers, handled, named>>

EndBulk ==
  /\ ~parsing /\ store.bulk
  /\ store' = T!EndBulk(store)
  /\ UNCHANGED <<parser, rest, parsing, files, parsers, handled, named>>

\* hx_parser_parse_file_into_model up to raptor_parse_file; a string is parsed alike.
ParseFile_KeepsMap ==
  /\ ~parsing /\ files < MaxFiles
  /\ rest' \in Files
  /\ parser' = [parser EXCEPT !.triples = <<>>]
  /\ parsing' = TRUE /\ files' = files + 1
  /\ UNCHANGED <<store, parsers, handled, named>>

ParseFile ==
  /\ ~parsing /\ files < MaxFiles
  /\ rest' \in Files
  /\ parser' = [parser EXCEPT !.bnode_map = <<>>, !.triples = <<>>]
  /\ parsing' = TRUE /\ files' = files + 1
  /\ UNCHANGED <<store, parsers, handled, named>>

\* What history keeps of the blank nodes of a triple: a node without a label is told
\* from others by where it is.
Met(x, nodes) ==
  {[parser |-> parsers, tv |-> parser.tv, file |-> files, label |-> x[k],
    at |-> IF x[k] = 0 THEN <<Len(handled), k>> ELSE <<>>, name |-> nodes[k]] :
     k \in {j \in 1..3 : x[j] <= 0}}

\* _hx_parser_handle_triple: a batch that is full is added before the triple is put
\* into the next.
HandleTriple_AddsIt ==
  /\ parsing /\ rest # <<>>
  /\ LET made == NameNodes(parser, Head(rest))
         full == Len(parser.triples) >= BatchSize
         p    == IF full THEN Flushed(made.parser) ELSE made.parser
     IN  /\ store' = IF full THEN AddTriplesBatch(store, parser) ELSE store
         /\ parser' = IF full THEN p ELSE [p EXCEPT !.triples = Append(@, made.nodes)]
         /\ handled' = Append(handled, made.nodes)
         /\ named' = named \cup Met(Head(rest), made.nodes)
  /\ rest' = Tail(rest)
  /\ UNCHANGED <<parsing, files, parsers>>

HandleTriple ==
  /\ parsing /\ rest # <<>>
  /\ LET made == NameNodes(parser, Head(rest))
         full == Len(parser.triples) >= BatchSize
         p    == IF full THEN Flushed(made.parser) ELSE made.parser
     IN  /\ store' = IF full THEN AddTriplesBatch(store, parser) ELSE store
         /\ parser' = [p EXCEPT !.triples = Append(@, made.nodes)]
         /\ handled' = Append(handled, made.nodes)
         /\ named' = named \cup Met(Head(rest), made.nodes)
  /\ rest' = Tail(rest)
  /\ UNCHANGED <<parsing, files, parsers>>

\* hx_parser_parse_file_into_model after raptor_parse_file
EndOfFile ==
  /\ parsing /\ rest = <<>>
  /\ store' = AddTriplesBatch(store, parser)
  /\ parser' = Flushed(parser)
  /\ parsing' = FALSE
  /\ UNCHANGED <<rest, files, parsers, handled, named>>

Next == AnotherParser \/ BeginBulk \/ EndBulk \/ ParseFile \/ HandleTriple \/ EndOfFile

Spec == Init /\ [][Next]_vars

-----------------------------------------------------------------------------
InTable(o) == {[k \in 1..3 |-> store.id2node[i[k]]] : i \in store.index[o]}

\* Every triple that a parser was given is in the store or in the batch, and not
\* in the batch when the file is over; the total counts those that went into the
\* store, over all files of the parser; and all tables of the store have what the
\* first has unless it is loading in bulk.  A batch never outgrows its array.
BatchesReachTheStore ==
  /\ Len(parser.triples) <= BatchSize
  /\ ~parsing => parser.triples = <<>>
  /\ parser.total + Len(parser.triples) = Len(handled)
  /\ \A n \in 1..parser.total : handled[n] \in InTable(<<1,2,3>>)
  /\ SubSeq(handled, parser.total + 1, Len(handled)) = parser.triples
  /\ ~store.bulk => \A o \in T!Orders : store.index[o] = store.index[<<1,2,3>>]

\* Blank nodes of a file have one name if they have one label and different names
\* if not, and those of different files have different names, whichever batch,
\* file or parser they come with.  Two parsers made in the same microsecond are
\* the exception.
BlankNodesApart ==
  \A u, v \in named :
    (u.tv = v.tv => u.parser = v.parser) =>
      (u.name = v.name <=> /\ u.parser = v.parser /\ u.file = v.file
                           /\ u.label = v.label /\ u.at = v.at)
=============================================================================
