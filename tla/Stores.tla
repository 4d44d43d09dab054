------------------------------- MODULE Stores -------------------------------
(***************************************************************************)
(* The stores behind store/store.c other than the hexastore, and the node  *)
(* map by itself: a client makes one of them and calls its operations in   *)
(* any order.  A store in files may be closed and opened again, and is     *)
(* loaded in bulk between two calls.  A node that is not known ends the    *)
(* process of the one store, a full table that of the other.               *)
(***************************************************************************)
EXTENDS Integers, Sequences, FiniteSets

CONSTANTS
  Terms,        \* nodes: positive numbers
  Triples,      \* the triples that are added and removed
  MapNodes,     \* the nodes that are put into the node map
  Base,         \* the ids one byte tells apart
  MaxResources, MaxStatements,  \* the sizes of the tables of the parliament store
  MaxCount      \* bound of the model: the times a triple is added, the ids given

ASSUME StoresAssumption ==
  /\ Terms \subseteq Nat \ {0} /\ Triples \subseteq [1..3 -> Terms]
  /\ Base \in Nat \ {0, 1}
  /\ {MaxResources, MaxStatements, MaxCount} \subseteq Nat

\* There is an id for each node: of two bytes here, of eight in the code.
ASSUME IdsAssumption == IsFiniteSet(Terms) /\ Cardinality(Terms) < Base * Base

VARIABLES
  kind,      \* which of them the client has made
  store,     \* its state
  status,    \* "open", "closed", or how the process has ended: "exited", "aborted"
  held,      \* history: the triples, or nodes, that were added and not removed since
  loading,   \* history: between begin_bulk_load and end_bulk_load
  reopened   \* history: the store has been closed and opened again

vars == <<kind, store, status, held, loading, reopened>>

P == INSTANCE Parliament
T == INSTANCE Tokyo
M == INSTANCE NodeMap

\* The nodes of triples: no variables, and a tag only where there is one.
ASSUME MapNodesAssumption ==
  \A n \in MapNodes : /\ n = M!Node(n.type, n.value, n.tag) /\ M!IsNode(n)
                      /\ ~M!NodeIsVariable(n) /\ (n.type \notin {"G", "D"} => n.tag = 0)

Variables == {-1, -2, -3}

Init ==
  /\ kind \in {"parliament", "tokyo", "nodemap"}
  /\ store = CASE kind = "parliament" -> P!EmptyStore
               [] kind = "tokyo"      -> T!EmptyStore
               [] kind = "nodemap"    -> M!NewMap
  /\ status = "open"
  /\ held = {} /\ loading = FALSE /\ reopened = FALSE

\* hx_store_add_triple
AddToParliament(x) ==
  /\ kind = "parliament" /\ status = "open"
  /\ LET added == P!AddTriple(store, x)
     IN  IF added = <<>> THEN status' = "aborted" /\ UNCHANGED <<store, held>>
         ELSE store' = added[1] /\ held' = held \cup {x} /\ UNCHANGED status
  /\ UNCHANGED <<kind, loading, reopened>>

AddToTokyo(x) ==
  /\ kind = "tokyo" /\ status = "open"
  /\ \A key \in DOMAIN store.counts : store.counts[key] < MaxCount
  /\ store' = T!AddTriple(store, x)
  /\ held' = held \cup {x}
  /\ UNCHANGED <<kind, status, loading, reopened>>

\* hx_store_remove_triple
RemoveFromParliament(x) ==
  /\ kind = "parliament" /\ status = "open"
  /\ store' = P!RemoveTriple(store, x)
  /\ held' = held \ {x}
  /\ UNCHANGED <<kind, status, loading, reopened>>

RemoveFromTokyo(x) ==
  /\ kind = "tokyo" /\ status = "open" /\ T!Known(store, x)
  /\ store' = T!RemoveTriple(store, x)
  /\ held' = held \ {x}
  /\ UNCHANGED <<kind, status, loading, reopened>>

\* Any call that looks up the id of a node the store does not know.
AskUnknown ==
  /\ kind = "tokyo" /\ status = "open"
  /\ \E x \in Triples : ~T!Known(store, x)
  /\ status' = "exited"
  /\ UNCHANGED <<kind, store, held, loading, reopened>>

\* hx_store_begin_bulk_load, hx_store_end_bulk_load
BeginBulk ==
  /\ kind = "tokyo" /\ status = "open"
  /\ store' = T!BeginBulk(store)
  /\ loading' = TRUE
  /\ UNCHANGED <<kind, status, held, reopened>>

EndBulk ==
  /\ kind = "tokyo" /\ status = "open" /\ loading
  /\ store' = T!EndBulk(store)
  /\ loading' = FALSE
  /\ UNCHANGED <<kind, status, held, reopened>>

\* hx_free_store, and the store made anew in its directory
Close ==
  /\ kind = "tokyo" /\ status = "open"
  /\ status' = "closed"
  /\ UNCHANGED <<kind, store, held, loading, reopened>>

Open ==
  /\ kind = "tokyo" /\ status = "closed"
  /\ store' = T!Reopen(store)
  /\ status' = "open" /\ reopened' = TRUE
  /\ UNCHANGED <<kind, held, loading>>

AddNode(n) ==
  /\ kind = "nodemap" /\ store.next_id <= MaxCount + Cardinality(Terms)
  /\ store' = M!MapNode(store, n)
  /\ held' = held \cup {n}
  /\ UNCHANGED <<kind, status, loading, reopened>>

RemoveNodeId(id) ==
  /\ kind = "nodemap"
  /\ store' = M!UnmapId(store, id)
  /\ held' = {n \in held : M!GetNodeId(store, n) # id}
  /\ UNCHANGED <<kind, status, loading, reopened>>

RemoveNode(n) ==
  /\ kind = "nodemap"
  /\ store' = M!UnmapNode(store, n)
  /\ held' = {m \in held : M!NodeCmp(m, n) # 0}
  /\ UNCHANGED <<kind, status, loading, reopened>>

WriteAndRead ==
  /\ kind = "nodemap"
  /\ store' = M!ReadBack(store)
  /\ UNCHANGED <<kind, status, held, loading, reopened>>

Next ==
  \/ \E x \in Triples : \/ AddToParliament(x) \/ AddToTokyo(x)
                        \/ RemoveFromParliament(x) \/ RemoveFromTokyo(x)
  \/ AskUnknown \/ BeginBulk \/ EndBulk \/ Close \/ Open
  \/ \E n \in MapNodes : AddNode(n) \/ RemoveNode(n)
  \/ \E id \in 1..MaxCount : RemoveNodeId(id)
  \/ WriteAndRead

Spec == Init /\ [][Next]_vars

-----------------------------------------------------------------------------
\* The id and the node that each map from nodes to ids pairs.
Named ==
  CASE kind = "parliament" -> {<<id, store.records[id].value>> : id \in DOMAIN store.records}
    [] kind = "tokyo"      -> {<<store.node2id[n], n>> : n \in DOMAIN store.node2id}
    [] kind = "nodemap"    -> store.node2id

\* The maps from ids to nodes undo the maps from nodes to ids: no two nodes have
\* one id, and the node that a row is printed with is the one that was stored.
NodesRoundTrip ==
  \A e \in Named :
    /\ kind = "parliament" => P!Node2Id(store, e[2]) = e[1]
    /\ kind = "tokyo"      => store.id2node[e[1]] = e[2]
    /\ kind = "nodemap"    => M!GetNode(store, e[1]) = <<e[2]>> /\ M!GetNodeId(store, e[2]) = e[1]

\* The triples of a store, and those that fit a pattern.
Content ==
  CASE kind = "parliament" -> P!Content(store)
    [] kind = "tokyo"      -> {[k \in 1..3 |-> store.id2node[i[k]]] : i \in store.index[<<1,2,3>>]}
    [] kind = "nodemap"    -> {}

Fitting(pat, set) ==
  {x \in set : /\ \A k \in 1..3 : pat[k] > 0 => x[k] = pat[k]
               /\ \A j, k \in 1..3 : pat[j] = pat[k] => x[j] = x[k]}

Patterns == [1..3 -> Terms \cup Variables]

Straight(pat) == \A j, k \in 1..3 : pat[j] = pat[k] /\ pat[j] < 0 => j = k

\* Every state is of the kind that was made.
TypeOK ==
  /\ kind = "parliament" => Len(store.records) <= MaxResources /\ Len(store.statements) <= MaxStatements
  /\ kind = "tokyo" => /\ DOMAIN store.index = T!Orders
                       /\ \A n \in DOMAIN store.node2id : store.node2id[n] \in DOMAIN store.id2node
  /\ kind = "nodemap" => \A e \in store.id2node : e[1] < store.next_id /\ e[2] \in MapNodes
  /\ status \in {"open", "closed", "exited", "aborted"}
  /\ loading \in BOOLEAN /\ reopened \in BOOLEAN

\* Each store is a set of triples (store.h): adding puts in that triple and no
\* other, whether it was there, was there once or never; removing takes out that
\* triple and no other; loading in bulk, closing and opening leave the set as it
\* is.  Only as long as the ids are: a store of files that is opened again gives
\* new nodes the ids of old ones.  A node map has an id for just the nodes that were
\* added, and a node that was added first comes back with its language and datatype,
\* whether the map was written and read or not; another that compares equal to it,
\* because literals are compared by their values, comes back as the first.
HoldsWhatWasAdded ==
  /\ kind # "nodemap" /\ NodesRoundTrip => Content = held
  /\ kind = "nodemap" =>
       /\ held = {n \in MapNodes : n \in held /\ M!GetNodeId(store, n) # 0}
       /\ NodesRoundTrip
       /\ \A e \in store.id2node : e[2] \in held

\* The rows ascend by a position, as numbers, which is how a merge join compares
\* them, among the ids that differ in the lowest byte only: while there are no
\* others, everywhere.  Among others they do not, a defect: tables compare bytes,
\* the lowest first, and what was asked for is the order of the ids.
OrderedBy(rows, k) ==
  \A m, n \in DOMAIN rows :
    m < n /\ rows[m][k] \div Base = rows[n][k] \div Base => rows[m][k] <= rows[n][k]

\* The rows are those of a set, each once; during a bulk load some of them, each once.
OnceEach(rows, set, part) ==
  LET said == {rows[n] : n \in DOMAIN rows}
  IN  said \subseteq set /\ Len(rows) = Cardinality(said) /\ (~part => said = set)

\* A pattern that repeats no variable gives each row that fits it, once, in every
\* order that triple_orderings offers, and in the order of the variable that the
\* caller asked for; an unbound pattern is in the order of each column that it says
\* it is sorted by; and of a triple it is known whether it is there.  Whatever has
\* been removed or reopened, and in the midst of a bulk load too, where the tables
\* other than the first may lack rows, but give none that is not there.  The orders
\* are those that the clients rely on only among ids that have all but the lowest
\* byte in common.
StatementsMatch ==
  kind = "tokyo" /\ status = "open" =>
    \A pat \in {q \in Patterns : Straight(q) /\ T!Known(store, q)} :
      LET i       == T!Ids(store, pat)
          rows(o) == T!Statements(store, i, o)
          all     == Fitting(i, store.index[<<1,2,3>>])
      IN  /\ (\A k \in 1..3 : pat[k] > 0) => (T!Contains(store, pat) <=> all # {})
          /\ \A o \in T!TripleOrderings(pat) :
               (\E k \in 1..3 : pat[k] < 0) =>
                 OnceEach(rows(o), all, loading /\ o # <<1,2,3>>)
          /\ \A k \in {m \in 1..3 : pat[m] < 0} :
               LET asked == T!GetStatements(store, pat, pat[k])
               IN  /\ OnceEach(asked, all, loading)
                   /\ OrderedBy(asked, k)
          /\ pat = <<-1,-2,-3>> =>
               \A o \in T!Orders, c \in 1..3 : T!SortedBy(i, o, c) => OrderedBy(rows(o), c)

\* What the planner is told of sizes.  The store of files never tells less than
\* there is, in spite of bulk loads and damaged ids; it may tell more.  The other
\* store is exact, for patterns whose count it does not read from the record of
\* the wrong node: those with no, two or three bound nodes, or the subject.
CountsMatch ==
  /\ kind = "parliament" =>
       \A pat \in {q \in Patterns : Straight(q)} :
         Cardinality({k \in 1..3 : pat[k] > 0}) # 1 \/ pat[1] > 0 =>
           P!Count(store, pat, {0, 1}) = {Cardinality(Fitting(pat, Content))}
  /\ kind = "tokyo" /\ status = "open" =>
       \A pat \in {q \in Patterns : T!Known(store, q) /\ \E k \in 1..3 : q[k] < 0} :
         T!Count(store, pat) >= Cardinality(Fitting(T!Ids(store, pat), store.index[<<1,2,3>>]))

\* An id that names a node names no other later: neither after the node is taken
\* out of the map nor after the map is written and read.  The order of the nodes
\* is that of the ids in a map that has been ordered.
NamesStay ==
  [][/\ ~reopened => \A d \in Named, e \in Named' : d[1] = e[1] => d = e
     /\ kind = "nodemap" =>
          /\ \A e \in Named' \ Named : e[1] >= store.next_id
          /\ store'.next_id >= store.next_id
          /\ LET ordered == M!OrderNodes(store').id2node
             IN  /\ {e[2] : e \in ordered} = {e[2] : e \in Named'}
                 /\ \A d, e \in ordered : d[1] < e[1] <=> M!NodeCmp(d[2], e[2]) < 0]_vars
=============================================================================
