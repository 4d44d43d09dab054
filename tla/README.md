# Verification of the hexastore

TLA+ models of the triple store *hexastore* (library `mentok`): its in-memory store of six indexes
with the B+ trees under it and the iterators over it, the two other stores, the query engine with its
joins and its optimizer, and the parallel execution: loading, message exchange, and the join of a
pattern by several ranks. TLC checks the models on small instances; TLAPS proves theorems about the
store, its iterator, the two other stores and the node map, the parser, the message exchange and loading
for every instance. Paths below are relative to `src/`.

## 1. The system

### Components

| component | state | operations | interacts with |
|---|---|---|---|
| **hexastore** (`mentok/store/hexastore/hexastore.c`) | up to six indexes, a node map | add, remove, contains, count, size, get_statements, write, read | calls its indexes; shares terminals between pairs of them |
| **index** (`index.c`) | a head, an order of positions | add_triple, add_triple_terminal, add_triple_with_terminal, remove_triple, get_terminal | head, vector, terminal |
| **head, vector, terminal** (`head.c`, `vector.c`, `terminal.c`) | a tree each, `triples_count`, `refcount` | add, get, remove, iterate | btree; a terminal is freed with its last reference |
| **btree** (`btree.c`) | pages: sorted entries, parent, prev, next | insert, remove, search, iterate, seek | – |
| **index iterator** (`index.c`) | three tree iterators, three masks | prime, next, current, seek, is_sorted_by | callbacks between its levels (got_head, got_vector) |
| **store interface** (`mentok/store/store.c`) | a table of functions | all of a store | hexastore, tokyocabinet, parliament |
| **tokyocabinet store** (`mentok/store/tokyocabinet`) | two maps of nodes, six tables, a table of counts, in files | as a store; bulk load; close and open | a vendored library of ordered tables |
| **parliament store** (`mentok/store/parliament`) | a table of nodes, a list of statements in three chains | as a store, without get_statements | – |
| **node map, id map** (`mentok/misc/nodemap.c`, `idmap.c`) | two AVL trees, the next identifier | add, get, remove, write, read, order | stores, parallel execution |
| **nodes** (`mentok/rdf`) | – | comparison, writing, reading | everything |
| **engine** (`mentok/engine`) | iterators of bindings, composed into trees | next, current, sorted_by; evaluation of patterns and expressions | streams from the store |
| **algebra** (`mentok/algebra`) | patterns, expressions, rows | joins of rows, substitution, reordering | counts from the store, engine |
| **optimizer** (`mentok/optimizer`) | the best plan for each set of triples | enumerate, price, prune, rewrite, federate, execute | engine, store |
| **parser** (`mentok/parser`) | a batch, names of blank nodes | parse a file into a model | an RDF library calls it back; store |
| **asynchronous exchange** (`mentok/parallel/async_des.c`, `async_mpi.c`) | sessions, send and receive slots, a counter | create, async_des (one round), destroy | MPI; handlers of its clients |
| **parallel join** (`mentok/parallel/parallel.c`) | rows under way, maps of nodes | distribute rows, rendezvous join | exchange, store, engine |
| **parallel loading** (`mpi_rdfio.c`, `mpi_file*_iterator.c`) | a buffer of a chunk, pieces of lines | next line | MPI |
| **tools, server, examples, tests** (`cli`, `examples`, `t`) | – | – | everything |

`PROJECT.json` lists each of them with its files, what is modelled and what is not, and why.

### What is hard

* **Sharing.** Two indexes with the same third position share their terminals (spo/pso, osp/sop,
  pos/ops). An addition adds the node once and hangs the terminal in twice; a removal visits both
  indexes, and the second one finds the node already gone. Reference counts, counters and emptied
  vectors must come out right although the two visits see different states of one terminal.
* **Persistence.** A saved hexastore comes back with a terminal of its own for every index; a store in
  files is closed, opened again, and loaded in bulk while five of its tables fall behind.
* **Histories.** Underflow in a B+ tree borrows from or merges with a neighbour; which one, and
  which keys of inner pages are stale meanwhile, depends on the whole history. A statement of the
  parliament store that was removed stays in three chains and may come back.
* **Iterators.** Three nested iterators whose masks are changed by callbacks while they run; seeks
  that fail at one level go on at another. Above them joins that buffer batches of equal keys, prime
  themselves differently from how they go on, and believe what their operands say of their order.
* **Plans.** The optimizer chooses among all splits of a pattern; rewriting moves joins below unions
  and to services. Nothing at run time would show that a way to answer a triple was lost.
* **Distribution.** Ranks poll their slots at different speeds, messages overtake each other between
  slots, a sum over all ranks decides that an exchange is over, and the next one begins with the
  same tags. A node has another identifier on every rank. Lines of a file are cut by the borders of
  chunks and put together by messages in a ring.

### What makes each part correct

* store: it is the set of triples that were added and not removed, in every index; queries see
  exactly that set whichever index they walk; counts are exact; no terminal is freed early or leaked.
* btree: search, order of iteration, balance, and the links between pages.
* index iterator: yields exactly the matching triples, in order, once; claims of order are true.
* other stores, node map: content, rows in the announced order, counts, one identifier for a node for good.
* joins and patterns: the rows that the algebra of patterns defines, as often as it does; claims of order.
* optimizer: every way of answering a pattern is in its plan once; the plan has the pattern's answers.
* parser: no triple is left in a batch; one blank node, one name.
* exchange: ends, and not before every message has been handled exactly once in its exchange.
* parallel join: rows that join meet, none is lost, each answer is in the end on one rank.
* loading: every line is handed on whole, by one rank, and every rank ends.

The list `hazards` in `PROJECT.json` names the lines of code where each of these may go wrong.

## 2. The modules

| module | models | stands on |
|---|---|---|
| `TripleStore` | what a store promises: a set of triples | – |
| `Hexastore` | `hexastore.c`, `index.c` (updates), `head.c`, `vector.c`, `terminal.c` | implements `TripleStore` |
| `BTree` | `btree.c` | – |
| `TripleStream` | what an iterator over matching triples promises | – |
| `IndexIter` | `index.c` (iterator) | implements `TripleStream` |
| `Nodes`, `NodeMap` | `rdf/node.c`, `misc/nodemap.c` | – |
| `Tokyo` | `tokyocabinet.c`, `tcindex.c`: operators on its state | – |
| `Parliament` | `parliament.c`: operators on its state | – |
| `Stores` | a client of one of these stores, or of a node map | instances of `Parliament`, `Tokyo`, `NodeMap` |
| `Parser` | `parser.c` and the loop of `cli/parse.c` around it | instance of `Tokyo` |
| `Bindings` | `algebra/variablebindings.c`: rows | – |
| `Iterators` | the iterators of `engine/` and those the hexastore returns | `Bindings` |
| `Query` | `algebra/bgp.c`, `graphpattern.c`, `expr.c`, and their evaluation in `engine/`; and what they mean | `Iterators` |
| `Engine` | a client that asks for the rows of a join or a pattern | `Query` |
| `Plan` | `optimizer/`: plans, costs, rewriting, federation, execution | `Query` |
| `Optimizer` | `hx_optimizer_optimize_bgp` at work | `Plan` |
| `AsyncDES` | `async_des.c`, `async_mpi.c` | – |
| `Rendezvous` | `parallel.c`: the join of a pattern by several ranks | `Query`; what `AsyncDES` promises |
| `Loading` | `mpi_rdfio.c` and the file iterators | – |
| `MC…` | instances for TLC | the module of that name |
| `Hexastore_proofs` | the types and the content of `Hexastore`; that it implements `TripleStore`; its references, counters and answers | `Hexastore` |
| `HexastoreReload_proofs` | what is left of it after it was saved and loaded | `Hexastore_proofs` |
| `IndexIter_proofs` | the answers of the iterator; that it implements `TripleStream` | `IndexIter` |
| `AsyncDES_proofs` | where the ranks, their slots and the messages are, and what the sum of the counters says | `AsyncDES` |
| `Loading_proofs` | where the bytes of the file are, and the lines | `Loading` |
| `Tokyo_proofs` | lemmas about the operators of the store in files | `Tokyo` |
| `Stores_proofs` | the content and the identifiers of the other stores and of the node map | `Stores`; instance of `Tokyo_proofs` |
| `Parser_proofs` | that the parser leaves no triple and shares no name | `Parser`; instance of `Tokyo_proofs` |

An operator with an underscore in its name (`AddPair_Unshared`) is a mutated form of the operator it
is named after: a bug that code might have had. No specification uses one; `PROJECT.json` (`mutants`)
says which property notices it in which run.

The composition follows the code: a store is behind the iterators of triples, these are behind the
joins, the joins behind patterns and plans, and all of it behind the parallel join. Where a lower
module shows what it promises, the module above takes the promise: `Iterators` takes the rows of a
triple as the sorted matches (`ImplementsStream`), `Rendezvous` takes an exchange as one in which
messages arrive once, in any order, and which ends when all have been handled (`SuccessMeansOver`,
`HandledRight`, `AllComplete`).

### Hexastore

`hx` is the store: for each index the keys of its head (`vectors`), the counters of head and vectors,
the vector trees (`terminal`, from a pair of nodes to a terminal or `NULL`); and for each terminal its
`nodes` and its `refcount`. A terminal is an address: it is named by the slot it was allocated for,
`<<index, a, b>>`, and the last part of `RefcountExact` shows that a name is free whenever it is given
to a new terminal, so that the name stands for a fresh pointer. `known` is what of the node map matters
here: which nodes have an identifier. Identifiers are the node map's, from 1 up.

The store is single-threaded, so an operation is one step. It is composed of operators for the
functions the code calls, applied to the store in the order of the code: `AddTripleTerminal`,
`AddTripleWithTerminal` and `IndexRemoveTriple` for one index, `AddPair` for one of the three blocks of
`_hx_store_hexastore_add_triple_id`, `RemoveTripleFromAll` for the six removals in the order spo, sop,
pso, pos, osp, ops. A pointer to a terminal that was just freed is followed nowhere: a vector drops its
slot before it drops the reference.

`Reload` is `write` followed by `read`. It requires that the indexes are not empty: an empty store is
not written, as the writer follows a vector that is not there (see NothingEmpty below). `Count`,
`GetStatements`, `OrderedIndex`, `Size` and `ContainsTriple` are operators on the state.

* `OperationsExact` – adding or removing a triple changes every index by that triple and no other.
* `TerminalsShared` – two partners reach the same terminal from both sides.
* `RefcountExact` – a terminal counts the slots that hold it: none is freed early, none is leaked.
* `NothingEmpty` – no reachable vector or terminal is empty. The iterators rely on it: the iterator of
  an empty tree is not finished, and its entry is not there.
* `CountMostlyRight` – counters are exact in the index of a pair a triple is removed from first, and
  may only be too high in the other; so the counts of all but two patterns are right.
* `StatementsComplete` – get_statements has the matching triples for every pattern.
* `SoundAfterReload` – with reloads: spo, osp and pos hold every triple and their partners nothing
  else, references are counted, nothing is empty.
* `ImplementsTripleStore` – refinement: `TripleStore` with `triples <- Content`.

### BTree

`page` is the memory: a function from page numbers to records of the fields of `hx_btree_node`, with
the values of entries left out; `root` is `tree->root`. `stored` is a history variable, `complaints`
collects the messages that `hx_btree_node_remove` prints when it finds what it believes cannot be.
Insertion splits on the way down; removal climbs up again from a page that has become too small and
borrows (`RebalanceFromPrev`, `RebalanceFromNext`) or merges (`MergeNodes`). The model keeps what is
surprising in the code: an inner split leaves the parent pointers of the pages below it, a borrow from
the previous page copies one entry more than it takes away, a merge with the previous page makes the
page its own successor, and a page that is looked for in its parent and not found (`NotFound`) goes on
with the index of the level below. Pages that nothing refers to are dropped from the state
(`Reachable`); a page number may be used again then, like an address.

`Spec` inserts and removes as it likes, and violates the properties (section 5). `ForwardSpec` admits a
removal where all that it repairs, up to the root, is done with the next page of the same parent
(`RepairsForward`): nothing underflows, the next page lends entries, or it is merged. Removing the smallest
key is always one, removals in the midst and at the end of the tree are too, in every order that keeps to
it. Left out are the removals that borrow from or merge with the previous page, those that borrow from a
page of another parent, and those below a page whose parent pointer is stale since an inner split.

Properties: `SearchFinds`, `IterationAscends`, and `WellFormed`: pages are filled, all leaves are at one
depth, the lists of pages agree in both directions, and there are no complaints.

### IndexIter

An action is one round of a loop in `prime_first_result`, `next_vector` or `next_head`, or one `next`
with the `current` before it. The tree iterators are positions in the sorted sets of keys. `mask` holds
the three node masks; the triggers `GotHead` and `GotVector` set those of a variable that comes twice.
`Stream == INSTANCE TripleStream` is the refinement: the steps between two answers are stutters, an
answer is the least triple not yet yielded. `FilledSpec` begins with an index that holds triples.

Properties: `ImplementsStream` (with liveness: the iterator finishes) and `SortedAsClaimed`, what
`hx_store_hexastore_index_iter_is_sorted_by_index` answers at any moment is true of all that follows.

### Nodes, NodeMap, Tokyo, Parliament, Stores

The stores are sequential, and their modules are operators on a state; `Stores` is a client that has
made one of them and calls its operations in any order. `status` says how its process has ended: the
store in files calls `exit` for a node it does not know (`AskUnknown`), the other one aborts when a
table is full.

`Tokyo` keeps the two maps of nodes (`node2id`, `id2node`), `next_id`, the six tables as sets of triples of
identifiers, `counts`, and `bulk`. `Keys` is a table in the order of its keys, which compare byte by byte
from the lowest (`ByteRank`, with `Base` identifiers to a byte). `EndBulk` brings the five other tables up
to the first one. `Reopen` is a new process on the old files: with the maps and tables they hold, and
`next_id` 1. `Statements` is an iterator over a table, with its end conditions.

`Parliament` keeps `records`, each with the first statement and the count for each position, and
`statements`, each with the next one in each chain and its mark `deleted`. The scan of a chain is
`FindStatement`. A count that reads a record outside of its table has any of the values it is given.

* `HoldsWhatWasAdded` – the content is what was added and not removed, through bulk loads and reopening;
  a node map gives back the node that was added first of those that compare equal.
* `StatementsMatch` – every pattern that repeats no variable, walked in every order that
  `triple_orderings` offers, gives each matching row once. In the midst of a bulk load tables other than the
  first may lack rows, and give none that is not there. Rows asked for in the order of a variable, and those
  claimed to be sorted, ascend as numbers, which is what their clients compare, among identifiers that have
  all but the lowest byte in common (`OrderedBy`). Of others it does not hold (section 5).
* `CountsMatch` – counts of patterns that repeat no variable are exact (parliament) or not too low (tokyocabinet).
* `NamesStay` – an identifier that names a node never names another one.

### Parser

The RDF library calls `GenerateId` for a blank node and then `HandleTriple`; a full batch goes into the
store before the next triple. A name (`Spelled`) is a number above those of the nodes of files that tells
the parser's time, at most `LastTime`, and its counter. `AnotherParser` is a new parser at one of `Times` (a parser names blank
nodes after the time it was made). The store is `Tokyo`, possibly in a bulk load.

* `BatchesReachTheStore` – a triple handled is in the store or the batch, in order; a file leaves no
  batch behind; the total is what went into the store.
* `BlankNodesApart` – same name if and only if same label in the same file of the same parser.

### Bindings, Iterators, Query, Engine

An iterator has one client and nobody else moves it, so it is given by its names, the columns it says it
is sorted by, and its rows (`Iter`); one that a constructor refuses to make is `NULLITER`. The three joins
are machines: `NewJoin`, `Prime` and `NextResult` are the functions `new`, `prime_first_result` and `next`,
and `Engine` takes one step of them per row. `Join` runs the machine to its end for the patterns above it.
`Query` has a definition for each function that evaluates patterns and expressions, and next to them the
meaning of patterns: sets of mappings from variables to nodes (`Answers`, `LeftAnswers`, …), which use
nothing of the code. `Engine` compares the two:

* `JoinYieldsThePairs` – a join yields the pairs that agree, each as often as it should; a left join
  also the rows that met none.
* `MergedInOrder` – the rows of a merge join ascend where it says so.
* `PatternAnswers` – the answers of a pattern are its meaning.
* `SubstitutionSelects` – substitution of a row selects the answers that agree with it.
* `ReorderedTriplesJoin` – reordering keeps the triples of a pattern, gives up where a connected pattern
  of up to three triples need not, and leaves no join without key: in such patterns nowhere, in others not
  before the first triple that was put in the place of another.

The defects of the code that make exceptions necessary have names, and each exception is as small as
the defect (`HashForgets`, `LeftOfNone`, `MergeRepeats`, `MergesWell`; see section 5).

### Plan, Optimizer

A plan is a record (`index`, `join`, `union`) with its order and location. `Optimizer` follows the
enumeration: `opt` is the table `optPlans`, `Combine` one round of its outer loop, which plans all sets of
one more triple from all splits, with `Prune` keeping one plan per set; `ExecuteBest` runs the last one.
`services` is 0 for the local optimizer, otherwise the number of services every triple may be asked at.

* `EveryWayOnce` – the plan of a set asks each combination of services once (`Ways`).
* `PlannedOrder` – a promised order is about variables of the plan, and rows of an access keep it.
* `PlanAnswers` – the chosen plan has the answers that the pattern means.

### AsyncDES

`pc` is where a rank is in its calls of `async_des`; `slot` is `i`; `ses` the session (`msg_count`,
`tags`, `first`, `no_sends`, and the local `done`); `sends` and `recvs` the slots, each with the `state`
of its `async_mpi_session`. `net` holds, for two ranks, the packets under way in order: MPI is external
and modelled by its guarantees (messages between two ranks that match the same receive do not overtake
each other; a send may complete before it is received). `Deliver` matches a packet and a posted receive
at any moment. `SendStep` and `RecvStep` are one turn of the switch in `async_mpi`. `Allreduce` is one
step for all ranks; it is the synchronisation of `MPI_Allreduce`, after which the ranks are independent
again. `Cancel`, `Leave` and `Create` are the end of an exchange, its barrier, and the begin of the next.
`exchange`, `left`, `sent` and `handled` belong to the client and to history. A send handler may fail
(`MayFail`): its -1 is taken for a message.

Properties: `SuccessMeansOver`, `HandledRight` (right rank, right exchange, once, and each body in the
buffer its header announced), and the liveness property `AllComplete`.

### Rendezvous

Every rank has triples (`loaded`) and identifiers of its own. `session` counts its exchanges: odd ones
spread the rows so far (`lhs`), even ones the rows of the next triple. `Send` and `Receive` are the two
handlers; a row travels spelled out in nodes (`Freeze`) and is read with the map of the receiver (`Thaw`,
and `ThawNoadd`, which drops rows). `LeaveLhs`, `LeaveRhs` and `LeaveLast` are the code between two
exchanges, with the join of what has met. Ranks are in different exchanges at the same time.

* `NothingLost` – while all exchange rows so far, those not sent, under way and received are together
  the answers of the triples joined so far, over the triples of all ranks; each row can be read.
* `AnsweredOnce` – in the end each answer is on one rank, once.

### Loading

`index` and `end` are the buffer of a rank in its chunk, `last` what it keeps of a line, `first` the piece
it was sent, `mail` the pieces under way. A line is the sequence of its offsets in the file. `SendPiece`
sends what is before the first newline to the rank before, `Receive` is the probe loop, `LastLine` puts the
last line together, `End` is the end of the chunk.

* `BytesOnce` – a byte is in exactly one place: unread, or in one piece or line of one rank. Places in the
  queue of messages and in the list of lines count, so a line that is handed on twice counts twice.
* `LinesExact`, `AllLoaded` – of a file that can be loaded (`Loadable`), all lines are handed on whole and
  all ranks come to the end.

## 3. Runs

| run | instance | shows |
|---|---|---|
| `hexastore` | all indexes but pos, two nodes, three variables | the store as a set of triples, in every index; queries and counts |
| `hexastore_reload` | all six indexes, two nodes, with `Reload` | what survives a reload |
| `btree` | nine keys, `Branching` 4 | insertions in any order, removals of any key that are repaired forward |
| `iter` | all sets of triples over two nodes; up to three triples over three nodes; all patterns | the stream of answers |
| `stores` | three nodes, four triples, tables for three; five nodes in the node map | the other stores and the node map under any sequence of calls |
| `parser` | batches of two, files of 0, 1, 4 and 5 triples, up to three of them | batches and names of blank nodes |
| `engine` | all joins of tables of up to three and up to two rows; 29 patterns over all sets of triples of two nodes | joins and patterns against their meaning |
| `optimizer` | twelve patterns of one to three triples, contents of 0, 1, 2, 4 and 8 triples, local and two services | plans against the meaning of patterns |
| `des_exchanges` | three ranks, one send and two receive slots, two exchanges, messages in two parts, handlers that fail | safety and liveness of the exchange |
| `rendezvous` | two ranks, three ways the triples are spread, four patterns | the parallel join |
| `loading` | three ranks, all files of 2, 5 and 10 bytes, buffers of 2 and 4 | loading, with liveness |
| `count_after_remove` | all six indexes, two nodes | **refuted**: `CountExact` |

### Bounds, and why they are enough

* **Store.** Two nodes give each index two vectors of two terminals of two nodes: a removal may empty a
  terminal and not its vector, a vector and not its head, or all of them, and a triple may repeat a
  node. An operation touches one path per index, so a third node
  would only add paths that stay as they are. `MaxCount` bounds the counters, which grow without limit
  where they are not exact: a triple is added only while every head counts fewer.
  Without pos (`hx_new_store_hexastore_with_indexes`) two pairs share terminals, ops has its own, and
  queries that prefer pos fall back on it; the pairs are handled alike, so each case is there. Saving and
  loading runs with all six.
* **Branching 4** is the smallest size that splits into halves of two and has pages that may lend an
  entry (terminals use it, `hexastore.h`); nine keys reach three levels, and removing them passes
  through borrowing from the next page, merging, and the loss of a root at both levels.
* **Iterator.** With two nodes every combination of matching and missing seeks occurs; three nodes add a
  seek for a node that lies between two others. Variables are only compared, so patterns up to renaming
  of variables (`Canonical`) are all patterns.
* **Other stores.** `Base` 3 lets three nodes have the identifiers 1, 2 and 3, of which the last
  needs a second byte and comes first in the tables; removals and reopening use them in every role. `MaxResources` and
  `MaxStatements` 3 let four triples of three nodes fill both tables. Four triples share subjects,
  objects, and subject and object, and one repeats a node. `MaxCount` 2 bounds how often a triple is
  added, and the identifiers of the node map that are taken out.
* **Parser.** Batches of two: files shorter than a batch, of two full batches, and one more; a label is met
  again in a triple, another batch and another file.
* **Joins.** Three rows on the left and two on the right give batches of one, two and three equal keys on
  either side at the beginning, in the middle and at the end, and rows that meet nothing; tables share one
  variable or two, and are claimed to be sorted exactly where they are.
* **Patterns** have up to four triples, connected and not, all kinds of parts, shared and repeated variables, blank nodes, and
  expressions without value. What the code orders well (`Connected`, three triples) and what it does not
  (section 5) are both among them.
* **Plans.** Patterns of three triples have plans out of plans; two services have unions on both sides of
  a join.
* **Exchange.** Three ranks cover a message that travels between two ranks while a third has been counted;
  two receive slots for one sender cover several headers and bodies under way; two exchanges cover what
  crosses from one to the next.
* **Parallel join.** Two ranks that know the nodes by different identifiers, one of which may have no triples or
  not know a node of the pattern; three triples pass through five exchanges. `Digest` lets different nodes
  have one hash.
* **Loading.** With three ranks the one before, the one after, and the ring are different ranks. In a file of 10
  bytes chunks are of 3 or 4 bytes, and a buffer of 2 is shorter than a chunk, one of 4 is not; lines of
  more than a chunk occur.

Deadlock is checked in the runs of the hexastore, of the B+ tree, and of `rendezvous` (where the only state
without work is the end of the program). The other systems really stop: iterators and plans end, processes
of stores exit, ranks and parsers finish.

### Fairness

`FilledSpec` of `IndexIter` and `Spec` of `Engine` assume that a call that has begun goes on and that the client
asks for the next answer: sequential code. `FairSpec` of `AsyncDES` assumes that every rank goes on (its
driver calls `async_des` in a loop until it is not pending), that MPI delivers a packet some posted
receive waits for, and that the collective calls return once every rank has entered them: MPI guarantees
each. Nothing is assumed about the order of ranks, nor about when a send completes, beyond that it does
once the packet has left the network. A rank that polls in vain takes infinitely many steps, so weak
fairness of its steps as a whole gives nothing away. `Loading` assumes that each rank runs its loop; a probe
that finds nothing is tried again, so its step is a receive.

## 4. Theorems

TLAPS checks the following for every value of the constants that satisfies the assumptions the modules
state of them: nodes are positive and variables negative numbers, the indexes are some of the six, `NULL`
is no terminal and no rank; ranks are finitely many and at least one, as are slots and exchanges; the
contents an iterator may be made for are sets of triples; a file is a sequence, and buffers, as the number of
ranks, are not empty; a node of a node map is no variable, and has a tag only as a literal with a language or
a datatype; a file of triples is a sequence of three nodes each, a clock is not beyond some last time, and
the names of blank nodes are numbers above those of other nodes; the nodes of a store in files are finitely
many and fewer than its identifiers. Nothing is assumed of sizes beyond that. Each invariant was checked by
TLC in the runs of its module before it was proved.

| theorem | statement | module |
|---|---|---|
| `TypeCorrect` | `Spec => []TypeOK` | `Hexastore_proofs` |
| `IndexesAgree` | `Spec => []IInv` | |
| `SharedAlways` | `Spec => []TerminalsShared` | |
| `NeverEmpty` | `Spec => []NothingEmpty` | |
| `OperationsAreExact` | `Spec => []OperationsExact` | |
| `ContentIsASet` | `Spec => ImplementsTripleStore` | |
| `ReferencesAreCounted` | `Spec => []RefcountExact` | |
| `CountersHold` | `Spec => []CountsKept` | |
| `StatementsAreComplete` | `Covered` gives `Spec => []StatementsComplete` | |
| `CountsAreRight` | `Covered` and an spo index give `Spec => []CountMostlyRight` | |
| `ReloadKeeps` | `ReloadSpec => []RInv` | `HexastoreReload_proofs` |
| `ReloadIsSound` | `ReloadSpec => []SoundAfterReload` | |
| `ReloadIsASet` | `ReloadSpec => ImplementsTripleStore` | |
| `IteratorKeepsItsPlace` | `FilledSpec => []IInv` | `IndexIter_proofs` |
| `TypeCorrect` | `FilledSpec => []TypeOK` | |
| `ClaimsAreTrue` | `FilledSpec => []SortedAsClaimed` | |
| `ImplementsSpec` | `FilledSpec => Stream!Spec` | |
| `ControlKept` | `Spec => []ControlInv` | `AsyncDES_proofs` |
| `TypeCorrect` | `Spec => []TypeOK` | |
| `DESInvHolds` | `Spec => []DESInv` | |
| `SuccessIsTheEnd` | `Spec => []SuccessMeansOver` | |
| `HandledAreRight` | `Spec => []HandledRight` | |
| `EachByteInOnePlace` | `Spec => [](Typed /\ OnceInv)` | `Loading_proofs` |
| `NothingLostOrTwice` | `Spec => []BytesOnce` | |
| `RanksAreInLines` | `Spec => []LinesInv` | |
| `WholeLines` | `Spec => []LinesExact` | |
| `StoresKept` | `Spec => []StoresInv` | `Stores_proofs` |
| `TypeCorrect` | `Spec => []TypeOK` | |
| `StoresHoldWhatWasAdded` | `Spec => []HoldsWhatWasAdded` | |
| `NamesAreKept` | `Spec => NamesStay` | |
| `CountsAreRight` | `Spec => []CountsMatch` | |
| `StatementsAreRight` | `Spec => []StatementsMatch` | |
| `BatchesAreKept` | `Spec => []BatchInv` | `Parser_proofs` |
| `NoTripleIsLeft` | `Spec => []BatchesReachTheStore` | |
| `NamesAreKnown` | `Spec => []NamesInv` | |
| `NoNameIsShared` | `Spec => []BlankNodesApart` | |

### Hexastore: the content

None of the properties is inductive. That two partners share a terminal
says nothing of what is in it; that the indexes hold the same triples does not keep a third slot from
holding the terminal as well, which would then change with it; and a terminal whose slot is gone but
whose nodes are not would come back with the next addition. `IInv` therefore fixes all of it from the set
`T` of triples in the store. For a slot `a, b` of index `i` let `Third(T, i, a, b)` be the nodes that
complete it to a triple of `T`, and `Home(i, a, b)` the only terminal it may hold: its own if the index
allocates terminals, that of the mirrored slot of the partner otherwise. Then, for every index,

* `NodesAre`: the terminal `Home(i, a, b)` contains exactly `Third(T, i, a, b)`, also when no slot holds it;
* `PointersAre`: the slot holds it if `Third(T, i, a, b)` is not empty, and `NULL` otherwise; the head has
  the vectors of the nodes `a` with such a slot, and no others.

Inside an operation the indexes disagree: once the first index of a pair has been
changed, its partner has the new nodes in the terminals it shares and the old slots. `Mid(S, P, T, U)`
describes this: the indexes of `P` show `U`, the others show `T` but for the terminals they share with
`P`. `AddEffect`, `AddWithTerminalEffect` and `RemoveEffect` say what the code does to one index, given
that its terminals already show `U` or still show `T`; `StepMid` says that the other indexes then stay as
they are, because `Home` is injective up to the partner; `AddPairMid` and `RemoveFromMid` put the two
together, and `AddTripleIdRep` and `RemoveTripleFromAllRep` take `Mid` through the three pairs and the six
indexes, from no index changed to all of them. `RepHolds` reads `T` back from any one index, which makes
`Content` the `T` of the invariant and gives the refinement. A store without indexes keeps nothing; its
steps are stutters of `TripleStore`.

### Hexastore: references, counters, queries

`Referenced` says of each terminal that `Refs`, the slots that hold it, are finitely many and as many as
it counts, and that one without reference is empty; each of the functions of one index adds or takes one
slot and one reference. `CountInv` counts what an index shows: in the index of a pair that is removed from
first, heads and vectors count the triples below them; in the other they never count fewer. The same lemma
on the cardinality of a set with one element more serves both.

A query walks one index. `StatementsAreComplete` needs that the index preferred for a pattern is there, or
its partner (`Covered`: of each pair one index is): otherwise `get_ordered_index` has none to offer.
`CountsAreRight` needs spo as well, since `size` reads its counter. With all six indexes both hold.

### Hexastore: reloads

After a reload partners have terminals of their own, `IInv` is false, and what remains is weaker:
`Keeps(S, T)` says that the indexes that allocate terminals show `T`, and of their partners (`Follows`)
that each slot is empty, or holds the terminal it should, or one of its own with some of the right nodes.
A `Reload` brings every state with `Keeps` to one with `Keeps`, and additions and removals go on from
there, although an addition no longer reaches the partner's own terminals.

### IndexIter

`IInv` says at each point of the loops what has been yielded: `PassedAt` is the set of answers behind the
three tree iterators, which are in different relations to the answer at each point (before a vector is
primed, all triples of smaller heads; after the current one, up to and with it), and the range of `read`
is this set. `PlacedAt` says where the iterators stand and that a bound position stands at its node or is
on the way up to it, `MasksStand` which masks the triggers have set; it is needed since a stale mask of a
variable that comes twice would skip answers. From `InOrder`, and the set being all of `Answer` when it
finishes, follows the safety part of `ImplementsStream`: each step that yields takes the least answer that
is left. `FilledSpec` begins with an index that is not empty, which `NeverEmpty` justifies; of an empty
one the code follows a vector that is not there.

### AsyncDES

`ControlInv` says where a rank and its slots can be at each point of `async_des`: which states a slot can
be in while the loop is before or behind it, that what is posted is addressed to a rank, and that nothing
is left over between exchanges. `Known` says of everything that waits, travels or is received that it was
sent, in this exchange, with the tag of its number or as a header; `Unique` that a message is in one place
only: in a send slot that waits, in the net, in a receive slot, or handled, and its header before it.
`Counted` says that `msg_count` of a rank is the number of tags it has given less the messages it has
handled, plus one while it may yet send.

`SuccessMeansOver` is the hard one. The sum over all ranks is the number of messages numbered, less those
handled, plus the ranks that may yet send (`SumOf`, by a lemma about sums of functions that count pairs).
Handled messages inject into numbered ones (by `Unique` and `Known`). So the sum is 0 only if no rank may
yet send and every number belongs to a handled message; a message anywhere else would be one number too
many. A send handler that fails is given a number and no message: then the sum is never 0, and the theorem
holds since there is no success. `Phases` says that all ranks then leave together, and is what carries
`HandledRight` from one exchange to the next. The sum is a fold, which is defined by recursion; facts
about it are proved with an induction over sets of natural numbers (`NatSetInduction`: a set with 0 and
closed under + 1 holds all of `Nat`), which needs no operator as a parameter.

### Loading

`Place` are the places of bytes: unread, first, last, a message in the mail of a rank, a line it has
handed on. `Once` says that a byte is in exactly one of them; each step moves bytes from some places to
one other (`Leaves`), and `Typed` has what is needed to show that it takes them all (a buffer lies in the
chunk, in front of what is unread). A rank that stops on an error drops bytes, so `OnceInv` is about the
states without one; `LinesInv` shows that there is none for a file that can be loaded. For such a file a
rank is `Fresh` (has read nothing), `Within` (behind its first newline: what it keeps begins behind a
newline and has none) or `Ended`; what travels to it is the head of the chunk after its own, up to the
first newline. Put together they make a line.

### The other stores and the node map

`StoresInv` has a part for each of the three.

*Parliament.* `ParliamentOK` says that the pointer of a node, or of a statement, along the chain of a
subject is the last statement before it with that subject, or 0 if there is none (`Previous`), that no two
statements have the same nodes, deleted or not, and no two records the same node. The loop that looks for
a statement (`Search`) then finds the statement with the nodes if there is one: as pointers only lead to
statements before, this is an induction over the length of the list (`NatSetInduction`, again for a set in
place of a predicate). `AddTriple` brings back a statement marked as deleted or appends one at the front
of its chains, and `NoDoubles` remains since the loop had not found it. Without `NoDoubles` a removal
would mark one of two statements and leave the triple there.
The chains of objects are chains in the same sense. `Tallied` says that the store, and each record of a
subject, count the statements that are not deleted. A count then follows from the three: one that runs along
a chain adds up a one or a zero for each statement of the node (`SumCounts`, again by induction), and by
`NoDoubles` the statements that fit are as many as the triples (`FitIdsCount`, a bijection).

*Tokyocabinet.* `Files` says that the nodes of each triple have identifiers. While the maps of nodes undo
each other (`RoundTrip`) the first table decodes to what was added. The condition cannot be left out: a
store that is opened again gives identifiers anew. It can be asked of the present state alone since it
never comes back once it is lost: an addition that leaves the maps in order found them in order. Until the
store is opened again `Distinct` holds besides: identifiers are below the next one and different nodes
have different ones. `Covered` says of each key of the table of counts that it counts no fewer triples of
identifiers than the first table has; it holds whatever the identifiers stand for, so it outlives a
reopening, which `Distinct` does not.
What a search gives is proved in steps of its own. `ByteRank` is injective where there are identifiers to
spare (`RankApart`, on the two digits of an identifier), so each order is linear on the keys
(`OrderLinear`); the number of the keys before a key is then its place, and `Keys` has each key once, in
order (`KeysEnumerate`). The search drops the keys before the bound nodes and stops at the first key that
does not have them. Both sets are closed downwards in what is left (`HitsAreLow`), because the bound
positions come first in the order; such a set is a stretch of the rows (`RowsParted`), so the rows that
remain are the triples that fit. That the bound positions do come first follows for the order that is
chosen from how positions are ranked (`OrderedIndexIs`) and for the orders that are offered from
`IndexOk`. Identifiers that share all but the lowest byte have the order of their ranks (`RankedAlike`), which
is all that holds of the order of the rows (`RowsOrdered`). What is exact in a
bulk load is the search of the first table; the others are shown to have only what the first one has. Of the invariant this needs `Even` (the tables agree, but for a bulk load; the flag of the store
is lost when it is opened again in the middle of one, the history variable is not) and `Numbered`
(identifiers are no more than the nodes, since each node gets one once). `IdsAssumption` says that there
are more identifiers than nodes: `Base * Base` in the model, which compares two bytes, 2^64 in the code.

*Node map.* `MapOK` says that both trees have the same items, finitely many, that identifiers are below
the next one, and that items are equal if their identifiers are or `hx_node_cmp` cannot tell their nodes
apart. That function is shown to order nodes by the rank of their types, then by value (`CmpIs`); so an
ordered map numbers a node by those that are not greater, and these sets grow strictly as the nodes do
(`OrderIs`).

`NodesStay` is what a step leaves of the names; with the invariant before and after, it gives `NamesStay`.

### Parser

*Batches.* `BatchInv` says where each triple that was handled is: `BatchOK` that those the total counts are
in the store and the others, in their order, in the batch. That a batch puts all of its triples into the
store is an induction over its length (`BatchAdded`), in which the store has to stay `Fine`: its maps of
nodes undo each other, which they do until it is opened again (a parser does not open one), and its tables
have what the first has, or less during a bulk load. If two nodes shared an identifier, an addition
could change what a triple of an earlier batch decodes to.

*Names.* Two entries of `named` by one parser in different files are apart because their numbers are, and
numbers are apart because each is below the parser's next when it is given. But a label that is met again
gets no number, so `NamesInv` ties the parser's map to `named` both ways: a label of the file at hand leads
to the name of an entry, and the entries of this file are labels of the map, or nodes without a label at
places behind the one at hand (`EntryOK`). The nodes of a triple are named one after the other, so this
holds between two nodes as well (`OneNamed`, three times for each triple). A name is spelled out of the
time of the parser and the number; `SpelledIs` shows that it determines both, for any bound on clocks.

### Left to TLC

* liveness: that the iterator finishes (the fairness of `ImplementsStream`), that every exchange ends
  (`AllComplete`), that everything is loaded (`AllLoaded`). The prover has no rules for fairness;
* the B+ tree; joins, patterns, plans and the parallel join (`Iterators`, `Query`, `Plan`, `Engine`,
  `Optimizer`, `Rendezvous`): recursive operators over pages, patterns and plans, and folds that tell what
  is computed for given data, where the theorem would be an induction over that data.

## 5. What the runs found

`findings` in `PROJECT.json` lists each with its line. `count_after_remove` is a run of its own; the others
appear as the exceptions in the properties of the passing runs, which say where the code is right. Taking
an exception out of its property, or the restriction out of its specification, shows the defect in TLC.

| defect | line | exception |
|---|---|---|
| a removal does not lower the counters of the second index of a pair | `index.c:172` | `CountMostlyRight`; refuted: `CountExact` |
| after a load partners have terminals of their own, and an addition reaches only one of them | `hexastore.c:928` | `SoundAfterReload` in place of `StatementsComplete` |
| borrowing from the previous page duplicates an entry | `btree.c:504` | `ForwardSpec` in place of `Spec` |
| merging with the previous page makes the list of leaves circular | `btree.c:582` | `ForwardSpec` |
| an inner split leaves the parent pointers of the children it moves | `btree.c:607` | `ForwardSpec` (`OwnParent`) |
| a page borrows from a page of another parent, and the keys above stay as they are | `btree.c:423` | `ForwardSpec` (`Sibling`), with eleven keys |
| a failing send handler is counted as a message: no rank ends | `async_des.c:124` | `Failed` in `AllComplete` |
| a hash join tries the matches of a row up to the number of the row before | `hashjoin.c:172` | `HashForgets` |
| priming a merge join repeats answers if the first pair of equal key does not join | `mergejoin.c:28` | `MergeRepeats` |
| a left join with an empty right side is empty | `nestedloopjoin.c:17` | `LeftOfNone`, `EvaluatesWell` |
| the sorted-by claim of a triple's iterator is about another column | `hexastore.c:583` | `MergesWell` |
| reordering takes the wrong triple's variables for seen | `algebra/bgp.c:358` | connected patterns of up to three triples (`ReorderedTriplesJoin`) |
| a join that moved to a service is moved back when merged again | `optimizer-federated.c:49` | federated plans of two triples |
| a store in files begins with identifier 1 when opened again | `tokyocabinet.c:41` | `reopened`, `NodesRoundTrip` |
| rows asked for in an order are not in the order of the identifiers, once one needs a second byte | `tcindex.c:31` | `OrderedBy` |
| a count with one bound node that is not the subject reads outside of a table | `parliament.c:161` | `CountsMatch` |
| literals compare equal whatever their language and datatype | `node.c:530` | `HoldsWhatWasAdded` |
| a first line longer than the buffer, a chunk without newline, an empty line | `mpi_file_ntriples_iterator.c:118` | `Loadable` |

Also met while modelling: a count of a pattern that repeats a variable ignores the repetition; a count of
a pattern with an unknown node reads pointers that were never set (`CountResults`); priming an iterator of
an empty index whose first position is unbound follows a vector that is not there (`PrimeSeek`); `size`
needs the spo index; the tag of messages is reset only after it has overflowed. `hashjoin.c:197` computes
the names of a natural join in the other order of its sides when it swaps them. A union keeps the rows of
operands with differently ordered columns as they are, and a materialized copy then renames them
(`Materialize`, `MergesWell`). Hash and merge joins are planned without a shared variable and return
`NULL` (`CanJoin` in `RunsWell`). The flag `leftjoin` of a join plan is never stored (`plan.c:74`).
`_hx_node_cmp_id` in `nodemap.c` cuts a 64-bit difference to an `int`. The tokyocabinet store counts a
duplicate again and never counts down, leaves the first row of a pattern with a repeated variable
unchecked, and compares one element behind its key when all nodes are bound (`tcindex.c`). `iter_sorting`
is not set for the two other stores, where `store.c:111` calls it. A parallel join of one triple frees the
node map of the store (`parallel.c:1169`), and takes a triple without variables or with a repeated one
wrongly (`QueryOK`). Two parsers made in the same microsecond give two blank nodes one name.

## 6. Not modelled

* values of tree entries and `seek` inside `btree.c` (an iterator that seeks is in `IndexIter`, over sets);
  `hx_btree_append`, memory that runs out in the store, and strings;
* MPI calls that fail, and receive handlers that return 0, which would end `async_des` on one rank alone and
  which no handler here does;
* the evaluation of a service pattern: `hx_graphpattern_execute` refuses it, and so does `Execute`;
* of `parallel.c`: the lookup of nodes over ranks (`hx_parallel_get_nodes`, `hx_parallel_lookup_node_ids`), the
  collection and broadcast of rows, and `parallel/genmap`, which serve only them. Nothing in the
  repository calls these, so no client says what they must do;
* the id map, which has no other caller, the AVL tree and the container (sets and sequences here);
* `get_statements` of the parliament store, which has no body;
* the text of queries and patterns: the SPARQL grammar, S-expressions, and freezing of patterns to bytes;
  the text of nodes, and hashes, which are taken as functions;
* that a delay iterator waits; the exit codes and output of the tools, the server (one request at a time,
  without state), examples and tests;
* the vendored libraries: the tables of tokyocabinet are ordered sets, the RDF parser is a sequence of calls.

## 7. Plan

1. *(done)* store, trees, index iterator, exchange; the store proved to implement a set of triples.
2. *(done)* the other stores, the node map, and a client of theirs; the parser above one of them.
3. *(done)* rows, joins and the other iterators; evaluation of patterns against their meaning; substitution
   and reordering.
4. *(done)* plans and the optimizer, local and federated.
5. *(done)* the parallel join over an exchange, and loading.
6. *(dropped)* lookups of nodes over ranks, as nothing calls them.
7. *(done)* proofs: references, counters and queries of the hexastore, with and without reloads; the
   safety of the exchange; the iterator; loading; the content and the names of the other stores and the
   node map; the parser's batches and names.
   Later, the counts of the other stores, and the rows of the store in files.
8. Proofs yet to do: the B+ tree, with its recursive operators written as recursive functions.

## 8. How to run

`tlc -config <run>.cfg <module>` with the modules of `PROJECT.json` (`runs`); `tlapm` with
each of the modules whose names end in `_proofs`: one to seven minutes each.
The longest runs (`iter`, `des_exchanges`, `engine`) take two to three minutes on two cores.
