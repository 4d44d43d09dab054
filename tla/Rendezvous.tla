----------------------------- MODULE Rendezvous -----------------------------
(***************************************************************************)
(* The join of a basic graph pattern by several ranks (parallel.c,         *)
(* hx_parallel_rendezvousjoin).  Every rank holds some triples, with its   *)
(* own ids for the nodes.  For each further triple of the pattern the      *)
(* ranks exchange the rows they have and then those of the triple: a row   *)
(* goes, spelled out, to the rank that the hash of its shared columns      *)
(* names, so that rows that join meet there.  A last exchange spreads the  *)
(* results.                                                                *)
(*                                                                         *)
(* An exchange is a session of async_des: messages arrive in any order, and *)
(* a rank leaves when all has been sent and handled (SuccessMeansOver and  *)
(* HandledRight of AsyncDES).  Terms are positive numbers.                 *)
(*                                                                         *)
(* An operator with an underscore in its name is a mutated form of the one *)
(* that follows it, and is used by no specification.                       *)
(***************************************************************************)
EXTENDS Query

CONSTANTS CommSize,  \* the number of ranks
          Loads,     \* what the ranks may hold: functions to sequences of triples of terms
          Queries,   \* patterns, of terms and variables
          Digest     \* a number for each term, which the hash adds up

VARIABLES loaded, query,
          session,   \* of each rank: odd for rows so far, even for those of a triple
          lhs,       \* the rows so far, an iterator
          lhsMap,    \* and the nodes of their ids
          vbMap,     \* the nodes of the rows received
          todo,      \* the rows of the iterator that are not sent yet
          buffer,    \* the rows received
          mail       \* messages under way

vars == <<loaded, query, session, lhs, lhsMap, vbMap, todo, buffer, mail>>

Rank == 0..CommSize - 1

\* Patterns the code can take: it mistakes the iterator of a triple without
\* variables, counts a variable twice that is repeated in a triple, and frees the
\* map of the store when there is one triple only.
QueryOK(b) ==
  /\ Len(b) > 1
  /\ \A i \in DOMAIN b : /\ TripleVariables(b[i]) # {}
                         /\ \A j, k \in 1..3 : j # k /\ IsVariable(b[i][j]) => b[i][j] # b[i][k]

ASSUME RendezvousAssumption ==
  /\ CommSize \in Nat \ {0}
  /\ \A l \in Loads : DOMAIN l = Rank
  /\ \A b \in Queries : QueryOK(b)

-----------------------------------------------------------------------------
(* A rank by itself.                                                       *)

\* The node map of the store, a sequence of terms: ids in the order of loading.
Nodes(r) == Distinct(FlattenSeq(loaded[r]))

Content(r) == {[k \in 1..3 |-> IdOf(Nodes(r), x[k])] : x \in Range(loaded[r])}

\* hx_model_new_variablebindings_iter_for_triple; a rank that does not know a
\* node of the triple has an iterator without rows.
IterForTriple(r, t) ==
  LET id(n) == IF IsVariable(n) THEN n ELSE IdOf(Nodes(r), n)
  IN  IF \E k \in 1..3 : id(t[k]) = 0
      THEN EmptyIter([c \in DOMAIN VariablePositions(t) |-> t[VariablePositions(t)[c]]])
      ELSE Statements(Content(r), [k \in 1..3 |-> id(t[k])], 3)

FinalSession   == 2 * Len(query) - 1
OfLhs  == {2 * j - 1 : j \in 1..Len(query)}
\* The triple that is joined in a session
Triple(s) == query[(s + 1) \div 2 + 1]

\* _hx_parallel_variablebindings_iter_shared_columns, in the order of the variables
Ordered(variables) ==
  [n \in 1..Cardinality(variables) |->
     CHOOSE v \in variables : Cardinality({u \in variables : u > v}) = n - 1]

SharedColumns(t, names) ==
  LET times(v) == Cardinality({c \in DOMAIN names : names[c] = v}) +
                  (IF v \in TripleVariables(t) THEN 1 ELSE 0)
  IN  Ordered({v \in BgpVariables(query) : times(v) = 2})

\* By what rows are spread; in the last session by all variables.
Columns(r) == IF session[r] = FinalSession THEN Ordered(BgpVariables(query))
              ELSE SharedColumns(Triple(session[r]), lhs[r].names)

\* The rank a row goes to; without shared columns they all go to rank 0.
RankOf_ById(b, map, columns) ==
  FoldLeft(LAMBDA h, v : h + NodeIdForBindingName(b, v), 0, columns) % CommSize

RankOf(b, map, columns) ==
  FoldLeft(LAMBDA h, v : h + Digest[map[NodeIdForBindingName(b, v)]], 0, columns) % CommSize

SourceMap(r) == IF session[r] \in OfLhs THEN lhsMap[r] ELSE Nodes(r)

-----------------------------------------------------------------------------
(* hx_parallel_distribute_variablebindings                                 *)

\* _hx_parallel_send_vb_handler
Send(r) ==
  /\ todo[r] # <<>>
  /\ LET b == Head(todo[r])
     IN  mail' = mail \cup {[in |-> session[r], from |-> r, left |-> Len(todo[r]),
                             to |-> RankOf(b, SourceMap(r), Columns(r)),
                             row |-> Freeze(b, SourceMap(r))]}
  /\ todo' = [todo EXCEPT ![r] = Tail(@)]
  /\ UNCHANGED <<loaded, query, session, lhs, lhsMap, vbMap, buffer>>

\* What _hx_parallel_recv_vb_handler does with a row.  A row of a triple is
\* dropped when it has a shared node that no row so far has.
Thawed(r, row) ==
  IF session[r] \in OfLhs THEN Thaw(row, vbMap[r])
  ELSE ThawNoadd(row, vbMap[r], Range(Columns(r)))

Receive(r) ==
  \E m \in mail :
    /\ m.to = r /\ m.in = session[r]
    /\ vbMap' = [vbMap EXCEPT ![r] = Thawed(r, m.row).map]
    /\ buffer' = [buffer EXCEPT ![r] = @ \o Thawed(r, m.row).row]
    /\ mail' = mail \ {m}
    /\ UNCHANGED <<loaded, query, session, lhs, lhsMap, todo>>

\* async_des has said ASYNC_SUCCESS.
Over_Sent(r) == \A q \in Rank : session[q] = session[r] => todo[q] = <<>>

Over(r) ==
  /\ \A q \in Rank : session[q] >= session[r]
  /\ \A q \in Rank : session[q] = session[r] => todo[q] = <<>>
  /\ \A m \in mail : m.in # session[r]

Received(r, names) == Materialized(names, buffer[r])

-----------------------------------------------------------------------------
(* hx_parallel_rendezvousjoin                                              *)

LeaveLhs(r) ==
  /\ session[r] \in OfLhs \ {FinalSession} /\ Over(r)
  /\ lhs' = [lhs EXCEPT ![r] = Received(r, @.names)]
  /\ todo' = [todo EXCEPT ![r] = IterForTriple(r, Triple(session[r])).rows]
  /\ session' = [session EXCEPT ![r] = @ + 1]
  /\ buffer' = [buffer EXCEPT ![r] = <<>>]
  /\ UNCHANGED <<loaded, query, lhsMap, vbMap, mail>>

\* The two sides are joined, and the rows that gives are the next to be spread.
Joined(r) ==
  LET t    == Triple(session[r] - 1)
      kind == IF SharedColumns(t, lhs[r].names) # <<>> THEN "merge" ELSE "nested"
  IN  Join(kind, lhs[r], Received(r, IterForTriple(r, t).names))

LeaveRhs(r) ==
  /\ session[r] \notin OfLhs /\ session[r] < FinalSession /\ Over(r)
  /\ lhs' = [lhs EXCEPT ![r] = Joined(r)]
  /\ lhsMap' = [lhsMap EXCEPT ![r] = vbMap[r]]
  /\ todo' = [todo EXCEPT ![r] = Joined(r).rows]
  /\ session' = [session EXCEPT ![r] = @ + 1]
  /\ buffer' = [buffer EXCEPT ![r] = <<>>]
  /\ vbMap' = [vbMap EXCEPT ![r] = <<>>]
  /\ UNCHANGED <<loaded, query, mail>>

LeaveLast(r) ==
  /\ session[r] = FinalSession /\ Over(r)
  /\ lhs' = [lhs EXCEPT ![r] = Received(r, @.names)]
  /\ lhsMap' = [lhsMap EXCEPT ![r] = vbMap[r]]
  /\ session' = [session EXCEPT ![r] = @ + 1]
  /\ buffer' = [buffer EXCEPT ![r] = <<>>]
  /\ vbMap' = [vbMap EXCEPT ![r] = <<>>]
  /\ UNCHANGED <<loaded, query, todo, mail>>

AllIn(s) == \A r \in Rank : session[r] = s

Init ==
  /\ loaded \in Loads
  /\ query \in Queries
  /\ session = [r \in Rank |-> 1]
  /\ lhs = [r \in Rank |-> IterForTriple(r, query[1])]
  /\ lhsMap = [r \in Rank |-> Nodes(r)]
  /\ vbMap = [r \in Rank |-> <<>>]
  /\ todo = [r \in Rank |-> lhs[r].rows]
  /\ buffer = [r \in Rank |-> <<>>]
  /\ mail = {}

RankStep(r) == Send(r) \/ Receive(r) \/ LeaveLhs(r) \/ LeaveRhs(r) \/ LeaveLast(r)

\* The results are written; the program ends.  Any other state without a step is a
\* deadlock.
WriteResults == AllIn(FinalSession + 1) /\ UNCHANGED vars

Next == (\E r \in Rank : RankStep(r)) \/ WriteResults

Spec == Init /\ [][Next]_vars

-----------------------------------------------------------------------------
(* Properties.                                                             *)

\* What a row says in terms.
Said(b, map) == {<<b.names[c], map[b.nodes[c]]>> : c \in DOMAIN b.nodes}

Done == AllIn(FinalSession + 1)

\* The rows of the ranks, and, during an exchange of rows so far, the rows wherever
\* they are: not sent yet, under way, or received.
Gathered ==
  UNION {{Said(lhs[r].rows[k], lhsMap[r]) : k \in DOMAIN lhs[r].rows} : r \in Rank}

Spread ==
  {Mapping(m.row) : m \in mail} \cup
  UNION {{Said(todo[r][k], lhsMap[r]) : k \in DOMAIN todo[r]} \cup
         {Said(buffer[r][k], vbMap[r]) : k \in DOMAIN buffer[r]} : r \in Rank}

Whole == UNION {Range(loaded[r]) : r \in Rank}

\* No row is lost or invented on its way.  Whenever the ranks exchange the rows so
\* far, those not sent yet, under way and received are together the answers that
\* the triples joined up to now have over the triples of all ranks.  That hangs on
\* rows that join meeting on one rank, on what is dropped there, and on each id
\* being read with the map it belongs to, which has all ids of the rows at hand.
NothingLost ==
  /\ \A r \in Rank :
       /\ \A k \in DOMAIN todo[r] : Range(todo[r][k].nodes) \subseteq DOMAIN SourceMap(r)
       /\ \A k \in DOMAIN buffer[r] : Range(buffer[r][k].nodes) \subseteq DOMAIN vbMap[r]
  /\ \A s \in OfLhs :
       AllIn(s) => Spread = BgpAnswers(Whole, SubSeq(query, 1, (s + 1) \div 2))

\* A triple that shares several variables with those before: a merge join may then
\* repeat answers (see Engine), depending on the order in which rows came in.
MayRepeat ==
  \E i \in 2..Len(query) :
    Cardinality(TripleVariables(query[i]) \cap BgpVariables(SubSeq(query, 1, i - 1))) > 1

\* In the end an answer is on one rank, and there once (but for the defect above):
\* nobody else removes doubles when the ranks write their results.
AnsweredOnce ==
  Done =>
    /\ Gathered = BgpAnswers(Whole, query)
    /\ \A q, r \in Rank : \A i \in DOMAIN lhs[q].rows, k \in DOMAIN lhs[r].rows :
         Said(lhs[q].rows[i], lhsMap[q]) = Said(lhs[r].rows[k], lhsMap[r]) =>
           q = r /\ (i = k \/ MayRepeat)
==============================================================================
