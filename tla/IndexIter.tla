------------------------------ MODULE IndexIter ------------------------------
(***************************************************************************)
(* The iterator of an index (hx_store_hexastore_index_iter): three nested  *)
(* tree iterators, on the head, on the current vector and on the current   *)
(* terminal, and a mask for each.  A mask is a node to look for or, if it  *)
(* is negative, a variable.  A variable that comes twice turns into a node *)
(* while the iterator runs: its later mask is set to the node found for    *)
(* the earlier one.                                                        *)
(*                                                                         *)
(* One action is one round of a loop of the code or one jump to a label;   *)
(* `at' says where the code is.  Triples have the order of the index.      *)
(*                                                                         *)
(* An operator with an underscore in its name is a mutated form of the one *)
(* that follows it, and is used by no specification.                       *)
(***************************************************************************)
EXTENDS Integers, Sequences, SequencesExt, FiniteSets

CONSTANTS
  Node,        \* positive
  Variable,    \* negative
  Contents     \* bound: the sets of triples the index may hold

ASSUME NodeAssumption     == Node \subseteq Nat \ {0}
ASSUME VariableAssumption == \A v \in Variable : v \in Int /\ v < 0
Triple  == Node \X Node \X Node

ASSUME ContentsAssumption == Contents \subseteq SUBSET Triple

Pattern == LET T == Node \cup Variable IN T \X T \X T
END     == 0   \* a tree iterator that is finished

VARIABLES
  triples,       \* the content of the index; nobody changes it meanwhile
  pattern,       \* the masks the iterator was created with
  mask,          \* node_mask_a, node_mask_b and node_mask_c
  head, vector, terminal,   \* where the tree iterators are: a node or END
  at,
  read           \* history: what the client has read

vars == <<triples, pattern, mask, head, vector, terminal, at, read>>

Control == {"new", "primeHead", "primeVector", "current", "nextVector",
            "nextHead", "finished", "crashed"}

Heads           == {x[1] : x \in triples}
VectorOf(a)     == {x[2] : x \in {y \in triples : y[1] = a}}
TerminalOf(a, b) == {x[3] : x \in {y \in triples : y[1] = a /\ y[2] = b}}

First(keys)    == CHOOSE k \in keys : \A l \in keys : k <= l
After(keys, k) == LET more == {l \in keys : l > k}
                  IN  IF more = {} THEN END ELSE First(more)

\* node_dup_b and node_dup_c, set by hx_store_hexastore_index_new_iter1.
DupB  == pattern[2] = pattern[1]
DupCA == pattern[3] = pattern[1]
DupCB == ~DupCA /\ pattern[3] = pattern[2]

Bound(m) == m > 0

\* A trigger takes the entry the iterator was at before.
GotHead_TooEarly(a, m)   == <<m[1], IF DupB THEN head ELSE m[2], IF DupCA THEN head ELSE m[3]>>

\* _hx_store_hexastore_index_got_head_trigger, _got_vector_trigger
GotHead(a, m)   == <<m[1], IF DupB THEN a ELSE m[2], IF DupCA THEN a ELSE m[3]>>
GotVector(b, m) == <<m[1], m[2], IF DupCB THEN b ELSE m[3]>>

\* Where an iterator on a new tree starts, given a mask.
Start(keys, m) == IF Bound(m) THEN m ELSE First(keys)
Misses(keys, m) == Bound(m) /\ m \notin keys

Finish == at' = "finished"

-----------------------------------------------------------------------------
(* _hx_store_hexastore_index_iter_prime_first_result                       *)

\* The head of an empty index yields an entry without a vector.
PrimeSeek ==
  /\ at = "new"
  /\ IF Misses(Heads, mask[1])
     THEN Finish /\ UNCHANGED head
     ELSE IF Heads = {}
     THEN at' = "crashed" /\ UNCHANGED head
     ELSE at' = "primeHead" /\ head' = Start(Heads, mask[1])
  /\ UNCHANGED <<triples, pattern, mask, vector, terminal, read>>

PrimeHead ==
  /\ at = "primeHead"
  /\ IF head = END
     THEN Finish /\ UNCHANGED <<mask, head, vector>>
     ELSE LET m == GotHead(head, mask) IN
          /\ mask' = m
          /\ IF Bound(m[1]) /\ head # m[1]
             THEN Finish /\ UNCHANGED <<head, vector>>
             ELSE IF Misses(VectorOf(head), m[2])
             THEN head' = After(Heads, head) /\ UNCHANGED <<at, vector>>
             ELSE /\ vector' = Start(VectorOf(head), m[2])
                  /\ at' = "primeVector"
                  /\ UNCHANGED head
  /\ UNCHANGED <<triples, pattern, terminal, read>>

PrimeVector ==
  /\ at = "primeVector"
  /\ IF vector = END
     THEN /\ head' = After(Heads, head) /\ at' = "primeHead"
          /\ UNCHANGED <<mask, vector, terminal>>
     ELSE LET m    == GotVector(vector, mask)
              keys == TerminalOf(head, vector)
          IN  /\ mask' = m
              /\ IF Bound(m[2]) /\ vector # m[2]
                 THEN /\ head' = After(Heads, head) /\ at' = "primeHead"
                      /\ UNCHANGED <<vector, terminal>>
                 ELSE IF Misses(keys, m[3])
                 THEN /\ vector' = After(VectorOf(head), vector)
                      /\ UNCHANGED <<head, terminal, at>>
                 ELSE /\ terminal' = Start(keys, m[3]) /\ at' = "current"
                      /\ UNCHANGED <<head, vector>>
  /\ UNCHANGED <<triples, pattern, read>>

-----------------------------------------------------------------------------
(* hx_store_hexastore_index_iter_next                                      *)

\* The client is given the entry that the iterator has gone on to.
Next1_TooLate ==
  /\ at = "current"
  /\ LET c == After(TerminalOf(head, vector), terminal) IN
       /\ read' = Append(read, <<head, vector, c>>)
       /\ IF c # END /\ ~Bound(mask[3])
          THEN terminal' = c /\ UNCHANGED at
          ELSE at' = "nextVector" /\ UNCHANGED terminal
  /\ UNCHANGED <<triples, pattern, mask, head, vector>>

\* The client reads the current triple and asks for the next one.
Next1 ==
  /\ at = "current"
  /\ read' = Append(read, <<head, vector, terminal>>)
  /\ LET c == After(TerminalOf(head, vector), terminal) IN
       IF c # END /\ ~Bound(mask[3])
       THEN terminal' = c /\ UNCHANGED at
       ELSE at' = "nextVector" /\ UNCHANGED terminal
  /\ UNCHANGED <<triples, pattern, mask, head, vector>>

NextVector ==
  /\ at = "nextVector"
  /\ LET b == After(VectorOf(head), vector) IN
       IF b # END /\ ~Bound(mask[2])
       THEN LET m    == GotVector(b, mask)
                keys == TerminalOf(head, b)
            IN  /\ vector' = b
                /\ mask' = m
                /\ IF Misses(keys, m[3])
                   THEN UNCHANGED <<terminal, at>>
                   ELSE terminal' = Start(keys, m[3]) /\ at' = "current"
       ELSE at' = "nextHead" /\ UNCHANGED <<mask, vector, terminal>>
  /\ UNCHANGED <<triples, pattern, head, read>>

\* When the terminal of the first vector entry lacks the node that is looked
\* for, the code calls next_vector and does not look at what it returns.
NextHead ==
  /\ at = "nextHead"
  /\ LET a == After(Heads, head) IN
       IF a # END /\ ~Bound(mask[1])
       THEN LET m == GotHead(a, mask) IN
            /\ head' = a
            /\ IF Misses(VectorOf(a), m[2])
               THEN mask' = m /\ UNCHANGED <<vector, terminal, at>>
               ELSE LET b    == Start(VectorOf(a), m[2])
                        n    == GotVector(b, m)
                        keys == TerminalOf(a, b)
                    IN  /\ vector' = b
                        /\ mask' = n
                        /\ IF Misses(keys, n[3])
                           THEN at' = "nextVector" /\ UNCHANGED terminal
                           ELSE terminal' = Start(keys, n[3]) /\ at' = "current"
       ELSE Finish /\ UNCHANGED <<mask, head, vector, terminal>>
  /\ UNCHANGED <<triples, pattern, read>>

-----------------------------------------------------------------------------
Init ==
  /\ triples \in Contents
  /\ pattern \in Pattern
  /\ mask = pattern
  /\ head = END /\ vector = END /\ terminal = END
  /\ at = "new"
  /\ read = <<>>

\* An iterator only compares variables: one name for the first variable of a
\* pattern, another for the next, stand for all.
Canonical(pat) ==
  \A k \in 1..3 : pat[k] < -1 => \E j \in 1..k - 1 : pat[j] = pat[k] + 1

\* The iterator of an index that holds triples.  In an empty one the code
\* crashes when the first position is not bound (PrimeSeek).
InitFilled == Init /\ triples # {} /\ Canonical(pattern)

Loop == PrimeSeek \/ PrimeHead \/ PrimeVector \/ NextVector \/ NextHead

Next == Loop \/ Next1

\* A call runs to its end, and a client goes on until the end.
FilledSpec == InitFilled /\ [][Next]_vars /\ WF_vars(Next)

-----------------------------------------------------------------------------
(* Properties.                                                             *)

TypeOK ==
  /\ triples \subseteq Triple
  /\ pattern \in Pattern
  /\ mask \in Pattern
  /\ {head, vector, terminal} \subseteq Node \cup {END}
  /\ at \in Control
  /\ read \in Seq(Triple)

Matches(x) ==
  /\ \A k \in 1..3 : Bound(pattern[k]) => x[k] = pattern[k]
  /\ \A j, k \in 1..3 : pattern[j] = pattern[k] => x[j] = x[k]

\* The iterator yields the triples that match the pattern, in the order of the
\* index, each once, and then finishes: seeks, breaks and the masks that the
\* triggers set neither skip a triple nor yield one that does not match.
Stream == INSTANCE TripleStream WITH
            answer  <- {x \in triples : Matches(x)},
            yielded <- read,
            done    <- at = "finished"

ImplementsStream == Stream!FairSpec

\* Sorted by the second position whatever the first.
IsSortedBy_Second(k) == k <= 2 \/ (Bound(mask[1]) /\ Bound(mask[2]))

\* hx_store_hexastore_index_iter_is_sorted_by_index, which reads the masks as
\* they are at the time of the call.
IsSortedBy(k) ==
  CASE k = 1 -> TRUE
    [] k = 2 -> Bound(mask[1])
    [] k = 3 -> Bound(mask[1]) /\ Bound(mask[2])

\* Once an iterator says that it is sorted by a position, it is: for all that
\* it has yielded, and will yield (the merge join relies on it).
SortedAsClaimed ==
  \A k \in 1..3 : IsSortedBy(k) =>
    \A i, j \in 1..Len(read) : i < j => read[i][k] <= read[j][k]

==============================================================================
