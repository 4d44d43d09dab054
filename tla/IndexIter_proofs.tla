-------------------------- MODULE IndexIter_proofs --------------------------
(***************************************************************************)
(* Proofs about module IndexIter, for every set of nodes, every pattern    *)
(* and every index that is not empty: the iterator yields the triples that *)
(* match, in order, each once, and does not finish before.                 *)
(***************************************************************************)
EXTENDS IndexIter, WellFoundedInduction, TLAPS

-----------------------------------------------------------------------------
(* Trees: where an iterator starts and where it goes on.                   *)

LEMMA LeastOfNodes ==
  ASSUME NEW keys \in SUBSET Node, keys # {}
  PROVE  \E k \in keys : \A l \in keys : k <= l
<1> DEFINE Less == OpToRel(<, Nat)
<1>1. IsWellFoundedOn(Less, Nat)
  BY NatLessThanWellFounded
<1>2. \A x, y \in Nat : <<x, y>> \in Less <=> x < y
  BY DEF OpToRel
<1>3. keys \subseteq Nat
  BY NodeAssumption
<1> HIDE DEF Less
<1>4. PICK k \in keys : \A l \in keys : <<l, k>> \notin Less
  BY <1>1, <1>3, WFMin
<1>5. ASSUME NEW l \in keys PROVE k <= l
  <2>1. l \in Nat /\ k \in Nat
    BY <1>3
  <2>2. ~(l < k)
    BY <1>2, <1>4, <2>1
  <2> QED  BY <2>1, <2>2
<1> QED  BY <1>5

LEMMA FirstIs ==
  ASSUME NEW keys \in SUBSET Node, keys # {}
  PROVE  First(keys) \in keys /\ \A l \in keys : First(keys) <= l
BY LeastOfNodes DEF First

LEMMA NodesPositive == ASSUME NEW a \in Node PROVE a \in Nat /\ a # END /\ Bound(a)
BY NodeAssumption DEF END, Bound

LEMMA AfterIs ==
  ASSUME NEW keys \in SUBSET Node, NEW k \in Node
  PROVE  \/ After(keys, k) = END /\ \A l \in keys : l <= k
         \/ /\ After(keys, k) \in keys /\ After(keys, k) > k /\ After(keys, k) # END
            /\ \A l \in keys : l > k => After(keys, k) <= l
<1> DEFINE more == {l \in keys : l > k}
<1>1. After(keys, k) = IF more = {} THEN END ELSE First(more)
  BY DEF After
<1>2. CASE more = {}
  <2>1. \A l \in keys : l <= k
    BY <1>2, NodesPositive
  <2> QED  BY <1>1, <1>2, <2>1
<1>3. CASE more # {}
  <2>1. First(more) \in more /\ \A l \in more : First(more) <= l
    BY <1>3, FirstIs
  <2>2. First(more) # END
    BY <2>1, NodesPositive
  <2> QED  BY <1>1, <1>3, <2>1, <2>2
<1> QED  BY <1>2, <1>3

LEMMA StartIs ==
  ASSUME NEW keys \in SUBSET Node, keys # {}, NEW m, ~Misses(keys, m)
  PROVE  /\ Start(keys, m) \in keys
         /\ Bound(m) => Start(keys, m) = m
         /\ ~Bound(m) => \A l \in keys : Start(keys, m) <= l
BY FirstIs DEF Start, Misses

LEMMA Trees ==
  ASSUME triples \subseteq Triple
  PROVE  /\ Heads \in SUBSET Node
         /\ \A a : VectorOf(a) \in SUBSET Node /\ (a \in Heads => VectorOf(a) # {})
         /\ \A a, b : /\ TerminalOf(a, b) \in SUBSET Node
                      /\ b \in VectorOf(a) => TerminalOf(a, b) # {}
         /\ \A x \in triples : /\ x[1] \in Heads /\ x[2] \in VectorOf(x[1])
                               /\ x[3] \in TerminalOf(x[1], x[2])
                               /\ x = <<x[1], x[2], x[3]>>
         /\ \A a, b, c : c \in TerminalOf(a, b) => <<a, b, c>> \in triples
<1>1. \A x \in triples : /\ x = <<x[1], x[2], x[3]>>
                         /\ x[1] \in Node /\ x[2] \in Node /\ x[3] \in Node
  BY DEF Triple
<1>2. \A x \in triples : /\ x[1] \in Heads /\ x[2] \in VectorOf(x[1])
                         /\ x[3] \in TerminalOf(x[1], x[2])
  BY DEF Heads, VectorOf, TerminalOf
<1>3. Heads \in SUBSET Node /\ \A a : VectorOf(a) \in SUBSET Node
  BY <1>1 DEF Heads, VectorOf
<1>4. \A a, b : TerminalOf(a, b) \in SUBSET Node
  BY <1>1 DEF TerminalOf
<1>5. \A a \in Heads : VectorOf(a) # {}
  BY <1>1 DEF Heads, VectorOf
<1>6. \A a, b : b \in VectorOf(a) => TerminalOf(a, b) # {}
  BY <1>1 DEF VectorOf, TerminalOf
<1>7. \A a, b, c : c \in TerminalOf(a, b) => <<a, b, c>> \in triples
  BY <1>1 DEF TerminalOf
<1> QED  BY <1>1, <1>2, <1>3, <1>4, <1>5, <1>6, <1>7

-----------------------------------------------------------------------------
(* Masks.                                                                  *)

Answer == {x \in triples : Matches(x)}

\* The masks are those of the pattern but for a variable that comes twice ...
MasksStand(m) ==
  /\ m \in Pattern
  /\ m[1] = pattern[1]
  /\ ~DupB => m[2] = pattern[2]
  /\ ~DupCA /\ ~DupCB => m[3] = pattern[3]

\* ... which has been set to the node found for it, when the first iterator is at
\* a node, and when the second one is, too.
HeadSet(m, a)   == (DupB => m[2] = a) /\ (DupCA => m[3] = a)
VectorSet(m, b) == DupCB => m[3] = b

LEMMA GotHeadSets ==
  ASSUME pattern \in Pattern, NEW m, MasksStand(m), NEW a \in Node
  PROVE  MasksStand(GotHead(a, m)) /\ HeadSet(GotHead(a, m), a)
<1>1. GotHead(a, m) \in Pattern
  BY DEF GotHead, MasksStand, Pattern
<1> QED  BY <1>1 DEF MasksStand, HeadSet, GotHead

LEMMA GotVectorSets ==
  ASSUME pattern \in Pattern, NEW m, MasksStand(m), NEW a, HeadSet(m, a), NEW b \in Node
  PROVE  /\ MasksStand(GotVector(b, m)) /\ HeadSet(GotVector(b, m), a)
         /\ VectorSet(GotVector(b, m), b)
         /\ GotVector(b, m)[1] = m[1] /\ GotVector(b, m)[2] = m[2]
<1>1. GotVector(b, m) \in Pattern
  BY DEF GotVector, MasksStand, Pattern
<1> QED  BY <1>1 DEF MasksStand, HeadSet, VectorSet, GotVector, DupCB

\* Once both are set a triple of these nodes matches if it has the bound nodes.
LEMMA MatchesMask ==
  ASSUME pattern \in Pattern, NEW m, MasksStand(m), NEW x \in Triple
  PROVE  /\ Matches(x) /\ Bound(m[1]) => x[1] = m[1]
         /\ Matches(x) /\ HeadSet(m, x[1]) /\ Bound(m[2]) => x[2] = m[2]
         /\ Matches(x) /\ HeadSet(m, x[1]) /\ VectorSet(m, x[2]) /\ Bound(m[3]) => x[3] = m[3]
         /\ /\ HeadSet(m, x[1]) /\ VectorSet(m, x[2])
            /\ Bound(m[1]) => x[1] = m[1]
            /\ Bound(m[2]) => x[2] = m[2]
            /\ Bound(m[3]) => x[3] = m[3]
            => Matches(x)
<1>1. x[1] \in Node /\ x[2] \in Node /\ x[3] \in Node
  BY DEF Triple
<1>2. Bound(x[1]) /\ Bound(x[2]) /\ Bound(x[3])
  BY <1>1, NodesPositive
<1>3. Matches(x) <=> /\ Bound(pattern[1]) => x[1] = pattern[1]
                     /\ Bound(pattern[2]) => x[2] = pattern[2]
                     /\ Bound(pattern[3]) => x[3] = pattern[3]
                     /\ pattern[1] = pattern[2] => x[1] = x[2]
                     /\ pattern[1] = pattern[3] => x[1] = x[3]
                     /\ pattern[2] = pattern[3] => x[2] = x[3]
  <2>1. 1..3 = {1, 2, 3}
    OBVIOUS
  <2> QED  BY <2>1 DEF Matches
<1> QED  BY <1>2, <1>3 DEF MasksStand, HeadSet, VectorSet, DupB, DupCA, DupCB

-----------------------------------------------------------------------------
(* The inductive invariant.                                                *)

\* The triples of the answer that the iterator has gone past when it is at l.
PassedAt(l, a, b, c) ==
  CASE l = "new"         -> {}
    [] l = "primeHead"   -> {y \in Answer : a = END \/ y[1] < a}
    [] l = "primeVector" -> {y \in Answer : y[1] < a \/ (y[1] = a /\ (b = END \/ y[2] < b))}
    [] l = "current"     -> {y \in Answer : Stream!Precedes(y, <<a, b, c>>)}
    [] l = "nextVector"  -> {y \in Answer : y[1] < a \/ (y[1] = a /\ y[2] <= b)}
    [] l = "nextHead"    -> {y \in Answer : y[1] <= a}
    [] l = "finished"    -> Answer
    [] l = "crashed"     -> {}

\* Where the tree iterators are.
HeadIn(m, a)           == a \in Heads /\ (Bound(m[1]) => a = m[1])
VectorIn(m, a, b)      == b \in VectorOf(a) /\ (Bound(m[2]) => b = m[2])
TerminalIn(m, a, b, c) == c \in TerminalOf(a, b) /\ (Bound(m[3]) => c = m[3])

\* While it is primed an iterator looks for the bound node on its way up.
UpFrom(m, k) == k # END /\ Bound(m) => k >= m

PlacedAt(l, m, a, b, c) ==
  /\ l = "primeHead" => a \in Heads \cup {END} /\ UpFrom(m[1], a)
  /\ l = "primeVector" => /\ HeadIn(m, a) /\ HeadSet(m, a)
                          /\ b \in VectorOf(a) \cup {END} /\ UpFrom(m[2], b)
  /\ l = "current" => /\ HeadIn(m, a) /\ HeadSet(m, a)
                      /\ VectorIn(m, a, b) /\ VectorSet(m, b) /\ TerminalIn(m, a, b, c)
  /\ l = "nextVector" => HeadIn(m, a) /\ HeadSet(m, a) /\ VectorIn(m, a, b)
  /\ l = "nextHead" => HeadIn(m, a)

InOrder == \A i, j \in 1..Len(read) : i < j => Stream!Precedes(read[i], read[j])

IInv ==
  /\ TypeOK /\ triples # {} /\ at # "crashed"
  /\ MasksStand(mask) /\ PlacedAt(at, mask, head, vector, terminal)
  /\ Range(read) = PassedAt(at, head, vector, terminal)
  /\ at = "new" => mask = pattern
  /\ InOrder

LEMMA Answers ==
  ASSUME TypeOK, NEW y \in Answer
  PROVE  /\ y \in triples /\ y \in Triple /\ Matches(y) /\ y = <<y[1], y[2], y[3]>>
         /\ y[1] \in Node /\ y[2] \in Node /\ y[3] \in Node
         /\ y[1] \in Heads /\ y[2] \in VectorOf(y[1]) /\ y[3] \in TerminalOf(y[1], y[2])
<1>1. y \in triples /\ Matches(y) /\ y \in Triple
  BY DEF Answer, TypeOK
<1> QED  BY <1>1, Trees DEF Triple, TypeOK

\* What a triple of the answer has at the positions the masks bind.
LEMMA AnswerBound ==
  ASSUME TypeOK, NEW m, MasksStand(m), NEW y \in Answer
  PROVE  /\ Bound(m[1]) => y[1] = m[1]
         /\ HeadSet(m, y[1]) /\ Bound(m[2]) => y[2] = m[2]
         /\ HeadSet(m, y[1]) /\ VectorSet(m, y[2]) /\ Bound(m[3]) => y[3] = m[3]
BY Answers, MatchesMask DEF TypeOK

\* A step that reads nothing goes past no triple of the answer.
LEMMA StepIInv ==
  ASSUME IInv, UNCHANGED <<triples, pattern, read>>,
         NEW l \in Control, l # "new", l # "crashed", NEW m, MasksStand(m),
         NEW a \in Node \cup {END}, NEW b \in Node \cup {END}, NEW c \in Node \cup {END},
         at' = l, mask' = m, head' = a, vector' = b, terminal' = c,
         PlacedAt(l, m, a, b, c),
         PassedAt(l, a, b, c) = PassedAt(at, head, vector, terminal)
  PROVE  IInv'
<1>1. Answer' = Answer
  BY DEF Answer, Matches
<1>2. TypeOK'
  BY DEF IInv, TypeOK, MasksStand
<1>3. MasksStand(mask)' /\ (at' = "new" => mask' = pattern')
  BY DEF MasksStand, DupB, DupCA, DupCB
<1>4. PlacedAt(at, mask, head, vector, terminal)'
  BY DEF PlacedAt, HeadIn, VectorIn, TerminalIn, HeadSet, VectorSet, DupB, DupCA, DupCB,
         Heads, VectorOf, TerminalOf
<1>5. (Range(read) = PassedAt(at, head, vector, terminal))'
  <2>1. PassedAt(at, head, vector, terminal)' = PassedAt(l, a, b, c)
    BY <1>1 DEF PassedAt
  <2> QED  BY <2>1 DEF IInv, Range
<1>6. InOrder'
  BY DEF IInv, InOrder
<1> QED  BY <1>2, <1>3, <1>4, <1>5, <1>6 DEF IInv

-----------------------------------------------------------------------------
(* The steps of priming.                                                   *)

LEMMA PrimeSeekIInv == IInv /\ PrimeSeek => IInv'
<1> SUFFICES ASSUME IInv, PrimeSeek PROVE IInv'
  OBVIOUS
<1>1. /\ TypeOK /\ triples # {} /\ at = "new" /\ MasksStand(mask)
      /\ UNCHANGED <<triples, pattern, mask, vector, terminal, read>>
  BY DEF IInv, PrimeSeek
<1>2. Heads \in SUBSET Node /\ Heads # {}
  BY <1>1, Trees DEF TypeOK
<1>3. \A y \in Answer : y[1] \in Heads /\ (Bound(mask[1]) => y[1] = mask[1])
  BY <1>1, Answers, AnswerBound
<1>4. CASE Misses(Heads, mask[1])
  <2>1. at' = "finished" /\ head' = head
    BY <1>4 DEF PrimeSeek, Finish
  <2>2. Answer = {}
    BY <1>3, <1>4 DEF Misses
  <2> QED
    BY <1>1, <2>1, <2>2, StepIInv DEF PlacedAt, PassedAt, TypeOK, Control
<1>5. CASE ~Misses(Heads, mask[1])
  <2>1. at' = "primeHead" /\ head' = Start(Heads, mask[1])
    BY <1>2, <1>5 DEF PrimeSeek
  <2>2. PICK a \in Heads : /\ a = head' /\ a \in Node /\ a # END
                           /\ Bound(mask[1]) => a = mask[1]
                           /\ ~Bound(mask[1]) => \A l \in Heads : a <= l
    BY <1>2, <1>5, <2>1, StartIs, NodesPositive
  <2>3. \A y \in Answer : ~(a = END \/ y[1] < a)
    <3>1. \A y \in Answer : a <= y[1]
      BY <1>2, <1>3, <2>2, NodesPositive
    <3> QED  BY <1>2, <1>3, <2>2, <3>1, NodesPositive
  <2>4. UpFrom(mask[1], a)
    BY <2>2, NodesPositive DEF UpFrom
  <2> QED
    BY <1>1, <2>1, <2>2, <2>3, <2>4, StepIInv DEF PlacedAt, PassedAt, TypeOK, Control
<1> QED  BY <1>4, <1>5

\* From one node of a tree to the next nothing is left out.
LEMMA NextOfHeads ==
  ASSUME TypeOK, NEW a \in Heads, NEW h, h = After(Heads, a)
  PROVE  /\ a \in Node /\ h \in Heads \cup {END} /\ h \in Node \cup {END} /\ (h # END => h > a)
         /\ \A b, c : PassedAt("primeHead", h, b, c) = {y \in Answer : y[1] <= a}
         /\ \A y \in Answer : h # END => (y[1] < h <=> y[1] <= a)
         /\ h = END => \A y \in Answer : y[1] <= a
<1>1. Heads \in SUBSET Node
  BY Trees DEF TypeOK
<1>2. \A y \in Answer : y[1] \in Heads /\ y[1] \in Nat
  BY Answers, NodesPositive
<1>3. a \in Node /\ a \in Nat
  BY <1>1, NodesPositive
<1>4. CASE h = END /\ \A l \in Heads : l <= a
  BY <1>2, <1>3, <1>4 DEF PassedAt
<1>5. CASE h \in Heads /\ h > a /\ h # END /\ \A l \in Heads : l > a => h <= l
  <2>1. h \in Nat /\ h \in Node
    BY <1>1, <1>5, NodesPositive
  <2>2. \A y \in Answer : y[1] < h <=> y[1] <= a
    BY <1>2, <1>3, <1>5, <2>1
  <2> QED  BY <1>3, <1>5, <2>1, <2>2 DEF PassedAt
<1> QED  BY <1>1, <1>3, <1>4, <1>5, AfterIs

LEMMA NextOfVector ==
  ASSUME TypeOK, NEW a \in Heads, NEW b \in VectorOf(a), NEW v, v = After(VectorOf(a), b)
  PROVE  /\ b \in Node /\ v \in VectorOf(a) \cup {END} /\ v \in Node \cup {END}
         /\ v # END => v > b
         /\ \A c : PassedAt("primeVector", a, v, c)
                     = {y \in Answer : y[1] < a \/ (y[1] = a /\ y[2] <= b)}
         /\ \A y \in Answer : y[1] = a /\ v # END => (y[2] < v <=> y[2] <= b)
         /\ v = END => \A y \in Answer : y[1] = a => y[2] <= b
<1>1. VectorOf(a) \in SUBSET Node
  BY Trees DEF TypeOK
<1>2. \A y \in Answer : y[1] = a => y[2] \in VectorOf(a) /\ y[2] \in Nat
  BY Answers, NodesPositive
<1>3. b \in Node /\ b \in Nat
  BY <1>1, NodesPositive
<1>4. CASE v = END /\ \A l \in VectorOf(a) : l <= b
  BY <1>2, <1>3, <1>4 DEF PassedAt
<1>5. CASE v \in VectorOf(a) /\ v > b /\ v # END /\ \A l \in VectorOf(a) : l > b => v <= l
  <2>1. v \in Nat /\ v \in Node
    BY <1>1, <1>5, NodesPositive
  <2>2. \A y \in Answer : y[1] = a => (y[2] < v <=> y[2] <= b)
    BY <1>2, <1>3, <1>5, <2>1
  <2> QED  BY <1>3, <1>5, <2>1, <2>2 DEF PassedAt
<1> QED  BY <1>1, <1>3, <1>4, <1>5, AfterIs

LEMMA PrimeHeadIInv == IInv /\ PrimeHead => IInv'
<1> SUFFICES ASSUME IInv, PrimeHead PROVE IInv'
  OBVIOUS
<1> DEFINE m == GotHead(head, mask)
<1>1. /\ TypeOK /\ at = "primeHead" /\ MasksStand(mask) /\ pattern \in Pattern
      /\ head \in Heads \cup {END} /\ UpFrom(mask[1], head)
      /\ UNCHANGED <<triples, pattern, terminal, read>>
      /\ {head, vector, terminal} \subseteq Node \cup {END}
  BY DEF IInv, PrimeHead, PlacedAt, TypeOK
<1>2. CASE head = END
  <2>1. at' = "finished" /\ UNCHANGED <<mask, head, vector>>
    BY <1>1, <1>2 DEF PrimeHead, Finish
  <2>2. PassedAt("finished", head, vector, terminal) = PassedAt(at, head, vector, terminal)
    BY <1>1, <1>2 DEF PassedAt
  <2> QED
    BY <1>1, <2>1, <2>2, StepIInv DEF PlacedAt, Control
<1>3. CASE head # END
  <2>1. head \in Heads /\ head \in Node
    BY <1>1, <1>3
  <2>2. MasksStand(m) /\ HeadSet(m, head) /\ m[1] = mask[1]
    <3> QED  BY <1>1, <2>1, GotHeadSets DEF MasksStand
  <2>3. mask' = m
    BY <1>1, <1>3 DEF PrimeHead
  <2>4. PassedAt(at, head, vector, terminal) = {y \in Answer : y[1] < head}
    BY <1>1, <1>3 DEF PassedAt
  <2>5. \A y \in Answer : /\ y[1] \in Nat /\ (Bound(m[1]) => y[1] = m[1])
                          /\ y[1] = head /\ Bound(m[2]) => y[2] = m[2]
                          /\ y[1] = head => y[2] \in VectorOf(head) /\ y[2] \in Nat
    BY <1>1, <2>2, AnswerBound, Answers, NodesPositive
  <2> HIDE DEF m
  <2>6. CASE Bound(m[1]) /\ head # m[1]
    <3>1. at' = "finished" /\ UNCHANGED <<head, vector>>
      BY <1>1, <1>3, <2>6 DEF PrimeHead, Finish, m
    <3>2. \A y \in Answer : y[1] < head
      <4>1. head >= m[1] /\ head \in Nat
        BY <1>1, <1>3, <2>1, <2>2, <2>6, NodesPositive DEF UpFrom
      <4> QED  BY <2>5, <2>6, <4>1
    <3>3. PassedAt("finished", head, vector, terminal) = PassedAt(at, head, vector, terminal)
      BY <2>4, <3>2 DEF PassedAt
    <3> QED
      BY <1>1, <2>2, <2>3, <3>1, <3>3, StepIInv DEF PlacedAt, Control
  <2>7. CASE ~(Bound(m[1]) /\ head # m[1]) /\ Misses(VectorOf(head), m[2])
    <3>1. at' = at /\ vector' = vector /\ head' = After(Heads, head)
      BY <1>1, <1>3, <2>7 DEF PrimeHead, m
    <3>2. PICK h : h = After(Heads, head)
      OBVIOUS
    <3>3. \A y \in Answer : y[1] # head
      BY <2>5, <2>7 DEF Misses
    <3>4. /\ h \in Heads \cup {END} /\ h \in Node \cup {END} /\ (h # END => h > head)
          /\ PassedAt("primeHead", h, vector, terminal) = {y \in Answer : y[1] <= head}
      BY <1>1, <2>1, <3>2, NextOfHeads
    <3>5. {y \in Answer : y[1] <= head} = {y \in Answer : y[1] < head}
      BY <2>1, <2>5, <3>3, NodesPositive
    <3>6. UpFrom(m[1], h)
      BY <2>1, <2>7, <3>4, NodesPositive DEF UpFrom
    <3> QED
      BY <1>1, <2>2, <2>3, <2>4, <3>1, <3>2, <3>4, <3>5, <3>6, StepIInv DEF PlacedAt, Control
  <2>8. CASE ~(Bound(m[1]) /\ head # m[1]) /\ ~Misses(VectorOf(head), m[2])
    <3>1. at' = "primeVector" /\ vector' = Start(VectorOf(head), m[2]) /\ head' = head
      BY <1>1, <1>3, <2>8 DEF PrimeHead, m
    <3>2. VectorOf(head) \in SUBSET Node /\ VectorOf(head) # {}
      BY <1>1, <2>1, Trees DEF TypeOK
    <3>3. PICK b \in VectorOf(head) : /\ b = vector' /\ b \in Node /\ b \in Nat /\ b # END
                                      /\ Bound(m[2]) => b = m[2]
                                      /\ ~Bound(m[2]) => \A l \in VectorOf(head) : b <= l
      <4>1. /\ Start(VectorOf(head), m[2]) \in VectorOf(head)
            /\ Bound(m[2]) => Start(VectorOf(head), m[2]) = m[2]
            /\ ~Bound(m[2]) => \A l \in VectorOf(head) : Start(VectorOf(head), m[2]) <= l
        BY <2>8, <3>2, StartIs
      <4>2. Start(VectorOf(head), m[2]) \in Node
        BY <3>2, <4>1
      <4> QED  BY <3>1, <4>1, <4>2, NodesPositive
    <3>4. \A y \in Answer : y[1] = head => ~(y[2] < b)
      BY <2>5, <3>3
    <3>5. PassedAt("primeVector", head, b, terminal) = {y \in Answer : y[1] < head}
      BY <3>3, <3>4 DEF PassedAt
    <3>6. UpFrom(m[2], b) /\ HeadIn(m, head)
      BY <2>1, <2>8, <3>3 DEF UpFrom, HeadIn
    <3> QED
      BY <1>1, <2>1, <2>2, <2>3, <2>4, <3>1, <3>3, <3>5, <3>6, StepIInv DEF PlacedAt, Control
  <2> QED  BY <2>6, <2>7, <2>8
<1> QED  BY <1>2, <1>3

\* On to the next head: nothing of the answer is left under the old one.
LEMMA LeaveHead ==
  ASSUME IInv, UNCHANGED <<triples, pattern, read>>, NEW m, MasksStand(m), mask' = m,
         HeadIn(m, head), head' = After(Heads, head), at' = "primeHead",
         vector' = vector, terminal' = terminal,
         PassedAt(at, head, vector, terminal) = {y \in Answer : y[1] <= head}
  PROVE  IInv'
<1>1. TypeOK /\ head \in Heads /\ head \in Nat /\ (Bound(m[1]) => head = m[1])
  BY Trees, NodesPositive DEF IInv, HeadIn, TypeOK
<1>2. PICK h : h = After(Heads, head)
  OBVIOUS
<1>3. /\ h \in Heads \cup {END} /\ h \in Node \cup {END} /\ (h # END => h > head)
      /\ PassedAt("primeHead", h, vector, terminal) = {y \in Answer : y[1] <= head}
  BY <1>1, <1>2, NextOfHeads
<1>4. UpFrom(m[1], h)
  BY <1>1, <1>3, NodesPositive, Trees DEF UpFrom, TypeOK
<1> QED
  BY <1>1, <1>2, <1>3, <1>4, StepIInv DEF PlacedAt, Control, TypeOK

LEMMA PrimeVectorIInv == IInv /\ PrimeVector => IInv'
<1> SUFFICES ASSUME IInv, PrimeVector PROVE IInv'
  OBVIOUS
<1> DEFINE m    == GotVector(vector, mask)
           keys == TerminalOf(head, vector)
<1>1. /\ TypeOK /\ at = "primeVector" /\ MasksStand(mask) /\ pattern \in Pattern
      /\ HeadIn(mask, head) /\ HeadSet(mask, head) /\ head \in Heads
      /\ vector \in VectorOf(head) \cup {END} /\ UpFrom(mask[2], vector)
      /\ UNCHANGED <<triples, pattern, read>>
      /\ {head, vector, terminal} \subseteq Node \cup {END}
  BY DEF IInv, PrimeVector, PlacedAt, TypeOK, HeadIn
<1>2. /\ Heads \in SUBSET Node /\ VectorOf(head) \in SUBSET Node /\ head \in Node
      /\ head \in Nat
  BY <1>1, Trees, NodesPositive DEF TypeOK
<1>3. \A y \in Answer : y[1] \in Nat
  BY <1>1, Answers, NodesPositive
<1>4. CASE vector = END
  <2>1. /\ head' = After(Heads, head) /\ at' = "primeHead"
        /\ UNCHANGED <<mask, vector, terminal>>
    BY <1>1, <1>4 DEF PrimeVector
  <2>2. PassedAt(at, head, vector, terminal) = {y \in Answer : y[1] <= head}
    BY <1>1, <1>2, <1>3, <1>4 DEF PassedAt
  <2> QED  BY <1>1, <2>1, <2>2, LeaveHead
<1>5. CASE vector # END
  <2>1. vector \in VectorOf(head) /\ vector \in Node /\ vector \in Nat
    BY <1>1, <1>2, <1>5, NodesPositive
  <2>2. /\ MasksStand(m) /\ HeadSet(m, head) /\ VectorSet(m, vector) /\ HeadIn(m, head)
        /\ m[2] = mask[2]
    <3>1. /\ MasksStand(m) /\ HeadSet(m, head) /\ VectorSet(m, vector)
          /\ m[1] = mask[1] /\ m[2] = mask[2]
      BY <1>1, <2>1, GotVectorSets
    <3> HIDE DEF m
    <3> QED  BY <1>1, <3>1 DEF HeadIn
  <2>3. mask' = m
    BY <1>5 DEF PrimeVector
  <2>4. PassedAt(at, head, vector, terminal)
          = {y \in Answer : y[1] < head \/ (y[1] = head /\ y[2] < vector)}
    BY <1>1, <1>5 DEF PassedAt
  <2> HIDE DEF m
  <2>5. \A y \in Answer : y[1] = head => /\ y[2] \in VectorOf(head) /\ y[2] \in Nat
                                         /\ Bound(m[2]) => y[2] = m[2]
    BY <1>1, <2>2, AnswerBound, Answers, NodesPositive
  <2>6. \A y \in Answer : y[1] = head /\ y[2] = vector
                            => /\ y[3] \in keys /\ y[3] \in Nat
                               /\ Bound(m[3]) => y[3] = m[3]
    BY <1>1, <2>2, AnswerBound, Answers, NodesPositive
  <2>7. CASE Bound(m[2]) /\ vector # m[2]
    <3>1. /\ head' = After(Heads, head) /\ at' = "primeHead"
          /\ UNCHANGED <<vector, terminal>>
      BY <1>5, <2>7 DEF PrimeVector, m
    <3>2. \A y \in Answer : y[1] = head => y[2] < vector
      <4>1. vector >= m[2]
        BY <1>1, <1>5, <2>2, <2>7 DEF UpFrom
      <4> QED  BY <2>1, <2>5, <2>7, <4>1
    <3>3. PassedAt(at, head, vector, terminal) = {y \in Answer : y[1] <= head}
      BY <1>2, <1>3, <2>4, <3>2
    <3> QED  BY <1>1, <2>2, <2>3, <3>1, <3>3, LeaveHead
  <2>8. CASE ~(Bound(m[2]) /\ vector # m[2]) /\ Misses(keys, m[3])
    <3>1. /\ vector' = After(VectorOf(head), vector)
          /\ UNCHANGED <<head, terminal, at>>
      BY <1>5, <2>8 DEF PrimeVector, m
    <3>2. PICK v : v = After(VectorOf(head), vector)
      OBVIOUS
    <3>3. \A y \in Answer : ~(y[1] = head /\ y[2] = vector)
      BY <2>6, <2>8 DEF Misses
    <3>4. /\ v \in VectorOf(head) \cup {END} /\ v \in Node \cup {END} /\ (v # END => v > vector)
          /\ PassedAt("primeVector", head, v, terminal)
               = {y \in Answer : y[1] < head \/ (y[1] = head /\ y[2] <= vector)}
      BY <1>1, <2>1, <3>2, NextOfVector
    <3>5. {y \in Answer : y[1] < head \/ (y[1] = head /\ y[2] <= vector)}
            = {y \in Answer : y[1] < head \/ (y[1] = head /\ y[2] < vector)}
      BY <2>1, <2>5, <3>3
    <3>6. UpFrom(m[2], v)
      BY <1>2, <2>1, <2>8, <3>4, NodesPositive DEF UpFrom
    <3> QED
      BY <1>1, <2>2, <2>3, <2>4, <3>1, <3>2, <3>4, <3>5, <3>6, StepIInv DEF PlacedAt, Control
  <2>9. CASE ~(Bound(m[2]) /\ vector # m[2]) /\ ~Misses(keys, m[3])
    <3>1. terminal' = Start(keys, m[3]) /\ at' = "current" /\ UNCHANGED <<head, vector>>
      BY <1>5, <2>9 DEF PrimeVector, m
    <3>2. keys \in SUBSET Node /\ keys # {}
      BY <1>1, <2>1, Trees DEF TypeOK
    <3>3. PICK c \in keys : /\ c = terminal' /\ c \in Node /\ c \in Nat
                            /\ Bound(m[3]) => c = m[3]
                            /\ ~Bound(m[3]) => \A l \in keys : c <= l
      <4>1. /\ Start(keys, m[3]) \in keys
            /\ Bound(m[3]) => Start(keys, m[3]) = m[3]
            /\ ~Bound(m[3]) => \A l \in keys : Start(keys, m[3]) <= l
        BY <2>9, <3>2, StartIs
      <4>2. Start(keys, m[3]) \in Node
        BY <3>2, <4>1
      <4> QED  BY <3>1, <4>1, <4>2, NodesPositive
    <3>4. \A y \in Answer : y[1] = head /\ y[2] = vector => ~(y[3] < c)
      BY <2>6, <3>3
    <3>5. PassedAt("current", head, vector, c)
            = {y \in Answer : y[1] < head \/ (y[1] = head /\ y[2] < vector)}
      BY <3>4 DEF PassedAt, Stream!Precedes
    <3>6. VectorIn(m, head, vector) /\ TerminalIn(m, head, vector, c)
      BY <2>1, <2>9, <3>3 DEF VectorIn, TerminalIn
    <3>7. PlacedAt("current", m, head, vector, c)
      BY <2>2, <3>6 DEF PlacedAt
    <3>8. PassedAt("current", head, vector, c) = PassedAt(at, head, vector, terminal)
      BY <2>4, <3>5
    <3>9. UNCHANGED <<triples, pattern, read>> /\ vector' = vector /\ head' = head
      BY <1>1, <3>1
    <3> HIDE DEF keys
    <3> QED
      BY <1>1, <2>2, <2>3, <3>1, <3>3, <3>7, <3>8, <3>9, StepIInv DEF Control
  <2> QED  BY <2>7, <2>8, <2>9
<1> QED  BY <1>4, <1>5

-----------------------------------------------------------------------------
(* The steps of going on.                                                  *)

\* A vector whose terminal may have the third node: the iterator stops there if it
\* has, and has gone past the vector if it has not.
LEMMA AtVector ==
  ASSUME TypeOK, pattern \in Pattern, NEW a \in Heads, NEW b \in VectorOf(a),
         NEW m, MasksStand(m), HeadIn(m, a), HeadSet(m, a),
         VectorIn(m, a, b), VectorSet(m, b)
  PROVE  LET keys == TerminalOf(a, b)
             c    == Start(keys, m[3])
             past == {y \in Answer : y[1] < a \/ (y[1] = a /\ y[2] < b)}
         IN  /\ Misses(keys, m[3]) => /\ PlacedAt("nextVector", m, a, b, terminal)
                                      /\ PassedAt("nextVector", a, b, terminal) = past
             /\ ~Misses(keys, m[3]) => /\ c \in Node /\ PlacedAt("current", m, a, b, c)
                                       /\ PassedAt("current", a, b, c) = past
<1> DEFINE keys == TerminalOf(a, b)
           past == {y \in Answer : y[1] < a \/ (y[1] = a /\ y[2] < b)}
<1>1. /\ a \in Node /\ a \in Nat /\ b \in Node /\ b \in Nat
      /\ keys \in SUBSET Node /\ keys # {}
  BY Trees, NodesPositive DEF TypeOK
<1>2. \A y \in Answer : /\ y[1] \in Nat /\ y[2] \in Nat
                        /\ y[1] = a /\ y[2] = b => /\ y[3] \in keys /\ y[3] \in Nat
                                                   /\ Bound(m[3]) => y[3] = m[3]
  BY Answers, AnswerBound, NodesPositive
<1> HIDE DEF keys
<1>3. CASE Misses(keys, m[3])
  <2>1. \A y \in Answer : ~(y[1] = a /\ y[2] = b)
    BY <1>2, <1>3 DEF Misses
  <2>2. PassedAt("nextVector", a, b, terminal) = past
    BY <1>1, <1>2, <2>1 DEF PassedAt
  <2> QED  BY <1>3, <2>2 DEF PlacedAt, keys
<1>4. CASE ~Misses(keys, m[3])
  <2>1. PICK c \in keys : /\ c = Start(keys, m[3]) /\ c \in Node /\ c \in Nat
                          /\ Bound(m[3]) => c = m[3]
                          /\ ~Bound(m[3]) => \A l \in keys : c <= l
    <3>1. /\ Start(keys, m[3]) \in keys
          /\ Bound(m[3]) => Start(keys, m[3]) = m[3]
          /\ ~Bound(m[3]) => \A l \in keys : Start(keys, m[3]) <= l
      BY <1>1, <1>4, StartIs
    <3>2. Start(keys, m[3]) \in Node
      BY <1>1, <3>1
    <3> QED  BY <3>1, <3>2, NodesPositive
  <2>2. \A y \in Answer : y[1] = a /\ y[2] = b => ~(y[3] < c)
    BY <1>2, <2>1
  <2>3. PassedAt("current", a, b, c) = past
    BY <2>2 DEF PassedAt, Stream!Precedes
  <2>4. PlacedAt("current", m, a, b, c)
    BY <2>1 DEF PlacedAt, TerminalIn, keys
  <2> QED  BY <1>4, <2>1, <2>3, <2>4 DEF keys
<1> QED  BY <1>3, <1>4 DEF keys

LEMMA NextVectorIInv == IInv /\ NextVector => IInv'
<1> SUFFICES ASSUME IInv, NextVector PROVE IInv'
  OBVIOUS
<1>1. /\ TypeOK /\ at = "nextVector" /\ MasksStand(mask) /\ pattern \in Pattern
      /\ HeadIn(mask, head) /\ HeadSet(mask, head) /\ head \in Heads
      /\ VectorIn(mask, head, vector) /\ vector \in VectorOf(head)
      /\ UNCHANGED <<triples, pattern, head, read>>
      /\ {head, vector, terminal} \subseteq Node \cup {END}
  BY DEF IInv, NextVector, PlacedAt, TypeOK, HeadIn, VectorIn
<1>2. /\ VectorOf(head) \in SUBSET Node /\ head \in Node /\ head \in Nat
      /\ vector \in Node /\ vector \in Nat
  BY <1>1, Trees, NodesPositive DEF TypeOK
<1>3. PICK b : b = After(VectorOf(head), vector)
  OBVIOUS
<1>4. /\ b \in VectorOf(head) \cup {END}
      /\ b # END => b > vector
      /\ \A y \in Answer : y[1] = head /\ b # END => (y[2] < b <=> y[2] <= vector)
      /\ b = END => \A y \in Answer : y[1] = head => y[2] <= vector
  BY <1>1, <1>3, NextOfVector
<1>5. PassedAt(at, head, vector, terminal)
        = {y \in Answer : y[1] < head \/ (y[1] = head /\ y[2] <= vector)}
  BY <1>1 DEF PassedAt
<1>6. \A y \in Answer : y[1] \in Nat /\ y[2] \in Nat
  BY <1>1, Answers, NodesPositive
<1>7. CASE b # END /\ ~Bound(mask[2])
  <2> DEFINE m    == GotVector(b, mask)
             keys == TerminalOf(head, b)
  <2>1. /\ vector' = b /\ mask' = m
        /\ IF Misses(keys, m[3]) THEN UNCHANGED <<terminal, at>>
           ELSE terminal' = Start(keys, m[3]) /\ at' = "current"
    BY <1>3, <1>7 DEF NextVector
  <2>2. b \in VectorOf(head) /\ b \in Node
    BY <1>2, <1>4, <1>7
  <2>3. /\ MasksStand(m) /\ HeadSet(m, head) /\ VectorSet(m, b)
        /\ m[1] = mask[1] /\ m[2] = mask[2]
    BY <1>1, <2>2, GotVectorSets
  <2> HIDE DEF m
  <2>4. HeadIn(m, head) /\ VectorIn(m, head, b)
    BY <1>1, <1>7, <2>2, <2>3 DEF HeadIn, VectorIn
  <2>5. {y \in Answer : y[1] < head \/ (y[1] = head /\ y[2] < b)}
          = PassedAt(at, head, vector, terminal)
    BY <1>4, <1>5, <1>7
  <2>6. CASE Misses(keys, m[3])
    <3>1. /\ PlacedAt("nextVector", m, head, b, terminal)
          /\ PassedAt("nextVector", head, b, terminal) = PassedAt(at, head, vector, terminal)
      BY <1>1, <2>2, <2>3, <2>4, <2>5, <2>6, AtVector
    <3> QED  BY <1>1, <2>1, <2>2, <2>3, <2>6, <3>1, StepIInv DEF Control
  <2>7. CASE ~Misses(keys, m[3])
    <3>1. PICK c : c = Start(keys, m[3])
      OBVIOUS
    <3>2. /\ c \in Node /\ PlacedAt("current", m, head, b, c)
          /\ PassedAt("current", head, b, c) = PassedAt(at, head, vector, terminal)
      BY <1>1, <2>2, <2>3, <2>4, <2>5, <2>7, <3>1, AtVector
    <3> QED  BY <1>1, <2>1, <2>2, <2>3, <2>7, <3>1, <3>2, StepIInv DEF Control
  <2> QED  BY <2>6, <2>7
<1>8. CASE ~(b # END /\ ~Bound(mask[2]))
  <2>1. at' = "nextHead" /\ UNCHANGED <<mask, vector, terminal>>
    BY <1>3, <1>8 DEF NextVector
  <2>2. \A y \in Answer : y[1] = head => y[2] <= vector
    <3>1. CASE b = END BY <1>4, <3>1
    <3>2. CASE Bound(mask[2])
      <4>1. vector = mask[2]
        BY <1>1, <3>2 DEF VectorIn
      <4>2. \A y \in Answer : y[1] = head => y[2] = mask[2]
        BY <1>1, <3>2, AnswerBound
      <4> QED  BY <1>2, <4>1, <4>2
    <3> QED  BY <1>8, <3>1, <3>2
  <2>3. PassedAt("nextHead", head, vector, terminal) = PassedAt(at, head, vector, terminal)
    <3>1. {y \in Answer : y[1] < head \/ (y[1] = head /\ y[2] <= vector)}
            = {y \in Answer : y[1] <= head}
      BY <1>2, <1>6, <2>2
    <3>2. PassedAt("nextHead", head, vector, terminal) = {y \in Answer : y[1] <= head}
      BY DEF PassedAt
    <3> QED  BY <1>5, <3>1, <3>2
  <2>4. PlacedAt("nextHead", mask, head, vector, terminal)
    BY <1>1 DEF PlacedAt
  <2> QED  BY <1>1, <2>1, <2>3, <2>4, StepIInv DEF Control
<1> QED  BY <1>7, <1>8

LEMMA NextHeadIInv == IInv /\ NextHead => IInv'
<1> SUFFICES ASSUME IInv, NextHead PROVE IInv'
  OBVIOUS
<1>1. /\ TypeOK /\ at = "nextHead" /\ MasksStand(mask) /\ pattern \in Pattern
      /\ HeadIn(mask, head) /\ head \in Heads
      /\ UNCHANGED <<triples, pattern, read>>
      /\ {head, vector, terminal} \subseteq Node \cup {END}
  BY DEF IInv, NextHead, PlacedAt, TypeOK, HeadIn
<1>2. Heads \in SUBSET Node /\ head \in Node /\ head \in Nat
  BY <1>1, Trees, NodesPositive DEF TypeOK
<1>3. PICK a : a = After(Heads, head)
  OBVIOUS
<1>4. /\ a \in Heads \cup {END}
      /\ \A y \in Answer : a # END => (y[1] < a <=> y[1] <= head)
      /\ a = END => \A y \in Answer : y[1] <= head
  BY <1>1, <1>3, NextOfHeads
<1>5. PassedAt(at, head, vector, terminal) = {y \in Answer : y[1] <= head}
  BY <1>1 DEF PassedAt
<1>6. \A y \in Answer : y[1] \in Nat /\ y[2] \in Nat
  BY <1>1, Answers, NodesPositive
<1>7. CASE a # END /\ ~Bound(mask[1])
  <2> DEFINE m    == GotHead(a, mask)
             b    == Start(VectorOf(a), m[2])
             n    == GotVector(b, m)
             keys == TerminalOf(a, b)
  <2>1. /\ head' = a
        /\ IF Misses(VectorOf(a), m[2])
           THEN mask' = m /\ UNCHANGED <<vector, terminal, at>>
           ELSE /\ vector' = b /\ mask' = n
                /\ IF Misses(keys, n[3]) THEN at' = "nextVector" /\ UNCHANGED terminal
                   ELSE terminal' = Start(keys, n[3]) /\ at' = "current"
    BY <1>3, <1>7 DEF NextHead
  <2>2. a \in Heads /\ a \in Node /\ a \in Nat
    BY <1>2, <1>4, <1>7, NodesPositive
  <2>3. MasksStand(m) /\ HeadSet(m, a) /\ m[1] = mask[1]
    BY <1>1, <2>2, GotHeadSets DEF MasksStand
  <2> HIDE DEF m
  <2>4. HeadIn(m, a)
    BY <1>7, <2>2, <2>3 DEF HeadIn
  <2>5. {y \in Answer : y[1] < a} = PassedAt(at, head, vector, terminal)
    BY <1>4, <1>5, <1>7
  <2>6. \A y \in Answer : y[1] = a => /\ y[2] \in VectorOf(a)
                                      /\ Bound(m[2]) => y[2] = m[2]
    BY <1>1, <2>3, AnswerBound, Answers
  <2>7. CASE Misses(VectorOf(a), m[2])
    <3>1. \A y \in Answer : y[1] # a
      BY <2>6, <2>7 DEF Misses
    <3>2. {y \in Answer : y[1] <= a} = {y \in Answer : y[1] < a}
      BY <1>6, <2>2, <3>1
    <3>3. PassedAt("nextHead", a, vector, terminal) = {y \in Answer : y[1] <= a}
      BY DEF PassedAt
    <3>4. PassedAt("nextHead", a, vector, terminal) = PassedAt(at, head, vector, terminal)
      BY <2>5, <3>2, <3>3
    <3>5. PlacedAt("nextHead", m, a, vector, terminal)
      BY <2>4 DEF PlacedAt
    <3> QED  BY <1>1, <2>1, <2>2, <2>3, <2>7, <3>4, <3>5, StepIInv DEF Control
  <2>8. CASE ~Misses(VectorOf(a), m[2])
    <3>1. VectorOf(a) \in SUBSET Node /\ VectorOf(a) # {}
      BY <1>1, <2>2, Trees DEF TypeOK
    <3>2. /\ b \in VectorOf(a) /\ b \in Node
          /\ Bound(m[2]) => b = m[2]
          /\ ~Bound(m[2]) => \A l \in VectorOf(a) : b <= l
      BY <2>8, <3>1, StartIs
    <3> HIDE DEF b
    <3>3. MasksStand(n) /\ HeadSet(n, a) /\ VectorSet(n, b) /\ n[1] = m[1] /\ n[2] = m[2]
      BY <1>1, <2>3, <3>2, GotVectorSets
    <3> HIDE DEF n
    <3>4. HeadIn(n, a) /\ VectorIn(n, a, b)
      BY <2>4, <3>2, <3>3 DEF HeadIn, VectorIn
    <3>5. {y \in Answer : y[1] < a \/ (y[1] = a /\ y[2] < b)}
            = PassedAt(at, head, vector, terminal)
      <4>1. \A y \in Answer : y[1] = a => ~(y[2] < b)
        BY <1>6, <2>6, <3>1, <3>2, NodesPositive
      <4> QED  BY <2>5, <4>1
    <3>6. CASE Misses(keys, n[3])
      <4>1. /\ PlacedAt("nextVector", n, a, b, terminal)
            /\ PassedAt("nextVector", a, b, terminal) = PassedAt(at, head, vector, terminal)
        BY <1>1, <2>2, <3>2, <3>3, <3>4, <3>5, <3>6, AtVector
      <4> QED
        BY <1>1, <2>1, <2>2, <2>8, <3>2, <3>3, <3>6, <4>1, StepIInv DEF Control
    <3>7. CASE ~Misses(keys, n[3])
      <4>1. PICK c : c = Start(keys, n[3])
        OBVIOUS
      <4>2. /\ c \in Node /\ PlacedAt("current", n, a, b, c)
            /\ PassedAt("current", a, b, c) = PassedAt(at, head, vector, terminal)
        BY <1>1, <2>2, <3>2, <3>3, <3>4, <3>5, <3>7, <4>1, AtVector
      <4> QED
        BY <1>1, <2>1, <2>2, <2>8, <3>2, <3>3, <3>7, <4>1, <4>2, StepIInv DEF Control
    <3> QED  BY <3>6, <3>7
  <2> QED  BY <2>7, <2>8
<1>8. CASE ~(a # END /\ ~Bound(mask[1]))
  <2>1. at' = "finished" /\ UNCHANGED <<mask, head, vector, terminal>>
    BY <1>3, <1>8 DEF NextHead, Finish
  <2>2. \A y \in Answer : y[1] <= head
    <3>1. CASE a = END BY <1>4, <3>1
    <3>2. CASE Bound(mask[1])
      <4>1. head = mask[1]
        BY <1>1, <3>2 DEF HeadIn
      <4>2. \A y \in Answer : y[1] = mask[1]
        BY <1>1, <3>2, AnswerBound
      <4> QED  BY <1>2, <4>1, <4>2
    <3> QED  BY <1>8, <3>1, <3>2
  <2>3. PassedAt("finished", head, vector, terminal) = PassedAt(at, head, vector, terminal)
    BY <1>5, <2>2 DEF PassedAt
  <2>4. PlacedAt("finished", mask, head, vector, terminal)
    BY DEF PlacedAt
  <2> QED  BY <1>1, <2>1, <2>3, <2>4, StepIInv DEF Control
<1> QED  BY <1>7, <1>8

-----------------------------------------------------------------------------
(* The step that reads.                                                    *)

\* The current triple is of the answer and has not been read; after it and those
\* read before come the ones the iterator goes on to.
LEMMA CurrentIs ==
  ASSUME IInv, at = "current"
  PROVE  LET x == <<head, vector, terminal>>
             c == After(TerminalOf(head, vector), terminal)
             seen == {y \in Answer : y = x \/ Stream!Precedes(y, x)}
         IN  /\ x \in Answer /\ x \in Triple
             /\ c # END /\ ~Bound(mask[3]) =>
                  /\ c \in Node /\ PlacedAt("current", mask, head, vector, c)
                  /\ PassedAt("current", head, vector, c) = seen
             /\ ~(c # END /\ ~Bound(mask[3])) =>
                  /\ PlacedAt("nextVector", mask, head, vector, terminal)
                  /\ PassedAt("nextVector", head, vector, terminal) = seen
<1> DEFINE x == <<head, vector, terminal>>
           keys == TerminalOf(head, vector)
           seen == {y \in Answer : y = x \/ Stream!Precedes(y, x)}
<1>1. /\ TypeOK /\ MasksStand(mask) /\ pattern \in Pattern
      /\ HeadIn(mask, head) /\ HeadSet(mask, head)
      /\ VectorIn(mask, head, vector) /\ VectorSet(mask, vector)
      /\ TerminalIn(mask, head, vector, terminal)
  BY DEF IInv, PlacedAt, TypeOK
<1>2. /\ head \in Node /\ head \in Nat /\ vector \in Node /\ vector \in Nat
      /\ keys \in SUBSET Node /\ terminal \in keys /\ terminal \in Node /\ terminal \in Nat
      /\ x \in triples
  <2>1. triples \subseteq Triple
    BY <1>1 DEF TypeOK
  <2>2. head \in Heads /\ vector \in VectorOf(head) /\ terminal \in keys
    BY <1>1 DEF HeadIn, VectorIn, TerminalIn
  <2>3. head \in Node /\ vector \in Node /\ keys \in SUBSET Node /\ x \in triples
    BY <2>1, <2>2, Trees
  <2> QED  BY <2>2, <2>3, NodesPositive
<1>3. x \in Triple /\ x[1] = head /\ x[2] = vector /\ x[3] = terminal
  BY <1>2 DEF Triple
<1> HIDE DEF x
<1>4. x \in Answer
  <2>1. Matches(x)
    BY <1>1, <1>3, MatchesMask DEF HeadIn, VectorIn, TerminalIn
  <2> QED  BY <1>2, <2>1 DEF Answer
<1>5. \A y \in Answer : /\ y = <<y[1], y[2], y[3]>>
                        /\ y[1] \in Nat /\ y[2] \in Nat /\ y[3] \in Nat
                        /\ y[1] = head /\ y[2] = vector => /\ y[3] \in keys
                                                           /\ Bound(mask[3]) => y[3] = mask[3]
  BY <1>1, Answers, AnswerBound, NodesPositive
<1>6. \A y \in Answer : (y = x \/ Stream!Precedes(y, x)) <=>
                          (\/ y[1] < head
                           \/ y[1] = head /\ y[2] < vector
                           \/ y[1] = head /\ y[2] = vector /\ y[3] <= terminal)
  <2>1. ASSUME NEW y \in Answer
        PROVE  Stream!Precedes(y, x) <=> \/ y[1] < head
                                         \/ y[1] = head /\ y[2] < vector
                                         \/ y[1] = head /\ y[2] = vector /\ y[3] < terminal
    BY <1>3 DEF Stream!Precedes
  <2>2. ASSUME NEW y \in Answer
        PROVE  y = x <=> y[1] = head /\ y[2] = vector /\ y[3] = terminal
    BY <1>5 DEF x
  <2>3. \A y \in Answer : y[3] <= terminal <=> (y[3] < terminal \/ y[3] = terminal)
    BY <1>2, <1>5
  <2> QED  BY <2>1, <2>2, <2>3
<1>7. PICK c : c = After(keys, terminal)
  OBVIOUS
<1>8. \/ c = END /\ \A l \in keys : l <= terminal
      \/ /\ c \in keys /\ c > terminal /\ c # END
         /\ \A l \in keys : l > terminal => c <= l
  BY <1>2, <1>7, AfterIs
<1>9. ASSUME c # END, ~Bound(mask[3])
      PROVE  /\ c \in Node /\ PlacedAt("current", mask, head, vector, c)
             /\ PassedAt("current", head, vector, c) = seen
  <2>1. c \in keys /\ c \in Node /\ c \in Nat /\ \A l \in keys : l < c => l <= terminal
    <3>1. c \in keys /\ c \in Node /\ c \in Nat
      BY <1>2, <1>8, <1>9, NodesPositive
    <3> QED  BY <1>2, <1>8, <1>9, <3>1, NodesPositive
  <2>2. PlacedAt("current", mask, head, vector, c)
    BY <1>1, <1>9, <2>1 DEF PlacedAt, TerminalIn
  <2>3. \A y \in Answer : Stream!Precedes(y, <<head, vector, c>>) <=>
                          (\/ y[1] < head
                           \/ y[1] = head /\ y[2] < vector
                           \/ y[1] = head /\ y[2] = vector /\ y[3] < c)
    BY DEF Stream!Precedes
  <2>4. \A y \in Answer : y[1] = head /\ y[2] = vector => (y[3] < c <=> y[3] <= terminal)
    BY <1>2, <1>5, <1>8, <1>9, <2>1
  <2>5. PassedAt("current", head, vector, c) = {y \in Answer : Stream!Precedes(y, <<head, vector, c>>)}
    BY DEF PassedAt
  <2>6. \A y \in Answer : Stream!Precedes(y, <<head, vector, c>>) <=> (y = x \/ Stream!Precedes(y, x))
    BY <1>6, <2>3, <2>4
  <2> QED  BY <2>1, <2>2, <2>5, <2>6
<1>10. ASSUME ~(c # END /\ ~Bound(mask[3]))
       PROVE  /\ PlacedAt("nextVector", mask, head, vector, terminal)
              /\ PassedAt("nextVector", head, vector, terminal) = seen
  <2>1. PlacedAt("nextVector", mask, head, vector, terminal)
    BY <1>1 DEF PlacedAt
  <2>2. \A y \in Answer : y[1] = head /\ y[2] = vector => y[3] <= terminal
    <3>1. CASE c = END
      BY <1>5, <1>8, <3>1
    <3>2. CASE Bound(mask[3])
      <4>1. terminal = mask[3]
        BY <1>1, <3>2 DEF TerminalIn
      <4> QED  BY <1>2, <1>5, <3>2, <4>1
    <3> QED  BY <1>10, <3>1, <3>2
  <2>3. \A y \in Answer : (y[1] < head \/ (y[1] = head /\ y[2] <= vector))
                            <=> (y = x \/ Stream!Precedes(y, x))
    <3>1. \A y \in Answer : y[2] <= vector <=> (y[2] < vector \/ y[2] = vector)
      BY <1>2, <1>5
    <3> QED  BY <1>6, <2>2, <3>1
  <2>4. PassedAt("nextVector", head, vector, terminal)
          = {y \in Answer : y[1] < head \/ (y[1] = head /\ y[2] <= vector)}
    BY DEF PassedAt
  <2> QED  BY <2>1, <2>3, <2>4
<1> QED  BY <1>3, <1>4, <1>7, <1>9, <1>10 DEF x

LEMMA AppendIs ==
  ASSUME NEW S, NEW s \in Seq(S), NEW x \in S
  PROVE  /\ Append(s, x) \in Seq(S) /\ Len(Append(s, x)) = Len(s) + 1
         /\ Len(s) \in Nat
         /\ \A i \in 1..Len(s) : Append(s, x)[i] = s[i] /\ s[i] \in Range(s)
         /\ Append(s, x)[Len(s) + 1] = x
         /\ Range(Append(s, x)) = Range(s) \cup {x}
<1>1. /\ Append(s, x) \in Seq(S) /\ Len(Append(s, x)) = Len(s) + 1
      /\ Len(s) \in Nat /\ DOMAIN s = 1..Len(s)
      /\ DOMAIN Append(s, x) = 1..Len(s) + 1
      /\ \A i \in 1..Len(s) : Append(s, x)[i] = s[i]
      /\ Append(s, x)[Len(s) + 1] = x
  OBVIOUS
<1>2. 1..Len(s) + 1 = (1..Len(s)) \cup {Len(s) + 1}
  BY <1>1
<1> HIDE DEF Range
<1>3. \A i \in 1..Len(s) : s[i] \in Range(s)
  BY <1>1 DEF Range
<1>4. Range(Append(s, x)) = Range(s) \cup {x}
  <2>1. Range(s) = {s[i] : i \in 1..Len(s)}
    BY <1>1 DEF Range
  <2>2. Range(Append(s, x)) = {Append(s, x)[i] : i \in (1..Len(s)) \cup {Len(s) + 1}}
    BY <1>1, <1>2 DEF Range
  <2> QED  BY <1>1, <2>1, <2>2, Zenon
<1> QED  BY <1>1, <1>3, <1>4

LEMMA Next1IInv == IInv /\ Next1 => IInv'
<1> SUFFICES ASSUME IInv, Next1 PROVE IInv'
  OBVIOUS
<1> DEFINE x == <<head, vector, terminal>>
<1>1. /\ TypeOK /\ at = "current" /\ MasksStand(mask) /\ read \in Seq(Triple)
      /\ UNCHANGED <<triples, pattern, mask, head, vector>>
      /\ {head, vector, terminal} \subseteq Node \cup {END}
      /\ read' = Append(read, x)
      /\ Range(read) = PassedAt(at, head, vector, terminal)
  BY DEF IInv, Next1, TypeOK
<1>2. PICK c : c = After(TerminalOf(head, vector), terminal)
  OBVIOUS
<1>3. PICK go : go <=> c # END /\ ~Bound(mask[3])
  OBVIOUS
<1>4. /\ x \in Answer /\ x \in Triple
      /\ go => /\ terminal' = c /\ at' = "current"
               /\ c \in Node /\ PlacedAt("current", mask, head, vector, c)
               /\ PassedAt("current", head, vector, c)
                    = {y \in Answer : y = x \/ Stream!Precedes(y, x)}
      /\ ~go => /\ terminal' = terminal /\ at' = "nextVector"
                /\ PlacedAt("nextVector", mask, head, vector, terminal)
                /\ PassedAt("nextVector", head, vector, terminal)
                     = {y \in Answer : y = x \/ Stream!Precedes(y, x)}
  <2>1. /\ go => terminal' = c /\ at' = "current"
        /\ ~go => terminal' = terminal /\ at' = "nextVector"
    BY <1>1, <1>2, <1>3 DEF Next1
  <2> QED  BY <1>1, <1>2, <1>3, <2>1, CurrentIs
<1>5. PICK l \in {"current", "nextVector"}, d \in Node \cup {END} :
        /\ at' = l /\ terminal' = d /\ PlacedAt(l, mask, head, vector, d)
        /\ PassedAt(l, head, vector, d) = {y \in Answer : y = x \/ Stream!Precedes(y, x)}
  <2>1. CASE go  BY <1>4, <2>1
  <2>2. CASE ~go  BY <1>1, <1>4, <2>2
  <2> QED  BY <2>1, <2>2
<1> HIDE DEF x
<1>6. Range(read) = {y \in Answer : Stream!Precedes(y, x)}
  BY <1>1 DEF PassedAt, x
<1>7. /\ read' \in Seq(Triple) /\ Len(read') = Len(read) + 1 /\ Len(read) \in Nat
      /\ \A i \in 1..Len(read) : read'[i] = read[i] /\ read[i] \in Range(read)
      /\ read'[Len(read) + 1] = x
      /\ Range(read') = Range(read) \cup {x}
  BY <1>1, <1>4, AppendIs
<1>8. Answer' = Answer
  BY <1>1 DEF Answer, Matches
<1>9. TypeOK'
  BY <1>1, <1>5, <1>7 DEF TypeOK, Control
<1>10. MasksStand(mask)' /\ at' # "new" /\ at' # "crashed" /\ triples' # {}
  BY <1>1, <1>5 DEF IInv, MasksStand, DupB, DupCA, DupCB
<1>11. PlacedAt(at, mask, head, vector, terminal)'
  BY <1>1, <1>5 DEF PlacedAt, HeadIn, VectorIn, TerminalIn, HeadSet, VectorSet, DupB, DupCA,
         DupCB, Heads, VectorOf, TerminalOf
<1>12. (Range(read) = PassedAt(at, head, vector, terminal))'
  <2>1. PassedAt(at, head, vector, terminal)' = PassedAt(l, head, vector, d)
    BY <1>1, <1>5, <1>8 DEF PassedAt
  <2>2. Range(read') = PassedAt(l, head, vector, d)
    BY <1>4, <1>5, <1>6, <1>7
  <2> QED  BY <2>1, <2>2
<1>13. InOrder'
  <2>1. \A i, j \in 1..Len(read) : i < j => Stream!Precedes(read[i], read[j])
    BY DEF IInv, InOrder
  <2>2. \A i \in 1..Len(read) : Stream!Precedes(read[i], x)
    BY <1>6, <1>7
  <2>3. ASSUME NEW i \in 1..Len(read'), NEW j \in 1..Len(read'), i < j
        PROVE  Stream!Precedes(read'[i], read'[j])
    <3>1. i \in 1..Len(read) /\ (j \in 1..Len(read) \/ j = Len(read) + 1)
      BY <1>7, <2>3
    <3>2. CASE j \in 1..Len(read)
      BY <1>7, <2>1, <2>3, <3>1, <3>2
    <3>3. CASE j = Len(read) + 1
      BY <1>7, <2>2, <3>1, <3>3
    <3> QED  BY <3>1, <3>2, <3>3
  <2> QED  BY <2>3 DEF InOrder
<1> QED  BY <1>9, <1>10, <1>11, <1>12, <1>13 DEF IInv

-----------------------------------------------------------------------------
(* The theorems.                                                           *)

LEMMA InitIInv == InitFilled => IInv
<1> SUFFICES ASSUME InitFilled PROVE IInv
  OBVIOUS
<1>1. /\ triples \subseteq Triple /\ triples # {} /\ pattern \in Pattern /\ mask = pattern
      /\ head = END /\ vector = END /\ terminal = END /\ at = "new" /\ read = <<>>
  BY ContentsAssumption DEF InitFilled, Init
<1>2. TypeOK
  BY <1>1 DEF TypeOK, Control
<1>3. MasksStand(mask) /\ PlacedAt(at, mask, head, vector, terminal)
  BY <1>1 DEF MasksStand, PlacedAt
<1>4. Range(read) = PassedAt(at, head, vector, terminal) /\ InOrder
  BY <1>1 DEF PassedAt, Range, InOrder
<1> QED  BY <1>1, <1>2, <1>3, <1>4 DEF IInv

LEMMA NextIInv == IInv /\ [Next]_vars => IInv'
<1> SUFFICES ASSUME IInv, [Next]_vars PROVE IInv'
  OBVIOUS
<1>1. CASE PrimeSeek   BY <1>1, PrimeSeekIInv
<1>2. CASE PrimeHead   BY <1>2, PrimeHeadIInv
<1>3. CASE PrimeVector BY <1>3, PrimeVectorIInv
<1>4. CASE NextVector  BY <1>4, NextVectorIInv
<1>5. CASE NextHead    BY <1>5, NextHeadIInv
<1>6. CASE Next1       BY <1>6, Next1IInv
<1>7. CASE UNCHANGED vars
  <2>1. UNCHANGED <<triples, pattern, mask, head, vector, terminal, at, read>>
    BY <1>7 DEF vars
  <2>2. CASE at = "new"
    <3>1. Answer' = Answer
      BY <2>1 DEF Answer, Matches
    <3>2. TypeOK' /\ InOrder' /\ (Range(read) = PassedAt(at, head, vector, terminal))'
      BY <2>1, <2>2, <3>1 DEF IInv, TypeOK, InOrder, PassedAt, Range
    <3>3. MasksStand(mask)' /\ PlacedAt(at, mask, head, vector, terminal)'
      BY <2>1, <2>2 DEF IInv, PlacedAt, MasksStand, DupB, DupCA, DupCB
    <3> QED  BY <2>1, <3>2, <3>3 DEF IInv
  <2>3. CASE at # "new"
    BY <2>1, <2>3, StepIInv DEF IInv, TypeOK
  <2> QED  BY <2>2, <2>3
<1> QED  BY <1>1, <1>2, <1>3, <1>4, <1>5, <1>6, <1>7 DEF Next, Loop

\* The invariant of the three nested loops: what has been read is the part of the
\* answer that lies before the place where the iterator is.
THEOREM IteratorKeepsItsPlace == FilledSpec => []IInv
BY InitIInv, NextIInv, PTL DEF FilledSpec

\* Heads, vectors, terminals and masks stay nodes, and the entry of an empty vector
\* or terminal is never used.
THEOREM TypeCorrect == FilledSpec => []TypeOK
<1>1. IInv => TypeOK
  BY DEF IInv
<1> QED  BY <1>1, IteratorKeepsItsPlace, PTL

LEMMA ReadIsAnswer ==
  ASSUME IInv
  PROVE  Range(read) \subseteq Answer /\ \A i \in 1..Len(read) : read[i] \in Answer
<1>1. at \in Control
  BY DEF IInv, TypeOK
<1>2. Range(read) \subseteq Answer
  BY <1>1 DEF IInv, PassedAt, Control
<1>3. read \in Seq(Triple)
  BY DEF IInv, TypeOK
<1>4. DOMAIN read = 1..Len(read)
  BY <1>3
<1> QED  BY <1>2, <1>4 DEF Range

LEMMA SortedInv == IInv => SortedAsClaimed
<1> SUFFICES ASSUME IInv, NEW k \in 1..3, IsSortedBy(k),
                    NEW i \in 1..Len(read), NEW j \in 1..Len(read), i < j
             PROVE  read[i][k] <= read[j][k]
  BY DEF SortedAsClaimed
<1> DEFINE x == read[i]
           y == read[j]
<1>1. x \in Answer /\ y \in Answer /\ Stream!Precedes(x, y)
  BY ReadIsAnswer DEF IInv, InOrder
<1> HIDE DEF x, y
<1>2. /\ TypeOK /\ MasksStand(mask) /\ pattern \in Pattern
  BY DEF IInv, TypeOK
<1>3. /\ x[1] \in Nat /\ x[2] \in Nat /\ x[3] \in Nat
      /\ y[1] \in Nat /\ y[2] \in Nat /\ y[3] \in Nat
  BY <1>1, <1>2, Answers, NodesPositive
<1>4. Bound(mask[1]) => x[1] = y[1]
  BY <1>1, <1>2, AnswerBound
<1>5. Bound(mask[1]) /\ Bound(mask[2]) => x[2] = y[2]
  <2>1. CASE DupB
    <3>1. x[1] = x[2] /\ y[1] = y[2]
      <4>1. 1 \in 1..3 /\ 2 \in 1..3
        OBVIOUS
      <4>2. Matches(x) /\ Matches(y)
        BY <1>1 DEF Answer
      <4> QED  BY <2>1, <4>1, <4>2 DEF DupB, Matches
    <3> QED  BY <1>4, <3>1
  <2>2. CASE ~DupB
    <3>1. mask[2] = pattern[2]
      BY <1>2, <2>2 DEF MasksStand
    <3>2. 2 \in 1..3 /\ Matches(x) /\ Matches(y)
      BY <1>1 DEF Answer
    <3>3. Bound(pattern[2]) => x[2] = pattern[2] /\ y[2] = pattern[2]
      BY <3>2 DEF Matches
    <3> QED  BY <3>1, <3>3
  <2> QED  BY <2>1, <2>2
<1>6. x[k] <= y[k]
  <2>1. CASE k = 1
    BY <1>1, <1>3, <2>1 DEF Stream!Precedes
  <2>2. CASE k = 2
    <3>1. x[1] = y[1]
      BY <1>4, <2>2 DEF IsSortedBy
    <3> QED  BY <1>1, <1>3, <2>2, <3>1 DEF Stream!Precedes
  <2>3. CASE k = 3
    <3>1. x[1] = y[1] /\ x[2] = y[2]
      BY <1>4, <1>5, <2>3 DEF IsSortedBy
    <3> QED  BY <1>1, <1>3, <2>3, <3>1 DEF Stream!Precedes
  <2> QED  BY <2>1, <2>2, <2>3
<1> QED  BY <1>6 DEF x, y

\* What hx_store_hexastore_index_iter_is_sorted_by_index answers, from the masks of
\* the moment, is true of everything that has been read so far.
THEOREM ClaimsAreTrue == FilledSpec => []SortedAsClaimed
BY SortedInv, IteratorKeepsItsPlace, PTL

-----------------------------------------------------------------------------
(* The iterator implements the stream.                                     *)

LEMMA InitStream == InitFilled => Stream!Init
<1> SUFFICES ASSUME InitFilled PROVE Stream!Init
  OBVIOUS
<1>1. triples \subseteq Triple /\ read = <<>> /\ at # "finished"
  BY ContentsAssumption DEF InitFilled, Init
<1>2. {x \in triples : Matches(x)} \in SUBSET (Node \X Node \X Node)
  BY <1>1 DEF Triple
<1>3. (at = "finished") = FALSE
  BY <1>1
<1> QED  BY <1>1, <1>2, <1>3 DEF Stream!Init, Stream!Triple

\* A read yields the least triple that is left.
LEMMA ReadYields == IInv /\ Next1 => Stream!Yield
<1> SUFFICES ASSUME IInv, Next1 PROVE Stream!Yield
  OBVIOUS
<1> DEFINE x == <<head, vector, terminal>>
<1>1. /\ TypeOK /\ at = "current" /\ UNCHANGED <<triples, pattern>>
      /\ read' = Append(read, x)
      /\ Range(read) = PassedAt(at, head, vector, terminal)
  BY DEF IInv, Next1
<1>2. at' # "finished"
  BY <1>1 DEF Next1
<1>3. x \in Answer
  BY <1>1, CurrentIs
<1>4. x[1] = head /\ x[2] = vector /\ x[3] = terminal
  OBVIOUS
<1>5. Range(read) = {y \in Answer : Stream!Precedes(y, x)}
  BY <1>1 DEF PassedAt
<1> HIDE DEF x
<1>6. /\ x[1] \in Nat /\ x[2] \in Nat /\ x[3] \in Nat /\ x = <<x[1], x[2], x[3]>>
  BY <1>1, <1>3, Answers, NodesPositive
<1>7. ~Stream!Precedes(x, x)
  BY <1>6 DEF Stream!Precedes
<1>8. ASSUME NEW y \in Answer, y # x, ~Stream!Precedes(y, x) PROVE Stream!Precedes(x, y)
  <2>1. /\ y[1] \in Nat /\ y[2] \in Nat /\ y[3] \in Nat /\ y = <<y[1], y[2], y[3]>>
    BY <1>1, Answers, NodesPositive
  <2>2. ~(x[1] = y[1] /\ x[2] = y[2] /\ x[3] = y[3])
    BY <1>6, <1>8, <2>1
  <2> QED  BY <1>6, <1>8, <2>1, <2>2 DEF Stream!Precedes
<1>9. Stream!Left = {x1 \in triples : Matches(x1)} \ Range(read)
  BY DEF Stream!Left, Stream!Range, Range
<1>10. Stream!Left = Answer \ Range(read)
  BY <1>9 DEF Answer
<1>11. x \in Stream!Left /\ \A y \in Stream!Left \ {x} : Stream!Precedes(x, y)
  BY <1>3, <1>5, <1>7, <1>8, <1>10
<1>12. /\ {z \in triples : Matches(z)}' = {z \in triples : Matches(z)}
       /\ (at = "finished")' = (at = "finished")
  BY <1>1, <1>2 DEF Matches
<1> QED  BY <1>1, <1>11, <1>12 DEF Stream!Yield

\* Any other step reads nothing, and finishes only when nothing is left.
LEMMA OtherSteps == IInv /\ IInv' /\ Loop => Stream!Finish \/ UNCHANGED Stream!vars
<1> SUFFICES ASSUME IInv, IInv', Loop PROVE Stream!Finish \/ UNCHANGED Stream!vars
  OBVIOUS
<1>1. UNCHANGED <<triples, pattern, read>> /\ at # "finished"
  BY DEF Loop, PrimeSeek, PrimeHead, PrimeVector, NextVector, NextHead
<1>2. {z \in triples : Matches(z)}' = {z \in triples : Matches(z)}
  BY <1>1 DEF Matches
<1>3. CASE at' = "finished"
  <2>1. Range(read)' = Answer' /\ Answer' = Answer /\ Range(read)' = Range(read)
    BY <1>1, <1>2, <1>3 DEF IInv, PassedAt, Answer, Range
  <2>2. Stream!Left = Answer \ Range(read)
    BY DEF Stream!Left, Stream!Range, Range, Answer
  <2>3. Stream!Left = {}
    BY <2>1, <2>2
  <2>4. (at = "finished") = FALSE /\ (at = "finished")' = TRUE
    BY <1>1, <1>3
  <2> QED  BY <1>1, <1>2, <2>3, <2>4 DEF Stream!Finish
<1>4. CASE at' # "finished"
  <2>1. (at = "finished")' = (at = "finished")
    BY <1>1, <1>4
  <2> QED  BY <1>1, <1>2, <2>1 DEF Stream!vars
<1> QED  BY <1>3, <1>4

\* The iterator yields the triples that match its pattern in the order of the
\* index, each once, and says that it has finished only after the last: whichever
\* positions are bound and whichever variable comes twice.
THEOREM ImplementsSpec == FilledSpec => Stream!Spec
<1>1. InitFilled => Stream!Init
  BY InitStream
<1>2. IInv /\ IInv' /\ [Next]_vars => [Stream!Next]_Stream!vars
  <2> SUFFICES ASSUME IInv, IInv', [Next]_vars PROVE [Stream!Next]_Stream!vars
    OBVIOUS
  <2>1. CASE Next1  BY <2>1, ReadYields DEF Stream!Next
  <2>2. CASE Loop   BY <2>2, OtherSteps DEF Stream!Next
  <2>3. CASE UNCHANGED vars
    BY <2>3 DEF vars, Stream!vars, Matches
  <2> QED  BY <2>1, <2>2, <2>3 DEF Next
<1> QED  BY <1>1, <1>2, IteratorKeepsItsPlace, PTL DEF FilledSpec, Stream!Spec
=============================================================================
