---------------------------- MODULE Parser_proofs ----------------------------
(***************************************************************************)
(* Proofs about module Parser, for any files, sizes of batches and times:  *)
(* no triple is left in a batch, and a blank node has one name.            *)
(***************************************************************************)
EXTENDS Parser, SequenceTheorems, WellFoundedInduction, TLAPS

F == INSTANCE Tokyo_proofs

-----------------------------------------------------------------------------
(* The operators of Tokyo, whose lemmas are those of Tokyo_proofs.         *)

LEMMA SameOrders == T!Orders = F!Orders
BY DEF T!Orders, F!Orders

LEMMA SameAdd == \A S, x : T!AddTriple(S, x) = F!AddTriple(S, x)
<1>1. \A S, n : T!GetNodeId(S, n) = F!GetNodeId(S, n)
  BY DEF T!GetNodeId, F!GetNodeId
<1>2. \A S, x : T!Ids(S, x) = F!Ids(S, x)
  BY <1>1 DEF T!Ids, F!Ids
<1>3. \A f, k, v : T!Put(f, k, v) = F!Put(f, k, v)
  BY DEF T!Put, F!Put
<1>4. \A S, n : T!AddNode(S, n) = F!AddNode(S, n)
  BY <1>3 DEF T!AddNode, F!AddNode
<1>5. \A S, x : T!AddNodes(S, x) = F!AddNodes(S, x)
  BY <1>4 DEF T!AddNodes, F!AddNodes
<1>6. \A S, into, i : T!IndexAdd(S, into, i) = F!IndexAdd(S, into, i)
  BY SameOrders DEF T!IndexAdd, F!IndexAdd
<1>7. \A i : T!CountKeys(i) = F!CountKeys(i)
  BY DEF T!CountKeys, F!CountKeys
<1>8. \A S, key : T!Counter(S, key) = F!Counter(S, key)
  BY DEF T!Counter, F!Counter
<1>9. \A S, i : T!AddTripleId(S, i) = F!AddTripleId(S, i)
  BY <1>6, <1>7, <1>8, SameOrders DEF T!AddTripleId, F!AddTripleId
<1> QED  BY <1>2, <1>5, <1>9 DEF T!AddTriple, F!AddTriple

LEMMA SameBulk == \A S : T!BeginBulk(S) = F!BeginBulk(S) /\ T!EndBulk(S) = F!EndBulk(S)
BY SameOrders DEF T!BeginBulk, F!BeginBulk, T!EndBulk, F!EndBulk

LEMMA SameNew == T!EmptyStore = F!EmptyStore
BY SameOrders DEF T!EmptyStore, F!EmptyStore, T!NewTables, F!NewTables

-----------------------------------------------------------------------------
(* Batches.                                                                *)

Node3 == [1..3 -> Nat \ {0}]

\* A store that has not been opened again, whose tables have what the first has.
Fine(S) == F!Sound(S) /\ F!Level(S)

\* Induction over the natural numbers, for a set in place of a predicate.
LEMMA NatSetInduction ==
  ASSUME NEW A, 0 \in A, \A n \in Nat : n \in A => n + 1 \in A
  PROVE  Nat \subseteq A
<1> SUFFICES ASSUME Nat \ A # {} PROVE FALSE OBVIOUS
<1> DEFINE Less == OpToRel(<, Nat)
<1>1. IsWellFoundedOn(Less, Nat) BY NatLessThanWellFounded
<1>2. \A x, y \in Nat : <<x, y>> \in Less <=> x < y BY DEF OpToRel
<1> HIDE DEF Less
<1>3. \E x \in Nat \ A : \A y \in Nat \ A : <<y, x>> \notin Less BY <1>1, WFMin
<1>4. PICK x \in Nat \ A : \A y \in Nat \ A : <<y, x>> \notin Less BY <1>3
<1>5. x # 0 OBVIOUS
<1>6. x - 1 \in Nat /\ x - 1 < x BY <1>5
<1>7. x - 1 \in A BY <1>2, <1>4, <1>6
<1> QED BY <1>6, <1>7

\* The stores after the first n triples of q.
Adds(S, q, n, f) ==
  f = [m \in 0..n |-> IF m = 0 THEN S ELSE T!AddTriple(f[m - 1], q[m])]

LEMMA AddsExist == ASSUME NEW S, NEW q, NEW n \in Nat PROVE \E f : Adds(S, q, n, f)
<1> DEFINE A == {m \in Nat : \E f : Adds(S, q, m, f)}
<1>1. 0 \in A
  <2>1. Adds(S, q, 0, [m \in 0..0 |-> S])
    BY DEF Adds
  <2> QED  BY <2>1
<1>2. ASSUME NEW m \in Nat, m \in A PROVE m + 1 \in A
  <2>1. PICK f : Adds(S, q, m, f)
    BY <1>2
  <2>2. PICK g : g = [l \in 0..m + 1 |-> IF l = m + 1 THEN T!AddTriple(f[m], q[m + 1]) ELSE f[l]]
    OBVIOUS
  <2>3. \A l \in 0..m : f[l] = IF l = 0 THEN S ELSE T!AddTriple(f[l - 1], q[l])
    BY <2>1 DEF Adds
  <2>4. \A l \in 0..m : g[l] = f[l]
    BY <2>2
  <2>5. g[m + 1] = T!AddTriple(f[m], q[m + 1])
    BY <2>2
  <2>6. ASSUME NEW l \in 0..m + 1
        PROVE  g[l] = IF l = 0 THEN S ELSE T!AddTriple(g[l - 1], q[l])
    <3>1. CASE l = m + 1
      <4>1. l - 1 = m /\ l # 0 /\ m \in 0..m
        BY <3>1
      <4> QED  BY <2>4, <2>5, <3>1, <4>1
    <3>2. CASE l \in 0..m
      <4>1. l # 0 => l - 1 \in 0..m
        BY <3>2
      <4> QED  BY <2>3, <2>4, <3>2, <4>1
    <3> QED  BY <3>1, <3>2
  <2>7. Adds(S, q, m + 1, g)
    BY <2>2, <2>6 DEF Adds
  <2> QED  BY <2>7
<1> HIDE DEF A
<1>3. n \in A
  BY <1>1, <1>2, NatSetInduction
<1> QED  BY <1>3 DEF A

\* A batch puts its triples into the store.
LEMMA BatchAdded ==
  ASSUME NEW S, Fine(S), NEW p, p.triples \in Seq(Node3), NEW N, N = AddTriplesBatch(S, p)
  PROVE  /\ Fine(N) /\ N.bulk = S.bulk
         /\ F!Decoded(S) \subseteq F!Decoded(N)
         /\ \A n \in 1..Len(p.triples) : p.triples[n] \in F!Decoded(N)
<1>1. PICK q, len : q = p.triples /\ len = Len(q)
  OBVIOUS
<1>2. len \in Nat /\ \A n \in 1..len : q[n] \in Node3
  BY <1>1
<1> DEFINE after == CHOOSE f : Adds(S, q, len, f)
<1>3. Adds(S, q, len, after)
  BY <1>2, AddsExist
<1>4. N = after[len]
  BY <1>1 DEF AddTriplesBatch, Adds
<1>5. PICK f : f = after
  OBVIOUS
<1> HIDE DEF after
<1>6. f[0] = S /\ \A m \in 1..len : f[m] = T!AddTriple(f[m - 1], q[m])
  BY <1>2, <1>3, <1>5 DEF Adds
<1> DEFINE A == {n \in Nat : n <= len =>
                   /\ Fine(f[n]) /\ f[n].bulk = S.bulk
                   /\ F!Decoded(S) \subseteq F!Decoded(f[n])
                   /\ \A m \in 1..n : q[m] \in F!Decoded(f[n])}
<1>7. 0 \in A
  BY <1>6
<1>8. ASSUME NEW n \in Nat, n \in A, n + 1 <= len PROVE n + 1 \in A
  <2>1. PICK V, W, x : V = f[n] /\ W = f[n + 1] /\ x = q[n + 1]
    OBVIOUS
  <2>2. /\ Fine(V) /\ V.bulk = S.bulk /\ F!Decoded(S) \subseteq F!Decoded(V)
        /\ \A m \in 1..n : q[m] \in F!Decoded(V)
    BY <1>2, <1>8, <2>1
  <2>3. W = F!AddTriple(V, x) /\ x \in F!Node3
    <3>1. n + 1 \in 1..len /\ (n + 1) - 1 = n
      BY <1>2, <1>8
    <3> QED  BY <1>2, <1>6, <2>1, <3>1, SameAdd DEF Node3, F!Node3
  <2>4. Fine(W) /\ W.bulk = V.bulk /\ F!Decoded(W) = F!Decoded(V) \cup {x}
    BY <2>2, <2>3, F!SoundAdd DEF Fine
  <2>5. \A m \in 1..n + 1 : m \in 1..n \/ m = n + 1
    OBVIOUS
  <2> QED  BY <2>1, <2>2, <2>4, <2>5
<1>9. len \in A
  <2> HIDE DEF A
  <2>1. \A n \in Nat : n + 1 > len => n + 1 \in A
    BY <1>2 DEF A
  <2>2. \A n \in Nat : n \in A => n + 1 \in A
    BY <1>2, <1>8, <2>1
  <2> QED  BY <1>2, <1>7, <2>2, NatSetInduction
<1> QED  BY <1>1, <1>2, <1>4, <1>5, <1>9

-----------------------------------------------------------------------------
(* Names.                                                                  *)

\* Names are told apart by the time of their parser and by their number.
LEMMA SpelledIs ==
  ASSUME NEW t \in Times, NEW n \in Nat
  PROVE  /\ Spelled(t, n) \in Nat \ {0}
         /\ \A s \in Times, m \in Nat : Spelled(s, m) = Spelled(t, n) <=> s = t /\ m = n
<1>1. PICK K : K = LastTime + 1
  OBVIOUS
<1>2. K \in Nat \ {0} /\ FirstName \in Nat \ {0} /\ \A s \in Times : s \in 0..K - 1
  BY <1>1, ParserAssumption
<1>3. \A m \in Nat : K * m \in Nat
  BY <1>2
<1>4. \A s, m : Spelled(s, m) = FirstName + s + K * m
  BY <1>1 DEF Spelled
<1>5. \A l, m \in Nat : l < m => K * l + K <= K * m
  <2> SUFFICES ASSUME NEW l \in Nat, NEW m \in Nat, l < m PROVE K * l + K <= K * m
    OBVIOUS
  <2>1. PICK d \in Nat : m = l + 1 + d
    <3>1. m - l - 1 \in Nat /\ m = l + 1 + (m - l - 1)
      OBVIOUS
    <3> QED  BY <3>1
  <2>2. K * m = K * l + K + K * d
    BY <1>2, <2>1
  <2> QED  BY <1>2, <1>3, <2>2
<1>6. ASSUME NEW s \in Times, NEW m \in Nat, Spelled(s, m) = Spelled(t, n) PROVE m = n /\ s = t
  <2>1. s + K * m = t + K * n /\ s \in 0..K - 1 /\ t \in 0..K - 1 /\ K * m \in Nat /\ K * n \in Nat
    BY <1>2, <1>3, <1>4, <1>6
  <2>2. ~(m < n) /\ ~(n < m)
    BY <1>2, <1>5, <2>1
  <2>3. m = n
    BY <2>2
  <2> QED  BY <2>1, <2>3
<1> QED  BY <1>2, <1>3, <1>4, <1>6

\* A parser between two nodes.
ParserOK(p) ==
  /\ p = [tv |-> p.tv, next_bnode |-> p.next_bnode, bnode_map |-> p.bnode_map,
          triples |-> p.triples, total |-> p.total]
  /\ p.tv \in Times /\ p.next_bnode \in Nat
  /\ \A label \in DOMAIN p.bnode_map : /\ label # 0
                                       /\ p.bnode_map[label] \in Nat \ {0}

\* Naming a node changes what names nodes only.
SameBatch(p, q) == q.tv = p.tv /\ q.triples = p.triples /\ q.total = p.total

\* What naming the node n does.
Names(p, n, q, name) ==
  \/ q = p /\ n > 0 /\ name = n
  \/ q = p /\ n <= 0 /\ n \in DOMAIN p.bnode_map /\ name = p.bnode_map[n]
  \/ /\ n <= 0 /\ n \notin DOMAIN p.bnode_map /\ name = Spelled(p.tv, p.next_bnode)
     /\ q.next_bnode = p.next_bnode + 1
     /\ n = 0 => q.bnode_map = p.bnode_map
     /\ n # 0 => /\ DOMAIN q.bnode_map = DOMAIN p.bnode_map \cup {n}
                 /\ q.bnode_map[n] = name
                 /\ \A label \in DOMAIN p.bnode_map : q.bnode_map[label] = p.bnode_map[label]

LEMMA NameNodeIs ==
  ASSUME NEW p, ParserOK(p), NEW n \in Int, NEW made, made = NameNode(p, n)
  PROVE  /\ ParserOK(made.parser) /\ SameBatch(p, made.parser) /\ made.node \in Nat \ {0}
         /\ Names(p, n, made.parser, made.node)
<1>1. CASE n > 0
  <2>1. made.parser = p /\ made.node = n
    BY <1>1 DEF NameNode
  <2> QED  BY <1>1, <2>1 DEF SameBatch, Names
<1>2. CASE ~(n > 0) /\ n \in DOMAIN p.bnode_map
  <2>1. made.parser = p /\ made.node = p.bnode_map[n]
    BY <1>2 DEF NameNode, GenerateId
  <2> QED  BY <1>2, <2>1 DEF SameBatch, Names, ParserOK
<1>3. CASE ~(n > 0) /\ n \notin DOMAIN p.bnode_map
  <2>1. PICK name, map : /\ name = Spelled(p.tv, p.next_bnode)
                         /\ map = IF n = 0 THEN p.bnode_map ELSE T!Put(p.bnode_map, n, name)
    OBVIOUS
  <2>2. made = [node |-> name, parser |-> [p EXCEPT !.next_bnode = @ + 1, !.bnode_map = map]]
    BY <1>3, <2>1 DEF NameNode, GenerateId
  <2>3. PICK q : q = made.parser
    OBVIOUS
  <2>4. q = [tv |-> p.tv, next_bnode |-> p.next_bnode + 1, bnode_map |-> map,
             triples |-> p.triples, total |-> p.total]
    <3>1. q = [p EXCEPT !.next_bnode = p.next_bnode + 1, !.bnode_map = map]
      BY <2>2, <2>3
    <3>2. p = [tv |-> p.tv, next_bnode |-> p.next_bnode, bnode_map |-> p.bnode_map,
               triples |-> p.triples, total |-> p.total]
      BY DEF ParserOK
    <3> QED  BY <3>1, <3>2
  <2>5. p.tv \in Times /\ p.next_bnode \in Nat
    BY DEF ParserOK
  <2>6. name \in Nat \ {0}
    BY <2>1, <2>5, SpelledIs
  <2>7. n # 0 => /\ DOMAIN map = DOMAIN p.bnode_map \cup {n} /\ map[n] = name
                 /\ \A label \in DOMAIN p.bnode_map : map[label] = p.bnode_map[label]
    BY <1>3, <2>1 DEF T!Put
  <2>8. n = 0 => map = p.bnode_map
    BY <2>1
  <2>9. \A label \in DOMAIN map : label # 0 /\ map[label] \in Nat \ {0}
    BY <2>6, <2>7, <2>8 DEF ParserOK
  <2>10. q.tv = p.tv /\ q.next_bnode = p.next_bnode + 1 /\ q.bnode_map = map
         /\ q.triples = p.triples /\ q.total = p.total /\ made.node = name
    BY <2>2, <2>4
  <2>11. ParserOK(q)
    BY <2>4, <2>5, <2>9, <2>10 DEF ParserOK
  <2>12. Names(p, n, q, name)
    BY <1>3, <2>1, <2>7, <2>8, <2>10 DEF Names
  <2> QED  BY <2>3, <2>6, <2>10, <2>11, <2>12 DEF SameBatch
<1> QED  BY <1>1, <1>2, <1>3

\* The nodes of a triple are named one after the other.
LEMMA NameNodesIs ==
  ASSUME NEW p, ParserOK(p), NEW x \in [1..3 -> Int], NEW made, made = NameNodes(p, x)
  PROVE  \E q1, q2 :
           /\ ParserOK(q1) /\ ParserOK(q2) /\ ParserOK(made.parser)
           /\ SameBatch(p, q1) /\ SameBatch(q1, q2) /\ SameBatch(q2, made.parser)
           /\ Names(p, x[1], q1, made.nodes[1]) /\ Names(q1, x[2], q2, made.nodes[2])
           /\ Names(q2, x[3], made.parser, made.nodes[3])
           /\ made.nodes \in Node3
<1>0. x[1] \in Int /\ x[2] \in Int /\ x[3] \in Int
  OBVIOUS
<1>1. PICK s : s = NameNode(p, x[1])
  OBVIOUS
<1>2. PICK v : v = NameNode(s.parser, x[2])
  OBVIOUS
<1>3. PICK o : o = NameNode(v.parser, x[3])
  OBVIOUS
<1>4. made = [parser |-> o.parser, nodes |-> <<s.node, v.node, o.node>>]
  BY <1>1, <1>2, <1>3 DEF NameNodes
<1>5. /\ ParserOK(s.parser) /\ SameBatch(p, s.parser) /\ s.node \in Nat \ {0}
      /\ Names(p, x[1], s.parser, s.node)
  BY <1>0, <1>1, NameNodeIs
<1>6. /\ ParserOK(v.parser) /\ SameBatch(s.parser, v.parser) /\ v.node \in Nat \ {0}
      /\ Names(s.parser, x[2], v.parser, v.node)
  BY <1>0, <1>2, <1>5, NameNodeIs
<1>7. /\ ParserOK(o.parser) /\ SameBatch(v.parser, o.parser) /\ o.node \in Nat \ {0}
      /\ Names(v.parser, x[3], o.parser, o.node)
  BY <1>0, <1>3, <1>6, NameNodeIs
<1>8. /\ made.parser = o.parser /\ made.nodes[1] = s.node /\ made.nodes[2] = v.node
      /\ made.nodes[3] = o.node /\ made.nodes \in Node3
  BY <1>4, <1>5, <1>6, <1>7 DEF Node3
<1> QED  BY <1>5, <1>6, <1>7, <1>8

-----------------------------------------------------------------------------
(* Where the triples of a parser are.                                      *)

\* The triples H that the parser p was given are in the store S or in its batch.
BatchOK(S, p, H) ==
  /\ Fine(S)
  /\ p.triples \in Seq(Node3) /\ H \in Seq(Node3) /\ p.total \in Nat
  /\ Len(p.triples) <= BatchSize
  /\ p.total + Len(p.triples) = Len(H)
  /\ \A n \in 1..p.total : H[n] \in F!Decoded(S)
  /\ \A n \in 1..Len(p.triples) : H[p.total + n] = p.triples[n]

LEMMA IntoBatch ==
  ASSUME NEW S, NEW p, NEW H, BatchOK(S, p, H), Len(p.triples) < BatchSize, NEW x \in Node3,
         NEW r, r.total = p.total, r.triples = Append(p.triples, x), NEW G, G = Append(H, x)
  PROVE  BatchOK(S, r, G)
<1>1. PICK q, t : q = p.triples /\ t = p.total
  OBVIOUS
<1>2. /\ q \in Seq(Node3) /\ H \in Seq(Node3) /\ t \in Nat /\ Len(q) \in Nat /\ Len(H) \in Nat
      /\ t + Len(q) = Len(H)
      /\ \A n \in 1..t : H[n] \in F!Decoded(S)
      /\ \A n \in 1..Len(q) : H[t + n] = q[n]
  BY <1>1 DEF BatchOK
<1>3. /\ r.triples \in Seq(Node3) /\ Len(r.triples) = Len(q) + 1 /\ r.triples[Len(q) + 1] = x
      /\ \A n \in 1..Len(q) : r.triples[n] = q[n]
  BY <1>1, <1>2
<1>4. /\ G \in Seq(Node3) /\ Len(G) = Len(H) + 1 /\ G[Len(H) + 1] = x
      /\ \A n \in 1..Len(H) : G[n] = H[n]
  BY <1>2
<1>5. \A n \in 1..t : G[n] \in F!Decoded(S)
  BY <1>2, <1>4
<1>6. ASSUME NEW n \in 1..Len(q) + 1 PROVE G[t + n] = r.triples[n]
  <2>1. CASE n \in 1..Len(q)
    <3>1. t + n \in 1..Len(H)
      BY <1>2, <2>1
    <3> QED  BY <1>2, <1>3, <1>4, <2>1, <3>1
  <2>2. CASE n = Len(q) + 1
    BY <1>2, <1>3, <1>4, <2>2
  <2>3. n \in 1..Len(q) \/ n = Len(q) + 1
    BY <1>2
  <2> QED  BY <2>1, <2>2, <2>3
<1>7. Len(r.triples) <= BatchSize
  BY <1>1, <1>2, <1>3, ParserAssumption
<1>8. Fine(S)
  BY DEF BatchOK
<1>9. /\ r.total \in Nat /\ r.total + Len(r.triples) = Len(G)
      /\ \A n \in 1..r.total : G[n] \in F!Decoded(S)
      /\ \A n \in 1..Len(r.triples) : G[r.total + n] = r.triples[n]
  BY <1>1, <1>2, <1>3, <1>4, <1>5, <1>6, SMTT(60)
<1> QED  BY <1>3, <1>4, <1>7, <1>8, <1>9 DEF BatchOK

LEMMA BatchFlushed ==
  ASSUME NEW S, NEW p, NEW H, BatchOK(S, p, H), NEW N, N = AddTriplesBatch(S, p),
         NEW r, r.total = p.total + Len(p.triples), r.triples = <<>>
  PROVE  BatchOK(N, r, H)
<1>1. PICK q, t : q = p.triples /\ t = p.total
  OBVIOUS
<1>2. /\ q \in Seq(Node3) /\ H \in Seq(Node3) /\ t \in Nat /\ Len(q) \in Nat /\ Len(H) \in Nat
      /\ t + Len(q) = Len(H) /\ Fine(S)
      /\ \A n \in 1..t : H[n] \in F!Decoded(S)
      /\ \A n \in 1..Len(q) : H[t + n] = q[n]
  BY <1>1 DEF BatchOK
<1>3. /\ Fine(N) /\ F!Decoded(S) \subseteq F!Decoded(N)
      /\ \A n \in 1..Len(q) : q[n] \in F!Decoded(N)
  BY <1>1, <1>2, BatchAdded
<1>4. ASSUME NEW n \in 1..t + Len(q) PROVE H[n] \in F!Decoded(N)
  <2>1. CASE n \in 1..t
    BY <1>2, <1>3, <2>1
  <2>2. CASE n \notin 1..t
    <3>1. n - t \in 1..Len(q) /\ t + (n - t) = n
      BY <1>2, <2>2
    <3> QED  BY <1>2, <1>3, <3>1
  <2> QED  BY <2>1, <2>2
<1>5. r.triples \in Seq(Node3) /\ Len(r.triples) = 0
  OBVIOUS
<1> QED  BY <1>1, <1>2, <1>3, <1>4, <1>5, ParserAssumption DEF BatchOK

BatchInv ==
  /\ BatchOK(store, parser, handled) /\ ParserOK(parser)
  /\ rest \in Seq([1..3 -> Int]) /\ parsing \in BOOLEAN
  /\ ~parsing => parser.triples = <<>>

LEMMA NewParserIs ==
  ASSUME NEW S, Fine(S), NEW tv \in Times
  PROVE  BatchOK(S, NewParser(tv), <<>>) /\ ParserOK(NewParser(tv)) /\ NewParser(tv).triples = <<>>
<1>1. PICK p : p = NewParser(tv)
  OBVIOUS
<1>2. p = [tv |-> tv, next_bnode |-> 0, bnode_map |-> <<>>, triples |-> <<>>, total |-> 0]
  BY <1>1 DEF NewParser
<1>3. p.tv = tv /\ p.next_bnode = 0 /\ p.bnode_map = <<>> /\ p.triples = <<>> /\ p.total = 0
  BY <1>2
<1>4. DOMAIN p.bnode_map = {} /\ <<>> \in Seq(Node3) /\ Len(<<>>) = 0
  BY <1>3
<1>5. ParserOK(p)
  BY <1>2, <1>3, <1>4 DEF ParserOK
<1>6. BatchOK(S, p, <<>>)
  BY <1>3, <1>4, ParserAssumption DEF BatchOK
<1> QED  BY <1>1, <1>3, <1>5, <1>6

LEMMA InitBatch == Init => BatchInv
<1> SUFFICES ASSUME Init PROVE BatchInv
  OBVIOUS
<1>1. Fine(store)
  BY SameNew, F!SoundNew DEF Init, Fine
<1>2. PICK tv \in Times : parser = NewParser(tv)
  BY DEF Init
<1>3. handled = <<>> /\ rest = <<>> /\ parsing = FALSE
  BY DEF Init
<1>4. BatchOK(store, NewParser(tv), <<>>) /\ ParserOK(NewParser(tv)) /\ NewParser(tv).triples = <<>>
  BY <1>1, NewParserIs
<1>5. BatchOK(store, parser, handled) /\ ParserOK(parser) /\ parser.triples = <<>>
  BY <1>2, <1>3, <1>4
<1>6. <<>> \in Seq([1..3 -> Int])
  OBVIOUS
<1> QED  BY <1>3, <1>5, <1>6 DEF BatchInv

LEMMA BatchAnother == ASSUME BatchInv, AnotherParser PROVE BatchInv'
<1>1. PICK tv \in Times : parser' = NewParser(tv)
  BY DEF AnotherParser
<1>2. Fine(store)
  BY DEF BatchInv, BatchOK
<1>3. handled' = <<>> /\ store' = store /\ rest' = rest /\ parsing' = parsing /\ ~parsing
  BY DEF AnotherParser
<1>4. BatchOK(store, NewParser(tv), <<>>) /\ ParserOK(NewParser(tv)) /\ NewParser(tv).triples = <<>>
  BY <1>2, NewParserIs
<1>5. BatchOK(store', parser', handled') /\ ParserOK(parser') /\ parser'.triples = <<>>
  BY <1>1, <1>3, <1>4
<1>6. rest \in Seq([1..3 -> Int]) /\ parsing \in BOOLEAN
  BY DEF BatchInv
<1> QED  BY <1>3, <1>5, <1>6 DEF BatchInv

\* The same triples in a store that decodes to no less.
LEMMA BatchBulk == ASSUME BatchInv, BeginBulk \/ EndBulk PROVE BatchInv'
<1>1. PICK S, N : S = store /\ N = store'
  OBVIOUS
<1>2. /\ N = F!BeginBulk(S) \/ N = F!EndBulk(S)
      /\ UNCHANGED <<parser, rest, parsing, handled>>
  BY <1>1, SameBulk DEF BeginBulk, EndBulk
<1>3. Fine(S)
  BY <1>1 DEF BatchInv, BatchOK
<1>4. Fine(N) /\ F!Decoded(N) = F!Decoded(S)
  BY <1>2, <1>3, F!SoundBulk DEF Fine
<1>5. BatchOK(store', parser, handled)
  BY <1>1, <1>4 DEF BatchInv, BatchOK
<1> QED  BY <1>2, <1>5 DEF BatchInv

LEMMA BatchBegins == ASSUME BatchInv, ParseFile PROVE BatchInv'
<1>1. PICK p, q : p = parser /\ q = parser'
  OBVIOUS
<1>2. /\ ~parsing /\ parsing' = TRUE /\ store' = store /\ handled' = handled
      /\ q = [p EXCEPT !.bnode_map = <<>>, !.triples = <<>>] /\ rest' \in Files
  BY <1>1 DEF ParseFile
<1>3. /\ p = [tv |-> p.tv, next_bnode |-> p.next_bnode, bnode_map |-> p.bnode_map,
              triples |-> p.triples, total |-> p.total]
      /\ p.tv \in Times /\ p.next_bnode \in Nat
  BY <1>1 DEF BatchInv, ParserOK
<1>4. q = [tv |-> p.tv, next_bnode |-> p.next_bnode, bnode_map |-> <<>>,
           triples |-> <<>>, total |-> p.total]
  BY <1>2, <1>3
<1>5. q.tv = p.tv /\ q.next_bnode = p.next_bnode /\ q.bnode_map = <<>> /\ q.triples = <<>>
      /\ q.total = p.total
  BY <1>4
<1>6. DOMAIN q.bnode_map = {}
  BY <1>5
<1>7. ParserOK(q)
  BY <1>3, <1>4, <1>5, <1>6 DEF ParserOK
<1>8. p.triples = <<>> /\ BatchOK(store, p, handled)
  BY <1>1, <1>2 DEF BatchInv
<1>9. BatchOK(store, q, handled)
  BY <1>5, <1>8 DEF BatchOK
<1>10. rest' \in Seq([1..3 -> Int])
  BY <1>2, ParserAssumption
<1> QED  BY <1>1, <1>2, <1>7, <1>9, <1>10 DEF BatchInv

LEMMA BatchHandles == ASSUME BatchInv, HandleTriple PROVE BatchInv'
<1>1. PICK S, p, H, x : S = store /\ p = parser /\ H = handled /\ x = Head(rest)
  OBVIOUS
<1>2. PICK made : made = NameNodes(p, x)
  OBVIOUS
<1>3. PICK q : q = made.parser
  OBVIOUS
<1> DEFINE full == Len(p.triples) >= BatchSize
<1>5. PICK r : r = IF full THEN Flushed(q) ELSE q
  OBVIOUS
<1>6. /\ parsing /\ rest # <<>> /\ rest' = Tail(rest) /\ parsing' = parsing
      /\ store' = IF full THEN AddTriplesBatch(S, p) ELSE S
      /\ parser' = [r EXCEPT !.triples = Append(@, made.nodes)]
      /\ handled' = Append(H, made.nodes)
  BY <1>1, <1>2, <1>3, <1>5 DEF HandleTriple
<1>7. BatchOK(S, p, H) /\ ParserOK(p) /\ rest \in Seq([1..3 -> Int])
  BY <1>1 DEF BatchInv
<1>8. x \in [1..3 -> Int] /\ rest' \in Seq([1..3 -> Int])
  BY <1>1, <1>6, <1>7
<1>9. ParserOK(q) /\ SameBatch(p, q) /\ made.nodes \in Node3
  <2>1. PICK q1, q2 : /\ ParserOK(made.parser) /\ SameBatch(p, q1) /\ SameBatch(q1, q2)
                      /\ SameBatch(q2, made.parser) /\ made.nodes \in Node3
    BY <1>2, <1>7, <1>8, NameNodesIs
  <2> QED  BY <1>3, <2>1 DEF SameBatch
<1>10. /\ q.triples = p.triples /\ q.total = p.total
       /\ q = [tv |-> q.tv, next_bnode |-> q.next_bnode, bnode_map |-> q.bnode_map,
               triples |-> q.triples, total |-> q.total]
  BY <1>9 DEF SameBatch, ParserOK
<1>11. PICK b, t : /\ b = IF full THEN <<>> ELSE q.triples
                   /\ t = IF full THEN q.total + Len(q.triples) ELSE q.total
  OBVIOUS
<1>12. r = [tv |-> q.tv, next_bnode |-> q.next_bnode, bnode_map |-> q.bnode_map,
            triples |-> b, total |-> t]
  BY <1>5, <1>10, <1>11 DEF Flushed
<1>13. r.triples = b /\ r.total = t
  BY <1>12
<1>14. BatchOK(store', r, H) /\ Len(r.triples) < BatchSize
  <2>1. CASE full
    <3>1. store' = AddTriplesBatch(S, p) /\ r.triples = <<>> /\ r.total = p.total + Len(p.triples)
      BY <1>6, <1>10, <1>11, <1>13, <2>1
    <3>2. BatchOK(store', r, H)
      BY <1>7, <3>1, BatchFlushed
    <3>3. Len(r.triples) = 0
      BY <3>1
    <3> QED  BY <3>2, <3>3, ParserAssumption
  <2>2. CASE ~full
    <3>1. store' = S /\ r.triples = p.triples /\ r.total = p.total
      BY <1>6, <1>10, <1>11, <1>13, <2>2
    <3>2. Len(p.triples) \in Nat /\ Len(p.triples) < BatchSize
      BY <1>7, <2>2, ParserAssumption DEF BatchOK
    <3>3. BatchOK(S, r, H)
      BY <1>7, <3>1 DEF BatchOK
    <3> QED  BY <3>1, <3>2, <3>3
  <2> QED  BY <2>1, <2>2
<1>15. PICK z : z = parser'
  OBVIOUS
<1>16. z = [tv |-> q.tv, next_bnode |-> q.next_bnode, bnode_map |-> q.bnode_map,
            triples |-> Append(b, made.nodes), total |-> t]
  BY <1>6, <1>12, <1>15
<1>17. /\ z.tv = q.tv /\ z.next_bnode = q.next_bnode /\ z.bnode_map = q.bnode_map
       /\ z.triples = Append(r.triples, made.nodes) /\ z.total = r.total
  BY <1>13, <1>16
<1>18. ParserOK(z)
  BY <1>9, <1>16, <1>17 DEF ParserOK
<1>19. BatchOK(store', z, handled')
  BY <1>6, <1>9, <1>14, <1>17, IntoBatch
<1> QED  BY <1>6, <1>8, <1>15, <1>18, <1>19 DEF BatchInv

LEMMA BatchEnds == ASSUME BatchInv, EndOfFile PROVE BatchInv'
<1>1. PICK S, p, q : S = store /\ p = parser /\ q = parser'
  OBVIOUS
<1>2. /\ store' = AddTriplesBatch(S, p) /\ q = Flushed(p) /\ parsing' = FALSE
      /\ rest' = rest /\ handled' = handled
  BY <1>1 DEF EndOfFile
<1>3. BatchOK(S, p, handled) /\ ParserOK(p)
  BY <1>1 DEF BatchInv
<1>4. p = [tv |-> p.tv, next_bnode |-> p.next_bnode, bnode_map |-> p.bnode_map,
           triples |-> p.triples, total |-> p.total]
  BY <1>3 DEF ParserOK
<1>5. q = [tv |-> p.tv, next_bnode |-> p.next_bnode, bnode_map |-> p.bnode_map,
           triples |-> <<>>, total |-> p.total + Len(p.triples)]
  BY <1>2, <1>4 DEF Flushed
<1>6. /\ q.tv = p.tv /\ q.next_bnode = p.next_bnode /\ q.bnode_map = p.bnode_map
      /\ q.triples = <<>> /\ q.total = p.total + Len(p.triples)
  BY <1>5
<1>7. ParserOK(q)
  BY <1>3, <1>5, <1>6 DEF ParserOK
<1>8. BatchOK(store', q, handled)
  BY <1>2, <1>3, <1>6, BatchFlushed
<1> QED  BY <1>1, <1>2, <1>6, <1>7, <1>8 DEF BatchInv

\* Every triple that a parser was given is in the store or in the batch, a store that
\* has not been opened again never loses one, and a file ends with an empty batch.
THEOREM BatchesAreKept == Spec => []BatchInv
<1>1. ASSUME BatchInv, [Next]_vars PROVE BatchInv'
  <2>1. CASE UNCHANGED vars
    BY <1>1, <2>1 DEF vars, BatchInv
  <2> QED  BY <1>1, <2>1, BatchAnother, BatchBulk, BatchBegins, BatchHandles, BatchEnds DEF Next
<1> QED  BY <1>1, InitBatch, PTL DEF Spec

\* BatchesReachTheStore, for any files and any size of a batch: a full batch goes into
\* the store before its next triple is kept, the last one at the end of the file, and
\* the tables are level again whenever no bulk load is on.
THEOREM NoTripleIsLeft == Spec => []BatchesReachTheStore
<1>1. ASSUME BatchInv PROVE BatchesReachTheStore
  <2>1. PICK q, t, H : q = parser.triples /\ t = parser.total /\ H = handled
    OBVIOUS
  <2>2. BatchOK(store, parser, handled) /\ (~parsing => q = <<>>)
    BY <1>1, <2>1 DEF BatchInv
  <2>3. /\ q \in Seq(Node3) /\ H \in Seq(Node3) /\ t \in Nat /\ Len(q) \in Nat /\ Len(H) \in Nat
        /\ t + Len(q) = Len(H) /\ Fine(store) /\ Len(q) <= BatchSize
        /\ \A n \in 1..t : H[n] \in F!Decoded(store)
        /\ \A n \in 1..Len(q) : H[t + n] = q[n]
    BY <2>1, <2>2 DEF BatchOK
  <2>4. InTable(<<1,2,3>>) = F!Decoded(store)
    BY DEF InTable, F!Decoded, F!First
  <2>5. SubSeq(H, t + 1, Len(H)) = q
    <3>1. PICK u : u = SubSeq(H, t + 1, Len(H))
      OBVIOUS
    <3>2. u \in Seq(Node3) /\ Len(u) = Len(q) /\ \A n \in 1..Len(u) : u[n] = H[t + n]
      <4>1. t + 1 \in Int /\ Len(H) \in Int /\ \A i \in t + 1..Len(H) : H[i] \in Node3
        BY <2>3
      <4>2. /\ u \in Seq(Node3)
            /\ Len(u) = IF t + 1 <= Len(H) THEN Len(H) - (t + 1) + 1 ELSE 0
            /\ \A n \in 1..Len(H) - (t + 1) + 1 : u[n] = H[t + 1 + n - 1]
        BY <3>1, <4>1, SubSeqProperties
      <4>3. Len(H) - (t + 1) + 1 = Len(q) /\ \A n \in 1..Len(q) : t + 1 + n - 1 = t + n
        BY <2>3
      <4> QED  BY <2>3, <4>2, <4>3
    <3> QED  BY <2>3, <3>1, <3>2
  <2>6. ~store.bulk => \A o \in T!Orders : store.index[o] = store.index[<<1,2,3>>]
    BY <2>3, SameOrders DEF Fine, F!Level, F!First
  <2> QED  BY <2>1, <2>2, <2>3, <2>4, <2>5, <2>6 DEF BatchesReachTheStore
<1> QED  BY <1>1, BatchesAreKept, PTL

-----------------------------------------------------------------------------
(* Whose names are whose.                                                  *)

\* What Met keeps of node n, position k after L triples, of the parser ps in file fl.
Entry(ps, tv, fl, n, L, k, name) ==
  [parser |-> ps, tv |-> tv, file |-> fl, label |-> n,
   at |-> IF n = 0 THEN <<L, k>> ELSE <<>>, name |-> name]

\* The place at is before position k after L triples.
Passed(at, L, k) ==
  /\ at[1] \in Nat /\ at[2] \in Nat
  /\ at[1] < L \/ (at[1] = L /\ at[2] < k)

\* An entry of the file at hand: its label leads to its name.
Labelled(p, L, k, u) ==
  IF u.label = 0 THEN Passed(u.at, L, k)
  ELSE u.at = <<>> /\ u.label \in DOMAIN p.bnode_map /\ p.bnode_map[u.label] = u.name

\* What is known of an entry.
EntryOK(ps, fl, p, L, k, u) ==
  /\ u.tv \in Times /\ u.parser \in Nat /\ u.parser <= ps /\ u.file \in Nat /\ u.file <= fl
  /\ \E m \in Nat : u.name = Spelled(u.tv, m) /\ (u.parser = ps => m < p.next_bnode)
  /\ u.parser = ps => u.tv = p.tv
  /\ u.parser = ps /\ u.file = fl => Labelled(p, L, k, u)

SamePlace(u, v) == u.file = v.file /\ u.label = v.label /\ u.at = v.at

\* The names of one parser are apart.
Apart(E) == \A u, v \in E : u.parser = v.parser => (u.name = v.name <=> SamePlace(u, v))

NamesOK(ps, fl, p, L, k, E) ==
  /\ \A u \in E : EntryOK(ps, fl, p, L, k, u)
  /\ \A l \in DOMAIN p.bnode_map :
       \E u \in E : /\ u.parser = ps /\ u.file = fl /\ u.label = l
                    /\ u.name = p.bnode_map[l] /\ u.at = <<>>
  /\ Apart(E)

\* A node is named.
LEMMA OneNamed ==
  ASSUME NEW ps \in Nat, NEW fl \in Nat, NEW p, ParserOK(p), NEW L \in Nat, NEW k \in Nat, NEW E,
         NamesOK(ps, fl, p, L, k, E), NEW n \in Int, NEW q, ParserOK(q), SameBatch(p, q), NEW name,
         Names(p, n, q, name), NEW e, e = Entry(ps, p.tv, fl, n, L, k, name)
  PROVE  NamesOK(ps, fl, q, L, k + 1, IF n <= 0 THEN E \cup {e} ELSE E)
<1>1. /\ \A u \in E : EntryOK(ps, fl, p, L, k, u)
      /\ \A l \in DOMAIN p.bnode_map :
           \E u \in E : /\ u.parser = ps /\ u.file = fl /\ u.label = l
                        /\ u.name = p.bnode_map[l] /\ u.at = <<>>
      /\ Apart(E)
  BY DEF NamesOK
<1>2. /\ e.parser = ps /\ e.tv = p.tv /\ e.file = fl /\ e.label = n /\ e.name = name
      /\ e.at = IF n = 0 THEN <<L, k>> ELSE <<>>
  BY DEF Entry
<1>3. \A at : Passed(at, L, k) => Passed(at, L, k + 1)
  BY DEF Passed
<1>4. q.tv = p.tv /\ p.tv \in Times /\ p.next_bnode \in Nat
  BY DEF SameBatch, ParserOK
<1>5. CASE n > 0
  <2>1. q = p
    BY <1>5 DEF Names
  <2>2. \A u \in E : EntryOK(ps, fl, q, L, k + 1, u)
    BY <1>1, <1>3, <2>1 DEF EntryOK, Labelled
  <2> QED  BY <1>1, <1>5, <2>1, <2>2 DEF NamesOK
<1>6. CASE n <= 0 /\ n \in DOMAIN p.bnode_map
  <2>1. q = p /\ name = p.bnode_map[n] /\ n # 0
    BY <1>6 DEF Names, ParserOK
  <2>2. PICK u \in E : /\ u.parser = ps /\ u.file = fl /\ u.label = n
                       /\ u.name = name /\ u.at = <<>>
    BY <1>1, <1>6, <2>1
  <2>3. /\ e.parser = u.parser /\ e.file = u.file /\ e.label = u.label
        /\ e.name = u.name /\ e.at = u.at
    BY <1>2, <2>1, <2>2
  <2>4. e.tv = u.tv
    BY <1>1, <1>2, <2>2 DEF EntryOK
  <2>5. \A v \in E : EntryOK(ps, fl, q, L, k + 1, v)
    BY <1>1, <1>3, <2>1 DEF EntryOK, Labelled
  <2>6. EntryOK(ps, fl, q, L, k + 1, e)
    <3>1. EntryOK(ps, fl, q, L, k + 1, u)
      BY <2>5
    <3> QED  BY <2>3, <2>4, <3>1 DEF EntryOK, Labelled
  <2>7. Apart(E \cup {e})
    <3>1. \A v \in E : /\ u.parser = v.parser => (u.name = v.name <=> SamePlace(u, v))
                       /\ v.parser = u.parser => (v.name = u.name <=> SamePlace(v, u))
      BY <1>1 DEF Apart
    <3>2. \A v \in E : /\ e.parser = v.parser => (e.name = v.name <=> SamePlace(e, v))
                       /\ v.parser = e.parser => (v.name = e.name <=> SamePlace(v, e))
      BY <2>3, <3>1 DEF SamePlace
    <3> QED  BY <1>1, <3>2 DEF Apart, SamePlace
  <2> QED  BY <1>1, <1>6, <2>1, <2>5, <2>6, <2>7 DEF NamesOK
<1>7. CASE n <= 0 /\ n \notin DOMAIN p.bnode_map
  <2>1. /\ name = Spelled(p.tv, p.next_bnode) /\ q.next_bnode = p.next_bnode + 1
        /\ n = 0 => q.bnode_map = p.bnode_map
        /\ n # 0 => /\ DOMAIN q.bnode_map = DOMAIN p.bnode_map \cup {n}
                    /\ q.bnode_map[n] = name
                    /\ \A l \in DOMAIN p.bnode_map : q.bnode_map[l] = p.bnode_map[l]
    BY <1>7 DEF Names
  <2>2. \A l \in DOMAIN p.bnode_map : l \in DOMAIN q.bnode_map /\ q.bnode_map[l] = p.bnode_map[l]
    BY <2>1
  <2>3. ASSUME NEW u \in E PROVE EntryOK(ps, fl, q, L, k + 1, u)
    <3>1. EntryOK(ps, fl, p, L, k, u)
      BY <1>1
    <3>2. \E m \in Nat : u.name = Spelled(u.tv, m) /\ (u.parser = ps => m < q.next_bnode)
      <4>1. PICK m \in Nat : u.name = Spelled(u.tv, m) /\ (u.parser = ps => m < p.next_bnode)
        BY <3>1 DEF EntryOK
      <4>2. u.parser = ps => m < q.next_bnode
        BY <1>4, <2>1, <4>1
      <4> QED  BY <4>1, <4>2
    <3>3. u.parser = ps /\ u.file = fl => Labelled(q, L, k + 1, u)
      BY <1>3, <2>2, <3>1 DEF EntryOK, Labelled
    <3> QED  BY <1>4, <3>1, <3>2, <3>3 DEF EntryOK
  <2>4. Labelled(q, L, k + 1, e)
    <3>1. CASE n = 0
      <4>1. e.at = <<L, k>>
        BY <1>2, <3>1
      <4>2. e.at[1] = L /\ e.at[2] = k
        BY <4>1
      <4>3. Passed(e.at, L, k + 1)
        BY <4>2 DEF Passed
      <4> QED  BY <1>2, <3>1, <4>3 DEF Labelled
    <3>2. CASE n # 0
      BY <1>2, <2>1, <3>2 DEF Labelled
    <3> QED  BY <3>1, <3>2
  <2>5. EntryOK(ps, fl, q, L, k + 1, e)
    <3>1. \E m \in Nat : e.name = Spelled(e.tv, m) /\ (e.parser = ps => m < q.next_bnode)
      <4>1. p.next_bnode < q.next_bnode
        BY <1>4, <2>1
      <4> QED  BY <1>2, <1>4, <2>1, <4>1
    <3> QED  BY <1>2, <1>4, <2>4, <3>1 DEF EntryOK
  <2>6. ASSUME NEW v \in E, v.parser = ps PROVE v.name # name /\ ~SamePlace(e, v) /\ ~SamePlace(v, e)
    <3>1. EntryOK(ps, fl, p, L, k, v)
      BY <1>1
    <3>2. PICK m \in Nat : v.name = Spelled(p.tv, m) /\ m < p.next_bnode
      BY <2>6, <3>1 DEF EntryOK
    <3>3. v.name # name
      BY <1>4, <2>1, <3>2, SpelledIs
    <3>4. ASSUME v.file = fl, v.label = n, v.at = e.at PROVE FALSE
      <4>1. Labelled(p, L, k, v)
        BY <2>6, <3>1, <3>4 DEF EntryOK
      <4>2. CASE n = 0
        <5>1. Passed(v.at, L, k) /\ v.at = <<L, k>>
          BY <1>2, <3>4, <4>1, <4>2 DEF Labelled
        <5>2. v.at[1] = L /\ v.at[2] = k
          BY <5>1
        <5> QED  BY <5>1, <5>2 DEF Passed
      <4>3. CASE n # 0
        BY <1>7, <3>4, <4>1, <4>3 DEF Labelled
      <4> QED  BY <4>2, <4>3
    <3> QED  BY <1>2, <3>3, <3>4 DEF SamePlace
  <2>7. Apart(E \cup {e})
    BY <1>1, <1>2, <2>6 DEF Apart, SamePlace
  <2>8. \A l \in DOMAIN q.bnode_map :
          \E u \in E \cup {e} : /\ u.parser = ps /\ u.file = fl /\ u.label = l
                                /\ u.name = q.bnode_map[l] /\ u.at = <<>>
    <3>1. ASSUME NEW l \in DOMAIN p.bnode_map
          PROVE  \E u \in E \cup {e} : /\ u.parser = ps /\ u.file = fl /\ u.label = l
                                       /\ u.name = q.bnode_map[l] /\ u.at = <<>>
      BY <1>1, <2>2
    <3>2. ASSUME n # 0
          PROVE  \E u \in E \cup {e} : /\ u.parser = ps /\ u.file = fl /\ u.label = n
                                       /\ u.name = q.bnode_map[n] /\ u.at = <<>>
      BY <1>2, <2>1, <3>2
    <3> QED  BY <2>1, <3>1, <3>2
  <2> QED  BY <1>7, <2>3, <2>5, <2>7, <2>8 DEF NamesOK
<1> QED  BY <1>5, <1>6, <1>7

\* Names do not depend on the rest of a parser.
LEMMA NamesOnly ==
  ASSUME NEW ps, NEW fl, NEW p, NEW L \in Nat, NEW E, NEW q,
         q.tv = p.tv, q.next_bnode = p.next_bnode, q.bnode_map = p.bnode_map
  PROVE  /\ NamesOK(ps, fl, p, L, 1, E) => NamesOK(ps, fl, q, L, 1, E)
         /\ NamesOK(ps, fl, p, L, 4, E) => NamesOK(ps, fl, q, L + 1, 1, E)
<1>1. \A at : Passed(at, L, 4) => Passed(at, L + 1, 1)
  BY DEF Passed
<1>2. ASSUME NEW u
      PROVE  /\ EntryOK(ps, fl, p, L, 1, u) => EntryOK(ps, fl, q, L, 1, u)
             /\ EntryOK(ps, fl, p, L, 4, u) => EntryOK(ps, fl, q, L + 1, 1, u)
  BY <1>1 DEF EntryOK, Labelled
<1> QED  BY <1>2 DEF NamesOK

\* A new parser, or a new file: no name is known.
LEMMA NamesAnew ==
  ASSUME NEW ps \in Nat, NEW fl \in Nat, NEW p, ParserOK(p), NEW L, NEW E, NamesOK(ps, fl, p, L, 1, E),
         NEW qs, NEW gl, NEW q, ParserOK(q), NEW M, DOMAIN q.bnode_map = {},
         \/ qs = ps + 1 /\ gl = fl
         \/ qs = ps /\ gl = fl + 1 /\ q.tv = p.tv /\ q.next_bnode = p.next_bnode
  PROVE  NamesOK(qs, gl, q, M, 1, E)
<1>1. ASSUME NEW u \in E PROVE EntryOK(qs, gl, q, M, 1, u)
  <2>1. EntryOK(ps, fl, p, L, 1, u)
    BY DEF NamesOK
  <2>2. ~(u.parser = qs /\ u.file = gl) /\ u.parser <= qs /\ u.file <= gl
    BY <2>1 DEF EntryOK
  <2>3. u.parser = qs => qs = ps /\ q.tv = p.tv /\ q.next_bnode = p.next_bnode
    BY <2>1 DEF EntryOK
  <2> QED  BY <2>1, <2>2, <2>3 DEF EntryOK
<1> QED  BY <1>1 DEF NamesOK

\* What Met adds for the three nodes of a triple, one after the other.
LEMMA MetIs ==
  ASSUME NEW x, NEW y, NEW L, L = Len(handled), NEW E
  PROVE  LET e(k) == Entry(parsers, parser.tv, files, x[k], L, k, y[k])
             E1 == IF x[1] <= 0 THEN E \cup {e(1)} ELSE E
             E2 == IF x[2] <= 0 THEN E1 \cup {e(2)} ELSE E1
             E3 == IF x[3] <= 0 THEN E2 \cup {e(3)} ELSE E2
         IN  E \cup Met(x, y) = E3
<1> DEFINE e(k) == Entry(parsers, parser.tv, files, x[k], L, k, y[k])
<1>1. Met(x, y) = {e(k) : k \in {j \in 1..3 : x[j] <= 0}}
  BY DEF Met, Entry
<1> HIDE DEF e
<1>2. \A u : u \in Met(x, y) <=> \/ x[1] <= 0 /\ u = e(1)
                                 \/ x[2] <= 0 /\ u = e(2)
                                 \/ x[3] <= 0 /\ u = e(3)
  <2>1. \A k : k \in 1..3 <=> k = 1 \/ k = 2 \/ k = 3
    OBVIOUS
  <2> QED  BY <1>1, <2>1
<1> DEFINE E1 == IF x[1] <= 0 THEN E \cup {e(1)} ELSE E
           E2 == IF x[2] <= 0 THEN E1 \cup {e(2)} ELSE E1
           E3 == IF x[3] <= 0 THEN E2 \cup {e(3)} ELSE E2
<1>3. E \cup Met(x, y) = E3
  BY <1>2
<1> QED  BY <1>3 DEF e

NamesInv ==
  /\ BatchInv /\ parsers \in Nat /\ files \in Nat
  /\ NamesOK(parsers, files, parser, Len(handled), 1, named)

LEMMA InitNames == Init => NamesInv
<1> SUFFICES ASSUME Init PROVE NamesInv
  OBVIOUS
<1>1. BatchInv
  BY InitBatch
<1>2. PICK tv \in Times : parser = NewParser(tv)
  BY DEF Init
<1>3. DOMAIN parser.bnode_map = {}
  BY <1>2 DEF NewParser
<1>4. named = {} /\ parsers = 1 /\ files = 0
  BY DEF Init
<1> QED  BY <1>1, <1>3, <1>4 DEF NamesInv, NamesOK, Apart

LEMMA NamesAnother == ASSUME NamesInv, AnotherParser PROVE NamesInv'
<1>1. BatchInv'
  BY BatchAnother DEF NamesInv
<1>2. PICK ps, fl, p, L, E, q : /\ ps = parsers /\ fl = files /\ p = parser /\ L = Len(handled)
                                /\ E = named /\ q = parser'
  OBVIOUS
<1>3. /\ ps \in Nat /\ fl \in Nat /\ ParserOK(p) /\ NamesOK(ps, fl, p, L, 1, E)
  BY <1>2 DEF NamesInv, BatchInv
<1>4. ParserOK(q)
  BY <1>1, <1>2 DEF BatchInv
<1>5. parsers' = ps + 1 /\ files' = fl /\ named' = E /\ DOMAIN q.bnode_map = {}
  <2>1. PICK tv \in Times : q = NewParser(tv)
    BY <1>2 DEF AnotherParser
  <2>2. q.bnode_map = <<>>
    BY <2>1 DEF NewParser
  <2> QED  BY <1>2, <2>2 DEF AnotherParser
<1>6. PICK M : M = Len(handled')
  OBVIOUS
<1>7. NamesOK(ps + 1, fl, q, M, 1, E)
  BY <1>3, <1>4, <1>5, NamesAnew
<1> QED  BY <1>1, <1>2, <1>3, <1>5, <1>6, <1>7 DEF NamesInv

LEMMA NamesBegin == ASSUME NamesInv, ParseFile PROVE NamesInv'
<1>1. BatchInv'
  BY BatchBegins DEF NamesInv
<1>2. PICK ps, fl, p, L, E, q : /\ ps = parsers /\ fl = files /\ p = parser /\ L = Len(handled)
                                /\ E = named /\ q = parser'
  OBVIOUS
<1>3. /\ ps \in Nat /\ fl \in Nat /\ ParserOK(p) /\ NamesOK(ps, fl, p, L, 1, E)
  BY <1>2 DEF NamesInv, BatchInv
<1>4. ParserOK(q)
  BY <1>1, <1>2 DEF BatchInv
<1>5. /\ parsers' = ps /\ files' = fl + 1 /\ named' = E /\ handled' = handled
      /\ q = [p EXCEPT !.bnode_map = <<>>, !.triples = <<>>]
  BY <1>2 DEF ParseFile
<1>6. p = [tv |-> p.tv, next_bnode |-> p.next_bnode, bnode_map |-> p.bnode_map,
           triples |-> p.triples, total |-> p.total]
  BY <1>3 DEF ParserOK
<1>7. q = [tv |-> p.tv, next_bnode |-> p.next_bnode, bnode_map |-> <<>>,
           triples |-> <<>>, total |-> p.total]
  BY <1>5, <1>6
<1>8. q.tv = p.tv /\ q.next_bnode = p.next_bnode /\ q.bnode_map = <<>>
  BY <1>7
<1>9. DOMAIN q.bnode_map = {}
  BY <1>8
<1>10. NamesOK(ps, fl + 1, q, L, 1, E)
  BY <1>3, <1>4, <1>8, <1>9, NamesAnew
<1> QED  BY <1>1, <1>2, <1>3, <1>5, <1>10 DEF NamesInv

\* Neither a bulk load nor the end of a file names a node.
LEMMA NamesStay == ASSUME NamesInv, BeginBulk \/ EndBulk \/ EndOfFile PROVE NamesInv'
<1>1. BatchInv'
  BY BatchBulk, BatchEnds DEF NamesInv
<1>2. PICK ps, fl, p, L, E, q : /\ ps = parsers /\ fl = files /\ p = parser /\ L = Len(handled)
                                /\ E = named /\ q = parser'
  OBVIOUS
<1>3. /\ ps \in Nat /\ fl \in Nat /\ ParserOK(p) /\ NamesOK(ps, fl, p, L, 1, E) /\ L \in Nat
  BY <1>2 DEF NamesInv, BatchInv, BatchOK
<1>4. /\ parsers' = ps /\ files' = fl /\ named' = E /\ handled' = handled
      /\ q = p \/ q = Flushed(p)
  BY <1>2 DEF BeginBulk, EndBulk, EndOfFile
<1>5. q.tv = p.tv /\ q.next_bnode = p.next_bnode /\ q.bnode_map = p.bnode_map
  <2>1. p = [tv |-> p.tv, next_bnode |-> p.next_bnode, bnode_map |-> p.bnode_map,
             triples |-> p.triples, total |-> p.total]
    BY <1>3 DEF ParserOK
  <2>2. CASE q = Flushed(p)
    <3>1. q = [tv |-> p.tv, next_bnode |-> p.next_bnode, bnode_map |-> p.bnode_map,
               triples |-> <<>>, total |-> p.total + Len(p.triples)]
      BY <2>1, <2>2 DEF Flushed
    <3> QED  BY <3>1
  <2> QED  BY <1>4, <2>2
<1>6. NamesOK(ps, fl, q, L, 1, E)
  BY <1>3, <1>5, NamesOnly
<1> QED  BY <1>1, <1>2, <1>3, <1>4, <1>6 DEF NamesInv

LEMMA NamesHandle == ASSUME NamesInv, HandleTriple PROVE NamesInv'
<1>1. BatchInv'
  BY BatchHandles DEF NamesInv
<1>2. PICK ps, fl, p, L, E, x : /\ ps = parsers /\ fl = files /\ p = parser /\ L = Len(handled)
                                /\ E = named /\ x = Head(rest)
  OBVIOUS
<1>3. PICK made, y : made = NameNodes(p, x) /\ y = made.nodes
  OBVIOUS
<1>4. PICK o, z : o = made.parser /\ z = parser'
  OBVIOUS
<1>5. /\ ps \in Nat /\ fl \in Nat /\ ParserOK(p) /\ NamesOK(ps, fl, p, L, 1, E) /\ L \in Nat
      /\ handled \in Seq(Node3) /\ rest \in Seq([1..3 -> Int])
  BY <1>2 DEF NamesInv, BatchInv, BatchOK
<1>6. /\ rest # <<>> /\ parsers' = ps /\ files' = fl /\ handled' = Append(handled, y)
      /\ named' = E \cup Met(x, y)
      /\ z = [(IF Len(p.triples) >= BatchSize THEN Flushed(o) ELSE o)
                 EXCEPT !.triples = Append(@, y)]
  BY <1>2, <1>3, <1>4 DEF HandleTriple
<1>7. x \in [1..3 -> Int] /\ x[1] \in Int /\ x[2] \in Int /\ x[3] \in Int
  <2>1. x \in [1..3 -> Int]
    BY <1>2, <1>5, <1>6
  <2> QED  BY <2>1
<1>8. PICK q1, q2 :
        /\ ParserOK(q1) /\ ParserOK(q2) /\ ParserOK(o)
        /\ SameBatch(p, q1) /\ SameBatch(q1, q2) /\ SameBatch(q2, o)
        /\ Names(p, x[1], q1, y[1]) /\ Names(q1, x[2], q2, y[2]) /\ Names(q2, x[3], o, y[3])
        /\ y \in Node3
  BY <1>3, <1>4, <1>5, <1>7, NameNodesIs
<1>9. q1.tv = p.tv /\ q2.tv = p.tv /\ o.tv = p.tv
  BY <1>8 DEF SameBatch
<1> DEFINE e(k) == Entry(ps, p.tv, fl, x[k], L, k, y[k])
           E1 == IF x[1] <= 0 THEN E \cup {e(1)} ELSE E
           E2 == IF x[2] <= 0 THEN E1 \cup {e(2)} ELSE E1
           E3 == IF x[3] <= 0 THEN E2 \cup {e(3)} ELSE E2
<1>10. PICK e1, e2, e3 : e1 = e(1) /\ e2 = e(2) /\ e3 = e(3)
  OBVIOUS
<1>11. PICK D1, D2, D3 : D1 = E1 /\ D2 = E2 /\ D3 = E3
  OBVIOUS
<1>12. /\ D1 = IF x[1] <= 0 THEN E \cup {e1} ELSE E
       /\ D2 = IF x[2] <= 0 THEN D1 \cup {e2} ELSE D1
       /\ D3 = IF x[3] <= 0 THEN D2 \cup {e3} ELSE D2
  BY <1>10, <1>11
<1>13. named' = D3
  <2>1. E \cup Met(x, y) = E3
    BY <1>2, MetIs
  <2> QED  BY <1>6, <1>11, <2>1
<1>14. /\ e1 = Entry(ps, p.tv, fl, x[1], L, 1, y[1])
       /\ e2 = Entry(ps, q1.tv, fl, x[2], L, 2, y[2])
       /\ e3 = Entry(ps, q2.tv, fl, x[3], L, 3, y[3])
  BY <1>9, <1>10
<1> HIDE DEF e, E1, E2, E3
<1>15. NamesOK(ps, fl, q1, L, 2, D1)
  <2>1. NamesOK(ps, fl, q1, L, 1 + 1, IF x[1] <= 0 THEN E \cup {e1} ELSE E)
    BY <1>5, <1>7, <1>8, <1>14, OneNamed
  <2> QED  BY <1>12, <2>1
<1>16. NamesOK(ps, fl, q2, L, 3, D2)
  <2>1. NamesOK(ps, fl, q2, L, 2 + 1, IF x[2] <= 0 THEN D1 \cup {e2} ELSE D1)
    BY <1>5, <1>7, <1>8, <1>14, <1>15, OneNamed
  <2> QED  BY <1>12, <2>1
<1>17. NamesOK(ps, fl, o, L, 4, D3)
  <2>1. NamesOK(ps, fl, o, L, 3 + 1, IF x[3] <= 0 THEN D2 \cup {e3} ELSE D2)
    BY <1>5, <1>7, <1>8, <1>14, <1>16, OneNamed
  <2> QED  BY <1>12, <2>1
<1>18. z.tv = o.tv /\ z.next_bnode = o.next_bnode /\ z.bnode_map = o.bnode_map
  <2>1. o = [tv |-> o.tv, next_bnode |-> o.next_bnode, bnode_map |-> o.bnode_map,
             triples |-> o.triples, total |-> o.total]
    BY <1>8 DEF ParserOK
  <2>2. PICK r : r = IF Len(p.triples) >= BatchSize THEN Flushed(o) ELSE o
    OBVIOUS
  <2>3. \E b, t : r = [tv |-> o.tv, next_bnode |-> o.next_bnode, bnode_map |-> o.bnode_map,
                       triples |-> b, total |-> t]
    BY <2>1, <2>2 DEF Flushed
  <2>4. PICK b, t : r = [tv |-> o.tv, next_bnode |-> o.next_bnode, bnode_map |-> o.bnode_map,
                         triples |-> b, total |-> t]
    BY <2>3
  <2>5. z = [r EXCEPT !.triples = Append(b, y)]
    <3>1. z = [r EXCEPT !.triples = Append(@, y)]
      BY <1>6, <2>2
    <3>2. r.triples = b
      BY <2>4
    <3> QED  BY <3>1, <3>2
  <2>6. z = [tv |-> o.tv, next_bnode |-> o.next_bnode, bnode_map |-> o.bnode_map,
             triples |-> Append(b, y), total |-> t]
    BY <2>4, <2>5
  <2> QED  BY <2>6
<1>19. NamesOK(ps, fl, z, L + 1, 1, D3)
  BY <1>5, <1>17, <1>18, NamesOnly
<1>20. Len(handled') = L + 1
  BY <1>2, <1>5, <1>6, <1>8
<1> QED  BY <1>1, <1>2, <1>4, <1>5, <1>6, <1>13, <1>19, <1>20 DEF NamesInv

\* Every blank node met is known with its name, the label of one in the file at hand
\* leads to that name, and the numbers of the names are below the parser's next.
THEOREM NamesAreKnown == Spec => []NamesInv
<1>1. ASSUME NamesInv, [Next]_vars PROVE NamesInv'
  <2>1. CASE UNCHANGED vars
    BY <1>1, <2>1 DEF vars, NamesInv, BatchInv
  <2> QED  BY <1>1, <2>1, NamesAnother, NamesBegin, NamesStay, NamesHandle DEF Next
<1> QED  BY <1>1, InitNames, PTL DEF Spec

\* BlankNodesApart, for any files and any number of parsers: one name for one label of
\* a file, and different names for whatever else, unless two parsers have one time.
THEOREM NoNameIsShared == Spec => []BlankNodesApart
<1>1. ASSUME NamesInv PROVE BlankNodesApart
  <2>1. (\A u \in named : EntryOK(parsers, files, parser, Len(handled), 1, u)) /\ Apart(named)
    BY <1>1 DEF NamesInv, NamesOK
  <2>2. ASSUME NEW u \in named, NEW v \in named, u.parser # v.parser, u.tv # v.tv
        PROVE  u.name # v.name
    <3>1. PICK m, n \in Nat : u.name = Spelled(u.tv, m) /\ v.name = Spelled(v.tv, n)
      BY <2>1 DEF EntryOK
    <3>2. u.tv \in Times /\ v.tv \in Times
      BY <2>1 DEF EntryOK
    <3> QED  BY <2>2, <3>1, <3>2, SpelledIs
  <2> QED  BY <2>1, <2>2 DEF BlankNodesApart, Apart, SamePlace
<1> QED  BY <1>1, NamesAreKnown, PTL
=============================================================================
