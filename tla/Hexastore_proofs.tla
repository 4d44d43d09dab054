-------------------------- MODULE Hexastore_proofs --------------------------
(***************************************************************************)
(* Proofs about module Hexastore, for every set of nodes and every choice  *)
(* of indexes: the types; then that the indexes of the store all show one  *)
(* set of triples, and no trace of a triple that is gone.  The inductive   *)
(* invariant of that says, for every slot of every index, whether it holds *)
(* a terminal, which one, and what is in it, given the set.                *)
(***************************************************************************)
EXTENDS Hexastore, FiniteSetTheorems, FunctionTheorems, TLAPS

-----------------------------------------------------------------------------
(* Types.                                                                  *)

LEMMA OrderedType ==
  ASSUME NEW i \in Order, NEW x \in Triple
  PROVE  /\ IndexOrdered(i, x)[1] \in Node
         /\ IndexOrdered(i, x)[2] \in Node
         /\ IndexOrdered(i, x)[3] \in Node
BY DEF Order, Triple, IndexOrdered

LEMMA OneType == ASSUME NEW b PROVE One(b) \in Int
BY DEF One

LEMMA AddTripleTerminalType ==
  ASSUME NEW S \in Store, NEW i \in Order, NEW x \in Triple
  PROVE  /\ AddTripleTerminal(S, i, x).terminal \in Terminal
         /\ AddTripleTerminal(S, i, x).store \in Store
<1> DEFINE k     == IndexOrdered(i, x)
           slot  == <<k[1], k[2]>>
           isNew == S.terminal[i][slot] = NULL
           t     == IF isNew THEN <<i, k[1], k[2]>> ELSE S.terminal[i][slot]
           added == One(k[3] \notin S.nodes[t])
           new   == One(isNew)
           T     == AddTripleTerminal(S, i, x).store
<1>1. k[1] \in Node /\ k[2] \in Node /\ k[3] \in Node
  BY OrderedType
<1>2. slot \in Slot
  BY <1>1 DEF Slot
<1>3. t \in Terminal
  <2>1. S.terminal[i][slot] \in Terminal \cup {NULL}
    BY <1>2 DEF Store
  <2> QED  BY <1>1, <2>1 DEF Terminal
<1>4. added \in Int /\ new \in Int
  BY OneType
<1>5. T = [ vectors     |-> [S.vectors     EXCEPT ![i]       = @ \cup {k[1]}],
            headCount   |-> [S.headCount   EXCEPT ![i]       = @ + added],
            vectorCount |-> [S.vectorCount EXCEPT ![i][k[1]] = @ + added],
            terminal    |-> [S.terminal    EXCEPT ![i][slot] = t],
            nodes       |-> [S.nodes       EXCEPT ![t]       = @ \cup {k[3]}],
            refcount    |-> [S.refcount    EXCEPT ![t]       = @ + new] ]
  BY DEF AddTripleTerminal
<1>6. AddTripleTerminal(S, i, x).terminal = t
  BY DEF AddTripleTerminal
<1> HIDE DEF k, slot, t, added, new, T
<1>7. [S.vectors EXCEPT ![i] = @ \cup {k[1]}] \in [Order -> SUBSET Node]
  BY <1>1 DEF Store
<1>8. [S.headCount EXCEPT ![i] = @ + added] \in [Order -> Int]
  BY <1>4 DEF Store
<1>9. [S.vectorCount EXCEPT ![i][k[1]] = @ + added] \in [Order -> [Node -> Int]]
  BY <1>1, <1>4 DEF Store
<1>10. [S.terminal EXCEPT ![i][slot] = t] \in [Order -> [Slot -> Terminal \cup {NULL}]]
  BY <1>2, <1>3 DEF Store
<1>11. [S.nodes EXCEPT ![t] = @ \cup {k[3]}] \in [Terminal -> SUBSET Node]
  BY <1>1, <1>3 DEF Store
<1>12. [S.refcount EXCEPT ![t] = @ + new] \in [Terminal -> Int]
  BY <1>3, <1>4 DEF Store
<1>13. T \in Store
  BY <1>5, <1>7, <1>8, <1>9, <1>10, <1>11, <1>12 DEF Store
<1> QED
  BY <1>3, <1>6, <1>13 DEF T

LEMMA AddWithTerminalType ==
  ASSUME NEW S \in Store, NEW i \in Order, NEW t \in Terminal, NEW x \in Triple, NEW b
  PROVE  AddTripleWithTerminal(S, i, t, x, b) \in Store
<1> DEFINE k     == IndexOrdered(i, x)
           slot  == <<k[1], k[2]>>
           isNew == S.terminal[i][slot] = NULL
           held  == IF isNew THEN t ELSE S.terminal[i][slot]
           added == One(b)
           new   == One(isNew)
           T     == AddTripleWithTerminal(S, i, t, x, b)
<1>1. k[1] \in Node /\ k[2] \in Node
  BY OrderedType
<1>2. slot \in Slot
  BY <1>1 DEF Slot
<1>3. held \in Terminal
  BY <1>2 DEF Store
<1>4. added \in Int /\ new \in Int
  BY OneType
<1>5. T = [ vectors     |-> [S.vectors     EXCEPT ![i]       = @ \cup {k[1]}],
            headCount   |-> [S.headCount   EXCEPT ![i]       = @ + added],
            vectorCount |-> [S.vectorCount EXCEPT ![i][k[1]] = @ + added],
            terminal    |-> [S.terminal    EXCEPT ![i][slot] = held],
            nodes       |-> S.nodes,
            refcount    |-> [S.refcount    EXCEPT ![t]       = @ + new] ]
  BY DEF AddTripleWithTerminal
<1> HIDE DEF k, slot, held, added, new, T
<1>6. [S.vectors EXCEPT ![i] = @ \cup {k[1]}] \in [Order -> SUBSET Node]
  BY <1>1 DEF Store
<1>7. [S.headCount EXCEPT ![i] = @ + added] \in [Order -> Int]
  BY <1>4 DEF Store
<1>8. [S.vectorCount EXCEPT ![i][k[1]] = @ + added] \in [Order -> [Node -> Int]]
  BY <1>1, <1>4 DEF Store
<1>9. [S.terminal EXCEPT ![i][slot] = held] \in [Order -> [Slot -> Terminal \cup {NULL}]]
  BY <1>2, <1>3 DEF Store
<1>10. [S.refcount EXCEPT ![t] = @ + new] \in [Terminal -> Int]
  BY <1>4 DEF Store
<1> QED
  BY <1>5, <1>6, <1>7, <1>8, <1>9, <1>10 DEF T, Store

LEMMA IndexRemoveTripleType ==
  ASSUME NEW S \in Store, NEW i \in Order, NEW x \in Triple
  PROVE  IndexRemoveTriple(S, i, x) \in Store
<1> DEFINE k       == IndexOrdered(i, x)
           slot    == <<k[1], k[2]>>
           t       == S.terminal[i][slot]
           removed == One(k[3] \in S.nodes[t])
           left    == S.nodes[t] \ {k[3]}
           emptied == left = {}
           gone    == One(emptied)
           last    == emptied /\ \A b \in Node \ {k[2]} : S.terminal[i][<<k[1], b>>] = NULL
           vectors == IF last THEN S.vectors[i] \ {k[1]} ELSE S.vectors[i]
           held    == IF emptied THEN NULL ELSE S.terminal[i][slot]
           count   == IF last THEN 0 ELSE S.vectorCount[i][k[1]] - removed
           T       == IndexRemoveTriple(S, i, x)
<1>1. CASE k[1] \notin S.vectors[i] \/ t = NULL
  BY <1>1, Zenon DEF IndexRemoveTriple
<1>2. CASE ~(k[1] \notin S.vectors[i] \/ t = NULL)
  <2>1. k[1] \in Node /\ k[2] \in Node
    BY OrderedType
  <2>2. slot \in Slot
    BY <2>1 DEF Slot
  <2>3. t \in Terminal
    BY <1>2, <2>2 DEF Store
  <2>4. removed \in Int /\ gone \in Int
    BY OneType
  <2>5. T = [ vectors     |-> [S.vectors     EXCEPT ![i] = vectors],
              headCount   |-> [S.headCount   EXCEPT ![i] = @ - removed],
              vectorCount |-> [S.vectorCount EXCEPT ![i][k[1]] = count],
              terminal    |-> [S.terminal    EXCEPT ![i][slot] = held],
              nodes       |-> [S.nodes       EXCEPT ![t] = left],
              refcount    |-> [S.refcount    EXCEPT ![t] = @ - gone] ]
    BY <1>2 DEF IndexRemoveTriple
  <2>6. vectors \in SUBSET Node
    BY DEF Store
  <2>7. held \in Terminal \cup {NULL}
    BY <2>2 DEF Store
  <2>8. left \in SUBSET Node
    BY <2>3 DEF Store
  <2>9. count \in Int
    <3>1. S.vectorCount[i][k[1]] \in Int
      BY <2>1 DEF Store
    <3> HIDE DEF k, removed, last
    <3> QED  BY <2>4, <3>1
  <2> HIDE DEF k, slot, t, removed, left, gone, vectors, held, count, T
  <2>10. [S.vectors EXCEPT ![i] = vectors] \in [Order -> SUBSET Node]
    BY <2>6 DEF Store
  <2>11. [S.headCount EXCEPT ![i] = @ - removed] \in [Order -> Int]
    BY <2>4 DEF Store
  <2>12. [S.vectorCount EXCEPT ![i][k[1]] = count] \in [Order -> [Node -> Int]]
    BY <2>1, <2>9 DEF Store
  <2>13. [S.terminal EXCEPT ![i][slot] = held] \in [Order -> [Slot -> Terminal \cup {NULL}]]
    BY <2>2, <2>7 DEF Store
  <2>14. [S.nodes EXCEPT ![t] = left] \in [Terminal -> SUBSET Node]
    BY <2>3, <2>8 DEF Store
  <2>15. [S.refcount EXCEPT ![t] = @ - gone] \in [Terminal -> Int]
    BY <2>3, <2>4 DEF Store
  <2>16. T \in Store
    BY <2>5, <2>10, <2>11, <2>12, <2>13, <2>14, <2>15 DEF Store
  <2> QED  BY <2>16 DEF T
<1> QED  BY <1>1, <1>2, SMTT(30)

LEMMA AddPairType ==
  ASSUME NEW S \in Store, NEW i \in Order, NEW j \in Order, NEW x \in Triple
  PROVE  AddPair(S, i, j, x) \in Store
<1> DEFINE r == AddTripleTerminal(S, i, x)
           T == IF i \in Indexes THEN AddTriple1(S, i, x) ELSE S
<1>1. r.store \in Store /\ r.terminal \in Terminal
  BY AddTripleTerminalType
<1>2. AddTripleWithTerminal(r.store, j, r.terminal, x, r.added) \in Store
  BY <1>1, AddWithTerminalType
<1>3. T \in Store
  BY <1>1 DEF AddTriple1
<1>4. AddTriple1(T, j, x) \in Store
  BY <1>3, AddTripleTerminalType DEF AddTriple1
<1> QED
  BY <1>2, <1>3, <1>4 DEF AddPair

LEMMA AddTripleIdType ==
  ASSUME NEW S \in Store, NEW x \in Triple
  PROVE  AddTripleId(S, x) \in Store
<1>1. AddPair(S, "spo", "pso", x) \in Store
  BY AddPairType DEF Order
<1>2. AddPair(AddPair(S, "spo", "pso", x), "osp", "sop", x) \in Store
  BY <1>1, AddPairType DEF Order
<1> QED
  BY <1>2, AddPairType DEF AddTripleId, Order

LEMMA RemoveFromType ==
  ASSUME NEW S \in Store, NEW i \in Order, NEW x \in Triple
  PROVE  RemoveFrom(S, i, x) \in Store
BY IndexRemoveTripleType DEF RemoveFrom

LEMMA RemoveTripleFromAllType ==
  ASSUME NEW S \in Store, NEW x \in Triple
  PROVE  RemoveTripleFromAll(S, x) \in Store
<1> DEFINE s1 == RemoveFrom(S,  "spo", x)
           s2 == RemoveFrom(s1, "sop", x)
           s3 == RemoveFrom(s2, "pso", x)
           s4 == RemoveFrom(s3, "pos", x)
           s5 == RemoveFrom(s4, "osp", x)
<1>1. s1 \in Store  BY RemoveFromType DEF Order
<1>2. s2 \in Store  BY <1>1, RemoveFromType DEF Order
<1>3. s3 \in Store  BY <1>2, RemoveFromType DEF Order
<1>4. s4 \in Store  BY <1>3, RemoveFromType DEF Order
<1>5. s5 \in Store  BY <1>4, RemoveFromType DEF Order
<1> HIDE DEF s5
<1>6. RemoveFrom(s5, "ops", x) \in Store
  BY <1>5, RemoveFromType DEF Order
<1> QED
  BY <1>6 DEF RemoveTripleFromAll, s5

\* The variables keep their types: in particular an index only ever holds
\* terminals that were allocated for a slot of one of the indexes.
THEOREM TypeCorrect == Spec => []TypeOK
<1>1. Init => TypeOK
  BY DEF Init, TypeOK, Store
<1>2. TypeOK /\ [Next]_vars => TypeOK'
  <2> SUFFICES ASSUME TypeOK, [Next]_vars PROVE TypeOK'
    OBVIOUS
  <2>1. ASSUME NEW x \in Triple, AddTriple(x) PROVE TypeOK'
    <3>1. hx' \in Store
      BY <2>1, AddTripleIdType DEF AddTriple, TypeOK
    <3>2. known' \subseteq Node
      BY <2>1 DEF AddTriple, TypeOK, Triple
    <3> QED  BY <3>1, <3>2 DEF TypeOK
  <2>2. ASSUME NEW x \in Triple, RemoveTriple(x) PROVE TypeOK'
    BY <2>2, RemoveTripleFromAllType DEF RemoveTriple, TypeOK
  <2>3. CASE UNCHANGED vars
    BY <2>3 DEF vars, TypeOK
  <2> QED
    BY <2>1, <2>2, <2>3 DEF Next
<1> QED
  BY <1>1, <1>2, PTL DEF Spec

-----------------------------------------------------------------------------
(* Orders.                                                                 *)

\* The triple that has the positions a, b, c in the order of index i.
TripleOf(i, a, b, c) ==
  CASE i = "spo" -> <<a, b, c>> [] i = "sop" -> <<a, c, b>>
    [] i = "pso" -> <<b, a, c>> [] i = "pos" -> <<c, a, b>>
    [] i = "osp" -> <<b, c, a>> [] i = "ops" -> <<c, b, a>>

\* The nodes of T's triples at the third position after a and b.
Third(T, i, a, b) == {c \in Node : TripleOf(i, a, b, c) \in T}

LEMMA PartnerFacts ==
  ASSUME NEW i \in Order
  PROVE  Partner(i) \in Order /\ Partner(i) # i /\ Partner(Partner(i)) = i
BY DEF Order, Partner

LEMMA TripleOfFacts ==
  ASSUME NEW i \in Order, NEW a \in Node, NEW b \in Node, NEW c \in Node
  PROVE  /\ TripleOf(i, a, b, c) \in Triple
         /\ IndexOrdered(i, TripleOf(i, a, b, c)) = <<a, b, c>>
         /\ TripleOf(Partner(i), b, a, c) = TripleOf(i, a, b, c)
BY DEF Order, Partner, TripleOf, IndexOrdered, Triple

LEMMA TripleOfOrdered ==
  ASSUME NEW i \in Order, NEW x \in Triple
  PROVE  TripleOf(i, IndexOrdered(i, x)[1], IndexOrdered(i, x)[2], IndexOrdered(i, x)[3]) = x
BY DEF Order, TripleOf, IndexOrdered, Triple

LEMMA TripleOfIs ==
  ASSUME NEW i \in Order, NEW x \in Triple, NEW a \in Node, NEW b \in Node, NEW c \in Node
  PROVE  TripleOf(i, a, b, c) = x
           <=> /\ a = IndexOrdered(i, x)[1]
               /\ b = IndexOrdered(i, x)[2]
               /\ c = IndexOrdered(i, x)[3]
BY TripleOfFacts, TripleOfOrdered

LEMMA OrderedPartner ==
  ASSUME NEW i \in Order, NEW x \in Triple
  PROVE  /\ IndexOrdered(Partner(i), x)[1] = IndexOrdered(i, x)[2]
         /\ IndexOrdered(Partner(i), x)[2] = IndexOrdered(i, x)[1]
         /\ IndexOrdered(Partner(i), x)[3] = IndexOrdered(i, x)[3]
BY DEF Order, Partner, IndexOrdered

LEMMA ThirdPartner ==
  ASSUME NEW T, NEW i \in Order, NEW a \in Node, NEW b \in Node
  PROVE  Third(T, Partner(i), b, a) = Third(T, i, a, b)
BY TripleOfFacts DEF Third

LEMMA ThirdAdd ==
  ASSUME NEW T, NEW x \in Triple, NEW U, U = T \cup {x},
         NEW i \in Order, NEW a \in Node, NEW b \in Node
  PROVE  IF a = IndexOrdered(i, x)[1] /\ b = IndexOrdered(i, x)[2]
         THEN \A c : c \in Third(U, i, a, b)
                      <=> c \in Third(T, i, a, b) \/ c = IndexOrdered(i, x)[3]
         ELSE Third(U, i, a, b) = Third(T, i, a, b)
BY TripleOfIs, OrderedType DEF Third

\* Only the slot of the added triple gets another node, and is not empty then.
LEMMA ThirdAddSlots ==
  ASSUME NEW T, NEW x \in Triple, NEW i \in Order
  PROVE  LET k == IndexOrdered(i, x)
         IN  /\ Third(T \cup {x}, i, k[1], k[2]) # {}
             /\ \A d, e \in Node : ~(d = k[1] /\ e = k[2])
                  => Third(T \cup {x}, i, d, e) = Third(T, i, d, e)
<1> DEFINE U == T \cup {x}
           k == IndexOrdered(i, x)
<1>1. k[1] \in Node /\ k[2] \in Node /\ k[3] \in Node
  BY OrderedType
<1>2. U = T \cup {x}
  OBVIOUS
<1> HIDE DEF U
<1>3. k[3] \in Third(U, i, k[1], k[2])
  BY <1>1, <1>2, ThirdAdd
<1>4. ASSUME NEW d \in Node, NEW e \in Node, ~(d = k[1] /\ e = k[2])
      PROVE  Third(U, i, d, e) = Third(T, i, d, e)
  BY <1>2, <1>4, ThirdAdd
<1> QED  BY <1>3, <1>4 DEF U

LEMMA ThirdRemove ==
  ASSUME NEW T, NEW x \in Triple, NEW i \in Order, NEW a \in Node, NEW b \in Node
  PROVE  Third(T \ {x}, i, a, b) =
           IF a = IndexOrdered(i, x)[1] /\ b = IndexOrdered(i, x)[2]
           THEN Third(T, i, a, b) \ {IndexOrdered(i, x)[3]} ELSE Third(T, i, a, b)
BY TripleOfIs, OrderedType DEF Third

-----------------------------------------------------------------------------
(* Terminals.                                                              *)

\* The indexes that allocate terminals: the first of each pair, and an index
\* without its partner.
Allocates(i) == i \in {"spo", "osp", "pos"} \/ Partner(i) \notin Indexes

\* The terminal that a slot holds, when it holds one.
Home(i, a, b) == IF Allocates(i) THEN <<i, a, b>> ELSE <<Partner(i), b, a>>

LEMMA HomeType ==
  ASSUME NEW i \in Order, NEW a \in Node, NEW b \in Node
  PROVE  Home(i, a, b) \in Terminal
BY PartnerFacts DEF Home, Terminal

LEMMA HomePartner ==
  ASSUME NEW i \in Indexes, Partner(i) \in Indexes, NEW a, NEW b
  PROVE  Home(Partner(i), b, a) = Home(i, a, b)
BY IndexesAssumption DEF Home, Allocates, Order, Partner

LEMMA HomeInjective ==
  ASSUME NEW i \in Indexes, NEW j \in Indexes,
         NEW a, NEW b, NEW c, NEW d, Home(i, a, b) = Home(j, c, d)
  PROVE  \/ j = i /\ c = a /\ d = b
         \/ j = Partner(i) /\ c = b /\ d = a
BY IndexesAssumption, PartnerFacts DEF Home, Allocates, Order, Partner

-----------------------------------------------------------------------------
(* What an index looks like when it shows the triples of T.                *)

NodesAre(S, i, T) ==
  \A a, b \in Node : S.nodes[Home(i, a, b)] = Third(T, i, a, b)

PointersAre(S, i, T) ==
  /\ \A a, b \in Node : S.terminal[i][<<a, b>>] =
                          IF Third(T, i, a, b) = {} THEN NULL ELSE Home(i, a, b)
  /\ S.vectors[i] = {a \in Node : \E b \in Node : Third(T, i, a, b) # {}}

\* The indexes of P have been changed from T to U, the others not yet.  The
\* partner of an index in P has the nodes of U in the terminals it shares.
Mid(S, P, T, U) ==
  \A j \in Indexes :
    /\ NodesAre(S, j, IF j \in P \/ Partner(j) \in P \cap Indexes THEN U ELSE T)
    /\ PointersAre(S, j, IF j \in P THEN U ELSE T)

\* R is S but for index i and for one of its terminals.
OnlyAt(S, R, i, a, b) ==
  /\ \A t \in Terminal : t # Home(i, a, b) => R.nodes[t] = S.nodes[t]
  /\ \A j \in Indexes : j # i => /\ R.terminal[j] = S.terminal[j]
                                 /\ R.vectors[j] = S.vectors[j]

LEMMA StepMid ==
  ASSUME NEW S, NEW R, NEW P, NEW T, NEW U, NEW i \in Indexes,
         NEW a \in Node, NEW b \in Node,
         Mid(S, P, T, U), OnlyAt(S, R, i, a, b),
         NodesAre(R, i, U), PointersAre(R, i, U)
  PROVE  Mid(R, P \cup {i}, T, U)
<1> DEFINE Q == P \cup {i}
<1> SUFFICES ASSUME NEW j \in Indexes
             PROVE  /\ NodesAre(R, j, IF j \in Q \/ Partner(j) \in Q \cap Indexes
                                      THEN U ELSE T)
                    /\ PointersAre(R, j, IF j \in Q THEN U ELSE T)
  BY DEF Mid
<1>1. i \in Order /\ j \in Order
  BY IndexesAssumption
<1>2. CASE j = i
  BY <1>2
<1>3. ASSUME j # i PROVE PointersAre(R, j, IF j \in P THEN U ELSE T)
  <2>1. PointersAre(S, j, IF j \in P THEN U ELSE T)
    BY DEF Mid
  <2>2. R.terminal[j] = S.terminal[j] /\ R.vectors[j] = S.vectors[j]
    BY <1>3 DEF OnlyAt
  <2> QED  BY <2>1, <2>2 DEF PointersAre
<1>4. CASE j # i /\ j = Partner(i)
  <2>1. Partner(j) = i
    BY <1>1, <1>4, PartnerFacts
  <2>2. NodesAre(R, j, U)
    <3> SUFFICES ASSUME NEW c \in Node, NEW d \in Node
                 PROVE  R.nodes[Home(j, c, d)] = Third(U, j, c, d)
      BY DEF NodesAre
    <3>1. Home(j, c, d) = Home(i, d, c)
      BY <1>4, HomePartner
    <3>2. Third(U, j, c, d) = Third(U, i, d, c)
      BY <1>1, <1>4, ThirdPartner
    <3> QED  BY <3>1, <3>2 DEF NodesAre
  <2>3. PointersAre(R, j, IF j \in P THEN U ELSE T)
    BY <1>4, <1>3
  <2> QED  BY <1>4, <2>1, <2>2, <2>3
<1>5. CASE j # i /\ j # Partner(i)
  <2>1. Partner(j) # i
    BY <1>1, <1>5, PartnerFacts
  <2>2. ASSUME NEW X, NodesAre(S, j, X) PROVE NodesAre(R, j, X)
    <3> SUFFICES ASSUME NEW c \in Node, NEW d \in Node
                 PROVE  R.nodes[Home(j, c, d)] = Third(X, j, c, d)
      BY DEF NodesAre
    <3>1. Home(j, c, d) # Home(i, a, b)
      BY <1>5, HomeInjective
    <3>2. Home(j, c, d) \in Terminal
      BY <1>1, HomeType
    <3> QED  BY <2>2, <3>1, <3>2 DEF OnlyAt, NodesAre
  <2>3. PointersAre(R, j, IF j \in P THEN U ELSE T)
    BY <1>5, <1>3
  <2> QED  BY <1>5, <2>1, <2>2, <2>3 DEF Mid
<1> QED  BY <1>2, <1>4, <1>5

LEMMA AbsentMid ==
  ASSUME NEW S, NEW P, NEW T, NEW U, NEW i \in Order, i \notin Indexes, Mid(S, P, T, U)
  PROVE  Mid(S, P \cup {i}, T, U)
<1> SUFFICES ASSUME NEW j \in Indexes
             PROVE  /\ j \in P \cup {i} <=> j \in P
                    /\ Partner(j) \in (P \cup {i}) \cap Indexes
                         <=> Partner(j) \in P \cap Indexes
  BY DEF Mid
<1> QED  OBVIOUS

-----------------------------------------------------------------------------
(* Removal.                                                                *)

LEMMA RemoveEffect ==
  ASSUME NEW S \in Store, NEW i \in Indexes, NEW x \in Triple, NEW T,
         PointersAre(S, i, T), NodesAre(S, i, T) \/ NodesAre(S, i, T \ {x})
  PROVE  LET R == IndexRemoveTriple(S, i, x)
         IN  /\ NodesAre(R, i, T \ {x})
             /\ PointersAre(R, i, T \ {x})
             /\ OnlyAt(S, R, i, IndexOrdered(i, x)[1], IndexOrdered(i, x)[2])
<1> DEFINE k == IndexOrdered(i, x)
           a == k[1]
           b == k[2]
           c == k[3]
           U == T \ {x}
           h == Home(i, a, b)
           R == IndexRemoveTriple(S, i, x)
           left == Third(U, i, a, b)
<1>1. i \in Order
  BY IndexesAssumption
<1>2. a \in Node /\ b \in Node /\ c \in Node
  BY <1>1, OrderedType
<1>3. h \in Terminal /\ h # NULL
  BY <1>1, <1>2, HomeType, NullAssumption
<1>4. \A d, e \in Node : Third(U, i, d, e) =
        IF d = a /\ e = b THEN Third(T, i, d, e) \ {c} ELSE Third(T, i, d, e)
  BY <1>1, ThirdRemove
<1>5. S.terminal[i][<<a, b>>] = IF Third(T, i, a, b) = {} THEN NULL ELSE h
  BY <1>2 DEF PointersAre
<1>6. S.nodes[h] \ {c} = left
  <2>1. S.nodes[h] \in {Third(T, i, a, b), Third(U, i, a, b)}
    BY <1>2 DEF NodesAre
  <2>2. Third(U, i, a, b) = Third(T, i, a, b) \ {c}
    BY <1>2, <1>4
  <2> QED  BY <2>1, <2>2
<1>7. S.vectors[i] = {d \in Node : \E e \in Node : Third(T, i, d, e) # {}}
  BY DEF PointersAre
<1>8. ASSUME NEW d \in Node, NEW e \in Node, d # a \/ e # b
      PROVE  S.nodes[Home(i, d, e)] = Third(U, i, d, e)
  <2>1. Third(U, i, d, e) = Third(T, i, d, e)
    BY <1>4, <1>8
  <2>2. S.nodes[Home(i, d, e)] \in {Third(T, i, d, e), Third(U, i, d, e)}
    BY SMTT(30) DEF NodesAre
  <2> QED  BY <2>1, <2>2
<1>9. CASE a \notin S.vectors[i] \/ S.terminal[i][<<a, b>>] = NULL
  <2>1. R = S
    BY <1>9 DEF IndexRemoveTriple
  <2>2. Third(T, i, a, b) = {}
    BY <1>2, <1>3, <1>5, <1>7, <1>9
  <2>3. \A d, e \in Node : Third(U, i, d, e) = Third(T, i, d, e)
    BY <1>4, <2>2
  <2>4. NodesAre(S, i, U)
    BY <2>3 DEF NodesAre
  <2>5. PointersAre(S, i, U)
    <3>1. {d \in Node : \E e \in Node : Third(U, i, d, e) # {}} = S.vectors[i]
      BY <1>7, <2>3
    <3>2. \A d, e \in Node : S.terminal[i][<<d, e>>] =
                               IF Third(T, i, d, e) = {} THEN NULL ELSE Home(i, d, e)
      BY DEF PointersAre
    <3>3. \A d, e \in Node : S.terminal[i][<<d, e>>] =
                               IF Third(U, i, d, e) = {} THEN NULL ELSE Home(i, d, e)
      BY <2>3, <3>2
    <3> QED  BY <3>1, <3>3 DEF PointersAre
  <2> QED  BY <2>1, <2>4, <2>5 DEF OnlyAt
<1>10. CASE ~(a \notin S.vectors[i] \/ S.terminal[i][<<a, b>>] = NULL)
  <2> DEFINE last == left = {} /\ \A e \in Node \ {b} : S.terminal[i][<<a, e>>] = NULL
  <2>1. S.terminal[i][<<a, b>>] = h
    BY <1>5, <1>10
  <2>2. /\ R.nodes = [S.nodes EXCEPT ![h] = left]
        /\ R.terminal = [S.terminal EXCEPT ![i][<<a, b>>] = IF left = {} THEN NULL ELSE @]
        /\ R.vectors = [S.vectors EXCEPT ![i] = IF last THEN @ \ {a} ELSE @]
    BY <1>6, <1>10, <2>1 DEF IndexRemoveTriple
  <2> HIDE DEF k, a, b, c, h, left, R
  <2>3. NodesAre(R, i, U)
    <3> SUFFICES ASSUME NEW d \in Node, NEW e \in Node
                 PROVE  R.nodes[Home(i, d, e)] = Third(U, i, d, e)
      BY DEF NodesAre
    <3>1. CASE d = a /\ e = b
      BY <1>3, <2>2, <3>1 DEF h, left, Store
    <3>2. CASE ~(d = a /\ e = b)
      <4>1. Home(i, d, e) # h
        BY <1>1, <3>2, HomeInjective, PartnerFacts DEF h
      <4>2. Home(i, d, e) \in Terminal
        BY <1>1, HomeType
      <4> QED  BY <1>8, <2>2, <3>2, <4>1, <4>2, ZenonT(60) DEF Store
    <3> QED  BY <3>1, <3>2
  <2>4. ASSUME NEW d \in Node, NEW e \in Node
        PROVE  R.terminal[i][<<d, e>>] =
                 IF Third(U, i, d, e) = {} THEN NULL ELSE Home(i, d, e)
    <3>1. <<d, e>> \in Slot /\ <<a, b>> \in Slot
      BY <1>2 DEF Slot
    <3>2. CASE d = a /\ e = b
      <4>1. R.terminal[i][<<a, b>>] = IF left = {} THEN NULL ELSE h
        BY <1>1, <2>1, <2>2, <3>1 DEF Store
      <4> QED  BY <3>2, <4>1 DEF h, left
    <3>3. CASE ~(d = a /\ e = b)
      <4>1. R.terminal[i][<<d, e>>] = S.terminal[i][<<d, e>>]
        BY <1>1, <2>2, <3>1, <3>3 DEF Store
      <4>2. S.terminal[i][<<d, e>>] =
              IF Third(T, i, d, e) = {} THEN NULL ELSE Home(i, d, e)
        BY DEF PointersAre
      <4>3. Third(U, i, d, e) = Third(T, i, d, e)
        BY <1>4, <3>3
      <4> HIDE DEF U
      <4> QED  BY <4>1, <4>2, <4>3
    <3> QED  BY <3>2, <3>3
  <2>5. R.vectors[i] = {d \in Node : \E e \in Node : Third(U, i, d, e) # {}}
    <3>1. R.vectors[i] = IF last THEN S.vectors[i] \ {a} ELSE S.vectors[i]
      BY <1>1, <2>2 DEF Store
    <3>2. \A e \in Node \ {b} : S.terminal[i][<<a, e>>] = NULL <=> Third(U, i, a, e) = {}
      <4> SUFFICES ASSUME NEW e \in Node \ {b}
                   PROVE  S.terminal[i][<<a, e>>] = NULL <=> Third(U, i, a, e) = {}
        OBVIOUS
      <4>1. Third(U, i, a, e) = Third(T, i, a, e)
        BY <1>2, <1>4
      <4>2. Home(i, a, e) # NULL
        BY <1>1, <1>2, HomeType, NullAssumption
      <4> QED  BY <1>2, <4>1, <4>2 DEF PointersAre
    <3>3. last <=> \A e \in Node : Third(U, i, a, e) = {}
      BY <1>2, <3>2 DEF left
    <3>4. \A d \in Node \ {a}, e \in Node : Third(U, i, d, e) = Third(T, i, d, e)
      BY <1>4
    <3>5. a \in S.vectors[i]
      BY <1>10
    <3> HIDE DEF last
    <3> QED  BY <1>2, <1>7, <3>1, <3>3, <3>4, <3>5, ZenonT(60)
  <2>6. OnlyAt(S, R, i, a, b)
    BY <1>1, <1>3, <2>2, IndexesAssumption DEF OnlyAt, Store, h
  <2> QED  BY <2>3, <2>4, <2>5, <2>6 DEF PointersAre, R, a, b, k
<1> QED  BY <1>9, <1>10

LEMMA RemoveFromMid ==
  ASSUME NEW S \in Store, NEW P, NEW T, NEW i \in Order, i \notin P, NEW x \in Triple,
         Mid(S, P, T, T \ {x})
  PROVE  Mid(RemoveFrom(S, i, x), P \cup {i}, T, T \ {x})
<1> DEFINE U == T \ {x}
<1>1. CASE i \in Indexes
  <2>1. PointersAre(S, i, T) /\ (NodesAre(S, i, T) \/ NodesAre(S, i, U))
    BY <1>1 DEF Mid
  <2> QED
    BY <1>1, <2>1, RemoveEffect, StepMid, OrderedType DEF RemoveFrom
<1>2. CASE i \notin Indexes
  BY <1>2, AbsentMid DEF RemoveFrom
<1> QED  BY <1>1, <1>2

-----------------------------------------------------------------------------
(* Addition.                                                               *)

\* What both ways of adding a triple to an index do to its slots.
LEMMA PointersAdded ==
  ASSUME NEW S \in Store, NEW R, NEW i \in Indexes, NEW T, NEW U,
         NEW a \in Node, NEW b \in Node, NEW h, h = Home(i, a, b),
         R.terminal = [S.terminal EXCEPT ![i][<<a, b>>] = h],
         R.vectors = [S.vectors EXCEPT ![i] = @ \cup {a}],
         PointersAre(S, i, T),
         Third(U, i, a, b) # {},
         \A d, e \in Node : ~(d = a /\ e = b) => Third(U, i, d, e) = Third(T, i, d, e)
  PROVE  /\ PointersAre(R, i, U)
         /\ \A j \in Indexes : j # i => /\ R.terminal[j] = S.terminal[j]
                                        /\ R.vectors[j] = S.vectors[j]
<1>1. i \in Order
  BY IndexesAssumption
<1>2. ASSUME NEW d \in Node, NEW e \in Node
      PROVE  R.terminal[i][<<d, e>>] =
               IF Third(U, i, d, e) = {} THEN NULL ELSE Home(i, d, e)
  <2>1. <<d, e>> \in Slot /\ <<a, b>> \in Slot
    BY DEF Slot
  <2>2. CASE d = a /\ e = b
    <3>1. R.terminal[i][<<a, b>>] = h
      BY <1>1, <2>1 DEF Store
    <3> QED  BY <2>2, <3>1
  <2>3. CASE ~(d = a /\ e = b)
    <3>1. R.terminal[i][<<d, e>>] = S.terminal[i][<<d, e>>]
      <4>1. R.terminal[i] = [S.terminal[i] EXCEPT ![<<a, b>>] = h]
        BY <1>1 DEF Store
      <4>2. <<d, e>> # <<a, b>>
        BY <2>3
      <4>3. S.terminal[i] \in [Slot -> Terminal \cup {NULL}]
        BY <1>1 DEF Store
      <4> QED  BY <2>1, <4>1, <4>2, <4>3
    <3>2. S.terminal[i][<<d, e>>] =
            IF Third(T, i, d, e) = {} THEN NULL ELSE Home(i, d, e)
      BY DEF PointersAre
    <3>3. Third(U, i, d, e) = Third(T, i, d, e)
      BY <2>3
    <3> QED  BY <3>1, <3>2, <3>3
  <2> QED  BY <2>2, <2>3
<1>3. R.vectors[i] = {d \in Node : \E e \in Node : Third(U, i, d, e) # {}}
  <2>1. R.vectors[i] = S.vectors[i] \cup {a}
    BY <1>1 DEF Store
  <2>2. S.vectors[i] = {d \in Node : \E e \in Node : Third(T, i, d, e) # {}}
    BY DEF PointersAre
  <2> QED  BY <2>1, <2>2
<1>4. ASSUME NEW j \in Indexes, j # i
      PROVE  R.terminal[j] = S.terminal[j] /\ R.vectors[j] = S.vectors[j]
  BY <1>1, <1>4, IndexesAssumption DEF Store
<1> QED  BY <1>2, <1>3, <1>4 DEF PointersAre

LEMMA AddEffect ==
  ASSUME NEW S \in Store, NEW i \in Indexes, Allocates(i), NEW x \in Triple, NEW T,
         PointersAre(S, i, T), NodesAre(S, i, T)
  PROVE  LET r == AddTripleTerminal(S, i, x)
             k == IndexOrdered(i, x)
         IN  /\ r.terminal = Home(i, k[1], k[2])
             /\ NodesAre(r.store, i, T \cup {x})
             /\ PointersAre(r.store, i, T \cup {x})
             /\ OnlyAt(S, r.store, i, k[1], k[2])
<1> DEFINE k == IndexOrdered(i, x)
           a == k[1]
           b == k[2]
           c == k[3]
           U == T \cup {x}
           h == Home(i, a, b)
           r == AddTripleTerminal(S, i, x)
           R == r.store
<1>1. i \in Order
  BY IndexesAssumption
<1>2. a \in Node /\ b \in Node /\ c \in Node
  BY <1>1, OrderedType
<1>3. h \in Terminal /\ h = <<i, a, b>>
  BY <1>1, <1>2, HomeType, Zenon DEF Home
<1>4. S.terminal[i][<<a, b>>] \in {NULL, h}
  BY <1>2 DEF PointersAre
<1>5. r.terminal = h
  BY <1>3, <1>4 DEF AddTripleTerminal
<1>6. /\ R.nodes = [S.nodes EXCEPT ![h] = @ \cup {c}]
      /\ R.terminal = [S.terminal EXCEPT ![i][<<a, b>>] = h]
      /\ R.vectors = [S.vectors EXCEPT ![i] = @ \cup {a}]
  BY <1>3, <1>4, Zenon DEF AddTripleTerminal
<1>7. /\ PointersAre(R, i, U)
      /\ \A j \in Indexes : j # i => /\ R.terminal[j] = S.terminal[j]
                                     /\ R.vectors[j] = S.vectors[j]
  <2>1. h = Home(i, a, b)
    OBVIOUS
  <2>2. /\ Third(U, i, a, b) # {}
        /\ \A d, e \in Node : ~(d = a /\ e = b) => Third(U, i, d, e) = Third(T, i, d, e)
    BY <1>1, ThirdAddSlots
  <2> HIDE DEF a, b, h, r, R, U
  <2> QED  BY <1>2, <1>6, <2>1, <2>2, PointersAdded
<1>8. NodesAre(R, i, U)
  <2> SUFFICES ASSUME NEW d \in Node, NEW e \in Node
               PROVE  R.nodes[Home(i, d, e)] = Third(U, i, d, e)
    BY DEF NodesAre
  <2>1. S.nodes[Home(i, d, e)] = Third(T, i, d, e)
    BY DEF NodesAre
  <2>2. IF d = a /\ e = b
        THEN \A n : n \in Third(U, i, d, e) <=> n \in Third(T, i, d, e) \/ n = c
        ELSE Third(U, i, d, e) = Third(T, i, d, e)
    <3>1. U = T \cup {x}
      OBVIOUS
    <3> HIDE DEF U
    <3> QED  BY <1>1, <3>1, ThirdAdd
  <2>3. Home(i, d, e) \in Terminal /\ (Home(i, d, e) = h => d = a /\ e = b)
    BY <1>1, HomeType, HomeInjective, PartnerFacts
  <2>4. R.nodes[Home(i, d, e)] =
          IF Home(i, d, e) = h THEN S.nodes[h] \cup {c} ELSE S.nodes[Home(i, d, e)]
    <3> HIDE DEF a, b, c, r, R, U, h
    <3> QED  BY <1>3, <1>6, <2>3 DEF Store
  <2>5. CASE d = a /\ e = b
    <3>1. R.nodes[Home(i, d, e)] = Third(T, i, d, e) \cup {c}
      BY <2>1, <2>4, <2>5
    <3> HIDE DEF U, R
    <3> QED  BY <2>2, <2>5, <3>1
  <2>6. CASE ~(d = a /\ e = b)
    <3>1. Home(i, d, e) # h
      BY <2>3, <2>6
    <3> HIDE DEF U, R, h
    <3> QED  BY <2>1, <2>2, <2>4, <2>6, <3>1
  <2> QED  BY <2>5, <2>6
<1>9. OnlyAt(S, R, i, a, b)
  <2> HIDE DEF a, b, c, r, R, U
  <2> QED  BY <1>3, <1>6, <1>7 DEF OnlyAt, Store, h
<1> QED  BY <1>5, <1>7, <1>8, <1>9

LEMMA AddWithTerminalEffect ==
  ASSUME NEW S \in Store, NEW i \in Indexes, NEW x \in Triple, NEW T, NEW t, NEW added,
         t = Home(i, IndexOrdered(i, x)[1], IndexOrdered(i, x)[2]),
         PointersAre(S, i, T), NodesAre(S, i, T \cup {x})
  PROVE  LET R == AddTripleWithTerminal(S, i, t, x, added)
         IN  /\ NodesAre(R, i, T \cup {x})
             /\ PointersAre(R, i, T \cup {x})
             /\ OnlyAt(S, R, i, IndexOrdered(i, x)[1], IndexOrdered(i, x)[2])
<1> DEFINE k == IndexOrdered(i, x)
           a == k[1]
           b == k[2]
           U == T \cup {x}
           R == AddTripleWithTerminal(S, i, t, x, added)
<1>1. i \in Order /\ a \in Node /\ b \in Node
  BY OrderedType, IndexesAssumption
<1>2. S.terminal[i][<<a, b>>] \in {NULL, t}
  BY <1>1 DEF PointersAre
<1>3. /\ R.nodes = S.nodes
      /\ R.terminal = [S.terminal EXCEPT ![i][<<a, b>>] = t]
      /\ R.vectors = [S.vectors EXCEPT ![i] = @ \cup {a}]
  BY <1>2 DEF AddTripleWithTerminal
<1>4. /\ PointersAre(R, i, U)
      /\ \A j \in Indexes : j # i => /\ R.terminal[j] = S.terminal[j]
                                     /\ R.vectors[j] = S.vectors[j]
  <2>1. t = Home(i, a, b)
    OBVIOUS
  <2>2. /\ Third(U, i, a, b) # {}
        /\ \A d, e \in Node : ~(d = a /\ e = b) => Third(U, i, d, e) = Third(T, i, d, e)
    BY <1>1, ThirdAddSlots
  <2> HIDE DEF a, b, R, U
  <2> QED  BY <1>1, <1>3, <2>1, <2>2, PointersAdded
<1> QED  BY <1>3, <1>4 DEF NodesAre, OnlyAt

\* Adding to one index of a pair of which the other is not there.
LEMMA AddAloneMid ==
  ASSUME NEW S \in Store, NEW P, NEW T, NEW i \in Order, NEW x \in Triple,
         i \notin P, Partner(i) \notin Indexes, Mid(S, P, T, T \cup {x})
  PROVE  Mid(IF i \in Indexes THEN AddTriple1(S, i, x) ELSE S, P \cup {i}, T, T \cup {x})
<1>1. CASE i \in Indexes
  <2>1. PointersAre(S, i, T) /\ NodesAre(S, i, T)
    BY <1>1 DEF Mid
  <2>2. Allocates(i)
    BY DEF Allocates
  <2> QED
    BY <1>1, <2>1, <2>2, AddEffect, StepMid, OrderedType DEF AddTriple1
<1>2. CASE i \notin Indexes
  BY <1>2, AbsentMid
<1> QED  BY <1>1, <1>2

\* Adding to both indexes of a pair, through one terminal.
LEMMA AddSharedMid ==
  ASSUME NEW S \in Store, NEW P, NEW T, NEW i \in Indexes, NEW j, NEW x \in Triple,
         Allocates(i), j = Partner(i), j \in Indexes, i \notin P, j \notin P,
         Mid(S, P, T, T \cup {x})
  PROVE  LET r == AddTripleTerminal(S, i, x)
         IN  Mid(AddTripleWithTerminal(r.store, j, r.terminal, x, r.added),
                 P \cup {i, j}, T, T \cup {x})
<1> DEFINE r == AddTripleTerminal(S, i, x)
           k == IndexOrdered(i, x)
           l == IndexOrdered(j, x)
           U == T \cup {x}
           R == AddTripleWithTerminal(r.store, j, r.terminal, x, r.added)
<1>1. i \in Order /\ j \in Order /\ i # j /\ Partner(j) = i
  BY IndexesAssumption, PartnerFacts
<1>2. /\ k[1] \in Node /\ k[2] \in Node /\ l[1] \in Node /\ l[2] \in Node
      /\ l[1] = k[2] /\ l[2] = k[1]
  BY <1>1, OrderedType, OrderedPartner
<1>3. PointersAre(S, i, T) /\ NodesAre(S, i, T)
  BY <1>1 DEF Mid
<1>4. /\ r.terminal = Home(i, k[1], k[2])
      /\ NodesAre(r.store, i, U) /\ PointersAre(r.store, i, U)
      /\ OnlyAt(S, r.store, i, k[1], k[2])
  BY <1>3, AddEffect
<1>5. r.store \in Store /\ r.terminal \in Terminal
  BY <1>1, AddTripleTerminalType
<1> HIDE DEF r, U, k, l
<1>6. Mid(r.store, P \cup {i}, T, U)
  BY <1>2, <1>4, StepMid DEF U
<1>7. PointersAre(r.store, j, T) /\ NodesAre(r.store, j, U)
  BY <1>1, <1>6 DEF Mid
<1>8. r.terminal = Home(j, l[1], l[2])
  BY <1>1, <1>2, <1>4, HomePartner
<1>9. /\ NodesAre(R, j, U) /\ PointersAre(R, j, U)
      /\ OnlyAt(r.store, R, j, l[1], l[2])
  BY <1>5, <1>7, <1>8, AddWithTerminalEffect DEF U, l
<1> HIDE DEF R
<1>10. Mid(R, (P \cup {i}) \cup {j}, T, U)
  BY <1>2, <1>6, <1>9, StepMid
<1>11. (P \cup {i}) \cup {j} = P \cup {i, j}
  OBVIOUS
<1> QED  BY <1>10, <1>11 DEF R, U, r

LEMMA AddPairMid ==
  ASSUME NEW S \in Store, NEW P, NEW T, NEW i \in {"spo", "osp", "pos"}, NEW j,
         NEW x \in Triple, j = Partner(i), i \notin P, j \notin P,
         Mid(S, P, T, T \cup {x})
  PROVE  Mid(AddPair(S, i, j, x), P \cup {i, j}, T, T \cup {x})
<1>1. i \in Order /\ j \in Order /\ i # j /\ Partner(j) = i
  BY PartnerFacts DEF Order
<1>2. Allocates(i)
  BY DEF Allocates
<1>3. CASE i \in Indexes /\ j \in Indexes
  BY <1>2, <1>3, AddSharedMid DEF AddPair
<1>4. CASE ~(i \in Indexes /\ j \in Indexes)
  <2> DEFINE R == IF i \in Indexes THEN AddTriple1(S, i, x) ELSE S
             Q == IF j \in Indexes THEN AddTriple1(R, j, x) ELSE R
             U == T \cup {x}
  <2>1. AddPair(S, i, j, x) = Q
    BY <1>4 DEF AddPair
  <2>2. R \in Store
    BY <1>1, AddTripleTerminalType DEF AddTriple1
  <2>3. Mid(R, P \cup {i}, T, U)
    <3>1. CASE j \notin Indexes
      BY <1>1, <3>1, AddAloneMid
    <3>2. CASE j \in Indexes
      BY <1>1, <1>4, <3>2, AbsentMid
    <3> QED  BY <3>1, <3>2
  <2> HIDE DEF R, U
  <2>4. Mid(Q, (P \cup {i}) \cup {j}, T, U)
    <3>1. CASE i \notin Indexes
      BY <1>1, <2>2, <2>3, <3>1, AddAloneMid DEF U
    <3>2. CASE i \in Indexes
      BY <1>1, <1>4, <2>3, <3>2, AbsentMid
    <3> QED  BY <3>1, <3>2
  <2>5. (P \cup {i}) \cup {j} = P \cup {i, j}
    OBVIOUS
  <2> HIDE DEF Q
  <2> QED  BY <2>1, <2>4, <2>5 DEF U
<1> QED  BY <1>3, <1>4

-----------------------------------------------------------------------------
(* The whole store.                                                        *)

Rep(S, T) == \A i \in Indexes : NodesAre(S, i, T) /\ PointersAre(S, i, T)

LEMMA RepIsMid ==
  ASSUME NEW S, NEW T, NEW U
  PROVE  /\ Rep(S, T) => Mid(S, {}, T, U)
         /\ \A P : Order \subseteq P /\ Mid(S, P, T, U) => Rep(S, U)
BY IndexesAssumption DEF Rep, Mid

LEMMA AddTripleIdRep ==
  ASSUME NEW S \in Store, NEW T, NEW x \in Triple, Rep(S, T)
  PROVE  Rep(AddTripleId(S, x), T \cup {x})
<1> DEFINE U  == T \cup {x}
           s1 == AddPair(S, "spo", "pso", x)
           s2 == AddPair(s1, "osp", "sop", x)
           s3 == AddPair(s2, "pos", "ops", x)
           P1 == {} \cup {"spo", "pso"}
           P2 == P1 \cup {"osp", "sop"}
           P3 == P2 \cup {"pos", "ops"}
<1>1. s1 \in Store
  BY AddPairType DEF Order
<1>2. s2 \in Store
  BY <1>1, AddPairType DEF Order
<1>3. Mid(S, {}, T, U)
  BY RepIsMid
<1>4. /\ "pso" = Partner("spo") /\ "sop" = Partner("osp") /\ "ops" = Partner("pos")
      /\ "osp" \notin P1 /\ "sop" \notin P1 /\ "pos" \notin P2 /\ "ops" \notin P2
  BY DEF Partner
<1> HIDE DEF s1, s2, s3, P1, P2, P3
<1>5. Mid(s1, P1, T, U)
  BY <1>3, <1>4, AddPairMid DEF s1, P1
<1>6. Mid(s2, P2, T, U)
  BY <1>1, <1>4, <1>5, AddPairMid DEF s2, P2
<1>7. Mid(s3, P3, T, U)
  BY <1>2, <1>4, <1>6, AddPairMid DEF s3, P3
<1>8. Order \subseteq P3
  BY DEF Order, P1, P2, P3
<1>9. Rep(s3, U)
  BY <1>7, <1>8, RepIsMid
<1> QED  BY <1>9 DEF AddTripleId, s1, s2, s3

LEMMA RemoveTripleFromAllRep ==
  ASSUME NEW S \in Store, NEW T, NEW x \in Triple, Rep(S, T)
  PROVE  Rep(RemoveTripleFromAll(S, x), T \ {x})
<1> DEFINE U  == T \ {x}
           s1 == RemoveFrom(S,  "spo", x)
           s2 == RemoveFrom(s1, "sop", x)
           s3 == RemoveFrom(s2, "pso", x)
           s4 == RemoveFrom(s3, "pos", x)
           s5 == RemoveFrom(s4, "osp", x)
           s6 == RemoveFrom(s5, "ops", x)
           P1 == {} \cup {"spo"}
           P2 == P1 \cup {"sop"}
           P3 == P2 \cup {"pso"}
           P4 == P3 \cup {"pos"}
           P5 == P4 \cup {"osp"}
           P6 == P5 \cup {"ops"}
<1>1. s1 \in Store  BY RemoveFromType DEF Order
<1>2. s2 \in Store  BY <1>1, RemoveFromType DEF Order
<1>3. s3 \in Store  BY <1>2, RemoveFromType DEF Order
<1>4. s4 \in Store  BY <1>3, RemoveFromType DEF Order
<1>5. s5 \in Store  BY <1>4, RemoveFromType DEF Order
<1>6. Mid(S, {}, T, U)
  BY RepIsMid
<1>7. /\ "sop" \notin P1 /\ "pso" \notin P2 /\ "pos" \notin P3
      /\ "osp" \notin P4 /\ "ops" \notin P5
  OBVIOUS
<1>8. Order = {"spo", "sop", "pso", "pos", "osp", "ops"}
  BY DEF Order
<1> HIDE DEF s1, s2, s3, s4, s5, s6, P1, P2, P3, P4, P5, P6
<1>9. Mid(s1, P1, T, U)   BY <1>6, <1>8, RemoveFromMid DEF s1, P1
<1>10. Mid(s2, P2, T, U)  BY <1>1, <1>7, <1>8, <1>9, RemoveFromMid DEF s2, P2
<1>11. Mid(s3, P3, T, U)  BY <1>2, <1>7, <1>8, <1>10, RemoveFromMid DEF s3, P3
<1>12. Mid(s4, P4, T, U)  BY <1>3, <1>7, <1>8, <1>11, RemoveFromMid DEF s4, P4
<1>13. Mid(s5, P5, T, U)  BY <1>4, <1>7, <1>8, <1>12, RemoveFromMid DEF s5, P5
<1>14. Mid(s6, P6, T, U)  BY <1>5, <1>7, <1>8, <1>13, RemoveFromMid DEF s6, P6
<1>15. Order \subseteq P6
  BY <1>8 DEF P1, P2, P3, P4, P5, P6
<1>16. Rep(s6, U)
  BY <1>14, <1>15, RepIsMid
<1> QED  BY <1>16 DEF RemoveTripleFromAll, s1, s2, s3, s4, s5, s6

\* A walk through any index of a store that shows T comes across T.
LEMMA ShownHolds ==
  ASSUME NEW S, NEW T \in SUBSET Triple, NEW i \in Indexes, NEW x \in Triple,
         NodesAre(S, i, T), PointersAre(S, i, T)
  PROVE  HoldsIn(S, i, x) <=> x \in T
<1> DEFINE k == IndexOrdered(i, x)
<1>1. i \in Order
  BY IndexesAssumption
<1>2. k[1] \in Node /\ k[2] \in Node /\ k[3] \in Node
  BY <1>1, OrderedType
<1>3. k[3] \in Third(T, i, k[1], k[2]) <=> x \in T
  BY <1>1, <1>2, TripleOfOrdered DEF Third
<1>4. Home(i, k[1], k[2]) # NULL
  BY <1>1, <1>2, HomeType, NullAssumption
<1>5. PointersAre(S, i, T) /\ NodesAre(S, i, T)
  OBVIOUS
<1>6. S.terminal[i][<<k[1], k[2]>>] =
        IF Third(T, i, k[1], k[2]) = {} THEN NULL ELSE Home(i, k[1], k[2])
  BY <1>2, <1>5 DEF PointersAre
<1>7. k[1] \in S.vectors[i] <=> \E e \in Node : Third(T, i, k[1], e) # {}
  BY <1>2, <1>5 DEF PointersAre
<1>8. S.nodes[Home(i, k[1], k[2])] = Third(T, i, k[1], k[2])
  BY <1>2, <1>5 DEF NodesAre
<1>9. HoldsIn(S, i, x) <=> /\ k[1] \in S.vectors[i]
                           /\ S.terminal[i][<<k[1], k[2]>>] # NULL
                           /\ k[3] \in S.nodes[S.terminal[i][<<k[1], k[2]>>]]
  BY DEF HoldsIn
<1> HIDE DEF k
<1> QED  BY <1>2, <1>3, <1>4, <1>6, <1>7, <1>8, <1>9

LEMMA RepHolds ==
  ASSUME NEW S, NEW T \in SUBSET Triple, NEW i \in Indexes, NEW x \in Triple, Rep(S, T)
  PROVE  HoldsIn(S, i, x) <=> x \in T
BY ShownHolds DEF Rep

\* A store without indexes is empty whatever is added to it.
LEMMA RepContent ==
  ASSUME NEW S, NEW T \in SUBSET Triple, Rep(S, T)
  PROVE  /\ \A i \in Indexes : TriplesIn(S, i) = T
         /\ {x \in Triple : \E i \in Indexes : HoldsIn(S, i, x)}
              = IF Indexes = {} THEN {} ELSE T
BY RepHolds DEF TriplesIn

-----------------------------------------------------------------------------
(* The inductive invariant, and what follows from it.                      *)

IInv == TypeOK /\ Rep(hx, Content)

LEMMA ContentType == Content \subseteq Triple
BY DEF Content

LEMMA InitIInv == Init => IInv /\ Content = {}
<1> SUFFICES ASSUME Init PROVE IInv /\ Content = {}
  OBVIOUS
<1>1. TypeOK
  BY DEF Init, TypeOK, Store
<1>2. Rep(hx, {})
  <2> SUFFICES ASSUME NEW i \in Indexes PROVE NodesAre(hx, i, {}) /\ PointersAre(hx, i, {})
    BY DEF Rep
  <2>1. i \in Order
    BY IndexesAssumption
  <2>2. \A a, b \in Node : Third({}, i, a, b) = {}
    BY DEF Third
  <2>3. ASSUME NEW a \in Node, NEW b \in Node
        PROVE  hx.nodes[Home(i, a, b)] = {} /\ hx.terminal[i][<<a, b>>] = NULL
    BY <2>1, HomeType DEF Init, Slot
  <2>4. hx.vectors[i] = {}
    BY <2>1 DEF Init
  <2> QED  BY <2>2, <2>3, <2>4 DEF NodesAre, PointersAre
<1>3. Content = {}
  BY <1>2, RepContent DEF Content, Holds
<1> QED  BY <1>1, <1>2, <1>3 DEF IInv

\* A new state that shows T has T as its content.
LEMMA RepPrime ==
  ASSUME NEW T \in SUBSET Triple, Rep(hx', T)
  PROVE  Rep(hx', Content') /\ Content' = IF Indexes = {} THEN {} ELSE T
<1>1. Content' = IF Indexes = {} THEN {} ELSE T
  BY RepContent DEF Content, Holds
<1>2. CASE Indexes = {}
  BY <1>1, <1>2 DEF Rep
<1>3. CASE Indexes # {}
  BY <1>1, <1>3
<1> QED  BY <1>1, <1>2, <1>3

LEMMA AddTripleIInv ==
  ASSUME IInv, NEW x \in Triple, AddTriple(x)
  PROVE  Rep(hx', Content') /\ Content' = IF Indexes = {} THEN {} ELSE Content \cup {x}
<1>1. Rep(hx', Content \cup {x})
  BY AddTripleIdRep DEF IInv, TypeOK, AddTriple
<1>2. Content \cup {x} \in SUBSET Triple
  BY ContentType
<1> QED  BY <1>1, <1>2, RepPrime

LEMMA RemoveTripleIInv ==
  ASSUME IInv, NEW x \in Triple, RemoveTriple(x)
  PROVE  Rep(hx', Content') /\ Content' = IF Indexes = {} THEN {} ELSE Content \ {x}
<1>1. Rep(hx', Content \ {x})
  BY RemoveTripleFromAllRep DEF IInv, TypeOK, RemoveTriple
<1>2. Content \ {x} \in SUBSET Triple
  BY ContentType
<1> QED  BY <1>1, <1>2, RepPrime

LEMMA UnchangedContent == UNCHANGED vars => Content' = Content
BY DEF vars, Content, Holds

LEMMA NextIInv == TypeOK' /\ IInv /\ [Next]_vars => IInv'
<1> SUFFICES ASSUME TypeOK', IInv, [Next]_vars PROVE Rep(hx', Content')
  BY DEF IInv
<1>1. ASSUME NEW x \in Triple, AddTriple(x) PROVE Rep(hx', Content')
  BY <1>1, AddTripleIInv
<1>2. ASSUME NEW x \in Triple, RemoveTriple(x) PROVE Rep(hx', Content')
  BY <1>2, RemoveTripleIInv
<1>3. CASE UNCHANGED vars
  BY <1>3, UnchangedContent DEF IInv, vars
<1> QED  BY <1>1, <1>2, <1>3 DEF Next

\* In every reachable state each index shows the same set of triples, in the
\* terminals that belong to it, and nothing else (see Rep).
THEOREM IndexesAgree == Spec => []IInv
<1>1. Init => IInv
  BY InitIInv
<1>2. TypeOK' /\ IInv /\ [Next]_vars => IInv'
  BY NextIInv
<1> QED
  BY <1>1, <1>2, TypeCorrect, PTL DEF Spec

\* Two partner indexes reach the same terminal from their two sides, so that
\* one call of hx_terminal_add_node changes both.
THEOREM SharedAlways == Spec => []TerminalsShared
<1>1. IInv => TerminalsShared
  <2> SUFFICES ASSUME IInv, NEW i \in Indexes, Partner(i) \in Indexes,
                      NEW a \in Node, NEW b \in Node
               PROVE  hx.terminal[i][<<a, b>>] = hx.terminal[Partner(i)][<<b, a>>]
    BY DEF TerminalsShared
  <2>1. hx.terminal[i][<<a, b>>] =
          IF Third(Content, i, a, b) = {} THEN NULL ELSE Home(i, a, b)
    BY DEF IInv, Rep, PointersAre
  <2>2. hx.terminal[Partner(i)][<<b, a>>] =
          IF Third(Content, Partner(i), b, a) = {} THEN NULL ELSE Home(Partner(i), b, a)
    BY DEF IInv, Rep, PointersAre
  <2>3. Third(Content, Partner(i), b, a) = Third(Content, i, a, b)
    BY IndexesAssumption, ThirdPartner
  <2>4. Home(Partner(i), b, a) = Home(i, a, b)
    BY HomePartner
  <2> QED  BY <2>1, <2>2, <2>3, <2>4
<1> QED
  BY <1>1, IndexesAgree, PTL

\* No vector and no terminal that can be reached is empty, which the iterators
\* of the trees rely on (_hx_btree_iter_prime).
THEOREM NeverEmpty == Spec => []NothingEmpty
<1>1. IInv => NothingEmpty
  <2> SUFFICES ASSUME IInv, NEW i \in Indexes
               PROVE  \A a \in Node :
                        /\ \A b \in Node : hx.terminal[i][<<a, b>>] # NULL
                             => hx.nodes[hx.terminal[i][<<a, b>>]] # {}
                        /\ a \in hx.vectors[i]
                             <=> \E b \in Node : hx.terminal[i][<<a, b>>] # NULL
    BY DEF NothingEmpty
  <2>1. NodesAre(hx, i, Content) /\ PointersAre(hx, i, Content)
    BY DEF IInv, Rep
  <2>2. \A a, b \in Node : Home(i, a, b) # NULL
    BY IndexesAssumption, HomeType, NullAssumption
  <2>3. \A a, b \in Node : hx.terminal[i][<<a, b>>] # NULL
                             <=> Third(Content, i, a, b) # {}
    BY <2>1, <2>2 DEF PointersAre
  <2>4. \A a, b \in Node : hx.terminal[i][<<a, b>>] # NULL
          => hx.nodes[hx.terminal[i][<<a, b>>]] = Third(Content, i, a, b)
    BY <2>1 DEF PointersAre, NodesAre
  <2>5. \A a \in Node : a \in hx.vectors[i]
                          <=> \E b \in Node : Third(Content, i, a, b) # {}
    BY <2>1 DEF PointersAre
  <2>6. \A a, b \in Node : hx.terminal[i][<<a, b>>] # NULL
          => hx.nodes[hx.terminal[i][<<a, b>>]] # {}
    BY <2>3, <2>4
  <2>7. \A a \in Node : a \in hx.vectors[i]
                          <=> \E b \in Node : hx.terminal[i][<<a, b>>] # NULL
    BY <2>3, <2>5
  <2> QED  BY <2>6, <2>7
<1> QED
  BY <1>1, IndexesAgree, PTL

\* Whatever state the store has reached, adding a triple adds exactly that
\* triple to every index, and removing one removes exactly that one.
THEOREM OperationsAreExact == Spec => []OperationsExact
<1>1. IInv => OperationsExact
  <2> SUFFICES ASSUME IInv, NEW x \in Triple, NEW i \in Indexes
               PROVE  /\ TriplesIn(AddTripleId(hx, x), i) = Content \cup {x}
                      /\ TriplesIn(RemoveTripleFromAll(hx, x), i) = Content \ {x}
    BY DEF OperationsExact
  <2>1. Rep(AddTripleId(hx, x), Content \cup {x})
    BY AddTripleIdRep DEF IInv, TypeOK
  <2>2. Rep(RemoveTripleFromAll(hx, x), Content \ {x})
    BY RemoveTripleFromAllRep DEF IInv, TypeOK
  <2>3. Content \cup {x} \in SUBSET Triple /\ Content \ {x} \in SUBSET Triple
    BY ContentType
  <2> QED  BY <2>1, <2>2, <2>3, RepContent
<1> QED
  BY <1>1, IndexesAgree, PTL

\* The store implements a set of triples, as store/store.h promises: every
\* add_triple and remove_triple changes the content by its triple alone.
THEOREM ContentIsASet == Spec => ImplementsTripleStore
<1>1. Init => Abstract!Init
  BY InitIInv DEF Abstract!Init
<1>2. IInv /\ [Next]_vars => [Abstract!Next]_Content
  <2> SUFFICES ASSUME IInv, [Next]_vars PROVE Abstract!Next \/ Content' = Content
    OBVIOUS
  <2>1. CASE UNCHANGED vars
    BY <2>1, UnchangedContent
  <2>2. ASSUME NEW x \in Triple, AddTriple(x)
        PROVE  Abstract!Next \/ Content' = Content
    <3>1. Content' = IF Indexes = {} THEN {} ELSE Content \cup {x}
      BY <2>2, AddTripleIInv
    <3>2. CASE Indexes = {}
      BY <3>1, <3>2 DEF Content
    <3>3. CASE Indexes # {}
      BY <3>1, <3>3 DEF Abstract!Next, Abstract!AddTriple, Abstract!Triple, Triple
    <3> QED  BY <3>2, <3>3
  <2>3. ASSUME NEW x \in Triple, RemoveTriple(x)
        PROVE  Abstract!Next \/ Content' = Content
    <3>1. Content' = IF Indexes = {} THEN {} ELSE Content \ {x}
      BY <2>3, RemoveTripleIInv
    <3>2. CASE Indexes = {}
      BY <3>1, <3>2 DEF Content
    <3>3. CASE Indexes # {}
      BY <3>1, <3>3 DEF Abstract!Next, Abstract!RemoveTriple, Abstract!Triple, Triple
    <3> QED  BY <3>2, <3>3
  <2> QED  BY <2>1, <2>2, <2>3 DEF Next
<1> QED
  BY <1>1, <1>2, IndexesAgree, PTL DEF Spec, ImplementsTripleStore, Abstract!Spec

-----------------------------------------------------------------------------
(* What the store counts, the references to its terminals and the triples  *)
(* below its heads and vectors, and what its queries answer from that.     *)

-----------------------------------------------------------------------------
(* Cardinalities.                                                          *)

LEMMA CardPut ==
  ASSUME NEW A, IsFiniteSet(A), NEW e, e \notin A, NEW B, B = A \cup {e}
  PROVE  IsFiniteSet(B) /\ Cardinality(B) = Cardinality(A) + 1
BY FS_AddElement

LEMMA CardTake ==
  ASSUME NEW A, IsFiniteSet(A), NEW e, e \in A, NEW B, B = A \ {e}
  PROVE  IsFiniteSet(B) /\ Cardinality(B) = Cardinality(A) - 1
BY FS_RemoveElement

-----------------------------------------------------------------------------
(* References.                                                             *)

Refs(S, t) == {r \in Indexes \X Slot : S.terminal[r[1]][r[2]] = t}

\* Every reference is counted, and a terminal without reference is empty.
Referenced(S) ==
  \A t \in Terminal :
    /\ IsFiniteSet(Refs(S, t))
    /\ S.refcount[t] = Cardinality(Refs(S, t))
    /\ Refs(S, t) = {} => S.nodes[t] = {}

\* A terminal that is put into an empty slot has one reference more, the others
\* have those they had.
LEMMA RefsPut ==
  ASSUME NEW S \in Store, NEW R, NEW i \in Indexes, NEW s \in Slot, NEW t \in Terminal,
         S.terminal[i][s] = NULL, R.terminal = [S.terminal EXCEPT ![i][s] = t]
  PROVE  /\ Refs(R, t) = Refs(S, t) \cup {<<i, s>>} /\ <<i, s>> \notin Refs(S, t)
         /\ \A u \in Terminal : u # t => Refs(R, u) = Refs(S, u)
<1>1. \A r \in Indexes \X Slot :
        R.terminal[r[1]][r[2]] = IF r = <<i, s>> THEN t ELSE S.terminal[r[1]][r[2]]
  BY IndexesAssumption DEF Store
<1>2. \A u \in Terminal : u # NULL
  BY NullAssumption
<1>3. Refs(R, t) = Refs(S, t) \cup {<<i, s>>}
  BY <1>1 DEF Refs
<1>4. <<i, s>> \notin Refs(S, t)
  BY <1>2 DEF Refs
<1>5. ASSUME NEW u \in Terminal, u # t PROVE Refs(R, u) = Refs(S, u)
  BY <1>1, <1>2, <1>5 DEF Refs
<1> QED  BY <1>3, <1>4, <1>5

\* A terminal that is taken out of a slot has one reference less.
LEMMA RefsTake ==
  ASSUME NEW S \in Store, NEW R, NEW i \in Indexes, NEW s \in Slot, NEW t \in Terminal,
         S.terminal[i][s] = t, R.terminal = [S.terminal EXCEPT ![i][s] = NULL]
  PROVE  /\ Refs(R, t) = Refs(S, t) \ {<<i, s>>} /\ <<i, s>> \in Refs(S, t)
         /\ \A u \in Terminal : u # t => Refs(R, u) = Refs(S, u)
<1>1. \A r \in Indexes \X Slot :
        R.terminal[r[1]][r[2]] = IF r = <<i, s>> THEN NULL ELSE S.terminal[r[1]][r[2]]
  BY IndexesAssumption DEF Store
<1>2. \A u \in Terminal : u # NULL
  BY NullAssumption
<1>3. Refs(R, t) = Refs(S, t) \ {<<i, s>>}
  BY <1>1, <1>2 DEF Refs
<1>4. <<i, s>> \in Refs(S, t)
  BY DEF Refs
<1>5. ASSUME NEW u \in Terminal, u # t PROVE Refs(R, u) = Refs(S, u)
  BY <1>1, <1>2, <1>5 DEF Refs
<1> QED  BY <1>3, <1>4, <1>5

LEMMA AddTripleTerminalReferenced ==
  ASSUME NEW S \in Store, NEW i \in Indexes, NEW x \in Triple, Referenced(S)
  PROVE  Referenced(AddTripleTerminal(S, i, x).store)
<1> DEFINE k     == IndexOrdered(i, x)
           slot  == <<k[1], k[2]>>
           isNew == S.terminal[i][slot] = NULL
           t     == IF isNew THEN <<i, k[1], k[2]>> ELSE S.terminal[i][slot]
           R     == AddTripleTerminal(S, i, x).store
<1> SUFFICES Referenced(R)
  OBVIOUS
<1>1. k[1] \in Node /\ k[2] \in Node /\ k[3] \in Node /\ slot \in Slot
  BY IndexesAssumption, OrderedType DEF Slot
<1>2. t \in Terminal
  BY <1>1, IndexesAssumption, SMTT(30) DEF Store, Terminal
<1>3. /\ R.terminal = [S.terminal EXCEPT ![i][slot] = t]
      /\ R.nodes    = [S.nodes    EXCEPT ![t] = @ \cup {k[3]}]
      /\ R.refcount = [S.refcount EXCEPT ![t] = @ + One(isNew)]
  BY Zenon DEF AddTripleTerminal
<1>4. ASSUME NEW u \in Terminal, u # t PROVE R.nodes[u] = S.nodes[u] /\ R.refcount[u] = S.refcount[u]
  BY <1>2, <1>3, <1>4 DEF Store
<1>5. R.refcount[t] = S.refcount[t] + One(isNew)
  BY <1>2, <1>3 DEF Store
<1>6. CASE isNew
  <2>0. S.terminal[i][slot] = NULL
    BY <1>6
  <2> HIDE DEF k, slot, isNew, t, R
  <2>1. /\ Refs(R, t) = Refs(S, t) \cup {<<i, slot>>} /\ <<i, slot>> \notin Refs(S, t)
        /\ \A u \in Terminal : u # t => Refs(R, u) = Refs(S, u)
    BY <1>1, <1>2, <1>3, <2>0, RefsPut
  <2>2. IsFiniteSet(Refs(R, t)) /\ Cardinality(Refs(R, t)) = Cardinality(Refs(S, t)) + 1
    BY <1>2, <2>1, CardPut DEF Referenced
  <2>3. R.refcount[t] = Cardinality(Refs(R, t))
    BY <1>2, <1>5, <1>6, <2>2 DEF Referenced, One
  <2> QED  BY <1>4, <2>1, <2>2, <2>3 DEF Referenced
<1>7. CASE ~isNew
  <2>1. R.terminal = S.terminal
    BY <1>1, <1>3, <1>7, IndexesAssumption DEF Store
  <2>2. \A u : Refs(R, u) = Refs(S, u)
    BY <2>1 DEF Refs
  <2>3. Refs(S, t) # {}
    <3>1. <<i, slot>> \in Refs(S, t)
      BY <1>1, <1>7 DEF Refs
    <3> QED  BY <3>1
  <2> HIDE DEF k, slot, isNew, t, R
  <2>4. R.refcount[t] = S.refcount[t]
    BY <1>2, <1>5, <1>7 DEF One, Store
  <2> QED  BY <1>4, <2>2, <2>3, <2>4 DEF Referenced
<1> QED  BY <1>6, <1>7

LEMMA AddWithTerminalReferenced ==
  ASSUME NEW S \in Store, NEW i \in Indexes, NEW t \in Terminal, NEW x \in Triple, NEW b,
         Referenced(S)
  PROVE  Referenced(AddTripleWithTerminal(S, i, t, x, b))
<1> DEFINE k     == IndexOrdered(i, x)
           slot  == <<k[1], k[2]>>
           isNew == S.terminal[i][slot] = NULL
           R     == AddTripleWithTerminal(S, i, t, x, b)
<1> SUFFICES Referenced(R)
  OBVIOUS
<1>1. slot \in Slot
  BY IndexesAssumption, OrderedType DEF Slot
<1>2. /\ R.terminal = [S.terminal EXCEPT ![i][slot] = IF isNew THEN t ELSE @]
      /\ R.nodes    = S.nodes
      /\ R.refcount = [S.refcount EXCEPT ![t] = @ + One(isNew)]
  BY DEF AddTripleWithTerminal
<1>3. ASSUME NEW u \in Terminal, u # t PROVE R.refcount[u] = S.refcount[u]
  BY <1>2, <1>3 DEF Store
<1>4. R.refcount[t] = S.refcount[t] + One(isNew)
  BY <1>2 DEF Store
<1>5. CASE isNew
  <2>0. R.terminal = [S.terminal EXCEPT ![i][slot] = t]
    BY <1>2, <1>5
  <2>1. /\ Refs(R, t) = Refs(S, t) \cup {<<i, slot>>} /\ <<i, slot>> \notin Refs(S, t)
        /\ \A u \in Terminal : u # t => Refs(R, u) = Refs(S, u)
    BY <1>1, <1>5, <2>0, RefsPut
  <2> HIDE DEF k, slot, isNew, R
  <2>2. IsFiniteSet(Refs(R, t)) /\ Cardinality(Refs(R, t)) = Cardinality(Refs(S, t)) + 1
    BY <2>1, CardPut DEF Referenced
  <2>3. R.refcount[t] = Cardinality(Refs(R, t))
    BY <1>4, <1>5, <2>2 DEF Referenced, One
  <2> QED  BY <1>2, <1>3, <2>1, <2>2, <2>3 DEF Referenced
<1>6. CASE ~isNew
  <2>1. R.terminal = S.terminal
    BY <1>1, <1>2, <1>6, IndexesAssumption DEF Store
  <2>2. \A u : Refs(R, u) = Refs(S, u)
    BY <2>1 DEF Refs
  <2> HIDE DEF k, slot, isNew, R
  <2>3. R.refcount[t] = S.refcount[t]
    BY <1>4, <1>6 DEF One, Store
  <2> QED  BY <1>2, <1>3, <2>2, <2>3 DEF Referenced
<1> QED  BY <1>5, <1>6

LEMMA IndexRemoveReferenced ==
  ASSUME NEW S \in Store, NEW i \in Indexes, NEW x \in Triple, Referenced(S)
  PROVE  Referenced(IndexRemoveTriple(S, i, x))
<1> DEFINE k    == IndexOrdered(i, x)
           slot == <<k[1], k[2]>>
           t    == S.terminal[i][slot]
           left == S.nodes[t] \ {k[3]}
           R    == IndexRemoveTriple(S, i, x)
<1> SUFFICES Referenced(R)
  OBVIOUS
<1>1. slot \in Slot
  BY IndexesAssumption, OrderedType, SMTT(30) DEF Slot
<1>2. CASE k[1] \notin S.vectors[i] \/ t = NULL
  BY <1>2, Zenon DEF IndexRemoveTriple
<1>3. CASE ~(k[1] \notin S.vectors[i] \/ t = NULL)
  <2>1. t \in Terminal
    BY <1>1, <1>3, IndexesAssumption DEF Store
  <2>2. /\ R.terminal = [S.terminal EXCEPT ![i][slot] = IF left = {} THEN NULL ELSE @]
        /\ R.nodes    = [S.nodes    EXCEPT ![t] = left]
        /\ R.refcount = [S.refcount EXCEPT ![t] = @ - One(left = {})]
    BY <1>3, SMTT(30) DEF IndexRemoveTriple
  <2>3. ASSUME NEW u \in Terminal, u # t
        PROVE  R.nodes[u] = S.nodes[u] /\ R.refcount[u] = S.refcount[u]
    BY <2>1, <2>2, <2>3, ZenonT(60) DEF Store
  <2>4. R.nodes[t] = left /\ R.refcount[t] = S.refcount[t] - One(left = {})
    BY <2>1, <2>2, Zenon DEF Store
  <2>5. CASE left = {}
    <3>0. R.terminal = [S.terminal EXCEPT ![i][slot] = NULL]
      BY <2>2, <2>5, Zenon
    <3>1. /\ Refs(R, t) = Refs(S, t) \ {<<i, slot>>} /\ <<i, slot>> \in Refs(S, t)
          /\ \A u \in Terminal : u # t => Refs(R, u) = Refs(S, u)
      BY <1>1, <2>1, <3>0, RefsTake, SMTT(30)
    <3> HIDE DEF k, slot, t, left, R
    <3>2. IsFiniteSet(Refs(R, t)) /\ Cardinality(Refs(R, t)) = Cardinality(Refs(S, t)) - 1
      BY <2>1, <3>1, CardTake DEF Referenced
    <3>3. R.refcount[t] = Cardinality(Refs(R, t))
      BY <2>1, <2>4, <2>5, <3>2 DEF Referenced, One
    <3> QED  BY <2>3, <2>4, <2>5, <3>1, <3>2, <3>3, SMTT(30) DEF Referenced
  <2>6. CASE left # {}
    <3>1. R.terminal = S.terminal
      <4>1. R.terminal = [S.terminal EXCEPT ![i][slot] = @]
        BY <2>2, <2>6, Zenon
      <4> HIDE DEF k, slot, t, left, R
      <4> QED  BY <1>1, <4>1, IndexesAssumption, SMTT(30) DEF Store
    <3>2. \A u : Refs(R, u) = Refs(S, u)
      BY <3>1 DEF Refs
    <3>3. Refs(S, t) # {}
      <4>1. <<i, slot>> \in Refs(S, t)
        BY <1>1 DEF Refs
      <4> QED  BY <4>1
    <3> HIDE DEF k, slot, t, left, R
    <3>4. R.refcount[t] = S.refcount[t]
      BY <2>1, <2>4, <2>6 DEF One, Store
    <3> QED  BY <2>3, <3>2, <3>3, <3>4 DEF Referenced
  <2> QED  BY <2>5, <2>6
<1> QED  BY <1>2, <1>3

LEMMA AddPairReferenced ==
  ASSUME NEW S \in Store, NEW i \in Order, NEW j \in Order, NEW x \in Triple, Referenced(S)
  PROVE  Referenced(AddPair(S, i, j, x))
<1> DEFINE r == AddTripleTerminal(S, i, x)
           T == IF i \in Indexes THEN AddTriple1(S, i, x) ELSE S
<1>1. r.store \in Store /\ r.terminal \in Terminal
  BY AddTripleTerminalType
<1>2. CASE {i, j} \subseteq Indexes
  <2>1. Referenced(r.store)
    BY <1>2, AddTripleTerminalReferenced
  <2> HIDE DEF r
  <2>2. Referenced(AddTripleWithTerminal(r.store, j, r.terminal, x, r.added))
    BY <1>1, <1>2, <2>1, AddWithTerminalReferenced
  <2> QED  BY <1>2, <2>2 DEF AddPair, r
<1>3. CASE ~({i, j} \subseteq Indexes)
  <2>1. T \in Store
    BY <1>1 DEF AddTriple1
  <2>2. Referenced(T)
    BY AddTripleTerminalReferenced DEF AddTriple1
  <2>3. AddPair(S, i, j, x) = IF j \in Indexes THEN AddTriple1(T, j, x) ELSE T
    BY <1>3 DEF AddPair
  <2> HIDE DEF T
  <2> QED  BY <2>1, <2>2, <2>3, AddTripleTerminalReferenced DEF AddTriple1
<1> QED  BY <1>2, <1>3

LEMMA AddTripleIdReferenced ==
  ASSUME NEW S \in Store, NEW x \in Triple, Referenced(S)
  PROVE  Referenced(AddTripleId(S, x))
<1> DEFINE s1 == AddPair(S, "spo", "pso", x)
           s2 == AddPair(s1, "osp", "sop", x)
<1>1. s1 \in Store /\ Referenced(s1)
  BY AddPairType, AddPairReferenced DEF Order
<1> HIDE DEF s1
<1>2. s2 \in Store /\ Referenced(s2)
  BY <1>1, AddPairType, AddPairReferenced DEF Order
<1> HIDE DEF s2
<1>3. Referenced(AddPair(s2, "pos", "ops", x))
  BY <1>2, AddPairReferenced DEF Order
<1> QED  BY <1>3 DEF AddTripleId, s1, s2

LEMMA RemoveFromReferenced ==
  ASSUME NEW S \in Store, NEW i \in Order, NEW x \in Triple, Referenced(S)
  PROVE  RemoveFrom(S, i, x) \in Store /\ Referenced(RemoveFrom(S, i, x))
BY RemoveFromType, IndexRemoveReferenced DEF RemoveFrom

LEMMA RemoveTripleFromAllReferenced ==
  ASSUME NEW S \in Store, NEW x \in Triple, Referenced(S)
  PROVE  Referenced(RemoveTripleFromAll(S, x))
<1> DEFINE s1 == RemoveFrom(S,  "spo", x)
           s2 == RemoveFrom(s1, "sop", x)
           s3 == RemoveFrom(s2, "pso", x)
           s4 == RemoveFrom(s3, "pos", x)
           s5 == RemoveFrom(s4, "osp", x)
           s6 == RemoveFrom(s5, "ops", x)
<1>1. s1 \in Store /\ Referenced(s1)  BY RemoveFromReferenced DEF Order
<1>2. s2 \in Store /\ Referenced(s2)  BY <1>1, RemoveFromReferenced DEF Order
<1>3. s3 \in Store /\ Referenced(s3)  BY <1>2, RemoveFromReferenced DEF Order
<1>4. s4 \in Store /\ Referenced(s4)  BY <1>3, RemoveFromReferenced DEF Order
<1>5. s5 \in Store /\ Referenced(s5)  BY <1>4, RemoveFromReferenced DEF Order
<1> HIDE DEF s5
<1>6. s6 \in Store /\ Referenced(s6)  BY <1>5, RemoveFromReferenced DEF Order
<1> QED
  BY <1>6 DEF RemoveTripleFromAll, s5

LEMMA InitReferenced == Init => Referenced(hx)
<1> SUFFICES ASSUME Init, NEW t \in Terminal PROVE Refs(hx, t) = {} /\ hx.refcount[t] = 0 /\ hx.nodes[t] = {}
  BY FS_EmptySet DEF Referenced
<1>1. Refs(hx, t) = {}
  BY IndexesAssumption, NullAssumption DEF Init, Refs
<1> QED  BY <1>1 DEF Init

LEMMA NextReferenced == TypeOK /\ Referenced(hx) /\ [Next]_vars => Referenced(hx)'
<1> SUFFICES ASSUME TypeOK, Referenced(hx), [Next]_vars PROVE Referenced(hx')
  OBVIOUS
<1>1. ASSUME NEW x \in Triple, AddTriple(x) PROVE Referenced(hx')
  BY <1>1, AddTripleIdReferenced DEF AddTriple, TypeOK
<1>2. ASSUME NEW x \in Triple, RemoveTriple(x) PROVE Referenced(hx')
  BY <1>2, RemoveTripleFromAllReferenced DEF RemoveTriple, TypeOK
<1>3. CASE UNCHANGED vars
  BY <1>3 DEF vars
<1> QED  BY <1>1, <1>2, <1>3 DEF Next

\* A slot without terminal leaves the name of its terminal to nobody.
LEMMA FreshNames ==
  ASSUME IInv, Referenced(hx), NEW i \in Indexes \cap {"spo", "osp", "pos"},
         NEW a \in Node, NEW b \in Node, hx.terminal[i][<<a, b>>] = NULL
  PROVE  hx.refcount[<<i, a, b>>] = 0
<1>1. i \in Order /\ <<i, a, b>> \in Terminal /\ Home(i, a, b) = <<i, a, b>>
  BY IndexesAssumption DEF Terminal, Home, Allocates
<1>2. ASSUME NEW j \in Indexes, NEW s \in Slot, hx.terminal[j][s] = <<i, a, b>> PROVE FALSE
  <2>1. PICK c \in Node, d \in Node : s = <<c, d>>
    BY DEF Slot
  <2>2. Third(Content, j, c, d) # {} /\ Home(j, c, d) = <<i, a, b>>
    BY <1>1, <1>2, <2>1, NullAssumption DEF IInv, Rep, PointersAre
  <2>3. (j = i /\ c = a /\ d = b) \/ (j = Partner(i) /\ c = b /\ d = a)
    BY <1>1, <2>2, HomeInjective
  <2>4. Third(Content, i, a, b) = {}
    BY <1>1, NullAssumption DEF IInv, Rep, PointersAre
  <2> QED  BY <1>1, <2>2, <2>3, <2>4, ThirdPartner
<1>3. Refs(hx, <<i, a, b>>) = {}
  BY <1>2 DEF Refs
<1> QED  BY <1>1, <1>3, FS_EmptySet DEF Referenced

\* Terminals count the vectors that hold them: none is freed while a vector holds
\* it, none is kept that no vector holds, and a new terminal takes a name that is
\* not in use.
THEOREM ReferencesAreCounted == Spec => []RefcountExact
<1>1. Init => Referenced(hx)
  BY InitReferenced
<1>2. TypeOK /\ Referenced(hx) /\ [Next]_vars => Referenced(hx)'
  BY NextReferenced
<1>3. IInv /\ Referenced(hx) => RefcountExact
  <2> SUFFICES ASSUME IInv, Referenced(hx) PROVE RefcountExact
    OBVIOUS
  <2>1. ASSUME NEW t \in Terminal
        PROVE  /\ hx.refcount[t] = Cardinality(References(t))
               /\ hx.refcount[t] = 0 => hx.nodes[t] = {}
    <3>1. References(t) = Refs(hx, t)
      BY DEF References, Refs
    <3>2. /\ IsFiniteSet(Refs(hx, t)) /\ hx.refcount[t] = Cardinality(Refs(hx, t))
          /\ Refs(hx, t) = {} => hx.nodes[t] = {}
      BY DEF Referenced
    <3> QED  BY <3>1, <3>2, FS_EmptySet
  <2> QED  BY <2>1, FreshNames DEF RefcountExact
<1> QED
  BY <1>1, <1>2, <1>3, TypeCorrect, IndexesAgree, PTL DEF Spec

-----------------------------------------------------------------------------
(* Counters.                                                               *)

Under(T, i, n) == {x \in T : IndexOrdered(i, x)[1] = n}

\* The counters of index i when it shows the triples of T, see CountsKept.
CountersAre(S, i, T) ==
  /\ S.headCount[i] >= Cardinality(T)
  /\ i \in RemovedFirst => S.headCount[i] = Cardinality(T)
  /\ \A n \in Node :
       /\ S.vectorCount[i][n] >= Cardinality(Under(T, i, n))
       /\ i \in RemovedFirst => S.vectorCount[i][n] = Cardinality(Under(T, i, n))

\* The counters of the indexes in P have been changed with T to U, the others
\* not yet (see Mid).
MidCounters(S, P, T, U) == \A j \in Indexes : CountersAre(S, j, IF j \in P THEN U ELSE T)

LEMMA FiniteUnder ==
  ASSUME NEW T, IsFiniteSet(T), NEW i, NEW n
  PROVE  IsFiniteSet(Under(T, i, n)) /\ Cardinality(Under(T, i, n)) \in Nat
<1>1. Under(T, i, n) \in SUBSET T
  BY DEF Under
<1> QED  BY <1>1, FS_Subset, FS_CardinalityType

LEMMA UnderAdd ==
  ASSUME NEW T, IsFiniteSet(T), NEW x, x \notin T, NEW i, NEW n
  PROVE  Cardinality(Under(T \cup {x}, i, n)) =
           Cardinality(Under(T, i, n)) + One(n = IndexOrdered(i, x)[1])
<1>1. IsFiniteSet(Under(T, i, n)) /\ Cardinality(Under(T, i, n)) \in Nat
  BY FiniteUnder
<1>2. CASE n = IndexOrdered(i, x)[1]
  <2>1. Under(T \cup {x}, i, n) = Under(T, i, n) \cup {x} /\ x \notin Under(T, i, n)
    BY <1>2 DEF Under
  <2> QED  BY <1>1, <1>2, <2>1, CardPut DEF One
<1>3. CASE n # IndexOrdered(i, x)[1]
  <2>1. Under(T \cup {x}, i, n) = Under(T, i, n)
    BY <1>3 DEF Under
  <2> QED  BY <1>1, <1>3, <2>1 DEF One
<1> QED  BY <1>2, <1>3

LEMMA UnderRemove ==
  ASSUME NEW T, IsFiniteSet(T), NEW x, x \in T, NEW i, NEW n
  PROVE  Cardinality(Under(T \ {x}, i, n)) =
           Cardinality(Under(T, i, n)) - One(n = IndexOrdered(i, x)[1])
<1>1. IsFiniteSet(Under(T, i, n)) /\ Cardinality(Under(T, i, n)) \in Nat
  BY FiniteUnder
<1>2. CASE n = IndexOrdered(i, x)[1]
  <2>1. Under(T \ {x}, i, n) = Under(T, i, n) \ {x} /\ x \in Under(T, i, n)
    BY <1>2 DEF Under
  <2> QED  BY <1>1, <1>2, <2>1, CardTake DEF One
<1>3. CASE n # IndexOrdered(i, x)[1]
  <2>1. Under(T \ {x}, i, n) = Under(T, i, n)
    BY <1>3 DEF Under
  <2> QED  BY <1>1, <1>3, <2>1 DEF One
<1> QED  BY <1>2, <1>3

LEMMA StepMidCounters ==
  ASSUME NEW S, NEW R, NEW P, NEW T, NEW U, NEW i \in Indexes,
         MidCounters(S, P, T, U), CountersAre(R, i, U),
         \A j \in Indexes : j # i => /\ R.headCount[j] = S.headCount[j]
                                     /\ R.vectorCount[j] = S.vectorCount[j]
  PROVE  MidCounters(R, P \cup {i}, T, U)
<1> SUFFICES ASSUME NEW j \in Indexes
             PROVE  CountersAre(R, j, IF j \in P \cup {i} THEN U ELSE T)
  BY DEF MidCounters
<1>1. CASE j = i
  BY <1>1
<1>2. CASE j # i
  <2>1. CountersAre(S, j, IF j \in P THEN U ELSE T)
    BY DEF MidCounters
  <2> QED  BY <1>2, <2>1 DEF CountersAre
<1> QED  BY <1>1, <1>2

LEMMA AbsentMidCounters ==
  ASSUME NEW S, NEW P, NEW T, NEW U, NEW i, i \notin Indexes, MidCounters(S, P, T, U)
  PROVE  MidCounters(S, P \cup {i}, T, U)
<1> SUFFICES ASSUME NEW j \in Indexes PROVE j \in P \cup {i} <=> j \in P
  BY DEF MidCounters
<1> QED  OBVIOUS

\* A new triple is counted by the head and by its vector.
LEMMA CountedUp ==
  ASSUME NEW S \in Store, NEW R, NEW i \in Indexes, NEW x \in Triple,
         NEW T, IsFiniteSet(T), NEW a, a = IndexOrdered(i, x)[1],
         NEW d, d = One(x \notin T),
         R.headCount = [S.headCount EXCEPT ![i] = @ + d],
         R.vectorCount = [S.vectorCount EXCEPT ![i][a] = @ + d],
         CountersAre(S, i, T)
  PROVE  /\ CountersAre(R, i, T \cup {x})
         /\ \A j \in Indexes : j # i => /\ R.headCount[j] = S.headCount[j]
                                        /\ R.vectorCount[j] = S.vectorCount[j]
<1> DEFINE U == T \cup {x}
<1>1. i \in Order /\ a \in Node
  BY IndexesAssumption, OrderedType
<1>2. /\ R.headCount[i] = S.headCount[i] + d
      /\ \A n \in Node : R.vectorCount[i][n] =
           IF n = a THEN S.vectorCount[i][n] + d ELSE S.vectorCount[i][n]
  BY <1>1 DEF Store
<1>3. /\ S.headCount[i] \in Int /\ \A n \in Node : S.vectorCount[i][n] \in Int
      /\ Cardinality(T) \in Nat /\ \A n \in Node : Cardinality(Under(T, i, n)) \in Nat
  BY <1>1, FiniteUnder, FS_CardinalityType DEF Store
<1>4. Cardinality(U) = Cardinality(T) + d
  <2>1. CASE x \in T
    <3>1. U = T /\ d = 0
      BY <2>1 DEF One
    <3> HIDE DEF U
    <3> QED  BY <1>3, <3>1
  <2>2. CASE x \notin T
    <3>1. d = 1
      BY <2>2 DEF One
    <3> QED  BY <2>2, <3>1, CardPut
  <2> QED  BY <2>1, <2>2
<1>5. \A n \in Node : Cardinality(Under(U, i, n)) =
                        IF n = a THEN Cardinality(Under(T, i, n)) + d
                        ELSE Cardinality(Under(T, i, n))
  <2>1. CASE x \in T
    <3>1. U = T /\ d = 0
      BY <2>1 DEF One
    <3> HIDE DEF U
    <3> QED  BY <1>3, <3>1
  <2>2. CASE x \notin T
    <3>1. d = 1
      BY <2>2 DEF One
    <3> QED  BY <1>3, <2>2, <3>1, UnderAdd DEF One
  <2> QED  BY <2>1, <2>2
<1>6. d \in Int
  BY OneType
<1> HIDE DEF U
<1>7. CountersAre(R, i, U)
  <2>1. /\ R.headCount[i] >= Cardinality(U)
        /\ i \in RemovedFirst => R.headCount[i] = Cardinality(U)
    BY <1>2, <1>3, <1>4, <1>6 DEF CountersAre
  <2>2. ASSUME NEW n \in Node
        PROVE  /\ R.vectorCount[i][n] >= Cardinality(Under(U, i, n))
               /\ i \in RemovedFirst => R.vectorCount[i][n] = Cardinality(Under(U, i, n))
    <3>1. /\ S.vectorCount[i][n] >= Cardinality(Under(T, i, n))
          /\ i \in RemovedFirst => S.vectorCount[i][n] = Cardinality(Under(T, i, n))
      BY DEF CountersAre
    <3>2. /\ S.vectorCount[i][n] \in Int /\ Cardinality(Under(T, i, n)) \in Nat
      BY <1>3
    <3>3. /\ R.vectorCount[i][n] = IF n = a THEN S.vectorCount[i][n] + d ELSE S.vectorCount[i][n]
          /\ Cardinality(Under(U, i, n)) = IF n = a THEN Cardinality(Under(T, i, n)) + d
                                           ELSE Cardinality(Under(T, i, n))
      BY <1>2, <1>5
    <3> QED  BY <1>6, <3>1, <3>2, <3>3
  <2> QED  BY <2>1, <2>2 DEF CountersAre
<1>8. \A j \in Indexes : j # i => /\ R.headCount[j] = S.headCount[j]
                                  /\ R.vectorCount[j] = S.vectorCount[j]
  BY <1>1, IndexesAssumption DEF Store
<1> QED  BY <1>7, <1>8 DEF U

\* A slot's terminal has the node of a triple if the triple is in the index.
LEMMA ThirdIs ==
  ASSUME NEW T, NEW i \in Order, NEW x \in Triple
  PROVE  IndexOrdered(i, x)[3] \in Third(T, i, IndexOrdered(i, x)[1], IndexOrdered(i, x)[2])
           <=> x \in T
BY OrderedType, TripleOfOrdered DEF Third

LEMMA AddedIsNew ==
  ASSUME NEW S \in Store, NEW i \in Indexes, Allocates(i), NEW x \in Triple, NEW T,
         PointersAre(S, i, T), NodesAre(S, i, T)
  PROVE  AddTripleTerminal(S, i, x).added <=> x \notin T
<1> DEFINE k == IndexOrdered(i, x)
           r == AddTripleTerminal(S, i, x)
<1>1. i \in Order /\ k[1] \in Node /\ k[2] \in Node
  BY IndexesAssumption, OrderedType
<1>2. r.terminal = Home(i, k[1], k[2])
  BY AddEffect
<1>3. r.added <=> k[3] \notin S.nodes[r.terminal]
  BY DEF AddTripleTerminal
<1>4. S.nodes[r.terminal] = Third(T, i, k[1], k[2])
  BY <1>1, <1>2 DEF NodesAre
<1>5. k[3] \in Third(T, i, k[1], k[2]) <=> x \in T
  BY <1>1, ThirdIs
<1> QED  BY <1>3, <1>4, <1>5

LEMMA AddTripleCounters ==
  ASSUME NEW S \in Store, NEW i \in Indexes, Allocates(i), NEW x \in Triple,
         NEW T, IsFiniteSet(T), NEW P, NEW U, U = T \cup {x},
         PointersAre(S, i, T), NodesAre(S, i, T), i \notin P, MidCounters(S, P, T, U)
  PROVE  MidCounters(AddTripleTerminal(S, i, x).store, P \cup {i}, T, U)
<1> DEFINE a == IndexOrdered(i, x)[1]
           r == AddTripleTerminal(S, i, x)
           d == One(x \notin T)
           R == r.store
<1>1. One(r.added) = d
  BY AddedIsNew DEF One
<1>2. /\ R.headCount = [S.headCount EXCEPT ![i] = @ + One(r.added)]
      /\ R.vectorCount = [S.vectorCount EXCEPT ![i][a] = @ + One(r.added)]
  BY Zenon DEF AddTripleTerminal
<1>3. CountersAre(S, i, T)
  BY DEF MidCounters
<1>4. a = IndexOrdered(i, x)[1] /\ d = One(x \notin T)
  OBVIOUS
<1>5. /\ R.headCount = [S.headCount EXCEPT ![i] = @ + d]
      /\ R.vectorCount = [S.vectorCount EXCEPT ![i][a] = @ + d]
  BY <1>1, <1>2
<1> HIDE DEF a, r, R, d
<1>6. /\ CountersAre(R, i, T \cup {x})
      /\ \A j \in Indexes : j # i => /\ R.headCount[j] = S.headCount[j]
                                     /\ R.vectorCount[j] = S.vectorCount[j]
  BY <1>3, <1>4, <1>5, CountedUp
<1> QED  BY <1>6, StepMidCounters DEF r, R

LEMMA AddWithTerminalCounters ==
  ASSUME NEW S \in Store, NEW i \in Indexes, NEW x \in Triple, NEW t, NEW b,
         NEW T, IsFiniteSet(T), b <=> x \notin T, NEW P, NEW U, U = T \cup {x},
         i \notin P, MidCounters(S, P, T, U)
  PROVE  MidCounters(AddTripleWithTerminal(S, i, t, x, b), P \cup {i}, T, U)
<1> DEFINE a == IndexOrdered(i, x)[1]
           d == One(x \notin T)
           R == AddTripleWithTerminal(S, i, t, x, b)
<1>1. One(b) = d
  BY DEF One
<1>2. /\ R.headCount = [S.headCount EXCEPT ![i] = @ + One(b)]
      /\ R.vectorCount = [S.vectorCount EXCEPT ![i][a] = @ + One(b)]
  BY DEF AddTripleWithTerminal
<1>3. CountersAre(S, i, T)
  BY DEF MidCounters
<1>4. a = IndexOrdered(i, x)[1] /\ d = One(x \notin T)
  OBVIOUS
<1>5. /\ R.headCount = [S.headCount EXCEPT ![i] = @ + d]
      /\ R.vectorCount = [S.vectorCount EXCEPT ![i][a] = @ + d]
  BY <1>1, <1>2
<1> HIDE DEF a, R, d
<1>6. /\ CountersAre(R, i, T \cup {x})
      /\ \A j \in Indexes : j # i => /\ R.headCount[j] = S.headCount[j]
                                     /\ R.vectorCount[j] = S.vectorCount[j]
  BY <1>3, <1>4, <1>5, CountedUp
<1> QED  BY <1>6, StepMidCounters DEF R

LEMMA AddPairCounters ==
  ASSUME NEW S \in Store, NEW P, NEW T, IsFiniteSet(T), NEW i \in {"spo", "osp", "pos"},
         NEW j, NEW x \in Triple, j = Partner(i), i \notin P, j \notin P,
         NEW U, U = T \cup {x}, Mid(S, P, T, U), MidCounters(S, P, T, U)
  PROVE  MidCounters(AddPair(S, i, j, x), P \cup {i, j}, T, U)
<1> DEFINE r == AddTripleTerminal(S, i, x)
           R == IF i \in Indexes THEN AddTriple1(S, i, x) ELSE S
           Q == IF j \in Indexes THEN AddTriple1(R, j, x) ELSE R
<1>1. i \in Order /\ j \in Order /\ i # j /\ Partner(j) = i /\ Allocates(i)
  BY PartnerFacts DEF Order, Allocates
<1>2. (P \cup {i}) \cup {j} = P \cup {i, j}
  OBVIOUS
<1>3. r.store \in Store
  BY <1>1, AddTripleTerminalType
<1>4. i \in Indexes => PointersAre(S, i, T) /\ NodesAre(S, i, T)
  BY DEF Mid
<1>5. i \in Indexes => MidCounters(r.store, P \cup {i}, T, U)
  BY <1>1, <1>4, AddTripleCounters
<1>6. CASE i \in Indexes /\ j \in Indexes
  <2>1. r.added <=> x \notin T
    BY <1>1, <1>4, <1>6, AddedIsNew
  <2> HIDE DEF r
  <2>2. MidCounters(AddTripleWithTerminal(r.store, j, r.terminal, x, r.added),
                    (P \cup {i}) \cup {j}, T, U)
    BY <1>1, <1>3, <1>5, <1>6, <2>1, AddWithTerminalCounters
  <2> QED  BY <1>2, <1>6, <2>2 DEF AddPair, r
<1>7. CASE i \in Indexes /\ j \notin Indexes
  <2>1. AddPair(S, i, j, x) = r.store
    BY <1>7 DEF AddPair, AddTriple1
  <2>2. MidCounters(r.store, (P \cup {i}) \cup {j}, T, U)
    BY <1>5, <1>7, AbsentMidCounters
  <2> QED  BY <1>2, <2>1, <2>2
<1>8. CASE i \notin Indexes
  <2>1. MidCounters(S, P \cup {i}, T, U) /\ Mid(S, P \cup {i}, T, U)
    BY <1>1, <1>8, AbsentMidCounters, AbsentMid
  <2>2. CASE j \notin Indexes
    <3>1. AddPair(S, i, j, x) = S
      BY <1>8, <2>2 DEF AddPair
    <3> QED  BY <1>2, <2>1, <2>2, <3>1, AbsentMidCounters
  <2>3. CASE j \in Indexes
    <3>1. AddPair(S, i, j, x) = AddTripleTerminal(S, j, x).store
      BY <1>8, <2>3 DEF AddPair, AddTriple1
    <3>2. Allocates(j)
      BY <1>1, <1>8 DEF Allocates
    <3>3. PointersAre(S, j, T) /\ NodesAre(S, j, T)
      BY <1>1, <1>8, <2>3 DEF Mid
    <3>4. j \notin P \cup {i}
      BY <1>1
    <3>5. MidCounters(AddTripleTerminal(S, j, x).store, (P \cup {i}) \cup {j}, T, U)
      BY <2>1, <2>3, <3>2, <3>3, <3>4, AddTripleCounters
    <3> QED  BY <1>2, <3>1, <3>5
  <2> QED  BY <2>2, <2>3
<1> QED  BY <1>6, <1>7, <1>8

\* A triple that is removed is counted down by an index that finds it in the
\* terminal.  A vector that has lost its last terminal counts none, and a later
\* one starts at none.
LEMMA RemoveCounters ==
  ASSUME NEW S \in Store, NEW i \in Indexes, NEW x \in Triple,
         NEW T \in SUBSET Triple, IsFiniteSet(T), NEW U, U = T \ {x}, PointersAre(S, i, T),
         NodesAre(S, i, T) \/ (NodesAre(S, i, U) /\ i \notin RemovedFirst),
         CountersAre(S, i, T), NEW R, R = IndexRemoveTriple(S, i, x)
  PROVE  /\ CountersAre(R, i, U)
         /\ \A j \in Indexes : j # i => /\ R.headCount[j] = S.headCount[j]
                                        /\ R.vectorCount[j] = S.vectorCount[j]
<1> DEFINE k == IndexOrdered(i, x)
           a == k[1]
           b == k[2]
           c == k[3]
           h == Home(i, a, b)
           t == S.terminal[i][<<a, b>>]
<1>1. i \in Order /\ a \in Node /\ b \in Node /\ c \in Node
  BY IndexesAssumption, OrderedType
<1>2. h # NULL
  BY <1>1, HomeType, NullAssumption
<1>3. c \in Third(T, i, a, b) <=> x \in T
  BY <1>1, ThirdIs
<1>4. t = IF Third(T, i, a, b) = {} THEN NULL ELSE h
  BY <1>1 DEF PointersAre
<1>5. a \in S.vectors[i] <=> \E e \in Node : Third(T, i, a, e) # {}
  BY <1>1, SMTT(30) DEF PointersAre
<1>6. CASE a \notin S.vectors[i] \/ t = NULL
  <2>1. R = S
    BY <1>6, Zenon DEF IndexRemoveTriple
  <2>2. x \notin T
    BY <1>1, <1>2, <1>3, <1>4, <1>5, <1>6
  <2>3. U = T
    BY <2>2
  <2> QED  BY <2>1, <2>3
<1>7. CASE ~(a \notin S.vectors[i] \/ t = NULL)
  <2> DEFINE found == c \in S.nodes[h]
             left  == S.nodes[h] \ {c}
             last  == left = {} /\ \A e \in Node \ {b} : S.terminal[i][<<a, e>>] = NULL
             d     == One(found)
  <2>1. t = h
    BY <1>4, <1>7
  <2>2. /\ R.headCount = [S.headCount EXCEPT ![i] = @ - d]
        /\ R.vectorCount = [S.vectorCount EXCEPT ![i][a] =
                              IF last THEN 0 ELSE S.vectorCount[i][a] - d]
    BY <1>7, <2>1 DEF IndexRemoveTriple
  <2>3. S.nodes[h] \in {Third(T, i, a, b), Third(U, i, a, b)}
    BY <1>1 DEF NodesAre
  <2>4. Third(U, i, a, b) = Third(T, i, a, b) \ {c}
    <3>1. \A f, g \in Node : Third(T \ {x}, i, f, g) =
            IF f = a /\ g = b THEN Third(T, i, f, g) \ {c} ELSE Third(T, i, f, g)
      BY <1>1, ThirdRemove, ZenonT(30)
    <3> HIDE DEF a, b, c
    <3> QED  BY <1>1, <3>1
  <2>5. /\ found => x \in T
        /\ x \in T /\ ~found => i \notin RemovedFirst
    BY <1>1, <1>3, <2>4 DEF NodesAre
  <2>6. last => Under(U, i, a) = {}
    <3> SUFFICES ASSUME last, NEW y \in U, IndexOrdered(i, y)[1] = a PROVE FALSE
      BY DEF Under
    <3> DEFINE l == IndexOrdered(i, y)
    <3>1. y \in Triple /\ y \in T
      OBVIOUS
    <3>2. l[1] \in Node /\ l[2] \in Node /\ l[3] \in Node
      BY <1>1, <3>1, OrderedType
    <3>3. l[3] \in Third(U, i, l[1], l[2]) /\ l[3] \in Third(T, i, l[1], l[2])
      BY <1>1, <3>1, ThirdIs
    <3>4. CASE l[2] = b
      <4>1. left = Third(U, i, a, b)
        BY <2>3, <2>4
      <4> QED  BY <3>3, <3>4, <4>1
    <3>5. CASE l[2] # b
      <4>1. S.terminal[i][<<a, l[2]>>] = NULL
        BY <3>2, <3>5
      <4>2. S.terminal[i][<<a, l[2]>>] =
              IF Third(T, i, a, l[2]) = {} THEN NULL ELSE Home(i, a, l[2])
        BY <1>1, <3>2 DEF PointersAre
      <4>3. Home(i, a, l[2]) # NULL
        BY <1>1, <3>2, HomeType, NullAssumption
      <4> QED  BY <3>3, <4>1, <4>2, <4>3
    <3> QED  BY <3>4, <3>5
  <2>7. /\ S.headCount[i] \in Int /\ \A n \in Node : S.vectorCount[i][n] \in Int
        /\ Cardinality(T) \in Nat /\ \A n \in Node : Cardinality(Under(T, i, n)) \in Nat
    BY <1>1, FiniteUnder, FS_CardinalityType DEF Store
  <2>8. R.headCount[i] = S.headCount[i] - d
    BY <1>1, <2>2 DEF Store
  <2>9. \A n \in Node : R.vectorCount[i][n] =
          IF n = a THEN IF last THEN 0 ELSE S.vectorCount[i][a] - d
          ELSE S.vectorCount[i][n]
    <3> HIDE DEF last, d, a
    <3> QED  BY <1>1, <2>2 DEF Store
  <2>10. Cardinality(U) = Cardinality(T) - One(x \in T)
    <3>1. CASE x \in T
      BY <3>1, CardTake DEF One
    <3>2. CASE x \notin T
      <4>1. U = T /\ One(x \in T) = 0
        BY <3>2 DEF One
      <4>2. Cardinality(T) \in Nat
        BY <2>7
      <4>3. Cardinality(U) = Cardinality(T)
        BY <4>1
      <4>4. Cardinality(T) = Cardinality(T) - 0
        BY <4>2
      <4> QED  BY <4>1, <4>3, <4>4
    <3> QED  BY <3>1, <3>2
  <2>11. ASSUME NEW n \in Node
         PROVE  Cardinality(Under(U, i, n)) =
                  Cardinality(Under(T, i, n)) - One(x \in T /\ n = a)
    <3>1. CASE x \in T
      BY <3>1, UnderRemove DEF One
    <3>2. CASE x \notin T
      <4>1. U = T /\ One(x \in T /\ n = a) = 0
        BY <3>2 DEF One
      <4>2. Cardinality(Under(T, i, n)) \in Nat
        BY <2>7
      <4> HIDE DEF a
      <4> QED  BY <4>1, <4>2
    <3> QED  BY <3>1, <3>2
  <2> HIDE DEF k, a, b, c, h, t, found, left, last
  <2>12. /\ R.headCount[i] >= Cardinality(U)
         /\ i \in RemovedFirst => R.headCount[i] = Cardinality(U)
    <3>1. /\ S.headCount[i] >= Cardinality(T)
          /\ i \in RemovedFirst => S.headCount[i] = Cardinality(T)
      BY DEF CountersAre
    <3> QED  BY <2>5, <2>7, <2>8, <2>10, <3>1 DEF One
  <2>13. ASSUME NEW n \in Node
         PROVE  /\ R.vectorCount[i][n] >= Cardinality(Under(U, i, n))
                /\ i \in RemovedFirst => R.vectorCount[i][n] = Cardinality(Under(U, i, n))
    <3>1. /\ S.vectorCount[i][n] >= Cardinality(Under(T, i, n))
          /\ i \in RemovedFirst => S.vectorCount[i][n] = Cardinality(Under(T, i, n))
      BY DEF CountersAre
    <3>2. /\ S.vectorCount[i][n] \in Int /\ Cardinality(Under(T, i, n)) \in Nat
          /\ Cardinality(Under(U, i, n)) = Cardinality(Under(T, i, n)) - One(x \in T /\ n = a)
      BY <2>7, <2>11
    <3>3. CASE n # a
      <4>1. R.vectorCount[i][n] = S.vectorCount[i][n]
        BY <2>9, <3>3
      <4> QED  BY <3>1, <3>2, <3>3, <4>1 DEF One
    <3>4. CASE n = a /\ last
      <4>1. R.vectorCount[i][n] = 0 /\ Cardinality(Under(U, i, n)) = 0
        BY <2>6, <2>9, <3>4, FS_EmptySet
      <4> QED  BY <4>1
    <3>5. CASE n = a /\ ~last
      <4>1. R.vectorCount[i][n] = S.vectorCount[i][n] - d
        BY <2>9, <3>5
      <4> QED  BY <2>5, <3>1, <3>2, <3>5, <4>1 DEF One
    <3> QED  BY <3>3, <3>4, <3>5
  <2>14. \A j \in Indexes : j # i => /\ R.headCount[j] = S.headCount[j]
                                     /\ R.vectorCount[j] = S.vectorCount[j]
    BY <1>1, <2>2, IndexesAssumption DEF Store
  <2> QED  BY <2>12, <2>13, <2>14 DEF CountersAre
<1> QED  BY <1>6, <1>7

LEMMA RemoveFromCounters ==
  ASSUME NEW S \in Store, NEW P, NEW T \in SUBSET Triple, IsFiniteSet(T),
         NEW i \in Order, i \notin P, NEW x \in Triple, NEW U, U = T \ {x},
         i \in RemovedFirst => Partner(i) \notin P \cap Indexes,
         Mid(S, P, T, U), MidCounters(S, P, T, U)
  PROVE  MidCounters(RemoveFrom(S, i, x), P \cup {i}, T, U)
<1>1. CASE i \in Indexes
  <2> DEFINE R == IndexRemoveTriple(S, i, x)
  <2>1. PointersAre(S, i, T) /\ (NodesAre(S, i, T) \/ (NodesAre(S, i, U) /\ i \notin RemovedFirst))
    BY <1>1 DEF Mid
  <2>2. CountersAre(S, i, T)
    BY <1>1 DEF MidCounters
  <2>3. R = IndexRemoveTriple(S, i, x)
    OBVIOUS
  <2> HIDE DEF R
  <2>4. /\ CountersAre(R, i, U)
        /\ \A j \in Indexes : j # i => /\ R.headCount[j] = S.headCount[j]
                                       /\ R.vectorCount[j] = S.vectorCount[j]
    BY <1>1, <2>1, <2>2, <2>3, RemoveCounters
  <2> QED  BY <1>1, <2>3, <2>4, StepMidCounters DEF RemoveFrom
<1>2. CASE i \notin Indexes
  BY <1>2, AbsentMidCounters DEF RemoveFrom
<1> QED  BY <1>1, <1>2

Counters(S, T) == \A i \in Indexes : CountersAre(S, i, T)

LEMMA CountersAreMid ==
  ASSUME NEW S, NEW T, NEW U
  PROVE  /\ Counters(S, T) => MidCounters(S, {}, T, U)
         /\ \A P : Order \subseteq P /\ MidCounters(S, P, T, U) => Counters(S, U)
BY IndexesAssumption DEF Counters, MidCounters

LEMMA AddTripleIdCounters ==
  ASSUME NEW S \in Store, NEW T, IsFiniteSet(T), NEW x \in Triple, Rep(S, T), Counters(S, T)
  PROVE  Counters(AddTripleId(S, x), T \cup {x})
<1> DEFINE U  == T \cup {x}
           s1 == AddPair(S, "spo", "pso", x)
           s2 == AddPair(s1, "osp", "sop", x)
           s3 == AddPair(s2, "pos", "ops", x)
           P1 == {} \cup {"spo", "pso"}
           P2 == P1 \cup {"osp", "sop"}
           P3 == P2 \cup {"pos", "ops"}
<1>1. s1 \in Store
  BY AddPairType DEF Order
<1>2. s2 \in Store
  BY <1>1, AddPairType DEF Order
<1>3. Mid(S, {}, T, U) /\ MidCounters(S, {}, T, U)
  BY RepIsMid, CountersAreMid
<1>4. /\ "pso" = Partner("spo") /\ "sop" = Partner("osp") /\ "ops" = Partner("pos")
      /\ "osp" \notin P1 /\ "sop" \notin P1 /\ "pos" \notin P2 /\ "ops" \notin P2
  BY DEF Partner
<1>5. U = T \cup {x}
  OBVIOUS
<1> HIDE DEF U, s1, s2, s3, P1, P2, P3
<1>6. Mid(s1, P1, T, U) /\ MidCounters(s1, P1, T, U)
  BY <1>3, <1>4, <1>5, AddPairMid, AddPairCounters DEF s1, P1
<1>7. Mid(s2, P2, T, U) /\ MidCounters(s2, P2, T, U)
  BY <1>1, <1>4, <1>5, <1>6, AddPairMid, AddPairCounters DEF s2, P2
<1>8. MidCounters(s3, P3, T, U)
  BY <1>2, <1>4, <1>5, <1>7, AddPairCounters DEF s3, P3
<1>9. Order \subseteq P3
  BY DEF Order, P1, P2, P3
<1>10. Counters(s3, U)
  BY <1>8, <1>9, CountersAreMid
<1> QED  BY <1>10 DEF AddTripleId, s1, s2, s3, U

LEMMA RemoveTripleFromAllCounters ==
  ASSUME NEW S \in Store, NEW T \in SUBSET Triple, IsFiniteSet(T), NEW x \in Triple,
         Rep(S, T), Counters(S, T)
  PROVE  Counters(RemoveTripleFromAll(S, x), T \ {x})
<1> DEFINE U  == T \ {x}
           s1 == RemoveFrom(S,  "spo", x)
           s2 == RemoveFrom(s1, "sop", x)
           s3 == RemoveFrom(s2, "pso", x)
           s4 == RemoveFrom(s3, "pos", x)
           s5 == RemoveFrom(s4, "osp", x)
           s6 == RemoveFrom(s5, "ops", x)
           P1 == {} \cup {"spo"}
           P2 == P1 \cup {"sop"}
           P3 == P2 \cup {"pso"}
           P4 == P3 \cup {"pos"}
           P5 == P4 \cup {"osp"}
           P6 == P5 \cup {"ops"}
           Free(i, P) == i \in RemovedFirst => Partner(i) \notin P \cap Indexes
<1>1. s1 \in Store  BY RemoveFromType DEF Order
<1>2. s2 \in Store  BY <1>1, RemoveFromType DEF Order
<1>3. s3 \in Store  BY <1>2, RemoveFromType DEF Order
<1>4. s4 \in Store  BY <1>3, RemoveFromType DEF Order
<1>5. s5 \in Store  BY <1>4, RemoveFromType DEF Order
<1>6. Mid(S, {}, T, U) /\ MidCounters(S, {}, T, U)
  BY RepIsMid, CountersAreMid
<1>7. /\ "spo" \notin {} /\ "sop" \notin P1 /\ "pso" \notin P2 /\ "pos" \notin P3
      /\ "osp" \notin P4 /\ "ops" \notin P5
  OBVIOUS
<1>8. /\ Free("spo", {}) /\ Free("sop", P1) /\ Free("pso", P2)
      /\ Free("pos", P3) /\ Free("osp", P4) /\ Free("ops", P5)
  BY DEF RemovedFirst, Partner
<1>9. Order = {"spo", "sop", "pso", "pos", "osp", "ops"} /\ U = T \ {x}
  BY DEF Order
<1> HIDE DEF U, s1, s2, s3, s4, s5, s6, P1, P2, P3, P4, P5, P6
<1>10. ASSUME NEW R \in Store, NEW i \in Order, NEW P, i \notin P, Free(i, P),
              Mid(R, P, T, U), MidCounters(R, P, T, U)
       PROVE  /\ Mid(RemoveFrom(R, i, x), P \cup {i}, T, U)
              /\ MidCounters(RemoveFrom(R, i, x), P \cup {i}, T, U)
  BY <1>9, <1>10, RemoveFromMid, RemoveFromCounters
<1> HIDE DEF Free
<1>11. Mid(s1, P1, T, U) /\ MidCounters(s1, P1, T, U)
  BY <1>6, <1>7, <1>8, <1>9, <1>10 DEF s1, P1
<1>12. Mid(s2, P2, T, U) /\ MidCounters(s2, P2, T, U)
  BY <1>1, <1>7, <1>8, <1>9, <1>10, <1>11 DEF s2, P2
<1>13. Mid(s3, P3, T, U) /\ MidCounters(s3, P3, T, U)
  BY <1>2, <1>7, <1>8, <1>9, <1>10, <1>12 DEF s3, P3
<1>14. Mid(s4, P4, T, U) /\ MidCounters(s4, P4, T, U)
  BY <1>3, <1>7, <1>8, <1>9, <1>10, <1>13 DEF s4, P4
<1>15. Mid(s5, P5, T, U) /\ MidCounters(s5, P5, T, U)
  BY <1>4, <1>7, <1>8, <1>9, <1>10, <1>14 DEF s5, P5
<1>16. MidCounters(s6, P6, T, U)
  BY <1>5, <1>7, <1>8, <1>9, <1>10, <1>15 DEF s6, P6
<1>17. Order \subseteq P6
  BY <1>9 DEF P1, P2, P3, P4, P5, P6
<1>18. Counters(s6, U)
  BY <1>16, <1>17, CountersAreMid
<1> QED  BY <1>18 DEF RemoveTripleFromAll, s1, s2, s3, s4, s5, s6, U

\* The content is finite and counted, whatever has been added and removed.
CountInv == IsFiniteSet(Content) /\ Counters(hx, Content)

LEMMA InitCountInv == Init => CountInv
<1> SUFFICES ASSUME Init PROVE CountInv
  OBVIOUS
<1>1. Content = {}
  BY InitIInv
<1>2. \A i \in Indexes, n \in Node : Under(Content, i, n) = {}
  BY <1>1 DEF Under
<1>3. \A i \in Indexes, n \in Node : hx.headCount[i] = 0 /\ hx.vectorCount[i][n] = 0
  BY IndexesAssumption DEF Init
<1>4. \A i \in Indexes : hx.headCount[i] = 0
  BY IndexesAssumption DEF Init
<1> QED  BY <1>1, <1>2, <1>3, <1>4, FS_EmptySet DEF CountInv, Counters, CountersAre

LEMMA NextCountInv == IInv /\ CountInv /\ [Next]_vars => CountInv'
<1> SUFFICES ASSUME IInv, CountInv, [Next]_vars PROVE CountInv'
  OBVIOUS
<1>1. hx \in Store /\ Content \in SUBSET Triple /\ Rep(hx, Content)
  BY ContentType DEF IInv, TypeOK
<1>2. CASE Indexes = {}
  <2>1. Content' = {}
    BY <1>2 DEF Content
  <2> QED  BY <1>2, <2>1, FS_EmptySet DEF CountInv, Counters
<1>3. ASSUME NEW x \in Triple, AddTriple(x), Indexes # {} PROVE CountInv'
  <2>1. Content' = Content \cup {x}
    BY <1>3, AddTripleIInv
  <2>2. IsFiniteSet(Content \cup {x})
    BY FS_AddElement DEF CountInv
  <2>3. Counters(hx', Content \cup {x})
    BY <1>1, <1>3, AddTripleIdCounters DEF AddTriple, CountInv
  <2> QED  BY <2>1, <2>2, <2>3 DEF CountInv
<1>4. ASSUME NEW x \in Triple, RemoveTriple(x), Indexes # {} PROVE CountInv'
  <2>1. Content' = Content \ {x}
    BY <1>4, RemoveTripleIInv
  <2>2. IsFiniteSet(Content \ {x})
    BY FS_RemoveElement DEF CountInv
  <2>3. Counters(hx', Content \ {x})
    BY <1>1, <1>4, RemoveTripleFromAllCounters DEF RemoveTriple, CountInv
  <2> QED  BY <2>1, <2>2, <2>3 DEF CountInv
<1>5. CASE UNCHANGED vars
  <2>1. Content' = Content /\ hx' = hx
    BY <1>5, UnchangedContent DEF vars
  <2> QED  BY <2>1 DEF CountInv
<1> QED  BY <1>2, <1>3, <1>4, <1>5 DEF Next

\* Heads and vectors count the triples below them, exactly so in the indexes a
\* triple is removed from first; the others may only count too many.
THEOREM CountersHold == Spec => []CountsKept
<1>1. Init => CountInv
  BY InitCountInv
<1>2. IInv /\ CountInv /\ [Next]_vars => CountInv'
  BY NextCountInv
<1>3. IInv /\ CountInv => CountsKept
  <2> SUFFICES ASSUME IInv, CountInv, NEW i \in Indexes
               PROVE  /\ CountersAre(hx, i, Content) /\ TriplesOf(i) = Content
                      /\ \A n \in Node : UnderVector(i, n) = Under(Content, i, n)
    BY DEF CountsKept, CountersAre
  <2>1. TriplesOf(i) = Content
    BY ContentType, RepContent DEF IInv, TriplesOf
  <2>2. CountersAre(hx, i, Content)
    BY DEF CountInv, Counters
  <2> QED  BY <2>1, <2>2 DEF UnderVector, Under
<1> QED
  BY <1>1, <1>2, <1>3, IndexesAgree, PTL DEF Spec

-----------------------------------------------------------------------------
(* Queries.                                                                *)

\* Each pair of partners has an index, so that every pattern finds one: the
\* preferred index or its partner (_hx_store_hexastore_get_ordered_index).
Covered == \A i \in Order : i \in Indexes \/ Partner(i) \in Indexes

\* The six indexes the code opens a store with by default are enough.
LEMMA AllCover == Indexes = Order => Covered
BY DEF Covered

\* The positions of the triple p and q as PreferredIndex sorts them.
Before(pat, position, p, q) ==
  \/ OrderRank(pat, position, p) < OrderRank(pat, position, q)
  \/ OrderRank(pat, position, p) = OrderRank(pat, position, q) /\ p < q

Sorted(pat, position, i) ==
  LET o == IndexOrdered(i, <<1, 2, 3>>)
  IN  /\ Before(pat, position, o[1], o[2]) /\ Before(pat, position, o[1], o[3])
      /\ Before(pat, position, o[2], o[3])

LEMMA OrderRankType ==
  ASSUME NEW pat, NEW position, NEW j
  PROVE  OrderRank(pat, position, j) \in 0..3
BY DEF OrderRank

LEMMA OneIsSorted ==
  ASSUME NEW pat, NEW position
  PROVE  \E i \in Order : Sorted(pat, position, i)
<1>1. PICK a \in 0..3 : a = OrderRank(pat, position, 1)
  BY OrderRankType
<1>2. PICK b \in 0..3 : b = OrderRank(pat, position, 2)
  BY OrderRankType
<1>3. PICK c \in 0..3 : c = OrderRank(pat, position, 3)
  BY OrderRankType
<1>4. /\ Before(pat, position, 1, 2) <=> a <= b
      /\ Before(pat, position, 2, 1) <=> b < a
      /\ Before(pat, position, 1, 3) <=> a <= c
      /\ Before(pat, position, 3, 1) <=> c < a
      /\ Before(pat, position, 2, 3) <=> b <= c
      /\ Before(pat, position, 3, 2) <=> c < b
  BY <1>1, <1>2, <1>3 DEF Before
<1>5. /\ "spo" \in Order /\ Sorted(pat, position, "spo") <=> a <= b /\ a <= c /\ b <= c
      /\ "sop" \in Order /\ Sorted(pat, position, "sop") <=> a <= c /\ a <= b /\ c < b
      /\ "pso" \in Order /\ Sorted(pat, position, "pso") <=> b < a /\ b <= c /\ a <= c
      /\ "pos" \in Order /\ Sorted(pat, position, "pos") <=> b <= c /\ b < a /\ c < a
      /\ "osp" \in Order /\ Sorted(pat, position, "osp") <=> c < a /\ c < b /\ a <= b
      /\ "ops" \in Order /\ Sorted(pat, position, "ops") <=> c < b /\ c < a /\ b < a
  BY <1>4 DEF Sorted, IndexOrdered, Order
<1>6. \/ a <= b /\ a <= c /\ b <= c
      \/ a <= c /\ a <= b /\ c < b
      \/ b < a /\ b <= c /\ a <= c
      \/ b <= c /\ b < a /\ c < a
      \/ c < a /\ c < b /\ a <= b
      \/ c < b /\ c < a /\ b < a
  OBVIOUS
<1> QED  BY <1>5, <1>6

LEMMA PreferredFacts ==
  ASSUME NEW pat, NEW position
  PROVE  /\ PreferredIndex(pat, position) \in Order
         /\ Sorted(pat, position, PreferredIndex(pat, position))
<1> DEFINE P(i) == LET o       == IndexOrdered(i, <<1, 2, 3>>)
                       rank(n) == OrderRank(pat, position, o[n])
                   IN  \A m, n \in 1..3 : m < n =>
                         \/ rank(m) < rank(n)
                         \/ rank(m) = rank(n) /\ o[m] < o[n]
<1>1. ASSUME NEW i \in Order PROVE P(i) <=> Sorted(pat, position, i)
  <2> DEFINE o       == IndexOrdered(i, <<1, 2, 3>>)
             B(m, n) == Before(pat, position, o[m], o[n])
  <2>1. P(i) <=> \A m, n \in 1..3 : m < n => B(m, n)
    BY DEF Before
  <2>2. Sorted(pat, position, i) <=> B(1, 2) /\ B(1, 3) /\ B(2, 3)
    BY DEF Sorted
  <2> HIDE DEF B, P
  <2>3. (\A m, n \in 1..3 : m < n => B(m, n)) => B(1, 2) /\ B(1, 3) /\ B(2, 3)
    OBVIOUS
  <2>4. ASSUME B(1, 2), B(1, 3), B(2, 3), NEW m \in 1..3, NEW n \in 1..3, m < n PROVE B(m, n)
    <3>1. (m = 1 /\ n = 2) \/ (m = 1 /\ n = 3) \/ (m = 2 /\ n = 3)
      BY <2>4
    <3>2. CASE m = 1 /\ n = 2 BY <2>4, <3>2
    <3>3. CASE m = 1 /\ n = 3 BY <2>4, <3>3
    <3>4. CASE m = 2 /\ n = 3 BY <2>4, <3>4
    <3> QED  BY <3>1, <3>2, <3>3, <3>4
  <2> QED  BY <2>1, <2>2, <2>3, <2>4
<1>2. PICK i \in Order : P(i)
  BY <1>1, OneIsSorted
<1>3. PreferredIndex(pat, position) = CHOOSE j \in Order : P(j)
  BY DEF PreferredIndex
<1> HIDE DEF P
<1>4. PreferredIndex(pat, position) \in Order /\ P(PreferredIndex(pat, position))
  BY <1>2, <1>3
<1> QED  BY <1>1, <1>4

LEMMA OrderedIndexIs ==
  ASSUME Covered, NEW pat, NEW position
  PROVE  /\ OrderedIndex(pat, position) \in Indexes
         /\ \/ OrderedIndex(pat, position) = PreferredIndex(pat, position)
            \/ OrderedIndex(pat, position) = Partner(PreferredIndex(pat, position))
BY PreferredFacts DEF Covered, OrderedIndex

\* get_statements yields the triples that match, whichever of the two indexes it
\* walks, in a store that has one of each pair.
THEOREM StatementsAreComplete == ASSUME Covered PROVE Spec => []StatementsComplete
<1>1. IInv => StatementsComplete
  <2> SUFFICES ASSUME IInv, NEW pat \in Pattern PROVE GetStatements(pat) = Answer(pat)
    BY DEF StatementsComplete
  <2>1. OrderedIndex(pat, Subject) \in Indexes
    BY OrderedIndexIs
  <2>2. TriplesOf(OrderedIndex(pat, Subject)) = Content
    BY <2>1, ContentType, RepContent DEF IInv, TriplesOf
  <2> QED  BY <2>2 DEF GetStatements, Answer
<1> QED
  BY <1>1, IndexesAgree, PTL

-----------------------------------------------------------------------------
(* Counts.                                                                 *)

\* Which index a pattern is looked up in, by the positions it leaves free.
LEMMA SubjectFirst ==
  ASSUME NEW pat, pat[1] \in Node, pat[2] \notin Node, pat[3] \notin Node
  PROVE  PreferredIndex(pat, Subject) = "spo"
<1>1. /\ OrderRank(pat, Subject, 1) = 0 /\ OrderRank(pat, Subject, 2) = 3
      /\ OrderRank(pat, Subject, 3) = 3
  <2>1. pat[2] # pat[1] /\ pat[3] # pat[1]
    OBVIOUS
  <2> QED  BY <2>1 DEF OrderRank, Subject
<1>2. /\ ~Before(pat, Subject, 2, 1) /\ ~Before(pat, Subject, 3, 1)
      /\ ~Before(pat, Subject, 3, 2)
  BY <1>1 DEF Before
<1>3. \A i \in Order : Sorted(pat, Subject, i) => i = "spo"
  BY <1>2 DEF Sorted, IndexOrdered, Order
<1> QED  BY <1>3, PreferredFacts

\* The one free position of a pattern comes last, in an index and its partner.
LEMMA FreeLast ==
  ASSUME NEW pat, NEW w \in 1..3, \A j \in 1..3 : pat[j] \in Node <=> j # w,
         NEW i \in Order, Sorted(pat, Subject, i) \/ Sorted(pat, Subject, Partner(i))
  PROVE  /\ IndexOrdered(i, pat)[1] \in Node /\ IndexOrdered(i, pat)[2] \in Node
         /\ \A x : (\A j \in 1..3 : pat[j] \in Node => x[j] = pat[j])
                     <=> /\ IndexOrdered(i, x)[1] = IndexOrdered(i, pat)[1]
                         /\ IndexOrdered(i, x)[2] = IndexOrdered(i, pat)[2]
<1>1. \A j \in 1..3 : j # w => ~Before(pat, Subject, w, j)
  <2> TAKE j \in 1..3
  <2> HAVE j # w
  <2>1. OrderRank(pat, Subject, j) = 0
    BY DEF OrderRank
  <2>2. OrderRank(pat, Subject, w) \in {1, 2, 3}
    BY DEF OrderRank
  <2> QED  BY <2>1, <2>2 DEF Before
<1>2. \/ w = 1 /\ i \in {"pos", "ops"}
      \/ w = 2 /\ i \in {"osp", "sop"}
      \/ w = 3 /\ i \in {"spo", "pso"}
  <2>1. CASE w = 1 BY <1>1, <2>1 DEF Sorted, IndexOrdered, Order, Partner
  <2>2. CASE w = 2 BY <1>1, <2>2 DEF Sorted, IndexOrdered, Order, Partner
  <2>3. CASE w = 3 BY <1>1, <2>3 DEF Sorted, IndexOrdered, Order, Partner
  <2> QED  BY <2>1, <2>2, <2>3
<1>3. CASE w = 1 /\ i \in {"pos", "ops"}
  <2>1. pat[1] \notin Node /\ pat[2] \in Node /\ pat[3] \in Node
    BY <1>3
  <2>2. \A x : (\A j \in 1..3 : pat[j] \in Node => x[j] = pat[j])
                 <=> x[2] = pat[2] /\ x[3] = pat[3]
    BY <2>1
  <2> QED  BY <1>3, <2>1, <2>2 DEF IndexOrdered
<1>4. CASE w = 2 /\ i \in {"osp", "sop"}
  <2>1. pat[1] \in Node /\ pat[2] \notin Node /\ pat[3] \in Node
    BY <1>4
  <2>2. \A x : (\A j \in 1..3 : pat[j] \in Node => x[j] = pat[j])
                 <=> x[1] = pat[1] /\ x[3] = pat[3]
    BY <2>1
  <2> QED  BY <1>4, <2>1, <2>2 DEF IndexOrdered
<1>5. CASE w = 3 /\ i \in {"spo", "pso"}
  <2>1. pat[1] \in Node /\ pat[2] \in Node /\ pat[3] \notin Node
    BY <1>5
  <2>2. \A x : (\A j \in 1..3 : pat[j] \in Node => x[j] = pat[j])
                 <=> x[1] = pat[1] /\ x[2] = pat[2]
    BY <2>1
  <2> QED  BY <1>5, <2>1, <2>2 DEF IndexOrdered
<1> QED  BY <1>2, <1>3, <1>4, <1>5

\* The number of variables of a pattern.
LEMMA VariablesCounted ==
  ASSUME NEW pat
  PROVE  Cardinality({j \in 1..3 : pat[j] \in Variable})
           = One(pat[1] \in Variable) + One(pat[2] \in Variable) + One(pat[3] \in Variable)
<1> DEFINE V(D) == {j \in D : pat[j] \in Variable}
<1>1. ASSUME NEW D, IsFiniteSet(V(D)), NEW e, e \notin D
      PROVE  /\ IsFiniteSet(V(D \cup {e}))
             /\ Cardinality(V(D \cup {e})) = Cardinality(V(D)) + One(pat[e] \in Variable)
  <2>1. CASE pat[e] \in Variable
    <3>1. V(D \cup {e}) = V(D) \cup {e} /\ e \notin V(D)
      BY <1>1, <2>1
    <3> HIDE DEF V
    <3> QED  BY <1>1, <2>1, <3>1, CardPut DEF One
  <2>2. CASE pat[e] \notin Variable
    <3>1. V(D \cup {e}) = V(D)
      BY <2>2
    <3> HIDE DEF V
    <3>2. Cardinality(V(D)) \in Nat
      BY <1>1, FS_CardinalityType
    <3> QED  BY <1>1, <2>2, <3>1, <3>2 DEF One
  <2> QED  BY <2>1, <2>2
<1>2. V({}) = {} /\ 1..3 = (({} \cup {1}) \cup {2}) \cup {3}
  OBVIOUS
<1>3. IsFiniteSet(V({})) /\ Cardinality(V({})) = 0
  BY <1>2, FS_EmptySet
<1> HIDE DEF V
<1>4. /\ IsFiniteSet(V({} \cup {1}))
      /\ Cardinality(V({} \cup {1})) = One(pat[1] \in Variable)
  BY <1>1, <1>3, OneType
<1>5. /\ IsFiniteSet(V(({} \cup {1}) \cup {2}))
      /\ Cardinality(V(({} \cup {1}) \cup {2}))
           = One(pat[1] \in Variable) + One(pat[2] \in Variable)
  BY <1>1, <1>4
<1>6. Cardinality(V((({} \cup {1}) \cup {2}) \cup {3}))
        = One(pat[1] \in Variable) + One(pat[2] \in Variable) + One(pat[3] \in Variable)
  BY <1>1, <1>5
<1> QED  BY <1>2, <1>6 DEF V

\* With distinct variables a triple matches when it has the bound nodes.
LEMMA MatchesDistinct ==
  ASSUME NEW pat \in Pattern, Distinct(pat), NEW x
  PROVE  Matches(pat, x) <=> \A j \in 1..3 : pat[j] \in Node => x[j] = pat[j]
<1>1. \A j \in 1..3 : pat[j] \in Node \/ pat[j] \in Variable
  BY DEF Pattern
<1> QED  BY <1>1 DEF Matches, Distinct

\* No variable is a node: the node map counts up from 1, variables down from -1.
LEMMA NoNodeIsVariable == Node \cap Variable = {}
BY NodeAssumption, VariableAssumption

\* A slot leads to the nodes that complete its two to a triple of the store.
LEMMA SlotCounts ==
  ASSUME IInv, NEW i \in Indexes, NEW a \in Node, NEW b \in Node
  PROVE  (IF hx.terminal[i][<<a, b>>] # NULL
          THEN Cardinality(hx.nodes[hx.terminal[i][<<a, b>>]]) ELSE 0)
           = Cardinality(Third(Content, i, a, b))
<1>1. i \in Order /\ Home(i, a, b) # NULL
  BY IndexesAssumption, HomeType, NullAssumption
<1>2. hx.terminal[i][<<a, b>>] = IF Third(Content, i, a, b) = {} THEN NULL ELSE Home(i, a, b)
  BY DEF IInv, Rep, PointersAre
<1>3. hx.nodes[Home(i, a, b)] = Third(Content, i, a, b)
  BY DEF IInv, Rep, NodesAre
<1> QED  BY <1>1, <1>2, <1>3, FS_EmptySet

\* Those nodes are as many as those triples.
LEMMA ThirdCounts ==
  ASSUME NEW T \in SUBSET Triple, IsFiniteSet(T), NEW i \in Order, NEW a \in Node, NEW b \in Node
  PROVE  Cardinality(Third(T, i, a, b))
           = Cardinality({x \in T : IndexOrdered(i, x)[1] = a /\ IndexOrdered(i, x)[2] = b})
<1> DEFINE X == {x \in T : IndexOrdered(i, x)[1] = a /\ IndexOrdered(i, x)[2] = b}
           C == Third(T, i, a, b)
           f == [x \in X |-> IndexOrdered(i, x)[3]]
<1>1. IsFiniteSet(X)
  BY FS_Subset
<1>2. ASSUME NEW x \in X PROVE f[x] \in C /\ x = TripleOf(i, a, b, f[x])
  <2>1. x \in Triple /\ x \in T /\ IndexOrdered(i, x)[1] = a /\ IndexOrdered(i, x)[2] = b
    OBVIOUS
  <2>2. IndexOrdered(i, x)[3] \in Node /\ x = TripleOf(i, a, b, IndexOrdered(i, x)[3])
    BY <2>1, OrderedType, TripleOfOrdered
  <2> QED  BY <2>1, <2>2 DEF Third
<1>3. ASSUME NEW c \in C PROVE \E x \in X : f[x] = c
  <2>1. c \in Node /\ TripleOf(i, a, b, c) \in T
    BY DEF Third
  <2>2. IndexOrdered(i, TripleOf(i, a, b, c)) = <<a, b, c>>
    BY <2>1, TripleOfFacts
  <2>3. TripleOf(i, a, b, c) \in X
    BY <2>1, <2>2
  <2> QED  BY <2>2, <2>3
<1>4. f \in [X -> C]
  BY <1>2
<1>5. \A x, y \in X : f[x] = f[y] => x = y
  BY <1>2
<1> HIDE DEF X, C, f
<1>6. f \in Bijection(X, C)
  BY <1>3, <1>4, <1>5, Fun_IsBij
<1>7. ExistsBijection(X, C)
  BY <1>6 DEF ExistsBijection
<1>8. Cardinality(C) = Cardinality(X)
  BY <1>1, <1>7, FS_Bijection
<1> QED  BY <1>8 DEF C, X

\* With one position free the count is the size of the terminal that is found.
LEMMA CountsOneFree ==
  ASSUME IInv, CountInv, Covered, NEW pat \in Pattern, Distinct(pat),
         NEW w \in 1..3, \A j \in 1..3 : pat[j] \in Node <=> j # w
  PROVE  LET i == OrderedIndex(pat, Subject)
             k == IndexOrdered(i, pat)
         IN  (IF {k[1], k[2]} \subseteq Node /\ hx.terminal[i][<<k[1], k[2]>>] # NULL
              THEN Cardinality(hx.nodes[hx.terminal[i][<<k[1], k[2]>>]]) ELSE 0)
               = Cardinality(Answer(pat))
<1>1. PICK i \in Indexes : i = OrderedIndex(pat, Subject)
  BY OrderedIndexIs
<1>2. i \in Order /\ (Sorted(pat, Subject, i) \/ Sorted(pat, Subject, Partner(i)))
  <2>1. PreferredIndex(pat, Subject) \in Order
        /\ Sorted(pat, Subject, PreferredIndex(pat, Subject))
    BY PreferredFacts
  <2>2. i = PreferredIndex(pat, Subject) \/ i = Partner(PreferredIndex(pat, Subject))
    BY <1>1, OrderedIndexIs
  <2>3. i \in Order
    BY IndexesAssumption
  <2> QED  BY <2>1, <2>2, <2>3, PartnerFacts
<1> DEFINE a == IndexOrdered(i, pat)[1]
           b == IndexOrdered(i, pat)[2]
<1>3. /\ a \in Node /\ b \in Node
      /\ \A x : (\A j \in 1..3 : pat[j] \in Node => x[j] = pat[j])
                  <=> IndexOrdered(i, x)[1] = a /\ IndexOrdered(i, x)[2] = b
  BY <1>2, FreeLast
<1> HIDE DEF a, b
<1>4. Answer(pat) = {x \in Content : IndexOrdered(i, x)[1] = a /\ IndexOrdered(i, x)[2] = b}
  BY <1>3, MatchesDistinct DEF Answer
<1>5. (IF hx.terminal[i][<<a, b>>] # NULL
       THEN Cardinality(hx.nodes[hx.terminal[i][<<a, b>>]]) ELSE 0)
        = Cardinality(Third(Content, i, a, b))
  BY <1>3, SlotCounts
<1>6. Cardinality(Third(Content, i, a, b)) = Cardinality(Answer(pat))
  BY <1>2, <1>3, <1>4, ContentType, ThirdCounts DEF CountInv
<1> QED  BY <1>1, <1>3, <1>5, <1>6 DEF a, b

\* With the subject alone bound it is the counter of the subject's vector.
LEMMA CountsSubject ==
  ASSUME IInv, CountInv, "spo" \in Indexes, NEW pat \in Pattern, Distinct(pat),
         pat[1] \in Node, pat[2] \notin Node, pat[3] \notin Node
  PROVE  LET i == OrderedIndex(pat, Subject)
             k == IndexOrdered(i, pat)
         IN  (IF k[1] \in hx.vectors[i] THEN hx.vectorCount[i][k[1]] ELSE 0)
               = Cardinality(Answer(pat))
<1>1. OrderedIndex(pat, Subject) = "spo" /\ IndexOrdered("spo", pat)[1] = pat[1]
  BY SubjectFirst DEF OrderedIndex, IndexOrdered
<1>2. PICK n \in Node : n = pat[1]
  OBVIOUS
<1>3. \A x : (\A j \in 1..3 : pat[j] \in Node => x[j] = pat[j]) <=> x[1] = n
  BY <1>2
<1>4. Answer(pat) = Under(Content, "spo", n)
  <2>1. \A x : IndexOrdered("spo", x)[1] = x[1]
    BY DEF IndexOrdered
  <2>2. \A x : Matches(pat, x) <=> x[1] = n
    BY <1>3, MatchesDistinct
  <2> QED  BY <2>1, <2>2 DEF Answer, Under
<1>5. hx.vectorCount["spo"][n] = Cardinality(Under(Content, "spo", n))
  BY DEF CountInv, Counters, CountersAre, RemovedFirst
<1>6. n \notin hx.vectors["spo"] => Under(Content, "spo", n) = {}
  <2> SUFFICES ASSUME NEW x \in Content, IndexOrdered("spo", x)[1] = n
               PROVE  n \in hx.vectors["spo"]
    BY DEF Under
  <2>1. x \in Triple /\ "spo" \in Order
    BY ContentType, IndexesAssumption
  <2>2. IndexOrdered("spo", x)[2] \in Node
        /\ Third(Content, "spo", n, IndexOrdered("spo", x)[2]) # {}
    BY <2>1, OrderedType, ThirdIs
  <2> QED  BY <2>2 DEF IInv, Rep, PointersAre
<1> QED  BY <1>1, <1>2, <1>4, <1>5, <1>6, FS_EmptySet

LEMMA CountIsRight ==
  ASSUME IInv, CountInv, Covered, "spo" \in Indexes, NEW pat \in Pattern, Distinct(pat),
         OneBound(pat) => pat[1] \in Node
  PROVE  Count(pat) = Cardinality(Answer(pat))
<1> DEFINE n == Cardinality({j \in 1..3 : pat[j] \in Variable})
           i == OrderedIndex(pat, Subject)
           k == IndexOrdered(i, pat)
<1>1. n = One(pat[1] \in Variable) + One(pat[2] \in Variable) + One(pat[3] \in Variable)
  BY VariablesCounted
<1>2. \A j \in 1..3 : pat[j] \in Variable <=> pat[j] \notin Node
  BY NoNodeIsVariable DEF Pattern
<1>3. /\ n = 3 => Count(pat) = Size
      /\ n = 2 => Count(pat) = IF k[1] \in hx.vectors[i] THEN hx.vectorCount[i][k[1]] ELSE 0
      /\ n = 1 => Count(pat) = IF /\ {k[1], k[2]} \subseteq Node
                                  /\ hx.terminal[i][<<k[1], k[2]>>] # NULL
                               THEN Cardinality(hx.nodes[hx.terminal[i][<<k[1], k[2]>>]])
                               ELSE 0
      /\ n = 0 => Count(pat) = One(ContainsTriple(pat))
  <2> HIDE DEF n, i, k
  <2>1. Count(pat) = CASE n = 3 -> Size
                       [] n = 2 -> IF k[1] \in hx.vectors[i] THEN hx.vectorCount[i][k[1]] ELSE 0
                       [] n = 1 -> IF /\ {k[1], k[2]} \subseteq Node
                                      /\ hx.terminal[i][<<k[1], k[2]>>] # NULL
                                   THEN Cardinality(hx.nodes[hx.terminal[i][<<k[1], k[2]>>]])
                                   ELSE 0
                       [] n = 0 -> One(ContainsTriple(pat))
    BY DEF Count, n, i, k
  <2> QED  BY <2>1
<1>4. n = 2 <=> OneBound(pat)
  BY DEF OneBound
<1> HIDE DEF n, i, k
<1>5. ASSUME \A j \in 1..3 : pat[j] \in Variable PROVE Count(pat) = Cardinality(Answer(pat))
  <2>1. n = 3
    BY <1>1, <1>5 DEF One
  <2>2. Answer(pat) = Content
    <3>1. \A j \in 1..3 : pat[j] \notin Node
      BY <1>2, <1>5
    <3> QED  BY <3>1, MatchesDistinct DEF Answer
  <2>3. hx.headCount["spo"] = Cardinality(Content)
    BY DEF CountInv, Counters, CountersAre, RemovedFirst
  <2> QED  BY <1>3, <2>1, <2>2, <2>3 DEF Size
<1>6. ASSUME NEW w \in 1..3, \A j \in 1..3 : pat[j] \in Node <=> j # w
      PROVE  Count(pat) = Cardinality(Answer(pat))
  <2>1. n = 1
    <3>1. w = 1 \/ w = 2 \/ w = 3
      OBVIOUS
    <3>2. \A j \in 1..3 : One(pat[j] \in Variable) = IF j = w THEN 1 ELSE 0
      BY <1>2, <1>6 DEF One
    <3> QED  BY <1>1, <3>1, <3>2
  <2> QED  BY <1>3, <1>6, <2>1, CountsOneFree DEF i, k
<1>7. ASSUME NEW v \in 1..3, \A j \in 1..3 : pat[j] \in Node <=> j = v
      PROVE  Count(pat) = Cardinality(Answer(pat))
  <2>1. n = 2
    <3>1. v = 1 \/ v = 2 \/ v = 3
      OBVIOUS
    <3>2. \A j \in 1..3 : One(pat[j] \in Variable) = IF j = v THEN 0 ELSE 1
      BY <1>2, <1>7 DEF One
    <3> QED  BY <1>1, <3>1, <3>2
  <2>2. pat[1] \in Node /\ pat[2] \notin Node /\ pat[3] \notin Node
    BY <1>4, <1>7, <2>1
  <2> QED  BY <1>3, <2>1, <2>2, CountsSubject DEF i, k
<1>8. ASSUME \A j \in 1..3 : pat[j] \in Node PROVE Count(pat) = Cardinality(Answer(pat))
  <2>1. n = 0
    <3>1. \A j \in 1..3 : One(pat[j] \in Variable) = 0
      BY <1>2, <1>8 DEF One
    <3> QED  BY <1>1, <3>1
  <2>2. pat \in Triple
    BY <1>8 DEF Pattern, Triple
  <2>3. ContainsTriple(pat) <=> pat \in Content
    <3>1. i \in Indexes
      BY OrderedIndexIs DEF i
    <3> QED  BY <2>2, <3>1, ContentType, RepHolds DEF IInv, ContainsTriple, Holds, i
  <2>4. \A x \in Content : Matches(pat, x) <=> x = pat
    <3> TAKE x \in Content
    <3>1. x \in Triple
      BY ContentType
    <3>2. Matches(pat, x) <=> x[1] = pat[1] /\ x[2] = pat[2] /\ x[3] = pat[3]
      BY <1>8, MatchesDistinct
    <3> QED  BY <2>2, <3>1, <3>2 DEF Triple
  <2>5. CASE pat \in Content
    <3>1. Answer(pat) = {pat}
      BY <2>4, <2>5 DEF Answer
    <3> QED  BY <1>3, <2>1, <2>3, <2>5, <3>1, FS_Singleton DEF One
  <2>6. CASE pat \notin Content
    <3>1. Answer(pat) = {}
      BY <2>4, <2>6 DEF Answer
    <3> QED  BY <1>3, <2>1, <2>3, <2>6, <3>1, FS_EmptySet DEF One
  <2> QED  BY <2>5, <2>6
<1>9. \/ \A j \in 1..3 : pat[j] \in Variable
      \/ \E w \in 1..3 : \A j \in 1..3 : pat[j] \in Node <=> j # w
      \/ \E v \in 1..3 : \A j \in 1..3 : pat[j] \in Node <=> j = v
      \/ \A j \in 1..3 : pat[j] \in Node
  <2> DEFINE N(j) == pat[j] \in Node
  <2>1. \A j \in 1..3 : pat[j] \in Variable <=> ~N(j)
    BY <1>2
  <2> HIDE DEF N
  <2>2. \/ \A j \in 1..3 : ~N(j)
        \/ \E w \in 1..3 : \A j \in 1..3 : N(j) <=> j # w
        \/ \E v \in 1..3 : \A j \in 1..3 : N(j) <=> j = v
        \/ \A j \in 1..3 : N(j)
    <3>1. CASE ~N(1) /\ ~N(2) /\ ~N(3) BY <3>1
    <3>2. CASE ~N(1) /\ ~N(2) /\ N(3)  BY <3>2
    <3>3. CASE ~N(1) /\ N(2) /\ ~N(3)  BY <3>3
    <3>4. CASE ~N(1) /\ N(2) /\ N(3)   BY <3>4
    <3>5. CASE N(1) /\ ~N(2) /\ ~N(3)  BY <3>5
    <3>6. CASE N(1) /\ ~N(2) /\ N(3)   BY <3>6
    <3>7. CASE N(1) /\ N(2) /\ ~N(3)   BY <3>7
    <3>8. CASE N(1) /\ N(2) /\ N(3)    BY <3>8
    <3> QED  BY <3>1, <3>2, <3>3, <3>4, <3>5, <3>6, <3>7, <3>8
  <2> QED  BY <2>1, <2>2 DEF N
<1> QED  BY <1>5, <1>6, <1>7, <1>8, <1>9

\* A count is right for every pattern of known nodes and distinct variables,
\* except those that leave the subject free and bind only one other position, in
\* a store that has spo and an index of each pair.
THEOREM CountsAreRight ==
  ASSUME Covered, "spo" \in Indexes PROVE Spec => []CountMostlyRight
<1>1. Init => CountInv
  BY InitCountInv
<1>2. IInv /\ CountInv /\ [Next]_vars => CountInv'
  BY NextCountInv
<1>3. IInv /\ CountInv /\ CountsKept => CountMostlyRight
  <2> SUFFICES ASSUME IInv, CountInv, CountsKept, NEW pat \in Pattern, Distinct(pat),
                      AllKnown(pat), OneBound(pat) => pat[1] \in Node
               PROVE  CountRight(pat)
    BY DEF CountMostlyRight
  <2>1. CountResults(pat) = {Count(pat)}
    BY DEF AllKnown, CountResults
  <2> QED  BY <2>1, CountIsRight DEF CountRight
<1> QED
  BY <1>1, <1>2, <1>3, IndexesAgree, CountersHold, PTL DEF Spec

==============================================================================
