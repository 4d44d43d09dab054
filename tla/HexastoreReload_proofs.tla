----------------------- MODULE HexastoreReload_proofs -----------------------
(***************************************************************************)
(* The store of module Hexastore when it is saved and loaded now and then. *)
(* Partners come back with terminals of their own, so they no longer show  *)
(* the same triples: an index that allocates terminals still shows them    *)
(* all, and its partner, from slot to slot, shares the terminal, has one   *)
(* of its own with some of the nodes, or has none.                         *)
(***************************************************************************)
EXTENDS Hexastore_proofs

-----------------------------------------------------------------------------
(* What the partner of an allocating index looks like when that shows T.   *)

FollowsAt(S, j, T, a, b) ==
  LET t   == S.terminal[j][<<a, b>>]
      own == <<j, a, b>>
  IN  \/ t = NULL
      \/ t = Home(j, a, b) /\ Third(T, j, a, b) # {}
      \/ t = own /\ S.nodes[own] # {} /\ S.nodes[own] \subseteq Third(T, j, a, b)

VectorsAre(S, j) ==
  S.vectors[j] = {a \in Node : \E b \in Node : S.terminal[j][<<a, b>>] # NULL}

Follows(S, j, T) == (\A a, b \in Node : FollowsAt(S, j, T, a, b)) /\ VectorsAre(S, j)

\* The store keeps the triples of T.
Keeps(S, T) ==
  \A j \in Indexes : IF Allocates(j) THEN NodesAre(S, j, T) /\ PointersAre(S, j, T)
                     ELSE Follows(S, j, T)

\* The same halfway: the indexes of P have been changed from T to U.  One that
\* allocates has the nodes of U when the partner it shares them with was changed.
Halfway(S, P, T, U) ==
  \A j \in Indexes :
    IF Allocates(j)
    THEN /\ PointersAre(S, j, IF j \in P THEN U ELSE T)
         /\ \/ NodesAre(S, j, IF j \in P THEN U ELSE T)
            \/ Partner(j) \in P \cap Indexes /\ NodesAre(S, j, U)
    ELSE Follows(S, j, IF j \in P THEN U ELSE T)

LEMMA KeepsIsHalfway ==
  ASSUME NEW S, NEW T, NEW U
  PROVE  /\ Keeps(S, T) => Halfway(S, {}, T, U)
         /\ \A P : Order \subseteq P /\ Halfway(S, P, T, U) => Keeps(S, U)
BY IndexesAssumption DEF Keeps, Halfway

LEMMA OneAllocates ==
  ASSUME NEW i \in Indexes
  PROVE  /\ ~Allocates(i) => Partner(i) \in Indexes /\ Allocates(Partner(i))
         /\ Allocates(i) /\ Partner(i) \in Indexes => ~Allocates(Partner(i))
BY IndexesAssumption DEF Allocates, Order, Partner

\* A partner does not depend on the terminals it shares, only on its own.
LEMMA FollowsStays ==
  ASSUME NEW S, NEW R, NEW j, NEW T, Follows(S, j, T),
         R.terminal[j] = S.terminal[j], R.vectors[j] = S.vectors[j],
         \A a, b \in Node : R.nodes[<<j, a, b>>] = S.nodes[<<j, a, b>>]
  PROVE  Follows(R, j, T)
<1>1. ASSUME NEW a \in Node, NEW b \in Node PROVE FollowsAt(R, j, T, a, b)
  <2>1. FollowsAt(S, j, T, a, b)
    BY DEF Follows
  <2>2. R.nodes[<<j, a, b>>] = S.nodes[<<j, a, b>>]
    OBVIOUS
  <2> QED  BY <2>1, <2>2 DEF FollowsAt
<1>2. VectorsAre(R, j)
  BY DEF Follows, VectorsAre
<1> QED  BY <1>1, <1>2 DEF Follows

LEMMA ShownStays ==
  ASSUME NEW S, NEW R, NEW j, NEW T,
         R.terminal[j] = S.terminal[j], R.vectors[j] = S.vectors[j],
         \A a, b \in Node : R.nodes[Home(j, a, b)] = S.nodes[Home(j, a, b)]
  PROVE  /\ NodesAre(S, j, T) => NodesAre(R, j, T)
         /\ PointersAre(S, j, T) => PointersAre(R, j, T)
BY DEF NodesAre, PointersAre

\* An index that allocates is changed, at one slot.
LEMMA AllocatorHalfway ==
  ASSUME NEW S, NEW R, NEW P, NEW T, NEW U, NEW i \in Indexes, Allocates(i),
         NEW a \in Node, NEW b \in Node,
         Halfway(S, P, T, U), OnlyAt(S, R, i, a, b), NodesAre(R, i, U), PointersAre(R, i, U)
  PROVE  Halfway(R, P \cup {i}, T, U)
<1> DEFINE Q == P \cup {i}
           X(j) == IF j \in P THEN U ELSE T
<1>1. i \in Order
  BY IndexesAssumption
<1>2. ASSUME NEW j \in Indexes, j # i, Allocates(j)
      PROVE  /\ PointersAre(R, j, X(j))
             /\ \/ NodesAre(R, j, X(j))
                \/ Partner(j) \in Q \cap Indexes /\ NodesAre(R, j, U)
  <2>1. j # Partner(i) /\ j \in Order
    BY <1>2, OneAllocates, IndexesAssumption
  <2>2. \A c, d \in Node : Home(j, c, d) # Home(i, a, b) /\ Home(j, c, d) \in Terminal
    BY <1>2, <2>1, HomeInjective, HomeType
  <2>3. \A c, d \in Node : R.nodes[Home(j, c, d)] = S.nodes[Home(j, c, d)]
    BY <2>2 DEF OnlyAt
  <2>4. R.terminal[j] = S.terminal[j] /\ R.vectors[j] = S.vectors[j]
    BY <1>2 DEF OnlyAt
  <2>5. /\ PointersAre(S, j, X(j))
        /\ \/ NodesAre(S, j, X(j))
           \/ Partner(j) \in P \cap Indexes /\ NodesAre(S, j, U)
    BY <1>2 DEF Halfway
  <2> HIDE DEF X
  <2> QED  BY <2>3, <2>4, <2>5, ShownStays
<1>3. ASSUME NEW j \in Indexes, ~Allocates(j) PROVE Follows(R, j, X(j))
  <2>1. j # i /\ j \in Order
    BY <1>3, IndexesAssumption
  <2>2. \A c, d \in Node : <<j, c, d>> \in Terminal /\ <<j, c, d>> # Home(i, a, b)
    BY <2>1 DEF Terminal, Home
  <2>3. \A c, d \in Node : R.nodes[<<j, c, d>>] = S.nodes[<<j, c, d>>]
    BY <2>2 DEF OnlyAt
  <2>4. R.terminal[j] = S.terminal[j] /\ R.vectors[j] = S.vectors[j]
    BY <2>1 DEF OnlyAt
  <2>5. Follows(S, j, X(j))
    BY <1>3 DEF Halfway
  <2> HIDE DEF X
  <2> QED  BY <2>3, <2>4, <2>5, FollowsStays
<1>4. \A j \in Indexes : j # i => (j \in Q <=> j \in P)
  OBVIOUS
<1> QED  BY <1>2, <1>3, <1>4 DEF Halfway

\* R is S but for partner j, and for nodes of its terminals and those it shares.
FollowerDone(S, R, j, T, U) ==
  LET i == Partner(j)
  IN  /\ Follows(R, j, U)
      /\ \A l \in Indexes : l # j => /\ R.terminal[l] = S.terminal[l]
                                     /\ R.vectors[l] = S.vectors[l]
      /\ \A l \in Order, a, b \in Node :
           l # i /\ l # j => R.nodes[<<l, a, b>>] = S.nodes[<<l, a, b>>]
      /\ \A X \in {T, U} : NodesAre(S, i, X) => NodesAre(R, i, X) \/ NodesAre(R, i, U)

LEMMA FollowerHalfway ==
  ASSUME NEW S, NEW R, NEW P, NEW T, NEW U, NEW j \in Indexes, ~Allocates(j),
         Halfway(S, P, T, U), FollowerDone(S, R, j, T, U)
  PROVE  Halfway(R, P \cup {j}, T, U)
<1> DEFINE Q == P \cup {j}
           X(l) == IF l \in P THEN U ELSE T
<1> DEFINE i == Partner(j)
<1>0. /\ Follows(R, j, U)
      /\ \A l \in Indexes : l # j => /\ R.terminal[l] = S.terminal[l]
                                     /\ R.vectors[l] = S.vectors[l]
      /\ \A l \in Order, a, b \in Node :
           l # i /\ l # j => R.nodes[<<l, a, b>>] = S.nodes[<<l, a, b>>]
      /\ \A Y \in {T, U} : NodesAre(S, i, Y) => NodesAre(R, i, Y) \/ NodesAre(R, i, U)
  BY DEF FollowerDone
<1>1. i \in Indexes /\ Allocates(i) /\ i \in Order /\ j \in Order /\ Partner(i) = j /\ i # j
  BY OneAllocates, IndexesAssumption, PartnerFacts
<1>2. ASSUME NEW l \in Indexes, l # i, Allocates(l)
      PROVE  /\ PointersAre(R, l, X(l))
             /\ \/ NodesAre(R, l, X(l))
                \/ Partner(l) \in Q \cap Indexes /\ NodesAre(R, l, U)
  <2>1. l # j /\ l \in Order
    BY <1>2, IndexesAssumption
  <2>2. \A c, d \in Node : R.nodes[Home(l, c, d)] = S.nodes[Home(l, c, d)]
    BY <1>0, <1>2, <2>1 DEF Home
  <2>3. R.terminal[l] = S.terminal[l] /\ R.vectors[l] = S.vectors[l]
    BY <1>0, <2>1
  <2>4. /\ PointersAre(S, l, X(l))
        /\ \/ NodesAre(S, l, X(l))
           \/ Partner(l) \in P \cap Indexes /\ NodesAre(S, l, U)
    BY <1>2 DEF Halfway
  <2> HIDE DEF X
  <2> QED  BY <2>2, <2>3, <2>4, ShownStays
<1>3. /\ PointersAre(R, i, X(i))
      /\ NodesAre(R, i, X(i)) \/ (Partner(i) \in Q \cap Indexes /\ NodesAre(R, i, U))
  <2>1. R.terminal[i] = S.terminal[i] /\ R.vectors[i] = S.vectors[i]
    BY <1>0, <1>1
  <2>2. PointersAre(S, i, X(i)) /\ (NodesAre(S, i, X(i)) \/ NodesAre(S, i, U))
    BY <1>1 DEF Halfway
  <2>3. X(i) \in {T, U}
    OBVIOUS
  <2> HIDE DEF X
  <2>4. PointersAre(R, i, X(i))
    BY <2>1, <2>2 DEF PointersAre
  <2>5. NodesAre(R, i, X(i)) \/ NodesAre(R, i, U)
    BY <1>0, <2>2, <2>3
  <2> QED  BY <1>1, <2>4, <2>5
<1>4. ASSUME NEW l \in Indexes, ~Allocates(l), l # j PROVE Follows(R, l, X(l))
  <2>1. l # i /\ l \in Order
    BY <1>1, <1>4, IndexesAssumption
  <2>2. R.terminal[l] = S.terminal[l] /\ R.vectors[l] = S.vectors[l]
    BY <1>0, <1>4
  <2>3. Follows(S, l, X(l))
    BY <1>4 DEF Halfway
  <2>4. \A a, b \in Node : R.nodes[<<l, a, b>>] = S.nodes[<<l, a, b>>]
    BY <1>0, <1>4, <2>1
  <2> HIDE DEF X
  <2> QED  BY <2>2, <2>3, <2>4, FollowsStays
<1>5. \A l \in Indexes : l # j => (l \in Q <=> l \in P)
  OBVIOUS
<1> QED  BY <1>0, <1>1, <1>2, <1>3, <1>4, <1>5 DEF Halfway

LEMMA AbsentHalfway ==
  ASSUME NEW S, NEW P, NEW T, NEW U, NEW i \in Order, i \notin Indexes, Halfway(S, P, T, U)
  PROVE  Halfway(S, P \cup {i}, T, U)
<1> SUFFICES ASSUME NEW j \in Indexes
             PROVE  /\ j \in P \cup {i} <=> j \in P
                    /\ Partner(j) \in (P \cup {i}) \cap Indexes
                         <=> Partner(j) \in P \cap Indexes
  BY DEF Halfway
<1> QED  OBVIOUS

-----------------------------------------------------------------------------
(* Removal and addition.                                                   *)

PutAt(S, j, a, b, v) == [S.terminal EXCEPT ![j][<<a, b>>] = v]

LEMMA TerminalPut ==
  ASSUME NEW S \in Store, NEW R, NEW j \in Order, NEW a \in Node, NEW b \in Node, NEW v,
         R.terminal = PutAt(S, j, a, b, v)
  PROVE  /\ \A d, e \in Node : R.terminal[j][<<d, e>>] =
                                 IF d = a /\ e = b THEN v ELSE S.terminal[j][<<d, e>>]
         /\ \A l \in Order : l # j => R.terminal[l] = S.terminal[l]
<1>1. S.terminal[j] \in [Slot -> Terminal \cup {NULL}]
  BY DEF Store
<1>2. R.terminal[j] = [S.terminal[j] EXCEPT ![<<a, b>>] = v]
  BY DEF Store, PutAt
<1>3. \A d, e \in Node : <<d, e>> \in Slot /\ (<<d, e>> = <<a, b>> <=> d = a /\ e = b)
  BY DEF Slot
<1>4. \A l \in Order : l # j => R.terminal[l] = S.terminal[l]
  BY DEF Store, PutAt
<1> QED  BY <1>1, <1>2, <1>3, <1>4

LEMMA FollowerRemove ==
  ASSUME NEW S \in Store, NEW j \in Indexes, ~Allocates(j),
         NEW x \in Triple, NEW T, NEW U, U = T \ {x}, Follows(S, j, T),
         NodesAre(S, Partner(j), T) \/ NodesAre(S, Partner(j), U),
         NEW R, R = IndexRemoveTriple(S, j, x)
  PROVE  FollowerDone(S, R, j, T, U)
<1> DEFINE i   == Partner(j)
           k   == IndexOrdered(j, x)
           a   == k[1]
           b   == k[2]
           c   == k[3]
           h   == Home(j, a, b)
           own == <<j, a, b>>
           t   == S.terminal[j][<<a, b>>]
<1>1. i \in Indexes /\ Allocates(i) /\ i \in Order /\ j \in Order /\ Partner(i) = j /\ i # j
  BY OneAllocates, IndexesAssumption, PartnerFacts
<1>2. a \in Node /\ b \in Node /\ c \in Node
  BY <1>1, OrderedType
<1>3. \A d, e \in Node : Third(T \ {x}, j, d, e) =
        IF d = a /\ e = b THEN Third(T, j, d, e) \ {c} ELSE Third(T, j, d, e)
  BY <1>1, ThirdRemove
<1>4. h = <<i, b, a>> /\ h \in Terminal /\ own \in Terminal /\ h # own
  BY <1>1, <1>2 DEF Home, Terminal
<1>5. /\ \A d, e \in Node : FollowsAt(S, j, T, d, e)
      /\ S.vectors[j] = {d \in Node : \E e \in Node : S.terminal[j][<<d, e>>] # NULL}
  BY DEF Follows, VectorsAre
<1>6. CASE a \notin S.vectors[j] \/ t = NULL
  <2>1. R = S
    BY <1>6, ZenonT(60) DEF IndexRemoveTriple
  <2>2. t = NULL
    BY <1>2, <1>5, <1>6
  <2>3. \A d, e \in Node : FollowsAt(S, j, U, d, e)
    <3> SUFFICES ASSUME NEW d \in Node, NEW e \in Node PROVE FollowsAt(S, j, U, d, e)
      OBVIOUS
    <3>1. CASE d = a /\ e = b BY <2>2, <3>1 DEF FollowsAt
    <3>2. CASE ~(d = a /\ e = b)
      <4>1. Third(U, j, d, e) = Third(T, j, d, e)
        BY <1>3, <3>2
      <4> QED  BY <1>5, <4>1 DEF FollowsAt
    <3> QED  BY <3>1, <3>2
  <2>4. Follows(S, j, U)
    BY <2>3 DEF Follows
  <2> QED  BY <2>1, <2>4 DEF FollowerDone
<1>7. CASE ~(a \notin S.vectors[j] \/ t = NULL)
  <2> DEFINE left == S.nodes[t] \ {c}
             last == left = {} /\ \A e \in Node \ {b} : S.terminal[j][<<a, e>>] = NULL
             v    == IF left = {} THEN NULL ELSE t
  <2>1. \/ t = h /\ Third(T, j, a, b) # {}
        \/ t = own /\ S.nodes[own] # {} /\ S.nodes[own] \subseteq Third(T, j, a, b)
    <3>1. FollowsAt(S, j, T, a, b)
      BY <1>2, <1>5
    <3> QED  BY <1>7, <3>1 DEF FollowsAt
  <2>2. t \in Terminal
    BY <1>4, <2>1
  <2>3. /\ R.vectors  = [S.vectors  EXCEPT ![j] = IF last THEN @ \ {a} ELSE @]
        /\ R.terminal = PutAt(S, j, a, b, v)
        /\ R.nodes    = [S.nodes    EXCEPT ![t] = left]
    BY <1>7, Zenon DEF IndexRemoveTriple, PutAt
  <2> HIDE DEF left, v
  <2>4. /\ \A d, e \in Node : R.terminal[j][<<d, e>>] =
                                IF d = a /\ e = b THEN v ELSE S.terminal[j][<<d, e>>]
        /\ \A l \in Order : l # j => R.terminal[l] = S.terminal[l]
    <3> HIDE DEF a, b
    <3> QED  BY <1>1, <1>2, <2>3, TerminalPut
  <2>5. R.nodes[t] = left /\ \A u \in Terminal : u # t => R.nodes[u] = S.nodes[u]
    <3> HIDE DEF t
    <3> QED  BY <2>2, <2>3 DEF Store
  <2>6. /\ R.vectors[j] = IF last THEN S.vectors[j] \ {a} ELSE S.vectors[j]
        /\ \A l \in Order : l # j => R.vectors[l] = S.vectors[l]
    <3> HIDE DEF last, a
    <3> QED  BY <1>1, <2>3 DEF Store
  <2>7. ASSUME t = h
        PROVE  left = Third(U, j, a, b) /\ NodesAre(R, i, U)
    <3>1. S.nodes[h] \in {Third(T, j, a, b), Third(U, j, a, b)}
      <4>1. Third(T, i, b, a) = Third(T, j, a, b) /\ Third(U, i, b, a) = Third(U, j, a, b)
        BY <1>1, <1>2, ThirdPartner
      <4>2. Home(i, b, a) = h
        BY <1>1, <1>4 DEF Home
      <4> QED  BY <1>2, <4>1, <4>2 DEF NodesAre
    <3>2. left = Third(U, j, a, b)
      BY <1>2, <1>3, <2>7, <3>1, ZenonT(60) DEF left
    <3>3. ASSUME NEW d \in Node, NEW e \in Node
          PROVE  R.nodes[Home(i, d, e)] = Third(U, i, d, e)
      <4>1. Home(i, d, e) = <<i, d, e>> /\ Home(i, d, e) \in Terminal
        BY <1>1, HomeType DEF Home
      <4>2. Third(U, i, d, e) = Third(U, j, e, d) /\ Third(T, i, d, e) = Third(T, j, e, d)
        BY <1>1, ThirdPartner
      <4>3. CASE d = b /\ e = a
        BY <1>4, <2>5, <2>7, <3>2, <4>1, <4>2, <4>3
      <4>4. CASE ~(d = b /\ e = a)
        <5>1. R.nodes[Home(i, d, e)] = S.nodes[Home(i, d, e)]
          <6>1. Home(i, d, e) # t
            BY <1>4, <2>7, <4>1, <4>4
          <6> QED  BY <2>5, <4>1, <6>1
        <5>2. Third(U, j, e, d) = Third(T, j, e, d)
          BY <1>3, <4>4
        <5> QED  BY <4>2, <5>1, <5>2 DEF NodesAre
      <4> QED  BY <4>3, <4>4
    <3> QED  BY <3>2, <3>3 DEF NodesAre
  <2>8. ASSUME t = own, NEW X, NodesAre(S, i, X) PROVE NodesAre(R, i, X)
    <3>1. \A d, e \in Node : Home(i, d, e) \in Terminal /\ Home(i, d, e) # t
      <4>1. \A d, e \in Node : Home(i, d, e) = <<i, d, e>> /\ <<i, d, e>> # own
        BY <1>1 DEF Home
      <4> QED  BY <1>1, <2>8, <4>1, HomeType
    <3> QED  BY <2>5, <2>8, <3>1 DEF NodesAre
  <2>9. ASSUME NEW d \in Node, NEW e \in Node PROVE FollowsAt(R, j, U, d, e)
    <3>1. CASE d = a /\ e = b
      <4>1. R.terminal[j][<<a, b>>] = v
        BY <1>2, <2>4
      <4>2. CASE left = {}
        BY <3>1, <4>1, <4>2 DEF FollowsAt, v
      <4>3. CASE left # {} /\ t = h
        BY <2>7, <3>1, <4>1, <4>3 DEF FollowsAt, v
      <4>4. CASE left # {} /\ t = own
        <5>1. left \subseteq Third(U, j, a, b)
          BY <1>2, <1>3, <2>1, <4>4, <1>4 DEF left
        <5> QED  BY <2>5, <3>1, <4>1, <4>4, <5>1 DEF FollowsAt, v
      <4> QED  BY <2>1, <4>2, <4>3, <4>4
    <3>2. CASE ~(d = a /\ e = b)
      <4>1. R.terminal[j][<<d, e>>] = S.terminal[j][<<d, e>>]
        BY <2>4, <3>2
      <4>2. <<j, d, e>> \in Terminal /\ <<j, d, e>> # t
        BY <1>1, <1>4, <2>1, <3>2 DEF Terminal
      <4>3. R.nodes[<<j, d, e>>] = S.nodes[<<j, d, e>>]
        BY <2>5, <4>2
      <4>4. Third(U, j, d, e) = Third(T, j, d, e)
        BY <1>3, <3>2
      <4>5. FollowsAt(S, j, T, d, e)
        BY <1>5
      <4> QED  BY <4>1, <4>3, <4>4, <4>5 DEF FollowsAt
    <3> QED  BY <3>1, <3>2
  <2>10. VectorsAre(R, j)
    <3>1. ASSUME NEW d \in Node, d # a
          PROVE  d \in R.vectors[j] <=> \E e \in Node : R.terminal[j][<<d, e>>] # NULL
      <4>1. d \in R.vectors[j] <=> d \in S.vectors[j]
        <5> HIDE DEF last, a
        <5> QED  BY <2>6, <3>1
      <4>2. \A e \in Node : R.terminal[j][<<d, e>>] = S.terminal[j][<<d, e>>]
        BY <2>4, <3>1
      <4> QED  BY <1>5, <4>1, <4>2
    <3>2. a \in R.vectors[j] <=> \E e \in Node : R.terminal[j][<<a, e>>] # NULL
      <4>1. a \in S.vectors[j] /\ t # NULL
        BY <1>7
      <4>2. CASE last
        <5>1. a \notin R.vectors[j]
          BY <2>6, <4>2
        <5>2. v = NULL
          BY <4>2 DEF v
        <5>3. \A e \in Node : R.terminal[j][<<a, e>>] = NULL
          BY <1>2, <2>4, <4>2, <5>2
        <5> QED  BY <5>1, <5>3
      <4>3. CASE left # {}
        <5>1. R.terminal[j][<<a, b>>] # NULL
          BY <1>2, <2>4, <4>1, <4>3 DEF v
        <5> QED  BY <1>2, <2>6, <4>1, <4>3, <5>1
      <4>4. CASE \E e \in Node \ {b} : S.terminal[j][<<a, e>>] # NULL
        <5>1. PICK e \in Node \ {b} : S.terminal[j][<<a, e>>] # NULL
          BY <4>4
        <5>2. R.terminal[j][<<a, e>>] # NULL
          BY <1>2, <2>4, <5>1
        <5> QED  BY <2>6, <4>1, <4>4, <5>1, <5>2
      <4> QED  BY <4>2, <4>3, <4>4
    <3>3. R.vectors[j] \subseteq Node
      BY <1>5, <2>6
    <3> HIDE DEF last, a
    <3> QED  BY <3>1, <3>2, <3>3 DEF VectorsAre
  <2>11. Follows(R, j, U)
    BY <2>9, <2>10 DEF Follows
  <2>12. \A l \in Order, d, e \in Node :
           l # i /\ l # j => R.nodes[<<l, d, e>>] = S.nodes[<<l, d, e>>]
    <3> SUFFICES ASSUME NEW l \in Order, NEW d \in Node, NEW e \in Node, l # i, l # j
                 PROVE  R.nodes[<<l, d, e>>] = S.nodes[<<l, d, e>>]
      OBVIOUS
    <3>1. <<l, d, e>> \in Terminal /\ <<l, d, e>> # t
      BY <1>4, <2>1 DEF Terminal
    <3> QED  BY <2>5, <3>1
  <2>13. \A X \in {T, U} : NodesAre(S, i, X) => NodesAre(R, i, X) \/ NodesAre(R, i, U)
    BY <2>1, <2>7, <2>8
  <2>14. \A l \in Indexes : l # j => /\ R.terminal[l] = S.terminal[l]
                                     /\ R.vectors[l] = S.vectors[l]
    BY <2>4, <2>6, IndexesAssumption
  <2> QED  BY <2>11, <2>12, <2>13, <2>14 DEF FollowerDone
<1> QED  BY <1>6, <1>7

LEMMA FollowerAdd ==
  ASSUME NEW S \in Store, NEW j \in Indexes, ~Allocates(j), NEW x \in Triple, NEW T, NEW U,
         U = T \cup {x}, Follows(S, j, T), NEW t,
         t = Home(j, IndexOrdered(j, x)[1], IndexOrdered(j, x)[2]), NEW added,
         NEW R, R = AddTripleWithTerminal(S, j, t, x, added)
  PROVE  FollowerDone(S, R, j, T, U)
<1> DEFINE k == IndexOrdered(j, x)
           a == k[1]
           b == k[2]
           v == IF S.terminal[j][<<a, b>>] = NULL THEN t ELSE S.terminal[j][<<a, b>>]
<1>1. j \in Order /\ a \in Node /\ b \in Node
  BY OrderedType, IndexesAssumption
<1>2. /\ R.vectors  = [S.vectors  EXCEPT ![j] = @ \cup {a}]
      /\ R.terminal = PutAt(S, j, a, b, v)
      /\ R.nodes    = S.nodes
  BY Zenon DEF AddTripleWithTerminal, PutAt
<1>3. t # NULL /\ v # NULL
  BY <1>1, HomeType, NullAssumption
<1>4. Third(U, j, a, b) # {}
  BY <1>1, ThirdAddSlots, ZenonT(60)
<1>5. \A d, e \in Node : Third(T, j, d, e) \subseteq Third(U, j, d, e)
  BY DEF Third
<1>6. \A d, e \in Node : FollowsAt(S, j, T, d, e)
  BY DEF Follows
<1>7. S.vectors[j] = {d \in Node : \E e \in Node : S.terminal[j][<<d, e>>] # NULL}
  BY DEF Follows, VectorsAre
<1>8. t = Home(j, a, b) /\ v \in {t, S.terminal[j][<<a, b>>]}
  OBVIOUS
<1> HIDE DEF a, b, v
<1>9. /\ \A d, e \in Node : R.terminal[j][<<d, e>>] =
                              IF d = a /\ e = b THEN v ELSE S.terminal[j][<<d, e>>]
      /\ \A l \in Order : l # j => R.terminal[l] = S.terminal[l]
  BY <1>1, <1>2, TerminalPut
<1>10. /\ R.vectors[j] = S.vectors[j] \cup {a}
       /\ \A l \in Order : l # j => R.vectors[l] = S.vectors[l]
  BY <1>1, <1>2 DEF Store
<1>11. ASSUME NEW d \in Node, NEW e \in Node PROVE FollowsAt(R, j, U, d, e)
  <2>1. CASE R.terminal[j][<<d, e>>] = S.terminal[j][<<d, e>>]
    BY <1>2, <1>5, <1>6, <2>1 DEF FollowsAt
  <2>2. CASE d = a /\ e = b /\ R.terminal[j][<<d, e>>] = t
    BY <1>4, <1>8, <2>2 DEF FollowsAt
  <2> QED  BY <1>1, <1>8, <1>9, <2>1, <2>2
<1>12. VectorsAre(R, j)
  <2>1. ASSUME NEW d \in Node
        PROVE  d \in R.vectors[j] <=> \E e \in Node : R.terminal[j][<<d, e>>] # NULL
    <3>1. CASE d = a
      <4>1. R.terminal[j][<<a, b>>] # NULL
        BY <1>1, <1>3, <1>9
      <4> QED  BY <1>1, <1>10, <3>1, <4>1
    <3>2. CASE d # a
      BY <1>7, <1>9, <1>10, <3>2
    <3> QED  BY <3>1, <3>2
  <2>2. R.vectors[j] \subseteq Node
    BY <1>1, <1>7, <1>10
  <2> QED  BY <2>1, <2>2 DEF VectorsAre
<1>13. \A l \in Indexes : l # j => /\ R.terminal[l] = S.terminal[l]
                                   /\ R.vectors[l] = S.vectors[l]
  BY <1>9, <1>10, IndexesAssumption
<1>14. R.nodes = S.nodes /\ \A X : NodesAre(S, Partner(j), X) => NodesAre(R, Partner(j), X)
  BY <1>2 DEF NodesAre
<1> QED  BY <1>11, <1>12, <1>13, <1>14 DEF Follows, FollowerDone

LEMMA RemoveFromHalfway ==
  ASSUME NEW S \in Store, NEW P, NEW T, NEW U, NEW i \in Order, i \notin P, NEW x \in Triple,
         U = T \ {x}, Halfway(S, P, T, U)
  PROVE  Halfway(RemoveFrom(S, i, x), P \cup {i}, T, U)
<1> DEFINE R == IndexRemoveTriple(S, i, x)
<1>1. CASE i \in Indexes /\ Allocates(i)
  <2>1. PointersAre(S, i, T) /\ (NodesAre(S, i, T) \/ NodesAre(S, i, U))
    BY <1>1 DEF Halfway
  <2>2. /\ NodesAre(R, i, U) /\ PointersAre(R, i, U)
        /\ OnlyAt(S, R, i, IndexOrdered(i, x)[1], IndexOrdered(i, x)[2])
    BY <1>1, <2>1, RemoveEffect
  <2>3. IndexOrdered(i, x)[1] \in Node /\ IndexOrdered(i, x)[2] \in Node
    BY OrderedType
  <2> HIDE DEF R
  <2>4. Halfway(R, P \cup {i}, T, U)
    BY <1>1, <2>2, <2>3, AllocatorHalfway
  <2> QED  BY <1>1, <2>4 DEF RemoveFrom, R
<1>2. CASE i \in Indexes /\ ~Allocates(i)
  <2>1. Follows(S, i, T)
    BY <1>2 DEF Halfway
  <2>2. NodesAre(S, Partner(i), T) \/ NodesAre(S, Partner(i), U)
    BY <1>2, OneAllocates DEF Halfway
  <2>3. R = IndexRemoveTriple(S, i, x)
    OBVIOUS
  <2> HIDE DEF R
  <2>4. FollowerDone(S, R, i, T, U)
    BY <1>2, <2>1, <2>2, <2>3, FollowerRemove
  <2>5. Halfway(R, P \cup {i}, T, U)
    BY <1>2, <2>4, FollowerHalfway
  <2> QED  BY <1>2, <2>3, <2>5 DEF RemoveFrom
<1>3. CASE i \notin Indexes
  BY <1>3, AbsentHalfway DEF RemoveFrom
<1> QED  BY <1>1, <1>2, <1>3

LEMMA AddAloneHalfway ==
  ASSUME NEW S \in Store, NEW P, NEW T, NEW U, NEW i \in Order, NEW x \in Triple, U = T \cup {x},
         i \notin P, Partner(i) \notin Indexes, Halfway(S, P, T, U)
  PROVE  Halfway(IF i \in Indexes THEN AddTriple1(S, i, x) ELSE S, P \cup {i}, T, U)
<1> DEFINE R == AddTriple1(S, i, x)
<1>1. CASE i \in Indexes
  <2>1. Allocates(i)
    BY DEF Allocates
  <2>2. PointersAre(S, i, T) /\ NodesAre(S, i, T)
    BY <1>1, <2>1 DEF Halfway
  <2>3. /\ NodesAre(R, i, U) /\ PointersAre(R, i, U)
        /\ OnlyAt(S, R, i, IndexOrdered(i, x)[1], IndexOrdered(i, x)[2])
    BY <1>1, <2>1, <2>2, AddEffect DEF AddTriple1
  <2>4. IndexOrdered(i, x)[1] \in Node /\ IndexOrdered(i, x)[2] \in Node
    BY OrderedType
  <2> HIDE DEF R
  <2>5. Halfway(R, P \cup {i}, T, U)
    BY <1>1, <2>1, <2>3, <2>4, AllocatorHalfway
  <2> QED  BY <1>1, <2>5 DEF R
<1>2. CASE i \notin Indexes
  BY <1>2, AbsentHalfway
<1> QED  BY <1>1, <1>2

\* Adding to both indexes of a pair: the second one gets the terminal of the first
\* for an empty slot, and keeps one of its own.
LEMMA AddSharedHalfway ==
  ASSUME NEW S \in Store, NEW P, NEW T, NEW U, NEW i \in Indexes, NEW j \in Indexes,
         NEW x \in Triple, U = T \cup {x}, Allocates(i), j = Partner(i), i \notin P, j \notin P,
         Halfway(S, P, T, U), NEW r, r = AddTripleTerminal(S, i, x),
         NEW R, R = AddTripleWithTerminal(r.store, j, r.terminal, x, r.added)
  PROVE  Halfway(R, P \cup {i, j}, T, U)
<1> DEFINE k == IndexOrdered(i, x)
           l == IndexOrdered(j, x)
<1>1. i \in Order /\ j \in Order /\ i # j /\ Partner(j) = i /\ ~Allocates(j)
  BY IndexesAssumption, PartnerFacts, OneAllocates
<1>2. /\ k[1] \in Node /\ k[2] \in Node /\ l[1] \in Node /\ l[2] \in Node
      /\ l[1] = k[2] /\ l[2] = k[1]
  BY <1>1, OrderedType, OrderedPartner
<1>3. PointersAre(S, i, T) /\ NodesAre(S, i, T)
  BY DEF Halfway
<1>4. /\ r.terminal = Home(i, k[1], k[2])
      /\ NodesAre(r.store, i, U) /\ PointersAre(r.store, i, U)
      /\ OnlyAt(S, r.store, i, k[1], k[2])
  BY <1>3, AddEffect
<1>5. r.store \in Store
  BY <1>1, AddTripleTerminalType
<1> HIDE DEF k, l
<1>6. Halfway(r.store, P \cup {i}, T, U)
  BY <1>2, <1>4, AllocatorHalfway
<1>7. Follows(r.store, j, T)
  BY <1>1, <1>6 DEF Halfway
<1>8. r.terminal = Home(j, l[1], l[2])
  BY <1>1, <1>2, <1>4, HomePartner
<1>9. FollowerDone(r.store, R, j, T, U)
  <2>1. PICK Q : Q = r.store
    OBVIOUS
  <2>2. PICK t : t = r.terminal
    OBVIOUS
  <2>3. PICK added : added = r.added
    OBVIOUS
  <2>4. Q \in Store /\ Follows(Q, j, T)
    BY <1>5, <1>7, <2>1
  <2>5. t = Home(j, IndexOrdered(j, x)[1], IndexOrdered(j, x)[2])
    BY <1>8, <2>2 DEF l
  <2>6. R = AddTripleWithTerminal(Q, j, t, x, added)
    BY <2>1, <2>2, <2>3
  <2>7. FollowerDone(Q, R, j, T, U)
    BY <1>1, <2>4, <2>5, <2>6, FollowerAdd
  <2> QED  BY <2>1, <2>7
<1>10. Halfway(R, (P \cup {i}) \cup {j}, T, U)
  BY <1>1, <1>6, <1>9, FollowerHalfway
<1>11. (P \cup {i}) \cup {j} = P \cup {i, j}
  OBVIOUS
<1> QED  BY <1>10, <1>11

LEMMA AddPairHalfway ==
  ASSUME NEW S \in Store, NEW P, NEW T, NEW U, NEW i \in {"spo", "osp", "pos"}, NEW j,
         NEW x \in Triple, U = T \cup {x}, j = Partner(i), i \notin P, j \notin P,
         Halfway(S, P, T, U)
  PROVE  Halfway(AddPair(S, i, j, x), P \cup {i, j}, T, U)
<1>1. i \in Order /\ j \in Order /\ i # j /\ Partner(j) = i
  BY PartnerFacts DEF Order
<1>2. Allocates(i)
  BY DEF Allocates
<1>3. CASE i \in Indexes /\ j \in Indexes
  BY <1>2, <1>3, AddSharedHalfway DEF AddPair
<1>4. CASE ~(i \in Indexes /\ j \in Indexes)
  <2> DEFINE R == IF i \in Indexes THEN AddTriple1(S, i, x) ELSE S
             Q == IF j \in Indexes THEN AddTriple1(R, j, x) ELSE R
  <2>1. AddPair(S, i, j, x) = Q
    BY <1>4 DEF AddPair
  <2>2. R \in Store
    BY <1>1, AddTripleTerminalType DEF AddTriple1
  <2>3. Halfway(R, P \cup {i}, T, U)
    <3>1. CASE j \notin Indexes
      BY <1>1, <3>1, AddAloneHalfway
    <3>2. CASE j \in Indexes
      BY <1>1, <1>4, <3>2, AbsentHalfway
    <3> QED  BY <3>1, <3>2
  <2> HIDE DEF R
  <2>4. Halfway(Q, (P \cup {i}) \cup {j}, T, U)
    <3>1. CASE i \notin Indexes
      BY <1>1, <2>2, <2>3, <3>1, AddAloneHalfway
    <3>2. CASE i \in Indexes
      BY <1>1, <1>4, <2>3, <3>2, AbsentHalfway
    <3> QED  BY <3>1, <3>2
  <2>5. (P \cup {i}) \cup {j} = P \cup {i, j}
    OBVIOUS
  <2> HIDE DEF Q
  <2> QED  BY <2>1, <2>4, <2>5
<1> QED  BY <1>3, <1>4

LEMMA AddTripleIdKeeps ==
  ASSUME NEW S \in Store, NEW T, NEW x \in Triple, Keeps(S, T)
  PROVE  Keeps(AddTripleId(S, x), T \cup {x})
<1> DEFINE U  == T \cup {x}
           s1 == AddPair(S, "spo", "pso", x)
           s2 == AddPair(s1, "osp", "sop", x)
           s3 == AddPair(s2, "pos", "ops", x)
           P1 == {} \cup {"spo", "pso"}
           P2 == P1 \cup {"osp", "sop"}
           P3 == P2 \cup {"pos", "ops"}
<1>1. s1 \in Store
  BY AddPairType DEF Order
<1>2. s2 \in Store
  BY <1>1, AddPairType DEF Order
<1>3. Halfway(S, {}, T, U)
  BY KeepsIsHalfway
<1>4. /\ "pso" = Partner("spo") /\ "sop" = Partner("osp") /\ "ops" = Partner("pos")
      /\ "osp" \notin P1 /\ "sop" \notin P1 /\ "pos" \notin P2 /\ "ops" \notin P2
  BY DEF Partner
<1>5. U = T \cup {x}
  OBVIOUS
<1> HIDE DEF U, s1, s2, s3, P1, P2, P3
<1>6. Halfway(s1, P1, T, U)
  BY <1>3, <1>4, <1>5, AddPairHalfway DEF s1, P1
<1>7. Halfway(s2, P2, T, U)
  BY <1>1, <1>4, <1>5, <1>6, AddPairHalfway DEF s2, P2
<1>8. Halfway(s3, P3, T, U)
  BY <1>2, <1>4, <1>5, <1>7, AddPairHalfway DEF s3, P3
<1>9. Order \subseteq P3
  BY DEF Order, P1, P2, P3
<1>10. Keeps(s3, U)
  BY <1>8, <1>9, KeepsIsHalfway
<1> QED  BY <1>10 DEF AddTripleId, s1, s2, s3, U

LEMMA RemoveTripleFromAllKeeps ==
  ASSUME NEW S \in Store, NEW T, NEW x \in Triple, Keeps(S, T)
  PROVE  Keeps(RemoveTripleFromAll(S, x), T \ {x})
<1> DEFINE U  == T \ {x}
           s1 == RemoveFrom(S,  "spo", x)
           s2 == RemoveFrom(s1, "sop", x)
           s3 == RemoveFrom(s2, "pso", x)
           s4 == RemoveFrom(s3, "pos", x)
           s5 == RemoveFrom(s4, "osp", x)
           s6 == RemoveFrom(s5, "ops", x)
           P1 == {} \cup {"spo"}
           P2 == P1 \cup {"sop"}
           P3 == P2 \cup {"pso"}
           P4 == P3 \cup {"pos"}
           P5 == P4 \cup {"osp"}
           P6 == P5 \cup {"ops"}
<1>1. s1 \in Store  BY RemoveFromType DEF Order
<1>2. s2 \in Store  BY <1>1, RemoveFromType DEF Order
<1>3. s3 \in Store  BY <1>2, RemoveFromType DEF Order
<1>4. s4 \in Store  BY <1>3, RemoveFromType DEF Order
<1>5. s5 \in Store  BY <1>4, RemoveFromType DEF Order
<1>6. Halfway(S, {}, T, U)
  BY KeepsIsHalfway
<1>7. /\ "spo" \notin {} /\ "sop" \notin P1 /\ "pso" \notin P2 /\ "pos" \notin P3
      /\ "osp" \notin P4 /\ "ops" \notin P5
  OBVIOUS
<1>8. Order = {"spo", "sop", "pso", "pos", "osp", "ops"} /\ U = T \ {x}
  BY DEF Order
<1> HIDE DEF U, s1, s2, s3, s4, s5, s6, P1, P2, P3, P4, P5, P6
<1>9. Halfway(s1, P1, T, U)   BY <1>6, <1>7, <1>8, RemoveFromHalfway DEF s1, P1
<1>10. Halfway(s2, P2, T, U)  BY <1>1, <1>7, <1>8, <1>9, RemoveFromHalfway DEF s2, P2
<1>11. Halfway(s3, P3, T, U)  BY <1>2, <1>7, <1>8, <1>10, RemoveFromHalfway DEF s3, P3
<1>12. Halfway(s4, P4, T, U)  BY <1>3, <1>7, <1>8, <1>11, RemoveFromHalfway DEF s4, P4
<1>13. Halfway(s5, P5, T, U)  BY <1>4, <1>7, <1>8, <1>12, RemoveFromHalfway DEF s5, P5
<1>14. Halfway(s6, P6, T, U)  BY <1>5, <1>7, <1>8, <1>13, RemoveFromHalfway DEF s6, P6
<1>15. Order \subseteq P6
  BY <1>8 DEF P1, P2, P3, P4, P5, P6
<1>16. Keeps(s6, U)
  BY <1>14, <1>15, KeepsIsHalfway
<1> QED  BY <1>16 DEF RemoveTripleFromAll, s1, s2, s3, s4, s5, s6, U

-----------------------------------------------------------------------------
(* Indexes the store does not have.                                        *)

Unused(S) == \A i \in Order \ Indexes, s \in Slot : S.terminal[i][s] = NULL

LEMMA IndexUnused ==
  ASSUME NEW S \in Store, NEW i \in Indexes, NEW x \in Triple, Unused(S)
  PROVE  /\ Unused(AddTripleTerminal(S, i, x).store)
         /\ \A t, added : Unused(AddTripleWithTerminal(S, i, t, x, added))
         /\ Unused(IndexRemoveTriple(S, i, x))
<1> DEFINE a == IndexOrdered(i, x)[1]
           b == IndexOrdered(i, x)[2]
<1>1. i \in Order /\ a \in Node /\ b \in Node
  BY IndexesAssumption, OrderedType
<1>2. ASSUME NEW R, NEW v, R.terminal = PutAt(S, i, a, b, v) PROVE Unused(R)
  <2> HIDE DEF a, b
  <2>1. \A l \in Order : l # i => R.terminal[l] = S.terminal[l]
    BY <1>1, <1>2, TerminalPut
  <2> QED  BY <2>1 DEF Unused
<1>3. PICK u : AddTripleTerminal(S, i, x).store.terminal = PutAt(S, i, a, b, u)
  BY Zenon DEF AddTripleTerminal, PutAt
<1>4. \A t, added : \E v : AddTripleWithTerminal(S, i, t, x, added).terminal = PutAt(S, i, a, b, v)
  BY Zenon DEF AddTripleWithTerminal, PutAt
<1>5. CASE a \notin S.vectors[i] \/ S.terminal[i][<<a, b>>] = NULL
  <2>1. IndexRemoveTriple(S, i, x) = S
    BY <1>5, Zenon DEF IndexRemoveTriple
  <2> HIDE DEF a, b
  <2> QED  BY <1>2, <1>3, <1>4, <2>1
<1>6. CASE ~(a \notin S.vectors[i] \/ S.terminal[i][<<a, b>>] = NULL)
  <2>1. PICK v : IndexRemoveTriple(S, i, x).terminal = PutAt(S, i, a, b, v)
    BY <1>6, Zenon DEF IndexRemoveTriple, PutAt
  <2> HIDE DEF a, b
  <2> QED  BY <1>2, <1>3, <1>4, <2>1
<1> QED  BY <1>5, <1>6

LEMMA AddPairUnused ==
  ASSUME NEW S \in Store, NEW i \in Order, NEW j \in Order, NEW x \in Triple, Unused(S)
  PROVE  Unused(AddPair(S, i, j, x))
<1> DEFINE r == AddTripleTerminal(S, i, x)
           T == IF i \in Indexes THEN AddTriple1(S, i, x) ELSE S
<1>1. r.store \in Store
  BY AddTripleTerminalType
<1>2. CASE {i, j} \subseteq Indexes
  <2>1. Unused(r.store)
    BY <1>2, IndexUnused
  <2> HIDE DEF r
  <2>2. Unused(AddTripleWithTerminal(r.store, j, r.terminal, x, r.added))
    BY <1>1, <1>2, <2>1, IndexUnused
  <2> QED  BY <1>2, <2>2 DEF AddPair, r
<1>3. CASE ~({i, j} \subseteq Indexes)
  <2>1. T \in Store /\ Unused(T)
    BY <1>1, IndexUnused DEF AddTriple1
  <2>2. AddPair(S, i, j, x) = IF j \in Indexes THEN AddTriple1(T, j, x) ELSE T
    BY <1>3 DEF AddPair
  <2> HIDE DEF T
  <2> QED  BY <2>1, <2>2, IndexUnused DEF AddTriple1
<1> QED  BY <1>2, <1>3

LEMMA AddTripleIdUnused ==
  ASSUME NEW S \in Store, NEW x \in Triple, Unused(S)
  PROVE  Unused(AddTripleId(S, x))
<1> DEFINE s1 == AddPair(S, "spo", "pso", x)
           s2 == AddPair(s1, "osp", "sop", x)
<1>1. s1 \in Store /\ Unused(s1)
  BY AddPairType, AddPairUnused DEF Order
<1> HIDE DEF s1
<1>2. s2 \in Store /\ Unused(s2)
  BY <1>1, AddPairType, AddPairUnused DEF Order
<1> HIDE DEF s2
<1>3. Unused(AddPair(s2, "pos", "ops", x))
  BY <1>2, AddPairUnused DEF Order
<1> QED  BY <1>3 DEF AddTripleId, s1, s2

LEMMA RemoveFromUnused ==
  ASSUME NEW S \in Store, NEW i \in Order, NEW x \in Triple, Unused(S)
  PROVE  RemoveFrom(S, i, x) \in Store /\ Unused(RemoveFrom(S, i, x))
BY RemoveFromType, IndexUnused DEF RemoveFrom

LEMMA RemoveTripleFromAllUnused ==
  ASSUME NEW S \in Store, NEW x \in Triple, Unused(S)
  PROVE  Unused(RemoveTripleFromAll(S, x))
<1> DEFINE s1 == RemoveFrom(S,  "spo", x)
           s2 == RemoveFrom(s1, "sop", x)
           s3 == RemoveFrom(s2, "pso", x)
           s4 == RemoveFrom(s3, "pos", x)
           s5 == RemoveFrom(s4, "osp", x)
           s6 == RemoveFrom(s5, "ops", x)
<1>1. s1 \in Store /\ Unused(s1)  BY RemoveFromUnused DEF Order
<1>2. s2 \in Store /\ Unused(s2)  BY <1>1, RemoveFromUnused DEF Order
<1>3. s3 \in Store /\ Unused(s3)  BY <1>2, RemoveFromUnused DEF Order
<1>4. s4 \in Store /\ Unused(s4)  BY <1>3, RemoveFromUnused DEF Order
<1>5. s5 \in Store /\ Unused(s5)  BY <1>4, RemoveFromUnused DEF Order
<1> HIDE DEF s5
<1>6. s6 \in Store /\ Unused(s6)  BY <1>5, RemoveFromUnused DEF Order
<1> QED
  BY <1>6 DEF RemoveTripleFromAll, s5

-----------------------------------------------------------------------------
(* Reading what was written.                                               *)

\* R is what is read when S was written.
ReadBack(S, R) ==
  /\ R.vectors = S.vectors /\ R.terminal = VectorsRead(S)
  /\ R.nodes = TerminalsRead(S) /\ R.refcount = ReferencesRead(S)

LEMMA ReadSlot ==
  ASSUME NEW S, NEW R, ReadBack(S, R), NEW i \in Order, NEW a \in Node, NEW b \in Node
  PROVE  /\ R.terminal[i][<<a, b>>] =
              IF S.terminal[i][<<a, b>>] = NULL THEN NULL ELSE <<i, a, b>>
         /\ R.nodes[<<i, a, b>>] =
              IF S.terminal[i][<<a, b>>] = NULL THEN {} ELSE S.nodes[S.terminal[i][<<a, b>>]]
         /\ R.refcount[<<i, a, b>>] = One(S.terminal[i][<<a, b>>] # NULL)
         /\ <<i, a, b>> # NULL
<1>1. <<a, b>> \in Slot /\ <<i, a, b>> \in Terminal
  BY DEF Slot, Terminal
<1>2. R.terminal[i][<<a, b>>] = IF S.terminal[i][<<a, b>>] = NULL THEN NULL ELSE <<i, a, b>>
  BY <1>1, SMTT(30) DEF ReadBack, VectorsRead
<1>3. R.nodes[<<i, a, b>>] =
        IF S.terminal[i][<<a, b>>] = NULL THEN {} ELSE S.nodes[S.terminal[i][<<a, b>>]]
  BY <1>1 DEF ReadBack, TerminalsRead
<1>4. R.refcount[<<i, a, b>>] = One(S.terminal[i][<<a, b>>] # NULL)
  BY <1>1 DEF ReadBack, ReferencesRead
<1> QED  BY <1>1, <1>2, <1>3, <1>4, NullAssumption

LEMMA ReadKeeps ==
  ASSUME NEW S, NEW R, ReadBack(S, R), NEW T, Keeps(S, T)
  PROVE  Keeps(R, T)
<1> SUFFICES ASSUME NEW i \in Indexes
             PROVE  IF Allocates(i) THEN NodesAre(R, i, T) /\ PointersAre(R, i, T)
                    ELSE Follows(R, i, T)
  BY DEF Keeps
<1>1. i \in Order /\ R.vectors = S.vectors
  BY IndexesAssumption DEF ReadBack
<1>2. \A a, b \in Node :
        /\ R.terminal[i][<<a, b>>] = IF S.terminal[i][<<a, b>>] = NULL THEN NULL ELSE <<i, a, b>>
        /\ R.nodes[<<i, a, b>>] = IF S.terminal[i][<<a, b>>] = NULL THEN {}
                                  ELSE S.nodes[S.terminal[i][<<a, b>>]]
        /\ <<i, a, b>> # NULL /\ Home(i, a, b) # NULL
  <2> TAKE a \in Node, b \in Node
  <2>1. Home(i, a, b) \in Terminal
    BY <1>1, HomeType
  <2>2. Home(i, a, b) # NULL
    BY <2>1, NullAssumption
  <2> QED  BY <1>1, <2>2, ReadSlot
<1>3. CASE Allocates(i)
  <2>1. \A a, b \in Node : Home(i, a, b) = <<i, a, b>>
    BY <1>3 DEF Home
  <2>2. NodesAre(S, i, T) /\ PointersAre(S, i, T)
    BY <1>3 DEF Keeps
  <2>3. ASSUME NEW a \in Node, NEW b \in Node
        PROVE  /\ R.nodes[Home(i, a, b)] = Third(T, i, a, b)
               /\ R.terminal[i][<<a, b>>] =
                    IF Third(T, i, a, b) = {} THEN NULL ELSE Home(i, a, b)
    <3>1. /\ S.nodes[<<i, a, b>>] = Third(T, i, a, b)
          /\ S.terminal[i][<<a, b>>] = IF Third(T, i, a, b) = {} THEN NULL ELSE <<i, a, b>>
      BY <2>1, <2>2 DEF NodesAre, PointersAre
    <3> QED  BY <1>2, <2>1, <3>1
  <2>4. R.vectors[i] = {a \in Node : \E b \in Node : Third(T, i, a, b) # {}}
    BY <1>1, <2>2 DEF PointersAre
  <2> QED  BY <1>3, <2>3, <2>4 DEF NodesAre, PointersAre
<1>4. CASE ~Allocates(i)
  <2>1. PICK p \in Indexes : p = Partner(i) /\ NodesAre(S, p, T)
    BY <1>4, OneAllocates DEF Keeps
  <2>2. \A a, b \in Node : S.nodes[Home(i, a, b)] = Third(T, i, a, b)
    <3>1. \A a, b \in Node : Home(p, b, a) = Home(i, a, b) /\ Third(T, p, b, a) = Third(T, i, a, b)
      BY <1>1, <2>1, HomePartner, ThirdPartner
    <3> QED  BY <2>1, <3>1 DEF NodesAre
  <2>3. (\A a, b \in Node : FollowsAt(S, i, T, a, b)) /\ VectorsAre(S, i)
    BY <1>4 DEF Keeps, Follows
  <2>4. ASSUME NEW a \in Node, NEW b \in Node PROVE FollowsAt(R, i, T, a, b)
    <3>1. FollowsAt(S, i, T, a, b)
      BY <2>3
    <3>2. CASE S.terminal[i][<<a, b>>] = NULL
      BY <1>2, <3>2 DEF FollowsAt
    <3>3. CASE S.terminal[i][<<a, b>>] = Home(i, a, b) /\ Third(T, i, a, b) # {}
      BY <1>2, <2>2, <3>3 DEF FollowsAt
    <3>4. CASE /\ S.terminal[i][<<a, b>>] = <<i, a, b>> /\ S.nodes[<<i, a, b>>] # {}
               /\ S.nodes[<<i, a, b>>] \subseteq Third(T, i, a, b)
      BY <1>2, <3>4 DEF FollowsAt
    <3> QED  BY <3>1, <3>2, <3>3, <3>4 DEF FollowsAt
  <2>5. VectorsAre(R, i)
    <3>1. \A a, b \in Node : R.terminal[i][<<a, b>>] # NULL <=> S.terminal[i][<<a, b>>] # NULL
      BY <1>2
    <3> QED  BY <1>1, <2>3, <3>1 DEF VectorsAre
  <2> QED  BY <1>4, <2>4, <2>5 DEF Follows
<1> QED  BY <1>3, <1>4

LEMMA ReadReferenced ==
  ASSUME NEW S, NEW R, ReadBack(S, R), Unused(S)
  PROVE  Referenced(R) /\ Unused(R)
<1>1. ASSUME NEW t \in Terminal
      PROVE  /\ IsFiniteSet(Refs(R, t))
             /\ R.refcount[t] = Cardinality(Refs(R, t))
             /\ Refs(R, t) = {} => R.nodes[t] = {}
  <2>1. PICK i \in Order, a \in Node, b \in Node : t = <<i, a, b>>
    BY DEF Terminal
  <2>2. ASSUME NEW j \in Indexes, NEW c \in Node, NEW d \in Node
        PROVE  R.terminal[j][<<c, d>>] = t
                 <=> j = i /\ c = a /\ d = b /\ S.terminal[i][<<a, b>>] # NULL
    <3>1. j \in Order
      BY IndexesAssumption
    <3>2. R.terminal[j][<<c, d>>] = IF S.terminal[j][<<c, d>>] = NULL THEN NULL ELSE <<j, c, d>>
      BY <3>1, ReadSlot
    <3>3. t # NULL
      BY NullAssumption
    <3>4. CASE S.terminal[j][<<c, d>>] = NULL
      BY <2>1, <3>2, <3>3, <3>4
    <3>5. CASE S.terminal[j][<<c, d>>] # NULL
      BY <2>1, <3>2, <3>5
    <3> QED  BY <3>4, <3>5
  <2>3. \A r \in Indexes \X Slot : \E j \in Indexes, c \in Node, d \in Node : r = <<j, <<c, d>>>>
    BY DEF Slot
  <2>4. R.nodes[t] = (IF S.terminal[i][<<a, b>>] = NULL THEN {}
                      ELSE S.nodes[S.terminal[i][<<a, b>>]])
        /\ R.refcount[t] = One(S.terminal[i][<<a, b>>] # NULL)
    BY <2>1, ReadSlot
  <2>5. CASE S.terminal[i][<<a, b>>] = NULL
    <3>1. Refs(R, t) = {}
      <4> SUFFICES ASSUME NEW r \in Indexes \X Slot, R.terminal[r[1]][r[2]] = t PROVE FALSE
        BY DEF Refs
      <4>1. PICK j \in Indexes, c \in Node, d \in Node : r = <<j, <<c, d>>>>
        BY <2>3
      <4> QED  BY <2>2, <2>5, <4>1
    <3> QED  BY <2>4, <2>5, <3>1, FS_EmptySet DEF One
  <2>6. CASE S.terminal[i][<<a, b>>] # NULL
    <3>1. i \in Indexes /\ <<a, b>> \in Slot
      BY <2>6 DEF Unused, Slot
    <3>2. Refs(R, t) = {<<i, <<a, b>>>>}
      <4>1. <<i, <<a, b>>>> \in Refs(R, t)
        BY <2>2, <2>6, <3>1 DEF Refs
      <4>2. ASSUME NEW r \in Refs(R, t) PROVE r = <<i, <<a, b>>>>
        <5>1. r \in Indexes \X Slot /\ R.terminal[r[1]][r[2]] = t
          BY DEF Refs
        <5>2. PICK j \in Indexes, c \in Node, d \in Node : r = <<j, <<c, d>>>>
          BY <2>3, <5>1
        <5> QED  BY <2>2, <5>1, <5>2
      <4> QED  BY <4>1, <4>2
    <3> QED  BY <2>4, <2>6, <3>2, FS_Singleton DEF One
  <2> QED  BY <2>5, <2>6
<1>2. ASSUME NEW i \in Order \ Indexes, NEW s \in Slot PROVE R.terminal[i][s] = NULL
  <2>1. PICK a \in Node, b \in Node : s = <<a, b>>
    BY DEF Slot
  <2>2. S.terminal[i][<<a, b>>] = NULL
    BY <2>1 DEF Unused
  <2>3. R.terminal[i][<<a, b>>] =
          IF S.terminal[i][<<a, b>>] = NULL THEN NULL ELSE <<i, a, b>>
    BY ReadSlot
  <2> QED  BY <2>1, <2>2, <2>3
<1> QED  BY <1>1, <1>2 DEF Referenced, Unused

LEMMA ReadType ==
  ASSUME NEW S \in Store
  PROVE  /\ VectorsRead(S) \in [Order -> [Slot -> Terminal \cup {NULL}]]
         /\ TerminalsRead(S) \in [Terminal -> SUBSET Node]
         /\ ReferencesRead(S) \in [Terminal -> Int]
<1>1. \A i \in Order, s \in Slot : <<i, s[1], s[2]>> \in Terminal
  BY DEF Slot, Terminal
<1>2. VectorsRead(S) \in [Order -> [Slot -> Terminal \cup {NULL}]]
  BY <1>1 DEF VectorsRead
<1>3. \A t \in Terminal : t[1] \in Order /\ <<t[2], t[3]>> \in Slot
  BY DEF Terminal, Slot
<1>4. \A t \in Terminal : S.terminal[t[1]][<<t[2], t[3]>>] \in Terminal \cup {NULL}
  <2>1. S.terminal \in [Order -> [Slot -> Terminal \cup {NULL}]]
    BY DEF Store
  <2>2. \A i \in Order, s \in Slot : S.terminal[i][s] \in Terminal \cup {NULL}
    BY <2>1
  <2> QED  BY <1>3, <2>2
<1>5. \A u \in Terminal : S.nodes[u] \subseteq Node
  BY DEF Store
<1>6. TerminalsRead(S) \in [Terminal -> SUBSET Node]
  BY <1>4, <1>5 DEF TerminalsRead
<1>7. ReferencesRead(S) \in [Terminal -> Int]
  BY OneType DEF ReferencesRead
<1> QED  BY <1>2, <1>6, <1>7

-----------------------------------------------------------------------------
(* What a store shows that keeps T.                                        *)

\* The terminal that a partner shares has the nodes of T.
LEMMA SharedNodes ==
  ASSUME NEW S, NEW T, Keeps(S, T), NEW i \in Indexes, NEW a \in Node, NEW b \in Node
  PROVE  S.nodes[Home(i, a, b)] = Third(T, i, a, b)
<1>1. CASE Allocates(i)
  BY <1>1 DEF Keeps, NodesAre
<1>2. CASE ~Allocates(i)
  <2>1. PICK p \in Indexes : p = Partner(i) /\ NodesAre(S, p, T)
    BY <1>2, OneAllocates DEF Keeps
  <2>2. Home(p, b, a) = Home(i, a, b)
    BY <2>1, HomePartner
  <2>3. Third(T, p, b, a) = Third(T, i, a, b)
    BY <2>1, IndexesAssumption, ThirdPartner
  <2> QED  BY <2>1, <2>2, <2>3 DEF NodesAre
<1> QED  BY <1>1, <1>2

\* Every slot that holds a terminal holds some of the nodes of T, and not none.
LEMMA SlotNodes ==
  ASSUME NEW S, NEW T, Keeps(S, T), NEW i \in Indexes, NEW a \in Node, NEW b \in Node,
         S.terminal[i][<<a, b>>] # NULL
  PROVE  /\ S.nodes[S.terminal[i][<<a, b>>]] # {}
         /\ S.nodes[S.terminal[i][<<a, b>>]] \subseteq Third(T, i, a, b)
<1>1. CASE Allocates(i)
  <2>1. S.terminal[i][<<a, b>>] = IF Third(T, i, a, b) = {} THEN NULL ELSE Home(i, a, b)
    BY <1>1 DEF Keeps, PointersAre
  <2> QED  BY <2>1, SharedNodes
<1>2. CASE ~Allocates(i)
  <2>1. FollowsAt(S, i, T, a, b)
    BY <1>2 DEF Keeps, Follows
  <2>2. CASE S.terminal[i][<<a, b>>] = Home(i, a, b) /\ Third(T, i, a, b) # {}
    BY <2>2, SharedNodes
  <2>3. CASE /\ S.terminal[i][<<a, b>>] = <<i, a, b>> /\ S.nodes[<<i, a, b>>] # {}
             /\ S.nodes[<<i, a, b>>] \subseteq Third(T, i, a, b)
    BY <2>3
  <2> QED  BY <2>1, <2>2, <2>3 DEF FollowsAt
<1> QED  BY <1>1, <1>2

LEMMA KeepsHolds ==
  ASSUME NEW S, NEW T \in SUBSET Triple, Keeps(S, T), NEW i \in Indexes, NEW x \in Triple
  PROVE  /\ HoldsIn(S, i, x) => x \in T
         /\ Allocates(i) /\ x \in T => HoldsIn(S, i, x)
<1> DEFINE k == IndexOrdered(i, x)
<1>1. i \in Order /\ k[1] \in Node /\ k[2] \in Node /\ k[3] \in Node
  BY IndexesAssumption, OrderedType
<1>2. ASSUME HoldsIn(S, i, x) PROVE x \in T
  <2>1. S.terminal[i][<<k[1], k[2]>>] # NULL /\ k[3] \in S.nodes[S.terminal[i][<<k[1], k[2]>>]]
    BY <1>2 DEF HoldsIn
  <2>2. k[3] \in Third(T, i, k[1], k[2])
    <3> HIDE DEF k
    <3> QED  BY <1>1, <2>1, SlotNodes
  <2>3. TripleOf(i, k[1], k[2], k[3]) \in T
    BY <2>2 DEF Third
  <2> QED  BY <1>1, <2>3, TripleOfOrdered
<1>3. ASSUME Allocates(i), x \in T PROVE HoldsIn(S, i, x)
  BY <1>3, ShownHolds DEF Keeps
<1> QED  BY <1>2, <1>3

LEMMA KeepsContent ==
  ASSUME NEW S, NEW T \in SUBSET Triple, Keeps(S, T)
  PROVE  {x \in Triple : \E i \in Indexes : HoldsIn(S, i, x)} = IF Indexes = {} THEN {} ELSE T
<1>1. ASSUME NEW x \in Triple, NEW i \in Indexes, HoldsIn(S, i, x) PROVE x \in T
  BY <1>1, KeepsHolds
<1>2. ASSUME NEW x \in T, NEW i \in Indexes PROVE \E j \in Indexes : HoldsIn(S, j, x)
  <2>1. PICK j \in Indexes : Allocates(j)
    BY OneAllocates
  <2> QED  BY <2>1, KeepsHolds
<1> QED  BY <1>1, <1>2

-----------------------------------------------------------------------------
(* The inductive invariant, and what follows from it.                      *)

RInv == TypeOK /\ Keeps(hx, Content) /\ Unused(hx) /\ Referenced(hx)

\* A new state that keeps T has T as its content.
LEMMA KeepsPrime ==
  ASSUME NEW T \in SUBSET Triple, Keeps(hx', T)
  PROVE  Keeps(hx', Content') /\ Content' = IF Indexes = {} THEN {} ELSE T
<1>1. Content' = IF Indexes = {} THEN {} ELSE T
  BY KeepsContent DEF Content, Holds
<1>2. CASE Indexes = {}
  BY <1>1, <1>2 DEF Keeps
<1>3. CASE Indexes # {}
  BY <1>1, <1>3
<1> QED  BY <1>1, <1>2, <1>3

LEMMA AddTripleRInv ==
  ASSUME RInv, NEW x \in Triple, AddTriple(x)
  PROVE  RInv' /\ Content' = IF Indexes = {} THEN {} ELSE Content \cup {x}
<1>1. hx \in Store /\ hx' = AddTripleId(hx, x)
  BY DEF RInv, TypeOK, AddTriple
<1>2. TypeOK'
  <2>1. hx' \in Store
    BY <1>1, AddTripleIdType
  <2>2. known' \subseteq Node
    BY DEF RInv, TypeOK, AddTriple, Triple
  <2> QED  BY <2>1, <2>2 DEF TypeOK
<1>3. Keeps(hx', Content \cup {x})
  BY <1>1, AddTripleIdKeeps DEF RInv
<1>4. Content \cup {x} \in SUBSET Triple
  BY ContentType
<1>5. Unused(hx')
  BY <1>1, AddTripleIdUnused DEF RInv
<1>6. Referenced(hx')
  BY <1>1, AddTripleIdReferenced DEF RInv
<1>7. Keeps(hx', Content') /\ Content' = IF Indexes = {} THEN {} ELSE Content \cup {x}
  BY <1>3, <1>4, KeepsPrime
<1> QED  BY <1>2, <1>5, <1>6, <1>7 DEF RInv

LEMMA RemoveTripleRInv ==
  ASSUME RInv, NEW x \in Triple, RemoveTriple(x)
  PROVE  RInv' /\ Content' = IF Indexes = {} THEN {} ELSE Content \ {x}
<1>1. hx \in Store /\ hx' = RemoveTripleFromAll(hx, x)
  BY DEF RInv, TypeOK, RemoveTriple
<1>2. TypeOK'
  <2>1. hx' \in Store
    BY <1>1, RemoveTripleFromAllType
  <2>2. known' \subseteq Node
    BY DEF RInv, TypeOK, RemoveTriple
  <2> QED  BY <2>1, <2>2 DEF TypeOK
<1>3. Keeps(hx', Content \ {x})
  BY <1>1, RemoveTripleFromAllKeeps DEF RInv
<1>4. Content \ {x} \in SUBSET Triple
  BY ContentType
<1>5. Unused(hx')
  BY <1>1, RemoveTripleFromAllUnused DEF RInv
<1>6. Referenced(hx')
  BY <1>1, RemoveTripleFromAllReferenced DEF RInv
<1>7. Keeps(hx', Content') /\ Content' = IF Indexes = {} THEN {} ELSE Content \ {x}
  BY <1>3, <1>4, KeepsPrime
<1> QED  BY <1>2, <1>5, <1>6, <1>7 DEF RInv

\* Saving and loading: the content stays, the store does not stay the same.
LEMMA ReloadRInv ==
  ASSUME RInv, Reload
  PROVE  RInv' /\ Content' = Content
<1>1. hx \in Store
  BY DEF RInv, TypeOK
<1>2. hx' = [hx EXCEPT !.terminal = VectorsRead(hx), !.nodes = TerminalsRead(hx),
                       !.refcount = ReferencesRead(hx)]
  BY DEF Reload
<1>3. ReadBack(hx, hx')
  BY <1>1, <1>2 DEF ReadBack, Store
<1>4. hx' \in Store
  <2>1. /\ VectorsRead(hx) \in [Order -> [Slot -> Terminal \cup {NULL}]]
        /\ TerminalsRead(hx) \in [Terminal -> SUBSET Node]
        /\ ReferencesRead(hx) \in [Terminal -> Int]
    BY <1>1, ReadType
  <2> QED  BY <1>1, <1>2, <2>1 DEF Store
<1>5. TypeOK'
  BY <1>4 DEF RInv, TypeOK, Reload
<1>6. Keeps(hx', Content)
  BY <1>3, ReadKeeps DEF RInv
<1>7. Referenced(hx') /\ Unused(hx')
  BY <1>3, ReadReferenced DEF RInv
<1>8. Keeps(hx', Content') /\ Content' = IF Indexes = {} THEN {} ELSE Content
  BY <1>6, ContentType, KeepsPrime
<1>9. Content' = Content
  BY <1>8 DEF Content
<1> QED  BY <1>5, <1>7, <1>8, <1>9 DEF RInv

LEMMA InitRInv == Init => RInv
<1> SUFFICES ASSUME Init PROVE RInv
  OBVIOUS
<1>1. TypeOK
  BY DEF Init, TypeOK, Store
<1>2. Rep(hx, {}) /\ Content = {}
  BY InitIInv DEF IInv
<1>3. ASSUME NEW j \in Indexes, ~Allocates(j) PROVE Follows(hx, j, {})
  <2>1. \A a, b \in Node : hx.terminal[j][<<a, b>>] = NULL
    BY IndexesAssumption DEF Init, Slot
  <2>2. hx.vectors[j] = {}
    BY IndexesAssumption DEF Init
  <2> QED  BY <2>1, <2>2 DEF Follows, FollowsAt, VectorsAre
<1>4. Keeps(hx, Content)
  BY <1>2, <1>3 DEF Keeps, Rep
<1>5. Unused(hx)
  BY DEF Init, Unused
<1> QED  BY <1>1, <1>4, <1>5, InitReferenced DEF RInv

LEMMA NextRInv == RInv /\ [Next \/ Reload]_vars => RInv'
<1> SUFFICES ASSUME RInv, [Next \/ Reload]_vars PROVE RInv'
  OBVIOUS
<1>1. CASE UNCHANGED vars
  BY <1>1, UnchangedContent DEF RInv, TypeOK, vars
<1>2. ASSUME NEW x \in Triple, AddTriple(x) PROVE RInv'
  BY <1>2, AddTripleRInv
<1>3. ASSUME NEW x \in Triple, RemoveTriple(x) PROVE RInv'
  BY <1>3, RemoveTripleRInv
<1>4. CASE Reload
  BY <1>4, ReloadRInv
<1> QED  BY <1>1, <1>2, <1>3, <1>4 DEF Next

\* A store that is saved and loaded now and then keeps its triples, whichever
\* of its partners share terminals.
THEOREM ReloadKeeps == ReloadSpec => []RInv
<1> QED
  BY InitRInv, NextRInv, PTL DEF ReloadSpec

-----------------------------------------------------------------------------

LEMMA CreatorsHold == RInv => CreatorsComplete
<1> SUFFICES ASSUME RInv, NEW i \in Indexes, NEW x \in Triple, Holds(i, x),
                    NEW j \in Indexes \cap {"spo", "osp", "pos"}
             PROVE  Holds(j, x)
  BY DEF CreatorsComplete
<1>1. x \in Content
  BY DEF Content
<1>2. Allocates(j)
  BY DEF Allocates
<1> QED  BY <1>1, <1>2, ContentType, KeepsHolds DEF RInv, Holds

LEMMA NothingIsEmpty == RInv => NothingEmpty
<1> SUFFICES ASSUME RInv, NEW i \in Indexes, NEW a \in Node
             PROVE  /\ \A b \in Node : hx.terminal[i][<<a, b>>] # NULL
                         => hx.nodes[hx.terminal[i][<<a, b>>]] # {}
                    /\ a \in hx.vectors[i]
                         <=> \E b \in Node : hx.terminal[i][<<a, b>>] # NULL
  BY DEF NothingEmpty
<1>1. \A b \in Node : hx.terminal[i][<<a, b>>] # NULL
        => hx.nodes[hx.terminal[i][<<a, b>>]] # {}
  BY SlotNodes DEF RInv
<1>2. CASE Allocates(i)
  <2>1. \A b \in Node : Home(i, a, b) # NULL
    BY IndexesAssumption, HomeType, NullAssumption
  <2>2. PointersAre(hx, i, Content)
    BY <1>2 DEF RInv, Keeps
  <2> QED  BY <1>1, <2>1, <2>2 DEF PointersAre
<1>3. CASE ~Allocates(i)
  <2>1. VectorsAre(hx, i)
    BY <1>3 DEF RInv, Keeps, Follows
  <2> QED  BY <1>1, <2>1 DEF VectorsAre
<1> QED  BY <1>2, <1>3

\* The name of a new terminal is not in use, neither in the index that allocates
\* it nor in a partner that kept it.
LEMMA NamesAreFresh ==
  ASSUME RInv, NEW i \in Indexes \cap {"spo", "osp", "pos"}, NEW a \in Node, NEW b \in Node,
         hx.terminal[i][<<a, b>>] = NULL
  PROVE  Refs(hx, <<i, a, b>>) = {}
<1>1. Allocates(i) /\ i \in Indexes /\ i \in Order
  BY IndexesAssumption DEF Allocates
<1>2. Third(Content, i, a, b) = {}
  <2>1. hx.terminal[i][<<a, b>>] = IF Third(Content, i, a, b) = {} THEN NULL ELSE Home(i, a, b)
    BY <1>1 DEF RInv, Keeps, PointersAre
  <2>2. Home(i, a, b) # NULL
    BY <1>1, HomeType, NullAssumption
  <2> QED  BY <2>1, <2>2
<1>3. ASSUME NEW j \in Indexes, NEW c \in Node, NEW d \in Node,
             hx.terminal[j][<<c, d>>] = <<i, a, b>>
      PROVE  FALSE
  <2>1. j \in Order
    BY IndexesAssumption
  <2>2. hx.terminal[j][<<c, d>>] # NULL
    <3>1. <<i, a, b>> \in Terminal
      BY <1>1 DEF Terminal
    <3> QED  BY <1>3, <3>1, NullAssumption
  <2>3. CASE Allocates(j)
    <3>1. hx.terminal[j][<<c, d>>] =
            IF Third(Content, j, c, d) = {} THEN NULL ELSE Home(j, c, d)
      BY <2>3 DEF RInv, Keeps, PointersAre
    <3>2. <<i, a, b>> = <<j, c, d>> /\ Third(Content, j, c, d) # {}
      BY <1>3, <2>2, <2>3, <3>1 DEF Home
    <3> QED  BY <1>2, <3>2
  <2>4. CASE ~Allocates(j)
    <3>1. FollowsAt(hx, j, Content, c, d)
      BY <2>4 DEF RInv, Keeps, Follows
    <3>2. CASE hx.terminal[j][<<c, d>>] = Home(j, c, d) /\ Third(Content, j, c, d) # {}
      <4>1. i = Partner(j) /\ a = d /\ b = c
        BY <1>3, <2>4, <3>2 DEF Home
      <4>2. Third(Content, i, a, b) = Third(Content, j, c, d)
        BY <2>1, <4>1, ThirdPartner
      <4> QED  BY <1>2, <3>2, <4>2
    <3>3. CASE hx.terminal[j][<<c, d>>] = <<j, c, d>>
      BY <1>1, <1>3, <2>4, <3>3
    <3> QED  BY <2>2, <3>1, <3>2, <3>3 DEF FollowsAt
  <2> QED  BY <2>3, <2>4
<1> QED  BY <1>3 DEF Refs, Slot

LEMMA ReferencesHold == RInv => RefcountExact
<1> SUFFICES ASSUME RInv PROVE RefcountExact
  OBVIOUS
<1>1. ASSUME NEW t \in Terminal
      PROVE  /\ hx.refcount[t] = Cardinality(References(t))
             /\ hx.refcount[t] = 0 => hx.nodes[t] = {}
             /\ Refs(hx, t) = {} => hx.refcount[t] = 0
  <2>1. References(t) = Refs(hx, t)
    BY DEF References, Refs
  <2>2. /\ IsFiniteSet(Refs(hx, t)) /\ hx.refcount[t] = Cardinality(Refs(hx, t))
        /\ Refs(hx, t) = {} => hx.nodes[t] = {}
    BY DEF RInv, Referenced
  <2> QED  BY <2>1, <2>2, FS_EmptySet
<1>2. ASSUME NEW i \in Indexes \cap {"spo", "osp", "pos"}, NEW a \in Node, NEW b \in Node,
             hx.terminal[i][<<a, b>>] = NULL
      PROVE  hx.refcount[<<i, a, b>>] = 0
  <2>1. <<i, a, b>> \in Terminal
    BY IndexesAssumption DEF Terminal
  <2>2. Refs(hx, <<i, a, b>>) = {}
    BY <1>2, NamesAreFresh
  <2> QED  BY <1>1, <2>1, <2>2
<1> QED  BY <1>1, <1>2 DEF RefcountExact

\* However often a store is saved and loaded between additions and removals, no
\* triple is lost where new ones are put, terminals count their references and
\* nothing that can be reached is empty.
THEOREM ReloadIsSound == ReloadSpec => []SoundAfterReload
<1>1. RInv => SoundAfterReload
  BY CreatorsHold, NothingIsEmpty, ReferencesHold DEF SoundAfterReload
<1> QED
  BY <1>1, ReloadKeeps, PTL

\* The store that is saved and loaded still implements a set of triples.
THEOREM ReloadIsASet == ReloadSpec => ImplementsTripleStore
<1>1. Init => Abstract!Init
  BY InitIInv DEF Abstract!Init
<1>2. RInv /\ [Next \/ Reload]_vars => [Abstract!Next]_Content
  <2> SUFFICES ASSUME RInv, [Next \/ Reload]_vars PROVE Abstract!Next \/ Content' = Content
    OBVIOUS
  <2>1. CASE UNCHANGED vars
    BY <2>1, UnchangedContent
  <2>2. ASSUME NEW x \in Triple, AddTriple(x)
        PROVE  Abstract!Next \/ Content' = Content
    <3>1. Content' = IF Indexes = {} THEN {} ELSE Content \cup {x}
      BY <2>2, AddTripleRInv
    <3>2. CASE Indexes = {}
      BY <3>1, <3>2 DEF Content
    <3>3. CASE Indexes # {}
      BY <3>1, <3>3 DEF Abstract!Next, Abstract!AddTriple, Abstract!Triple, Triple
    <3> QED  BY <3>2, <3>3
  <2>3. ASSUME NEW x \in Triple, RemoveTriple(x)
        PROVE  Abstract!Next \/ Content' = Content
    <3>1. Content' = IF Indexes = {} THEN {} ELSE Content \ {x}
      BY <2>3, RemoveTripleRInv
    <3>2. CASE Indexes = {}
      BY <3>1, <3>2 DEF Content
    <3>3. CASE Indexes # {}
      BY <3>1, <3>3 DEF Abstract!Next, Abstract!RemoveTriple, Abstract!Triple, Triple
    <3> QED  BY <3>2, <3>3
  <2>4. CASE Reload
    BY <2>4, ReloadRInv
  <2> QED  BY <2>1, <2>2, <2>3, <2>4 DEF Next
<1> QED
  BY <1>1, <1>2, ReloadKeeps, PTL DEF ReloadSpec, ImplementsTripleStore, Abstract!Spec

=============================================================================
