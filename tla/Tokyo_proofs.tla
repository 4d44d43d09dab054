---------------------------- MODULE Tokyo_proofs ----------------------------
(***************************************************************************)
(* Lemmas about the operators of module Tokyo: what the operations of the  *)
(* store in files do to its maps of nodes, to what its tables decode to    *)
(* and to its counts, and which rows a search of its tables gives.         *)
(***************************************************************************)
EXTENDS Tokyo, FiniteSetTheorems, SequenceTheorems, WellFoundedInduction, TLAPS

-----------------------------------------------------------------------------
(* Nodes.                                                                  *)

Node3 == [1..3 -> Nat \ {0}]

First == <<1, 2, 3>>

LEMMA FirstIsOrder == First \in Orders
BY DEF Orders, First

Files(S) ==
  /\ S = [node2id |-> S.node2id, id2node |-> S.id2node, next_id |-> S.next_id,
          bulk |-> S.bulk, index |-> S.index, counts |-> S.counts]
  /\ DOMAIN S.index = Orders
  /\ S.next_id \in Nat
  /\ \A n \in DOMAIN S.node2id : S.node2id[n] \in DOMAIN S.id2node
  /\ \A i \in S.index[First] :
       /\ i = [k \in 1..3 |-> i[k]]
       /\ \A k \in 1..3 : \E n \in DOMAIN S.node2id : i[k] = S.node2id[n]

\* The maps of nodes undo each other.
RoundTrip(S) == \A n \in DOMAIN S.node2id : S.id2node[S.node2id[n]] = n

\* Ids are given once.
Distinct(S) ==
  /\ \A n \in DOMAIN S.node2id : S.node2id[n] \in Nat /\ S.node2id[n] < S.next_id
  /\ \A n, m \in DOMAIN S.node2id : S.node2id[n] = S.node2id[m] => n = m

\* N has the tables of S, and its nodes or more.
MoreNodes(S, N) ==
  /\ N.index = S.index /\ N.bulk = S.bulk
  /\ \A n \in DOMAIN S.node2id : n \in DOMAIN N.node2id /\ N.node2id[n] = S.node2id[n]
  /\ RoundTrip(N) => RoundTrip(S)
  /\ Distinct(S) => Distinct(N) /\ (RoundTrip(S) => RoundTrip(N))

Decoded(S) == {[k \in 1..3 |-> S.id2node[i[k]]] : i \in S.index[First]}

IsPut(f, key, value, g) ==
  /\ DOMAIN g = DOMAIN f \cup {key} /\ g[key] = value
  /\ \A k \in DOMAIN f : k # key => g[k] = f[k]

LEMMA PutIs == ASSUME NEW f, NEW key, NEW value PROVE IsPut(f, key, value, Put(f, key, value))
BY DEF Put, IsPut

LEMMA FileAddNode ==
  ASSUME NEW S, Files(S), NEW n, NEW N, N = AddNode(S, n)
  PROVE  Files(N) /\ MoreNodes(S, N) /\ n \in DOMAIN N.node2id
<1>1. CASE n \in DOMAIN S.node2id
  <2>1. N = S
    BY <1>1 DEF AddNode
  <2> QED  BY <1>1, <2>1 DEF MoreNodes
<1>2. CASE n \notin DOMAIN S.node2id
  <2>1. PICK f, g : f = Put(S.node2id, n, S.next_id) /\ g = Put(S.id2node, S.next_id, n)
    OBVIOUS
  <2>2. N = [node2id |-> f, id2node |-> g, next_id |-> S.next_id + 1,
             bulk |-> S.bulk, index |-> S.index, counts |-> S.counts]
    <3>1. N = [S EXCEPT !.node2id = f, !.id2node = g, !.next_id = S.next_id + 1]
      BY <1>2, <2>1 DEF AddNode
    <3> QED  BY <3>1 DEF Files
  <2>3. /\ DOMAIN f = DOMAIN S.node2id \cup {n} /\ f[n] = S.next_id
        /\ \A m \in DOMAIN S.node2id : f[m] = S.node2id[m]
    <3>1. /\ DOMAIN f = DOMAIN S.node2id \cup {n} /\ f[n] = S.next_id
          /\ \A m \in DOMAIN S.node2id : m # n => f[m] = S.node2id[m]
      <4>1. IsPut(S.node2id, n, S.next_id, f)
        BY <2>1, PutIs
      <4> QED  BY <4>1 DEF IsPut
    <3> QED  BY <1>2, <3>1
  <2>4. /\ DOMAIN g = DOMAIN S.id2node \cup {S.next_id} /\ g[S.next_id] = n
        /\ \A id \in DOMAIN S.id2node : id # S.next_id => g[id] = S.id2node[id]
    <3>1. IsPut(S.id2node, S.next_id, n, g)
      BY <2>1, PutIs
    <3> QED  BY <3>1 DEF IsPut
  <2>5. S.next_id \in Nat /\ S.next_id + 1 \in Nat
    BY DEF Files
  <2>6. N.node2id = f /\ N.id2node = g /\ N.next_id = S.next_id + 1 /\ N.index = S.index /\ N.bulk = S.bulk
    BY <2>2
  <2>7. Files(N)
    <3>1. \A m \in DOMAIN f : f[m] \in DOMAIN g
      BY <2>3, <2>4 DEF Files
    <3>2. \A i \in S.index[First] :
            /\ i = [k \in 1..3 |-> i[k]]
            /\ \A k \in 1..3 : \E m \in DOMAIN f : i[k] = f[m]
      BY <2>3 DEF Files
    <3>3. DOMAIN S.index = Orders
      BY DEF Files
    <3> QED  BY <2>2, <2>5, <2>6, <3>1, <3>2, <3>3 DEF Files
  <2>8. RoundTrip(N) => RoundTrip(S)
    <3> SUFFICES ASSUME RoundTrip(N), NEW m \in DOMAIN S.node2id
                 PROVE  S.id2node[S.node2id[m]] = m
      BY DEF RoundTrip
    <3>1. g[S.node2id[m]] = m
      BY <2>3, <2>6 DEF RoundTrip
    <3>2. S.node2id[m] # S.next_id
      BY <1>2, <2>4, <3>1
    <3> QED  BY <2>4, <3>1, <3>2 DEF Files
  <2>9. Distinct(S) => Distinct(N)
    <3> SUFFICES ASSUME Distinct(S) PROVE Distinct(N)
      OBVIOUS
    <3>1. \A m \in DOMAIN f : m \in DOMAIN S.node2id \/ m = n
      BY <2>3
    <3>2. \A m \in DOMAIN S.node2id : S.node2id[m] \in Nat /\ S.node2id[m] < S.next_id
      BY DEF Distinct
    <3>3. \A m \in DOMAIN f : f[m] \in Nat /\ f[m] < S.next_id + 1
      BY <2>3, <2>5, <3>1, <3>2
    <3>4. \A m, l \in DOMAIN f : f[m] = f[l] => m = l
      <4>1. \A m \in DOMAIN S.node2id : f[m] # f[n]
        BY <2>3, <2>5, <3>2
      <4> QED  BY <2>3, <3>1, <4>1 DEF Distinct
    <3> QED  BY <2>6, <3>3, <3>4 DEF Distinct
  <2>10. Distinct(S) /\ RoundTrip(S) => RoundTrip(N)
    <3> SUFFICES ASSUME Distinct(S), RoundTrip(S), NEW m \in DOMAIN f PROVE g[f[m]] = m
      BY <2>6 DEF RoundTrip
    <3>1. CASE m = n
      BY <2>3, <2>4, <3>1
    <3>2. CASE m \in DOMAIN S.node2id
      <4>1. S.node2id[m] # S.next_id /\ S.node2id[m] \in DOMAIN S.id2node
        BY <2>5, <3>2 DEF Distinct, Files
      <4> QED  BY <2>3, <2>4, <3>2, <4>1 DEF RoundTrip
    <3> QED  BY <2>3, <3>1, <3>2
  <2>11. MoreNodes(S, N) /\ n \in DOMAIN N.node2id
    BY <2>3, <2>6, <2>8, <2>9, <2>10 DEF MoreNodes
  <2> QED  BY <2>7, <2>11
<1> QED  BY <1>1, <1>2

LEMMA MoreTwice ==
  ASSUME NEW S, NEW N, NEW U, MoreNodes(S, N), MoreNodes(N, U)
  PROVE  MoreNodes(S, U)
<1>1. U.index = S.index /\ U.bulk = S.bulk
  BY DEF MoreNodes
<1>2. \A n \in DOMAIN S.node2id : n \in DOMAIN U.node2id /\ U.node2id[n] = S.node2id[n]
  BY DEF MoreNodes
<1>3. /\ RoundTrip(U) => RoundTrip(S)
      /\ Distinct(S) => Distinct(U) /\ (RoundTrip(S) => RoundTrip(U))
  BY DEF MoreNodes
<1> QED  BY <1>1, <1>2, <1>3 DEF MoreNodes

LEMMA FileAddNodes ==
  ASSUME NEW S, Files(S), NEW x, NEW N, N = AddNodes(S, x)
  PROVE  Files(N) /\ MoreNodes(S, N) /\ \A k \in 1..3 : x[k] \in DOMAIN N.node2id
<1>1. PICK l, m, n : l = x[1] /\ m = x[2] /\ n = x[3]
  OBVIOUS
<1>2. PICK U, V : U = AddNode(S, l) /\ V = AddNode(U, m) /\ N = AddNode(V, n)
  BY <1>1 DEF AddNodes
<1>3. Files(U) /\ MoreNodes(S, U) /\ l \in DOMAIN U.node2id
  BY <1>2, FileAddNode
<1>4. Files(V) /\ MoreNodes(U, V) /\ m \in DOMAIN V.node2id
  BY <1>2, <1>3, FileAddNode
<1>5. Files(N) /\ MoreNodes(V, N) /\ n \in DOMAIN N.node2id
  BY <1>2, <1>4, FileAddNode
<1>6. MoreNodes(U, N)
  BY <1>4, <1>5, MoreTwice
<1>7. MoreNodes(S, N)
  BY <1>3, <1>6, MoreTwice
<1>8. l \in DOMAIN N.node2id /\ m \in DOMAIN N.node2id
  BY <1>3, <1>4, <1>5, <1>6 DEF MoreNodes
<1>9. \A k \in 1..3 : x[k] \in DOMAIN N.node2id
  <2>1. \A k \in 1..3 : k = 1 \/ k = 2 \/ k = 3
    OBVIOUS
  <2> QED  BY <1>1, <1>5, <1>8, <2>1
<1> QED  BY <1>5, <1>7, <1>9

\* While the maps undo each other, more nodes leave the triples what they are.
LEMMA SameTriples ==
  ASSUME NEW S, Files(S), NEW N, MoreNodes(S, N), RoundTrip(N)
  PROVE  Decoded(N) = Decoded(S)
<1>1. RoundTrip(S) /\ N.index = S.index
  BY DEF MoreNodes
<1>2. ASSUME NEW i \in S.index[First], NEW k \in 1..3 PROVE N.id2node[i[k]] = S.id2node[i[k]]
  <2>1. PICK n \in DOMAIN S.node2id : i[k] = S.node2id[n]
    BY DEF Files
  <2>2. S.id2node[i[k]] = n
    BY <1>1, <2>1 DEF RoundTrip
  <2>3. N.id2node[i[k]] = n
    BY <2>1 DEF RoundTrip, MoreNodes
  <2> QED  BY <2>2, <2>3
<1>3. \A i \in S.index[First] :
        [k \in 1..3 |-> N.id2node[i[k]]] = [k \in 1..3 |-> S.id2node[i[k]]]
  BY <1>2
<1> QED  BY <1>1, <1>3 DEF Decoded

\* N is S with another set of triples in its first table.
Changed(S, N, I) ==
  /\ N.node2id = S.node2id /\ N.id2node = S.id2node /\ N.next_id \in Nat
  /\ N.index[First] = I

LEMMA ChangedIs ==
  ASSUME NEW S, Files(S), NEW N, NEW I, Changed(S, N, I),
         DOMAIN N.index = Orders,
         N = [node2id |-> N.node2id, id2node |-> N.id2node, next_id |-> N.next_id,
              bulk |-> N.bulk, index |-> N.index, counts |-> N.counts],
         \A i \in I : i = [k \in 1..3 |-> i[k]]
                      /\ \A k \in 1..3 : \E n \in DOMAIN S.node2id : i[k] = S.node2id[n]
  PROVE  /\ Files(N) /\ (RoundTrip(N) <=> RoundTrip(S))
         /\ Decoded(N) = {[k \in 1..3 |-> S.id2node[i[k]]] : i \in I}
<1>1. Files(N)
  BY DEF Files, Changed
<1>2. RoundTrip(N) <=> RoundTrip(S)
  BY DEF RoundTrip, Changed
<1>3. Decoded(N) = {[k \in 1..3 |-> S.id2node[i[k]]] : i \in I}
  BY DEF Decoded, Changed
<1> QED  BY <1>1, <1>2, <1>3

\* The ids of a triple of known nodes.
LEMMA FileIds ==
  ASSUME NEW S, Files(S), NEW x \in Node3, \A k \in 1..3 : x[k] \in DOMAIN S.node2id
  PROVE  /\ Ids(S, x) = [k \in 1..3 |-> S.node2id[x[k]]]
         /\ RoundTrip(S) => [k \in 1..3 |-> S.id2node[Ids(S, x)[k]]] = x
<1>1. ASSUME NEW k \in 1..3 PROVE ~(x[k] < 0)
  <2>1. x[k] \in Nat
    BY DEF Node3
  <2> QED  BY <2>1
<1>2. Ids(S, x) = [k \in 1..3 |-> S.node2id[x[k]]]
  BY <1>1 DEF Ids, GetNodeId
<1>3. ASSUME RoundTrip(S) PROVE [k \in 1..3 |-> S.id2node[Ids(S, x)[k]]] = x
  <2>1. \A k \in 1..3 : S.id2node[Ids(S, x)[k]] = x[k]
    BY <1>2, <1>3 DEF RoundTrip
  <2>2. x = [k \in 1..3 |-> x[k]]
    BY DEF Node3
  <2> QED  BY <2>1, <2>2
<1> QED  BY <1>2, <1>3

LEMMA FileAddTriple ==
  ASSUME NEW S, Files(S), NEW x \in Node3, NEW N, N = AddTriple(S, x)
  PROVE  /\ Files(N) /\ (RoundTrip(N) => RoundTrip(S) /\ Decoded(N) = Decoded(S) \cup {x})
         /\ Distinct(S) => Distinct(N) /\ (RoundTrip(S) => RoundTrip(N))
         /\ \A n \in DOMAIN S.node2id : n \in DOMAIN N.node2id /\ N.node2id[n] = S.node2id[n]
<1>1. PICK U, i : U = AddNodes(S, x) /\ i = Ids(U, x)
  OBVIOUS
<1>2. N = AddTripleId(U, i)
  BY <1>1 DEF AddTriple
<1>3. Files(U) /\ MoreNodes(S, U) /\ \A k \in 1..3 : x[k] \in DOMAIN U.node2id
  BY <1>1, FileAddNodes
<1>4. /\ i = [k \in 1..3 |-> U.node2id[x[k]]]
      /\ RoundTrip(U) => [k \in 1..3 |-> U.id2node[i[k]]] = x
  BY <1>1, <1>3, FileIds
<1>5. PICK into, J, c :
        /\ into = (IF U.bulk THEN {First} ELSE Orders)
        /\ J = [o \in Orders |-> IF o \in into THEN U.index[o] \cup {i} ELSE U.index[o]]
        /\ c = [key \in CountKeys(i) \cup DOMAIN U.counts |->
                  Counter(U, key) + (IF key \in CountKeys(i) THEN 1 ELSE 0)]
  OBVIOUS
<1>6. N = [U EXCEPT !.index = J, !.counts = c]
  <2>1. IndexAdd(U, into, i) = [U EXCEPT !.index = J]
    BY <1>5 DEF IndexAdd
  <2>2. N = [IndexAdd(U, into, i) EXCEPT !.counts =
               [key \in CountKeys(i) \cup DOMAIN IndexAdd(U, into, i).counts |->
                  Counter(U, key) + (IF key \in CountKeys(i) THEN 1 ELSE 0)]]
    BY <1>2, <1>5 DEF AddTripleId, First
  <2>3. IndexAdd(U, into, i).counts = U.counts
    BY <1>3, <2>1 DEF Files
  <2> QED  BY <1>3, <1>5, <2>1, <2>2, <2>3 DEF Files
<1>7. N = [node2id |-> U.node2id, id2node |-> U.id2node, next_id |-> U.next_id,
           bulk |-> U.bulk, index |-> J, counts |-> c]
  BY <1>3, <1>6 DEF Files
<1>8. DOMAIN J = Orders /\ J[First] = U.index[First] \cup {i}
  BY <1>5, FirstIsOrder
<1>9. Changed(U, N, U.index[First] \cup {i})
  BY <1>3, <1>7, <1>8 DEF Changed, Files
<1>10. \A j \in U.index[First] \cup {i} :
         /\ j = [k \in 1..3 |-> j[k]]
         /\ \A k \in 1..3 : \E n \in DOMAIN U.node2id : j[k] = U.node2id[n]
  BY <1>3, <1>4 DEF Files
<1>11. /\ Files(N) /\ (RoundTrip(N) <=> RoundTrip(U))
       /\ Decoded(N) = {[k \in 1..3 |-> U.id2node[j[k]]] : j \in U.index[First] \cup {i}}
  BY <1>3, <1>7, <1>8, <1>9, <1>10, ChangedIs
<1>12. Decoded(N) = Decoded(U) \cup {[k \in 1..3 |-> U.id2node[i[k]]]}
  BY <1>11 DEF Decoded
<1>13. ASSUME RoundTrip(N) PROVE RoundTrip(S) /\ Decoded(N) = Decoded(S) \cup {x}
  <2>1. RoundTrip(U) /\ RoundTrip(S)
    BY <1>3, <1>11, <1>13 DEF MoreNodes
  <2>2. Decoded(U) = Decoded(S)
    BY <1>3, <2>1, SameTriples
  <2> QED  BY <1>4, <1>12, <2>1, <2>2
<1>14. Distinct(S) => Distinct(N) /\ (RoundTrip(S) => RoundTrip(N))
  <2>1. Distinct(U) => Distinct(N)
    BY <1>7 DEF Distinct
  <2> QED  BY <1>3, <1>11, <2>1 DEF MoreNodes
<1>15. \A n \in DOMAIN S.node2id : n \in DOMAIN N.node2id /\ N.node2id[n] = S.node2id[n]
  BY <1>3, <1>7 DEF MoreNodes
<1> QED  BY <1>11, <1>13, <1>14, <1>15

LEMMA FileRemoveTriple ==
  ASSUME NEW S, Files(S), NEW x \in Node3, \A k \in 1..3 : x[k] \in DOMAIN S.node2id,
         NEW N, N = RemoveTriple(S, x)
  PROVE  /\ Files(N) /\ (RoundTrip(N) => RoundTrip(S) /\ Decoded(N) = Decoded(S) \ {x})
         /\ Distinct(S) => Distinct(N)
         /\ N.node2id = S.node2id
<1>1. PICK i, J : i = Ids(S, x) /\ J = [o \in Orders |-> S.index[o] \ {i}]
  OBVIOUS
<1>2. /\ i = [k \in 1..3 |-> S.node2id[x[k]]]
      /\ RoundTrip(S) => [k \in 1..3 |-> S.id2node[i[k]]] = x
  BY <1>1, FileIds
<1>3. N = [S EXCEPT !.index = J]
  BY <1>1 DEF RemoveTriple, IndexRemove
<1>4. N = [node2id |-> S.node2id, id2node |-> S.id2node, next_id |-> S.next_id,
           bulk |-> S.bulk, index |-> J, counts |-> S.counts]
  BY <1>3 DEF Files
<1>5. DOMAIN J = Orders /\ J[First] = S.index[First] \ {i}
  BY <1>1, FirstIsOrder
<1>6. Changed(S, N, S.index[First] \ {i})
  BY <1>4, <1>5 DEF Changed, Files
<1>7. \A j \in S.index[First] \ {i} :
         /\ j = [k \in 1..3 |-> j[k]]
         /\ \A k \in 1..3 : \E n \in DOMAIN S.node2id : j[k] = S.node2id[n]
  BY DEF Files
<1>8. /\ Files(N) /\ (RoundTrip(N) <=> RoundTrip(S))
      /\ Decoded(N) = {[k \in 1..3 |-> S.id2node[j[k]]] : j \in S.index[First] \ {i}}
  BY <1>4, <1>5, <1>6, <1>7, ChangedIs
<1>9. ASSUME RoundTrip(S) PROVE Decoded(N) = Decoded(S) \ {x}
  <2>1. ASSUME NEW j \in S.index[First], [k \in 1..3 |-> S.id2node[j[k]]] = x PROVE j = i
    <3>1. ASSUME NEW k \in 1..3 PROVE j[k] = i[k]
      <4>1. PICK n \in DOMAIN S.node2id : j[k] = S.node2id[n]
        BY DEF Files
      <4>2. S.id2node[j[k]] = n
        BY <1>9, <4>1 DEF RoundTrip
      <4>3. x[k] = n
        BY <2>1, <4>2
      <4> QED  BY <1>2, <4>1, <4>3
    <3>2. j = [k \in 1..3 |-> j[k]]
      BY DEF Files
    <3> QED  BY <1>2, <3>1, <3>2
  <2>2. [k \in 1..3 |-> S.id2node[i[k]]] = x
    BY <1>2, <1>9
  <2> DEFINE node(j) == [k \in 1..3 |-> S.id2node[j[k]]]
  <2>3. Decoded(N) = {node(j) : j \in S.index[First] \ {i}}
    BY <1>8
  <2>4. Decoded(S) = {node(j) : j \in S.index[First]}
    BY DEF Decoded
  <2>5. node(i) = x /\ \A j \in S.index[First] : node(j) = x => j = i
    BY <2>1, <2>2
  <2> HIDE DEF node
  <2> QED  BY <2>3, <2>4, <2>5
<1>10. Distinct(S) => Distinct(N)
  BY <1>4 DEF Distinct
<1> QED  BY <1>4, <1>8, <1>9, <1>10

\* N is S with the same nodes and triples, whatever else.
LEMMA FileKeeps ==
  ASSUME NEW S, Files(S), NEW N, Changed(S, N, S.index[First]), DOMAIN N.index = Orders,
         N = [node2id |-> N.node2id, id2node |-> N.id2node, next_id |-> N.next_id,
              bulk |-> N.bulk, index |-> N.index, counts |-> N.counts]
  PROVE  Files(N) /\ (RoundTrip(N) <=> RoundTrip(S)) /\ Decoded(N) = Decoded(S)
<1>1. \A i \in S.index[First] :
        /\ i = [k \in 1..3 |-> i[k]]
        /\ \A k \in 1..3 : \E n \in DOMAIN S.node2id : i[k] = S.node2id[n]
  BY DEF Files
<1> QED  BY <1>1, ChangedIs DEF Decoded

LEMMA FileBulk ==
  ASSUME NEW S, Files(S), NEW N, N = BeginBulk(S) \/ N = EndBulk(S)
  PROVE  /\ Files(N) /\ (RoundTrip(N) <=> RoundTrip(S)) /\ Decoded(N) = Decoded(S)
         /\ Distinct(S) => Distinct(N)
         /\ N.node2id = S.node2id
<1>1. CASE N = BeginBulk(S)
  <2>1. N = [node2id |-> S.node2id, id2node |-> S.id2node, next_id |-> S.next_id,
             bulk |-> TRUE, index |-> S.index, counts |-> S.counts]
    BY <1>1 DEF Files, BeginBulk
  <2>2. Changed(S, N, S.index[First]) /\ DOMAIN N.index = Orders
    BY <2>1 DEF Changed, Files
  <2>3. Files(N) /\ (RoundTrip(N) <=> RoundTrip(S)) /\ Decoded(N) = Decoded(S)
    BY <2>1, <2>2, FileKeeps
  <2> QED  BY <2>1, <2>3 DEF Distinct
<1>2. CASE N = EndBulk(S)
  <2>1. PICK J : J = [o \in Orders |-> S.index[o] \cup S.index[First]]
    OBVIOUS
  <2>2. N = [S EXCEPT !.bulk = FALSE, !.index = J]
    BY <1>2, <2>1 DEF EndBulk, First
  <2>3. N = [node2id |-> S.node2id, id2node |-> S.id2node, next_id |-> S.next_id,
             bulk |-> FALSE, index |-> J, counts |-> S.counts]
    BY <2>2 DEF Files
  <2>4. DOMAIN J = Orders /\ J[First] = S.index[First]
    BY <2>1, FirstIsOrder
  <2>5. Changed(S, N, S.index[First]) /\ DOMAIN N.index = Orders
    BY <2>3, <2>4 DEF Changed, Files
  <2>6. Files(N) /\ (RoundTrip(N) <=> RoundTrip(S)) /\ Decoded(N) = Decoded(S)
    BY <2>3, <2>5, FileKeeps
  <2> QED  BY <2>3, <2>6 DEF Distinct
<1> QED  BY <1>1, <1>2

LEMMA FileReopen ==
  ASSUME NEW S, Files(S), NEW N, N = Reopen(S)
  PROVE  /\ Files(N) /\ (RoundTrip(N) <=> RoundTrip(S)) /\ Decoded(N) = Decoded(S)
         /\ N.node2id = S.node2id
<1>1. N = [node2id |-> S.node2id, id2node |-> S.id2node, next_id |-> 1,
           bulk |-> FALSE, index |-> S.index, counts |-> S.counts]
  BY DEF Files, Reopen
<1>2. Changed(S, N, S.index[First]) /\ DOMAIN N.index = Orders
  BY <1>1 DEF Changed, Files
<1> QED  BY <1>1, <1>2, FileKeeps

LEMMA NewFiles ==
  Files(EmptyStore) /\ Distinct(EmptyStore) /\ Decoded(EmptyStore) = {}
<1>1. PICK S : S = EmptyStore
  OBVIOUS
<1>2. /\ S = [node2id |-> <<>>, id2node |-> <<>>, next_id |-> 1, bulk |-> FALSE,
              index |-> NewTables, counts |-> <<>>]
      /\ DOMAIN NewTables = Orders /\ NewTables[First] = {}
  BY <1>1, FirstIsOrder DEF EmptyStore, NewTables
<1>3. DOMAIN S.node2id = {}
  BY <1>2
<1>4. Files(S)
  BY <1>2, <1>3 DEF Files
<1>5. Distinct(S)
  BY <1>3 DEF Distinct
<1>6. Decoded(S) = {}
  BY <1>2 DEF Decoded
<1> QED  BY <1>1, <1>4, <1>5, <1>6

-----------------------------------------------------------------------------
(* The store until it is opened again.                                     *)

Sound(S) == Files(S) /\ Distinct(S) /\ RoundTrip(S)

\* The tables have what the first has, or less while a bulk load is on.
Level(S) ==
  \A o \in Orders : /\ S.index[o] \subseteq S.index[First]
                    /\ ~S.bulk => S.index[o] = S.index[First]

LEMMA TablesAdded ==
  ASSUME NEW S, Files(S), Level(S), NEW x \in Node3, NEW N, N = AddTriple(S, x)
  PROVE  Level(N) /\ N.bulk = S.bulk
<1>1. PICK U, i : U = AddNodes(S, x) /\ i = Ids(U, x)
  OBVIOUS
<1>2. PICK into : into = IF U.bulk THEN {<<1,2,3>>} ELSE Orders
  OBVIOUS
<1>3. Files(U) /\ MoreNodes(S, U)
  BY <1>1, FileAddNodes
<1>4. PICK J, c :
        /\ J = [o \in Orders |-> IF o \in into THEN U.index[o] \cup {i} ELSE U.index[o]]
        /\ c = [key \in CountKeys(i) \cup DOMAIN IndexAdd(U, into, i).counts |->
                  Counter(U, key) + (IF key \in CountKeys(i) THEN 1 ELSE 0)]
  OBVIOUS
<1>5. IndexAdd(U, into, i) = [U EXCEPT !.index = J]
  BY <1>4 DEF IndexAdd
<1>6. N = [IndexAdd(U, into, i) EXCEPT !.counts = c]
  BY <1>1, <1>2, <1>4 DEF AddTriple, AddTripleId
<1>7. N.index = J /\ N.bulk = U.bulk
  BY <1>3, <1>5, <1>6 DEF Files
<1>8. U.index = S.index /\ U.bulk = S.bulk
  BY <1>3 DEF MoreNodes
<1>9. First \in into
  BY <1>2, FirstIsOrder DEF First
<1>10. ~U.bulk => into = Orders
  BY <1>2
<1>11. Level(N)
  BY <1>4, <1>7, <1>8, <1>9, <1>10, FirstIsOrder DEF Level
<1> QED  BY <1>7, <1>8, <1>11

\* A triple that is added to such a store is in it, and all others stay.
LEMMA SoundAdd ==
  ASSUME NEW S, Sound(S), Level(S), NEW x \in Node3, NEW N, N = AddTriple(S, x)
  PROVE  Sound(N) /\ Level(N) /\ N.bulk = S.bulk /\ Decoded(N) = Decoded(S) \cup {x}
<1>1. Files(S) /\ Distinct(S) /\ RoundTrip(S)
  BY DEF Sound
<1> QED  BY <1>1, FileAddTriple, TablesAdded DEF Sound

\* A bulk load begins and ends.
LEMMA SoundBulk ==
  ASSUME NEW S, Sound(S), Level(S), NEW N, N = BeginBulk(S) \/ N = EndBulk(S)
  PROVE  Sound(N) /\ Level(N) /\ Decoded(N) = Decoded(S)
<1>1. Files(S) /\ Distinct(S) /\ RoundTrip(S)
  BY DEF Sound
<1>2. Sound(N) /\ Decoded(N) = Decoded(S)
  BY <1>1, FileBulk DEF Sound
<1>3. CASE N = BeginBulk(S)
  <2>1. N.index = S.index /\ N.bulk = TRUE
    BY <1>1, <1>3 DEF BeginBulk, Files
  <2> QED  BY <1>2, <2>1 DEF Level
<1>4. CASE N = EndBulk(S)
  <2>1. PICK J : J = [o \in Orders |-> S.index[o] \cup S.index[<<1,2,3>>]]
    OBVIOUS
  <2>2. N.index = J
    BY <1>1, <1>4, <2>1 DEF EndBulk, Files
  <2>3. \A o \in Orders : N.index[o] = S.index[First]
    BY <2>1, <2>2 DEF Level, First
  <2> QED  BY <1>2, <2>3, FirstIsOrder DEF Level
<1> QED  BY <1>3, <1>4

LEMMA SoundNew == Sound(EmptyStore) /\ Level(EmptyStore) /\ Decoded(EmptyStore) = {}
<1>1. PICK S : S = EmptyStore
  OBVIOUS
<1>2. S.node2id = <<>> /\ \A o \in Orders : S.index[o] = {}
  BY <1>1 DEF EmptyStore, NewTables
<1>3. RoundTrip(S)
  <2>1. DOMAIN S.node2id = {}
    BY <1>2
  <2> QED  BY <2>1 DEF RoundTrip
<1>4. Level(S)
  BY <1>2, FirstIsOrder DEF Level
<1> QED  BY <1>1, <1>3, <1>4, NewFiles DEF Sound

-----------------------------------------------------------------------------
(* The table of counts.                                                    *)

\* The keys of the table: ids of nodes, not everywhere and not nowhere.
PartKeys == {key \in [1..3 -> Nat] : (\E k \in 1..3 : key[k] = 0) /\ \E k \in 1..3 : key[k] # 0}

Suits(t, key) == \A k \in 1..3 : key[k] # 0 => t[k] = key[k]

Counting(I, key) == {t \in I : Suits(t, key)}

\* A count is never less than the triples that have its nodes, whatever nodes the ids
\* of the triples stand for.
Covered(S) ==
  /\ IsFiniteSet(S.index[First])
  /\ S.next_id \in Nat \ {0}
  /\ \A n \in DOMAIN S.node2id : S.node2id[n] \in Nat \ {0}
  /\ \A key \in PartKeys : /\ Counter(S, key) \in Nat
                           /\ Cardinality(Counting(S.index[First], key)) <= Counter(S, key)

\* N has the counts of S, and the triples of its first table or fewer.
Spared(S, N) ==
  /\ N.counts = S.counts /\ N.index[First] \subseteq S.index[First]
  /\ N.next_id \in Nat \ {0}
  /\ \A n \in DOMAIN N.node2id : N.node2id[n] \in Nat \ {0}

LEMMA CountingIs ==
  ASSUME NEW I, IsFiniteSet(I), NEW key
  PROVE  IsFiniteSet(Counting(I, key)) /\ Cardinality(Counting(I, key)) \in Nat
<1>1. IsFiniteSet(Counting(I, key))
  BY FS_Subset DEF Counting
<1> QED  BY <1>1, FS_CardinalityType

LEMMA CoverSpared ==
  ASSUME NEW S, Covered(S), NEW N, Spared(S, N)
  PROVE  Covered(N)
<1>1. IsFiniteSet(S.index[First]) /\ IsFiniteSet(N.index[First])
  BY FS_Subset DEF Covered, Spared
<1>2. ASSUME NEW key \in PartKeys
      PROVE  /\ Counter(N, key) \in Nat
             /\ Cardinality(Counting(N.index[First], key)) <= Counter(N, key)
  <2>1. Counter(N, key) = Counter(S, key)
    BY DEF Counter, Spared
  <2>2. PICK A, B : A = Counting(N.index[First], key) /\ B = Counting(S.index[First], key)
    OBVIOUS
  <2>3. IsFiniteSet(B) /\ A \subseteq B /\ Cardinality(A) \in Nat /\ Cardinality(B) \in Nat
    BY <1>1, <2>2, CountingIs DEF Counting, Spared
  <2>4. Cardinality(A) <= Cardinality(B)
    BY <2>3, FS_Subset
  <2>5. Counter(S, key) \in Nat /\ Cardinality(B) <= Counter(S, key)
    BY <2>2 DEF Covered
  <2> QED  BY <2>1, <2>2, <2>3, <2>4, <2>5
<1> QED  BY <1>1, <1>2 DEF Covered, Spared

LEMMA CoverAddNode ==
  ASSUME NEW S, Files(S), Covered(S), NEW n, NEW N, N = AddNode(S, n)
  PROVE  Covered(N)
<1>1. CASE n \in DOMAIN S.node2id
  BY <1>1 DEF AddNode
<1>2. CASE n \notin DOMAIN S.node2id
  <2>1. PICK f, g : f = Put(S.node2id, n, S.next_id) /\ g = Put(S.id2node, S.next_id, n)
    OBVIOUS
  <2>2. N = [S EXCEPT !.node2id = f, !.id2node = g, !.next_id = S.next_id + 1]
    BY <1>2, <2>1 DEF AddNode
  <2>3. N = [node2id |-> f, id2node |-> g, next_id |-> S.next_id + 1,
             bulk |-> S.bulk, index |-> S.index, counts |-> S.counts]
    BY <2>2 DEF Files
  <2>4. S.next_id \in Nat \ {0} /\ S.next_id + 1 \in Nat \ {0}
    BY DEF Covered
  <2>5. IsPut(S.node2id, n, S.next_id, f)
    BY <2>1, PutIs
  <2>6. \A m \in DOMAIN f : f[m] \in Nat \ {0}
    BY <2>4, <2>5 DEF IsPut, Covered
  <2>7. Spared(S, N)
    BY <2>3, <2>4, <2>6 DEF Spared
  <2> QED  BY <2>7, CoverSpared
<1> QED  BY <1>1, <1>2

LEMMA CoverAddNodes ==
  ASSUME NEW S, Files(S), Covered(S), NEW x, NEW N, N = AddNodes(S, x)
  PROVE  Covered(N)
<1>1. PICK l, m, n : l = x[1] /\ m = x[2] /\ n = x[3]
  OBVIOUS
<1>2. PICK U, V : U = AddNode(S, l) /\ V = AddNode(U, m) /\ N = AddNode(V, n)
  BY <1>1 DEF AddNodes
<1>3. Files(U) /\ Covered(U)
  BY <1>2, FileAddNode, CoverAddNode
<1>4. Files(V) /\ Covered(V)
  BY <1>2, <1>3, FileAddNode, CoverAddNode
<1> QED  BY <1>2, <1>4, CoverAddNode

\* The keys that a triple is counted under are those that it suits.
LEMMA CountKeysAre ==
  ASSUME NEW i \in [1..3 -> Nat \ {0}], NEW key \in PartKeys
  PROVE  key \in CountKeys(i) <=> Suits(i, key)
<1>1. ASSUME key \in CountKeys(i) PROVE Suits(i, key)
  <2>1. PICK kept \in (SUBSET (1..3)) \ {{}, 1..3} :
          key = [k \in 1..3 |-> IF k \in kept THEN i[k] ELSE 0]
    BY <1>1 DEF CountKeys
  <2> QED  BY <2>1 DEF Suits
<1>2. ASSUME Suits(i, key) PROVE key \in CountKeys(i)
  <2>1. PICK kept : kept = {k \in 1..3 : key[k] # 0}
    OBVIOUS
  <2>2. kept \in (SUBSET (1..3)) \ {{}, 1..3}
    BY <2>1 DEF PartKeys
  <2>3. key = [k \in 1..3 |-> key[k]]
    BY DEF PartKeys
  <2>4. \A k \in 1..3 : key[k] = IF k \in kept THEN i[k] ELSE 0
    BY <1>2, <2>1 DEF Suits
  <2>5. key = [k \in 1..3 |-> IF k \in kept THEN i[k] ELSE 0]
    BY <2>3, <2>4
  <2> QED  BY <2>2, <2>5 DEF CountKeys
<1> QED  BY <1>1, <1>2

\* A triple more, and one more under each key it suits.
LEMMA CountingMore ==
  ASSUME NEW I, IsFiniteSet(I), NEW i, NEW key
  PROVE  /\ Cardinality(Counting(I \cup {i}, key)) <= Cardinality(Counting(I, key)) + 1
         /\ ~Suits(i, key) => Counting(I \cup {i}, key) = Counting(I, key)
<1>1. PICK A : A = Counting(I, key)
  OBVIOUS
<1>2. IsFiniteSet(A) /\ Cardinality(A) \in Nat
  BY <1>1, CountingIs
<1>3. Counting(I \cup {i}, key) = IF Suits(i, key) THEN A \cup {i} ELSE A
  BY <1>1 DEF Counting
<1>4. Cardinality(A \cup {i}) <= Cardinality(A) + 1
  <2>1. CASE i \in A
    <3>1. A \cup {i} = A
      BY <2>1
    <3>2. Cardinality(A \cup {i}) = Cardinality(A)
      BY <3>1
    <3> QED  BY <1>2, <3>2
  <2>2. CASE i \notin A
    <3>1. Cardinality(A \cup {i}) = Cardinality(A) + 1
      BY <1>2, <2>2, FS_AddElement
    <3> QED  BY <1>2, <3>1
  <2> QED  BY <2>1, <2>2
<1>5. Cardinality(A) <= Cardinality(A) + 1
  BY <1>2
<1> QED  BY <1>1, <1>3, <1>4, <1>5

LEMMA CoverAddTriple ==
  ASSUME NEW S, Files(S), Covered(S), NEW x \in Node3, NEW N, N = AddTriple(S, x)
  PROVE  Covered(N)
<1>1. PICK U, i : U = AddNodes(S, x) /\ i = Ids(U, x)
  OBVIOUS
<1>2. Files(U) /\ Covered(U) /\ \A k \in 1..3 : x[k] \in DOMAIN U.node2id
  BY <1>1, FileAddNodes, CoverAddNodes
<1>3. i \in [1..3 -> Nat \ {0}]
  <2>1. i = [k \in 1..3 |-> U.node2id[x[k]]]
    BY <1>1, <1>2, FileIds
  <2> QED  BY <1>2, <2>1 DEF Covered
<1>4. PICK into, J, c :
        /\ into = (IF U.bulk THEN {First} ELSE Orders)
        /\ J = [o \in Orders |-> IF o \in into THEN U.index[o] \cup {i} ELSE U.index[o]]
        /\ c = [key \in CountKeys(i) \cup DOMAIN U.counts |->
                  Counter(U, key) + (IF key \in CountKeys(i) THEN 1 ELSE 0)]
  OBVIOUS
<1>5. N = [U EXCEPT !.index = J, !.counts = c]
  <2>1. IndexAdd(U, into, i) = [U EXCEPT !.index = J]
    BY <1>4 DEF IndexAdd
  <2>2. N = [IndexAdd(U, into, i) EXCEPT !.counts =
               [key \in CountKeys(i) \cup DOMAIN IndexAdd(U, into, i).counts |->
                  Counter(U, key) + (IF key \in CountKeys(i) THEN 1 ELSE 0)]]
    BY <1>1, <1>4 DEF AddTriple, AddTripleId, First
  <2>3. IndexAdd(U, into, i).counts = U.counts
    BY <1>2, <2>1 DEF Files
  <2> QED  BY <1>2, <1>4, <2>1, <2>2, <2>3 DEF Files
<1>6. N = [node2id |-> U.node2id, id2node |-> U.id2node, next_id |-> U.next_id,
           bulk |-> U.bulk, index |-> J, counts |-> c]
  BY <1>2, <1>5 DEF Files
<1>7. N.index[First] = U.index[First] \cup {i} /\ IsFiniteSet(U.index[First])
  BY <1>2, <1>4, <1>6, FirstIsOrder DEF Covered
<1>8. ASSUME NEW key \in PartKeys
      PROVE  /\ Counter(N, key) \in Nat
             /\ Cardinality(Counting(N.index[First], key)) <= Counter(N, key)
  <2>1. PICK I : I = U.index[First]
    OBVIOUS
  <2>2. /\ Counter(U, key) \in Nat /\ Cardinality(Counting(I, key)) \in Nat
        /\ Cardinality(Counting(I, key)) <= Counter(U, key)
    BY <1>2, <1>7, <2>1, CountingIs DEF Covered
  <2>3. /\ Cardinality(Counting(I \cup {i}, key)) <= Cardinality(Counting(I, key)) + 1
        /\ ~Suits(i, key) => Counting(I \cup {i}, key) = Counting(I, key)
    BY <1>7, <2>1, CountingMore
  <2>4. Cardinality(Counting(I \cup {i}, key)) \in Nat
    <3>1. IsFiniteSet(I \cup {i})
      BY <1>7, <2>1, FS_AddElement
    <3> QED  BY <3>1, CountingIs
  <2>5. N.index[First] = I \cup {i} /\ N.counts = c
    BY <1>6, <1>7, <2>1
  <2>6. CASE Suits(i, key)
    <3>1. key \in CountKeys(i)
      BY <1>3, <2>6, CountKeysAre
    <3>2. Counter(N, key) = Counter(U, key) + 1
      BY <1>4, <2>5, <3>1 DEF Counter
    <3> QED  BY <2>2, <2>3, <2>4, <2>5, <3>2
  <2>7. CASE ~Suits(i, key)
    <3>1. key \notin CountKeys(i)
      BY <1>3, <2>7, CountKeysAre
    <3>2. Counter(N, key) = Counter(U, key)
      BY <1>4, <2>2, <2>5, <3>1 DEF Counter
    <3> QED  BY <2>2, <2>3, <2>5, <2>7, <3>2
  <2> QED  BY <2>6, <2>7
<1>9. IsFiniteSet(N.index[First])
  BY <1>7, FS_AddElement
<1> QED  BY <1>2, <1>6, <1>8, <1>9 DEF Covered

\* The other operations leave the counts as they are.
LEMMA CoverOthers ==
  ASSUME NEW S, Files(S), Covered(S), NEW N,
         \/ \E x : N = RemoveTriple(S, x)
         \/ N = BeginBulk(S) \/ N = EndBulk(S) \/ N = Reopen(S)
  PROVE  Covered(N)
<1>1. Spared(S, S)
  BY DEF Covered, Spared
<1>2. CASE \E x : N = RemoveTriple(S, x)
  <2>1. PICK i : N = IndexRemove(S, i)
    BY <1>2 DEF RemoveTriple
  <2>2. PICK J : J = [o \in Orders |-> S.index[o] \ {i}]
    OBVIOUS
  <2>3. N = [S EXCEPT !.index = J]
    BY <2>1, <2>2 DEF IndexRemove
  <2>4. N = [node2id |-> S.node2id, id2node |-> S.id2node, next_id |-> S.next_id,
             bulk |-> S.bulk, index |-> J, counts |-> S.counts]
    BY <2>3 DEF Files
  <2>5. Spared(S, N)
    BY <1>1, <2>2, <2>4, FirstIsOrder DEF Spared
  <2> QED  BY <2>5, CoverSpared
<1>3. CASE N = BeginBulk(S)
  <2>1. N.index = S.index /\ N.counts = S.counts /\ N.next_id = S.next_id /\ N.node2id = S.node2id
    BY <1>3 DEF BeginBulk, Files
  <2>2. Spared(S, N)
    BY <1>1, <2>1 DEF Spared
  <2> QED  BY <2>2, CoverSpared
<1>4. CASE N = EndBulk(S)
  <2>1. PICK J : J = [o \in Orders |-> S.index[o] \cup S.index[<<1,2,3>>]]
    OBVIOUS
  <2>2. N.index = J /\ N.counts = S.counts /\ N.next_id = S.next_id /\ N.node2id = S.node2id
    BY <1>4, <2>1 DEF EndBulk, Files
  <2>3. N.index[First] = S.index[First]
    BY <2>1, <2>2, FirstIsOrder DEF First
  <2>4. Spared(S, N)
    BY <1>1, <2>2, <2>3 DEF Spared
  <2> QED  BY <2>4, CoverSpared
<1>5. CASE N = Reopen(S)
  <2>1. N.index = S.index /\ N.counts = S.counts /\ N.next_id = 1 /\ N.node2id = S.node2id
    BY <1>5 DEF Reopen, Files
  <2>2. Spared(S, N)
    BY <1>1, <2>1 DEF Spared
  <2> QED  BY <2>2, CoverSpared
<1> QED  BY <1>2, <1>3, <1>4, <1>5

LEMMA CoverNew == Covered(EmptyStore)
<1>1. PICK S : S = EmptyStore
  OBVIOUS
<1>2. /\ S.node2id = <<>> /\ S.next_id = 1 /\ S.counts = <<>> /\ S.index[First] = {}
      /\ DOMAIN S.node2id = {} /\ DOMAIN S.counts = {}
  BY <1>1, FirstIsOrder DEF EmptyStore, NewTables
<1>3. \A key : Counter(S, key) = 0 /\ Counting(S.index[First], key) = {}
  BY <1>2 DEF Counter, Counting
<1>4. IsFiniteSet({}) /\ Cardinality({}) = 0
  BY FS_EmptySet
<1>5. ASSUME NEW key
      PROVE  /\ Counter(S, key) \in Nat
             /\ Cardinality(Counting(S.index[First], key)) <= Counter(S, key)
  <2>1. Counter(S, key) = 0 /\ Counting(S.index[First], key) = {}
    BY <1>3
  <2> QED  BY <1>4, <2>1
<1>6. IsFiniteSet(S.index[First]) /\ S.next_id \in Nat \ {0}
  BY <1>2, <1>4
<1> QED  BY <1>1, <1>2, <1>5, <1>6 DEF Covered

\* No fewer are told than the triples with the nodes of a pattern.
LEMMA CountCovers ==
  ASSUME NEW S, Files(S), Covered(S), NEW pat, NEW i, i = Ids(S, pat),
         \A k \in 1..3 : i[k] \in Int /\ i[k] # 0, \E k \in 1..3 : i[k] < 0,
         NEW X, X \subseteq S.index[First],
         \A t \in X : \A k \in 1..3 : i[k] > 0 => t[k] = i[k]
  PROVE  Count(S, pat) >= Cardinality(X)
<1>1. PICK I : I = S.index[First] /\ IsFiniteSet(I)
  BY DEF Covered
<1>2. CASE \A k \in 1..3 : i[k] < 0
  <2>1. Count(S, pat) = Cardinality(I)
    BY <1>1, <1>2 DEF Count, Size, TriplesCount, First
  <2>2. Cardinality(X) <= Cardinality(I) /\ Cardinality(X) \in Nat /\ Cardinality(I) \in Nat
    BY <1>1, FS_Subset, FS_CardinalityType
  <2> QED  BY <2>1, <2>2
<1>3. CASE ~\A k \in 1..3 : i[k] < 0
  <2>1. PICK key : key = [k \in 1..3 |-> IF i[k] < 0 THEN 0 ELSE i[k]]
    OBVIOUS
  <2>2. ~\A k \in 1..3 : i[k] > 0
    OBVIOUS
  <2>3. Count(S, pat) = Counter(S, key)
    BY <1>3, <2>1, <2>2, Zenon DEF Count
  <2>4. key \in PartKeys
    <3>1. \A k \in 1..3 : key[k] \in Nat /\ (key[k] = 0 <=> i[k] < 0)
      BY <2>1
    <3>2. key \in [1..3 -> Nat]
      BY <2>1, <3>1
    <3> QED  BY <1>3, <3>1, <3>2 DEF PartKeys
  <2>5. X \subseteq Counting(I, key)
    <3>1. \A k \in 1..3 : key[k] # 0 => i[k] > 0 /\ key[k] = i[k]
      BY <2>1
    <3> QED  BY <1>1, <3>1 DEF Counting, Suits
  <2>6. PICK C : C = Counting(I, key)
    OBVIOUS
  <2>7. IsFiniteSet(C) /\ Cardinality(C) \in Nat
    BY <1>1, <2>6, CountingIs
  <2>8. Cardinality(X) <= Cardinality(C) /\ Cardinality(X) \in Nat
    BY <2>5, <2>6, <2>7, FS_Subset, FS_CardinalityType
  <2>9. Counter(S, key) \in Nat /\ Cardinality(C) <= Counter(S, key)
    BY <1>1, <2>4, <2>6 DEF Covered
  <2> QED  BY <2>3, <2>7, <2>8, <2>9
<1> QED  BY <1>2, <1>3

-----------------------------------------------------------------------------
(* The order of the keys.                                                  *)

\* The ids that ByteRank tells apart.
IdSpace == 0..Base * Base - 1

IdTriple == [1..3 -> IdSpace]

LEMMA DividedIs ==
  ASSUME NEW b \in Nat \ {0, 1}, NEW a \in Nat
  PROVE  a \div b \in Nat /\ (a % b) \in 0..b - 1 /\ a = b * (a \div b) + (a % b)
OBVIOUS

\* A number of two digits is apart from those with another upper digit.
LEMMA DigitsApart ==
  ASSUME NEW b \in Nat \ {0, 1}, NEW p \in 0..b - 1, NEW q \in 0..b - 1,
         NEW r \in Nat, NEW s \in Nat, r * b + p = s * b + q, r > s
  PROVE  FALSE
<1>1. PICK d \in Nat : r = s + 1 + d
  <2> r - s - 1 \in Nat
    OBVIOUS
  <2> QED  OBVIOUS
<1>2. r * b = s * b + b + d * b
  BY <1>1
<1>3. d * b >= 0 /\ d * b \in Int /\ s * b \in Int
  OBVIOUS
<1> QED  BY <1>2, <1>3

LEMMA RankIs ==
  ASSUME Base \in Nat \ {0, 1}
  PROVE  ByteRank(0) = 0 /\ \A a \in Nat : ByteRank(a) \in Nat
<1>1. PICK b \in Nat \ {0, 1} : b = Base
  OBVIOUS
<1>2. ASSUME NEW a \in Nat
      PROVE  ByteRank(a) = (a % b) * b + a \div b /\ ByteRank(a) \in Nat
  <2>1. PICK p, q : p = a % b /\ q = a \div b
    OBVIOUS
  <2>2. p \in Nat /\ q \in Nat
    BY <2>1, DividedIs
  <2>3. p * b \in Nat
    BY <2>2
  <2> QED  BY <1>1, <2>1, <2>2, <2>3 DEF ByteRank
<1>3. PICK p, q : p = 0 % b /\ q = 0 \div b
  OBVIOUS
<1>4. p \in 0..b - 1 /\ q \in Nat /\ 0 = b * q + p
  BY <1>3, DividedIs
<1>5. b * q \in Nat
  BY <1>4
<1>6. p = 0 /\ b * q = 0
  BY <1>4, <1>5
<1>7. q = 0
  BY <1>4, <1>6
<1>8. ByteRank(0) = p * b + q
  BY <1>2, <1>3
<1> QED  BY <1>2, <1>6, <1>7, <1>8

LEMMA RankApart ==
  ASSUME Base \in Nat \ {0, 1}, NEW a \in IdSpace, NEW c \in IdSpace,
         ByteRank(a) = ByteRank(c)
  PROVE  a = c
<1>1. PICK b \in Nat \ {0, 1} : b = Base
  OBVIOUS
<1>2. b * b \in Nat /\ a \in Nat /\ c \in Nat /\ a < b * b /\ c < b * b
  BY <1>1 DEF IdSpace
<1>3. PICK p, q, r, s : p = a % b /\ q = a \div b /\ r = c % b /\ s = c \div b
  OBVIOUS
<1>4. /\ p \in 0..b - 1 /\ q \in Nat /\ a = b * q + p
      /\ r \in 0..b - 1 /\ s \in Nat /\ c = b * s + r
  BY <1>2, <1>3, DividedIs
<1>5. ASSUME NEW x \in Nat, NEW y \in Nat, b * x + y < b * b PROVE x < b
  <2> SUFFICES ASSUME x >= b PROVE FALSE
    OBVIOUS
  <2>1. PICK d \in Nat : x = b + d
    <3> x - b \in Nat
      OBVIOUS
    <3> QED  OBVIOUS
  <2>2. b * x = b * b + b * d
    BY <2>1
  <2>3. b * d >= 0 /\ b * d \in Int /\ b * b \in Int
    OBVIOUS
  <2> QED  BY <1>5, <2>2, <2>3
<1>6. q \in 0..b - 1 /\ s \in 0..b - 1
  BY <1>2, <1>4, <1>5
<1>7. p * b + q = r * b + s
  BY <1>1, <1>3 DEF ByteRank
<1>8. p \in Nat /\ r \in Nat
  BY <1>4
<1>9. ~(p > r) /\ ~(r > p)
  BY <1>6, <1>7, <1>8, DigitsApart
<1>10. p = r
  BY <1>8, <1>9
<1>11. q = s
  <2>1. p * b \in Int
    BY <1>8
  <2> QED  BY <1>6, <1>7, <1>10, <2>1
<1> QED  BY <1>4, <1>10, <1>11

\* An order has each position once.
IsOrder(o) ==
  /\ o[1] \in 1..3 /\ o[2] \in 1..3 /\ o[3] \in 1..3
  /\ o[1] # o[2] /\ o[1] # o[3] /\ o[2] # o[3]

LEMMA OrderIsOrder == ASSUME NEW o \in Orders PROVE IsOrder(o)
BY DEF Orders, IsOrder

LEMMA OrderHasAll ==
  ASSUME NEW o, IsOrder(o), NEW k \in 1..3
  PROVE  \E m \in 1..3 : o[m] = k
BY DEF IsOrder

\* The order of triples, by the ranks of their ids.
LEMMA BeforeIs ==
  ASSUME NEW o, NEW a, NEW b
  PROVE  Before(o, a, b) <=>
           \/ ByteRank(a[o[1]]) < ByteRank(b[o[1]])
           \/ ByteRank(a[o[2]]) < ByteRank(b[o[2]]) /\ a[o[1]] = b[o[1]]
           \/ /\ ByteRank(a[o[3]]) < ByteRank(b[o[3]])
              /\ a[o[1]] = b[o[1]] /\ a[o[2]] = b[o[2]]
<1>1. 1..1 - 1 = {} /\ 1..2 - 1 = {1} /\ 1..3 - 1 = {1, 2} /\ 1..3 = {1, 2, 3}
  OBVIOUS
<1> QED  BY <1>1, Zenon DEF Before

Linear(o, I) ==
  \A a, b \in I : /\ ~Before(o, a, a)
                  /\ a = b \/ Before(o, a, b) \/ Before(o, b, a)
                  /\ \A c \in I : Before(o, a, b) /\ Before(o, b, c) => Before(o, a, c)

LEMMA OrderLinear ==
  ASSUME Base \in Nat \ {0, 1}, NEW o \in Orders
  PROVE  Linear(o, IdTriple)
<1>1. IsOrder(o)
  BY OrderIsOrder
<1>2. ASSUME NEW a \in IdTriple, NEW k \in 1..3
      PROVE  a[o[k]] \in IdSpace /\ ByteRank(a[o[k]]) \in Nat
  <2>1. o[k] \in 1..3
    BY <1>1 DEF IsOrder
  <2>2. a[o[k]] \in IdSpace
    BY <2>1 DEF IdTriple
  <2>3. a[o[k]] \in Nat
    BY <2>2 DEF IdSpace
  <2> QED  BY <2>2, <2>3, RankIs
<1>3. ASSUME NEW a \in IdTriple, NEW b \in IdTriple, NEW k \in 1..3
      PROVE  a[o[k]] = b[o[k]] <=> ByteRank(a[o[k]]) = ByteRank(b[o[k]])
  BY <1>2, RankApart
<1> DEFINE rank(a) == [k \in 1..3 |-> ByteRank(a[o[k]])]
<1>4. ASSUME NEW a \in IdTriple, NEW b \in IdTriple
      PROVE  Before(o, a, b) <=>
               \/ rank(a)[1] < rank(b)[1]
               \/ rank(a)[2] < rank(b)[2] /\ rank(a)[1] = rank(b)[1]
               \/ /\ rank(a)[3] < rank(b)[3]
                  /\ rank(a)[1] = rank(b)[1] /\ rank(a)[2] = rank(b)[2]
  <2>1. \A k \in 1..3 : rank(a)[k] = ByteRank(a[o[k]]) /\ rank(b)[k] = ByteRank(b[o[k]])
    OBVIOUS
  <2>2. 1 \in 1..3 /\ 2 \in 1..3 /\ 3 \in 1..3
    OBVIOUS
  <2> HIDE DEF rank
  <2> QED  BY <1>3, <2>1, <2>2, BeforeIs
<1>5. \A a \in IdTriple : rank(a)[1] \in Nat /\ rank(a)[2] \in Nat /\ rank(a)[3] \in Nat
  BY <1>2
<1>6. ASSUME NEW a \in IdTriple, NEW b \in IdTriple,
             rank(a)[1] = rank(b)[1], rank(a)[2] = rank(b)[2], rank(a)[3] = rank(b)[3]
      PROVE  a = b
  <2>1. a[o[1]] = b[o[1]] /\ a[o[2]] = b[o[2]] /\ a[o[3]] = b[o[3]]
    BY <1>3, <1>6
  <2>2. \A k \in 1..3 : a[k] = b[k]
    BY <1>1, <2>1 DEF IsOrder
  <2> QED  BY <2>2 DEF IdTriple
<1> HIDE DEF rank
<1>7. ASSUME NEW a \in IdTriple, NEW b \in IdTriple
      PROVE  ~Before(o, a, a) /\ (a = b \/ Before(o, a, b) \/ Before(o, b, a))
  BY <1>4, <1>5, <1>6
<1>8. ASSUME NEW a \in IdTriple, NEW b \in IdTriple, NEW c \in IdTriple,
             Before(o, a, b), Before(o, b, c)
      PROVE  Before(o, a, c)
  BY <1>4, <1>5, <1>8
<1> QED  BY <1>7, <1>8 DEF Linear

-----------------------------------------------------------------------------
(* Rows that are a set in order.                                           *)

Enumerates(o, rows, I) ==
  /\ rows \in Seq(I)
  /\ \A t \in I : \E n \in 1..Len(rows) : rows[n] = t
  /\ \A m, n \in 1..Len(rows) : m < n => Before(o, rows[m], rows[n])

RowSet(rows) == {rows[r] : r \in DOMAIN rows}

Under(o, I, t) == {u \in I : Before(o, u, t)}

\* The number of the triples before a triple is its place.
LEMMA PlacesAre ==
  ASSUME NEW o, NEW I, IsFiniteSet(I), Linear(o, I)
  PROVE  /\ \A t \in I : Cardinality(Under(o, I, t)) \in 0..Cardinality(I) - 1
         /\ \A t, u \in I : Before(o, t, u) =>
              Cardinality(Under(o, I, t)) < Cardinality(Under(o, I, u))
         /\ \A n \in 1..Cardinality(I) : \E t \in I : Cardinality(Under(o, I, t)) = n - 1
<1>1. Cardinality(I) \in Nat
  BY FS_CardinalityType
<1>2. ASSUME NEW t \in I
      PROVE  /\ IsFiniteSet(Under(o, I, t)) /\ Cardinality(Under(o, I, t)) \in Nat
             /\ Cardinality(Under(o, I, t)) < Cardinality(I)
  <2>1. PICK U : U = Under(o, I, t)
    OBVIOUS
  <2>2. U \subseteq I /\ t \notin U
    BY <2>1 DEF Under, Linear
  <2>3. IsFiniteSet(U) /\ Cardinality(U) <= Cardinality(I) /\ Cardinality(U) # Cardinality(I)
    BY <2>2, FS_Subset
  <2>4. Cardinality(U) \in Nat
    BY <2>3, FS_CardinalityType
  <2> QED  BY <1>1, <2>1, <2>3, <2>4
<1>3. ASSUME NEW t \in I, NEW u \in I, Before(o, t, u)
      PROVE  Cardinality(Under(o, I, t)) < Cardinality(Under(o, I, u))
  <2>1. PICK U, V : U = Under(o, I, t) /\ V = Under(o, I, u)
    OBVIOUS
  <2>2. U \subseteq V /\ t \in V /\ t \notin U
    BY <1>3, <2>1 DEF Under, Linear
  <2>3. IsFiniteSet(V) /\ Cardinality(V) \in Nat /\ Cardinality(U) \in Nat
    BY <1>2, <2>1
  <2>4. Cardinality(U) <= Cardinality(V) /\ Cardinality(U) # Cardinality(V)
    BY <2>2, <2>3, FS_Subset
  <2> QED  BY <2>1, <2>3, <2>4
<1>4. PICK f : f = [t \in I |-> Cardinality(Under(o, I, t)) + 1]
  OBVIOUS
<1>5. PICK places : places = 1..Cardinality(I)
  OBVIOUS
<1>6. IsFiniteSet(places) /\ Cardinality(places) = Cardinality(I)
  BY <1>1, <1>5, FS_Interval
<1>7. f \in [I -> places]
  <2>1. \A t \in I : Cardinality(Under(o, I, t)) + 1 \in places
    BY <1>1, <1>2, <1>5
  <2> QED  BY <1>4, <2>1
<1>8. ASSUME NEW t \in I, NEW u \in I, f[t] = f[u] PROVE t = u
  <2>1. Cardinality(Under(o, I, t)) = Cardinality(Under(o, I, u))
    <3>1. f[t] = Cardinality(Under(o, I, t)) + 1 /\ f[u] = Cardinality(Under(o, I, u)) + 1
      BY <1>4
    <3>2. PICK x \in Nat, y \in Nat :
            x = Cardinality(Under(o, I, t)) /\ y = Cardinality(Under(o, I, u))
      BY <1>2
    <3>3. x + 1 = y + 1
      BY <1>8, <3>1, <3>2
    <3> QED  BY <3>2, <3>3
  <2>2. ~Before(o, t, u) /\ ~Before(o, u, t)
    <3>1. Cardinality(Under(o, I, t)) \in Nat /\ Cardinality(Under(o, I, u)) \in Nat
      BY <1>2
    <3> QED  BY <1>3, <2>1, <3>1
  <2> QED  BY <2>2 DEF Linear
<1>9. f \in Injection(I, places)
  BY <1>7, <1>8 DEF Injection, IsInjective
<1>10. f \in Surjection(I, places)
  BY <1>6, <1>9, FS_Injection
<1>11. ASSUME NEW n \in 1..Cardinality(I)
       PROVE  \E t \in I : Cardinality(Under(o, I, t)) = n - 1
  <2>1. PICK t \in I : f[t] = n
    BY <1>5, <1>10 DEF Surjection
  <2>2. Cardinality(Under(o, I, t)) \in Nat /\ f[t] = Cardinality(Under(o, I, t)) + 1
    BY <1>2, <1>4
  <2> QED  BY <2>1, <2>2
<1>12. \A t \in I : Cardinality(Under(o, I, t)) \in 0..Cardinality(I) - 1
  BY <1>1, <1>2
<1> QED  BY <1>3, <1>11, <1>12

LEMMA KeysEnumerate ==
  ASSUME NEW S, NEW o, NEW I, I = S.index[o], IsFiniteSet(I), Linear(o, I)
  PROVE  Enumerates(o, Keys(S, o), I)
<1> DEFINE below(t) == Cardinality(Under(o, I, t))
<1>1. PICK c : c = Cardinality(I) /\ c \in Nat
  BY FS_CardinalityType
<1>2. /\ \A t \in I : below(t) \in 0..c - 1
      /\ \A t, u \in I : Before(o, t, u) => below(t) < below(u)
      /\ \A n \in 1..c : \E t \in I : below(t) = n - 1
  BY <1>1, PlacesAre
<1>3. PICK rows : rows = [n \in 1..c |-> CHOOSE t \in I : below(t) = n - 1]
  OBVIOUS
<1>4. Keys(S, o) = rows
  BY <1>1, <1>3 DEF Keys, Under
<1> HIDE DEF below
<1>5. \A n \in 1..c : rows[n] \in I /\ below(rows[n]) = n - 1
  <2>1. \A n \in 1..c : rows[n] = CHOOSE t \in I : below(t) = n - 1
    BY <1>3
  <2> QED  BY <1>2, <2>1
<1>6. rows \in [1..c -> I]
  BY <1>3, <1>5
<1>7. rows \in Seq(I) /\ Len(rows) = c
  BY <1>1, <1>6
<1>8. ASSUME NEW t \in I, NEW u \in I, below(t) = below(u) PROVE t = u
  <2>1. ~Before(o, t, u) /\ ~Before(o, u, t)
    BY <1>1, <1>2, <1>8
  <2> QED  BY <2>1 DEF Linear
<1>9. ASSUME NEW t \in I PROVE \E n \in 1..c : rows[n] = t
  <2>1. PICK n : n = below(t) + 1 /\ n \in 1..c /\ below(t) = n - 1
    BY <1>1, <1>2
  <2>2. rows[n] = t
    BY <1>5, <1>8, <2>1
  <2> QED  BY <2>1, <2>2
<1>10. ASSUME NEW m \in 1..c, NEW n \in 1..c, m < n PROVE Before(o, rows[m], rows[n])
  <2>1. /\ rows[m] \in I /\ rows[n] \in I
        /\ below(rows[m]) = m - 1 /\ below(rows[n]) = n - 1
    BY <1>5
  <2>2. rows[m] # rows[n] /\ ~Before(o, rows[n], rows[m])
    BY <1>1, <1>2, <1>10, <2>1
  <2> QED  BY <2>1, <2>2 DEF Linear
<1> QED  BY <1>4, <1>7, <1>9, <1>10 DEF Enumerates

\* Rows that are a set in order are as many as the set has triples.
LEMMA EnumeratedCount ==
  ASSUME NEW o, NEW rows, NEW I, IsFiniteSet(I), Linear(o, I), Enumerates(o, rows, I)
  PROVE  Len(rows) = Cardinality(I) /\ RowSet(rows) = I
<1>1. PICK n \in Nat : n = Len(rows) /\ rows \in [1..n -> I] /\ DOMAIN rows = 1..n
  BY LenProperties DEF Enumerates
<1>2. \A t \in I : \E m \in 1..n : rows[m] = t
  BY <1>1 DEF Enumerates
<1>3. RowSet(rows) = I
  BY <1>1, <1>2 DEF RowSet
<1>4. ASSUME NEW l \in 1..n, NEW m \in 1..n, rows[l] = rows[m] PROVE l = m
  <2>1. ~(l < m) /\ ~(m < l)
    BY <1>1, <1>4 DEF Enumerates, Linear
  <2> QED  BY <2>1
<1>5. rows \in Injection(1..n, I) /\ rows \in Surjection(1..n, I)
  BY <1>1, <1>2, <1>4 DEF Injection, Surjection, IsInjective
<1>6. Cardinality(1..n) = n
  BY FS_Interval
<1>7. Cardinality(1..n) = Cardinality(I)
  BY <1>5, FS_Injection
<1> QED  BY <1>1, <1>3, <1>6, <1>7

LEMMA LeastIs ==
  ASSUME NEW A, A \subseteq Nat, A # {}
  PROVE  \E n \in A : \A m \in A : n <= m
<1> DEFINE Less == OpToRel(<, Nat)
<1>1. IsWellFoundedOn(Less, Nat)
  BY NatLessThanWellFounded
<1>2. \A x, y \in Nat : <<x, y>> \in Less <=> x < y
  BY DEF OpToRel
<1> HIDE DEF Less
<1>3. PICK n \in A : \A m \in A : <<m, n>> \notin Less
  BY <1>1, WFMin
<1>4. ASSUME NEW m \in A PROVE n <= m
  <2>1. m \in Nat /\ n \in Nat /\ ~(m < n)
    BY <1>2, <1>3
  <2> QED  BY <2>1
<1> QED  BY <1>4

\* Where the leading rows end.
LeadEnds(rows, set, n) ==
  /\ \A j \in 1..n : rows[j] \in set
  /\ n < Len(rows) => rows[n + 1] \notin set

LEMMA LeadingIs ==
  ASSUME NEW I, NEW rows \in Seq(I), NEW set
  PROVE  \E n \in 0..Len(rows) : LeadEnds(rows, set, n) /\ Leading(rows, set) = SubSeq(rows, 1, n)
<1>1. PICK l \in Nat : l = Len(rows)
  BY LenProperties
<1>2. PICK A : A = {n \in 0..l : n < l => rows[n + 1] \notin set}
  OBVIOUS
<1>3. A \subseteq Nat /\ l \in A
  BY <1>2
<1>4. PICK n \in A : \A m \in A : n <= m
  BY <1>3, LeastIs
<1>5. ASSUME NEW j \in 1..n PROVE rows[j] \in set
  <2>1. j - 1 \in 0..l /\ j - 1 < l /\ j - 1 < n /\ (j - 1) + 1 = j
    BY <1>2
  <2>2. j - 1 \notin A
    BY <1>2, <1>4, <2>1
  <2> QED  BY <1>2, <2>1, <2>2
<1>6. n \in 0..Len(rows) /\ LeadEnds(rows, set, n)
  BY <1>1, <1>2, <1>5 DEF LeadEnds
<1>7. PICK e : e = CHOOSE m \in 0..Len(rows) :
                      /\ \A j \in 1..m : rows[j] \in set
                      /\ m < Len(rows) => rows[m + 1] \notin set
  OBVIOUS
<1>8. e \in 0..Len(rows) /\ LeadEnds(rows, set, e)
  BY <1>6, <1>7 DEF LeadEnds
<1>9. Leading(rows, set) = SubSeq(rows, 1, e)
  BY <1>7 DEF Leading
<1> QED  BY <1>8, <1>9

\* Of rows in order, a part.
LEMMA PartOrdered ==
  ASSUME NEW o, NEW rows, NEW I, Enumerates(o, rows, I), NEW J, J \subseteq I,
         NEW from \in Nat \ {0}, NEW upto \in Nat, from <= upto + 1, upto <= Len(rows),
         \A n \in 1..Len(rows) : rows[n] \in J <=> from <= n /\ n <= upto
  PROVE  /\ Enumerates(o, SubSeq(rows, from, upto), J)
         /\ Len(SubSeq(rows, from, upto)) = upto - from + 1
<1>1. PICK part : part = SubSeq(rows, from, upto)
  OBVIOUS
<1>2. PICK l \in Nat : l = Len(rows)
  BY LenProperties DEF Enumerates
<1>3. \A n \in from..upto : rows[n] \in J
  BY <1>2
<1>4. /\ part \in Seq(J)
      /\ Len(part) = IF from <= upto THEN upto - from + 1 ELSE 0
      /\ \A n \in 1..upto - from + 1 : part[n] = rows[from + n - 1]
  BY <1>1, <1>3, SubSeqProperties
<1>5. Len(part) = upto - from + 1
  BY <1>4
<1>6. ASSUME NEW t \in J PROVE \E n \in 1..Len(part) : part[n] = t
  <2>1. PICK n \in 1..l : rows[n] = t
    BY <1>2 DEF Enumerates
  <2>2. from <= n /\ n <= upto
    BY <1>2, <2>1
  <2>3. n - from + 1 \in 1..upto - from + 1 /\ from + (n - from + 1) - 1 = n
    BY <2>2
  <2> QED  BY <1>4, <1>5, <2>1, <2>3
<1>7. ASSUME NEW m \in 1..Len(part), NEW n \in 1..Len(part), m < n
      PROVE  Before(o, part[m], part[n])
  <2>1. from + m - 1 \in 1..l /\ from + n - 1 \in 1..l /\ from + m - 1 < from + n - 1
    BY <1>2, <1>5, <1>7
  <2>2. Before(o, rows[from + m - 1], rows[from + n - 1])
    BY <1>2, <2>1 DEF Enumerates
  <2> QED  BY <1>4, <1>5, <2>2
<1> QED  BY <1>1, <1>4, <1>5, <1>6, <1>7 DEF Enumerates

\* A set that has with a triple all the triples before it.
Low(o, I, set) == \A a, b \in I : b \in set /\ Before(o, a, b) => a \in set

LEMMA RowsParted ==
  ASSUME NEW o, NEW rows, NEW I, Enumerates(o, rows, I), NEW set, Low(o, I, set)
  PROVE  /\ Enumerates(o, Leading(rows, set), I \cap set)
         /\ Enumerates(o, Remaining(rows, set), I \ set)
<1>1. rows \in Seq(I)
  BY DEF Enumerates
<1>2. PICK l \in Nat : l = Len(rows) /\ rows \in [1..l -> I]
  BY <1>1, LenProperties
<1>3. PICK e \in 0..l : LeadEnds(rows, set, e) /\ Leading(rows, set) = SubSeq(rows, 1, e)
  BY <1>1, <1>2, LeadingIs
<1>4. ASSUME NEW n \in 1..l PROVE rows[n] \in set <=> n <= e
  <2>1. CASE n <= e
    BY <1>3, <2>1 DEF LeadEnds
  <2>2. CASE n > e
    <3>1. e + 1 \in 1..l /\ e < l
      BY <2>2
    <3>2. rows[e + 1] \notin set
      BY <1>2, <1>3, <3>1 DEF LeadEnds
    <3>3. n = e + 1 \/ Before(o, rows[e + 1], rows[n])
      BY <1>2, <2>2, <3>1 DEF Enumerates
    <3>4. rows[n] \in I /\ rows[e + 1] \in I
      BY <1>2, <3>1
    <3>5. rows[n] \notin set
      BY <3>2, <3>3, <3>4 DEF Low
    <3> QED  BY <2>2, <3>5
  <2> QED  BY <2>1, <2>2
<1>5. /\ e \in Nat /\ e <= l /\ l <= l /\ 1 <= e + 1 /\ e + 1 <= l + 1
      /\ 1 \in Nat \ {0} /\ e + 1 \in Nat \ {0}
  OBVIOUS
<1>6. \A n \in 1..l : rows[n] \in I
  BY <1>2
<1>7. \A n \in 1..l : rows[n] \in I \cap set <=> 1 <= n /\ n <= e
  BY <1>4, <1>6
<1>8. \A n \in 1..l : rows[n] \in I \ set <=> e + 1 <= n /\ n <= l
  BY <1>4, <1>6
<1>9. Enumerates(o, SubSeq(rows, 1, e), I \cap set) /\ Len(SubSeq(rows, 1, e)) = e - 1 + 1
  <2>1. I \cap set \subseteq I
    OBVIOUS
  <2> QED  BY <1>2, <1>5, <1>7, <2>1, PartOrdered
<1>10. Enumerates(o, SubSeq(rows, e + 1, l), I \ set)
  <2>1. I \ set \subseteq I
    OBVIOUS
  <2> QED  BY <1>2, <1>5, <1>8, <2>1, PartOrdered
<1>11. e - 1 + 1 = e
  OBVIOUS
<1>12. Enumerates(o, Leading(rows, set), I \cap set) /\ Len(Leading(rows, set)) = e
  BY <1>3, <1>9, <1>11
<1>13. Remaining(rows, set) = SubSeq(rows, e + 1, l)
  BY <1>2, <1>12 DEF Remaining
<1> QED  BY <1>10, <1>12, <1>13

-----------------------------------------------------------------------------
(* Statements of a table.                                                  *)

\* The ids of a pattern that repeats no variable.
Asks(i) ==
  /\ \A k \in 1..3 : i[k] \in Int /\ i[k] # 0 /\ (i[k] > 0 => i[k] \in IdSpace)
  /\ \A j, k \in 1..3 : i[j] = i[k] /\ i[k] < 0 => j = k

Hits(i, I) == {t \in I : \A k \in 1..3 : i[k] > 0 => t[k] = i[k]}

\* In the order the bound positions come first.
BoundFirst(i, o) == \A m, n \in 1..3 : m < n /\ i[o[n]] > 0 => i[o[m]] > 0

\* The key that the search starts from, and the keys before it.
LowestKey(i) == [k \in 1..3 |-> IF i[k] > 0 THEN i[k] ELSE 0]

EarlyRows(o, i, I) == {t \in I : Before(o, t, LowestKey(i))}

\* What decides between two triples: the first place at which they differ.
LEMMA BeforeAt ==
  ASSUME NEW o, NEW a, NEW b, NEW k \in 1..3, ByteRank(a[o[k]]) < ByteRank(b[o[k]]),
         \A j \in 1..3 : j < k => a[o[j]] = b[o[j]]
  PROVE  Before(o, a, b)
<1>1. \A j \in 1..k - 1 : j \in 1..3 /\ j < k
  OBVIOUS
<1> QED  BY <1>1 DEF Before

LEMMA BeforeHas ==
  ASSUME NEW o, NEW a, NEW b, Before(o, a, b)
  PROVE  \E k \in 1..3 : /\ ByteRank(a[o[k]]) < ByteRank(b[o[k]])
                         /\ \A j \in 1..3 : j < k => a[o[j]] = b[o[j]]
<1>1. PICK k \in 1..3 : /\ ByteRank(a[o[k]]) < ByteRank(b[o[k]])
                        /\ \A j \in 1..k - 1 : a[o[j]] = b[o[j]]
  BY DEF Before
<1>2. \A j \in 1..3 : j < k => j \in 1..k - 1
  OBVIOUS
<1> QED  BY <1>1, <1>2

LEMMA HitsAreLow ==
  ASSUME Base \in Nat \ {0, 1}, NEW o \in Orders, NEW i, Asks(i), BoundFirst(i, o),
         NEW I, I \subseteq IdTriple, NEW early, early = EarlyRows(o, i, I)
  PROVE  /\ Low(o, I, early)
         /\ Hits(i, I) \cap early = {}
         /\ Low(o, I \ early, Hits(i, I))
<1> PICK bound : bound = LowestKey(i)
  OBVIOUS
<1> early = {t \in I : Before(o, t, bound)}
  BY DEF EarlyRows
<1>1. IsOrder(o)
  BY OrderIsOrder
<1>2. \A m \in 1..3 : o[m] \in 1..3
  BY <1>1 DEF IsOrder
<1>3. bound \in IdTriple /\ \A k \in 1..3 : bound[k] = IF i[k] > 0 THEN i[k] ELSE 0
  <2>1. 0 \in IdSpace
    <3>1. PICK b \in Nat \ {0, 1} : b = Base
      OBVIOUS
    <3>2. b * b >= 1 /\ b * b \in Nat
      <4>1. PICK d \in Nat : b = d + 1
        <5> b - 1 \in Nat
          OBVIOUS
        <5> QED  OBVIOUS
      <4>2. b * b = d * d + 2 * d + 1
        BY <4>1
      <4>3. d * d \in Nat
        OBVIOUS
      <4> QED  BY <4>2, <4>3
    <3> QED  BY <3>1, <3>2 DEF IdSpace
  <2> QED  BY <2>1 DEF Asks, IdTriple, LowestKey
<1>4. Low(o, I, early)
  <2> SUFFICES ASSUME NEW a \in I, NEW b \in early, Before(o, a, b) PROVE a \in early
    BY DEF Low
  <2>1. a \in IdTriple /\ b \in IdTriple /\ Before(o, b, bound)
    OBVIOUS
  <2>2. Before(o, a, bound)
    BY <1>3, <2>1, OrderLinear DEF Linear
  <2> QED  BY <2>2
<1>5. ASSUME NEW t \in I, NEW k \in 1..3
      PROVE  ByteRank(t[k]) \in Nat
  <2>1. t[k] \in Nat
    BY DEF IdTriple, IdSpace
  <2> QED  BY <2>1, RankIs
<1>6. ASSUME NEW t \in Hits(i, I), t \in early PROVE FALSE
  <2>1. Before(o, t, bound)
    BY <1>6
  <2>2. PICK k \in 1..3 : ByteRank(t[o[k]]) < ByteRank(bound[o[k]])
    BY <2>1, BeforeHas
  <2>3. PICK p \in 1..3 : p = o[k]
    BY <1>2
  <2>4. t[p] \in Nat /\ ByteRank(t[p]) \in Nat /\ ByteRank(t[p]) < ByteRank(bound[p])
    BY <1>5, <2>2, <2>3 DEF Hits, IdTriple, IdSpace
  <2>5. CASE i[p] > 0
    <3>1. t[p] = bound[p]
      BY <1>3, <2>5 DEF Hits
    <3> QED  BY <2>4, <3>1
  <2>6. CASE ~(i[p] > 0)
    <3>1. ByteRank(bound[p]) = 0
      BY <1>3, <2>6, RankIs
    <3> QED  BY <2>4, <3>1
  <2> QED  BY <2>5, <2>6
<1>7. Low(o, I \ early, Hits(i, I))
  <2> SUFFICES ASSUME NEW a \in I \ early, NEW b \in I \ early, b \in Hits(i, I), Before(o, a, b)
               PROVE  a \in Hits(i, I)
    BY DEF Low
  <2>1. PICK k \in 1..3 : /\ ByteRank(a[o[k]]) < ByteRank(b[o[k]])
                          /\ \A j \in 1..3 : j < k => a[o[j]] = b[o[j]]
    BY BeforeHas
  <2>2. \A m \in 1..3 : i[o[m]] > 0 => b[o[m]] = bound[o[m]]
    BY <1>2, <1>3 DEF Hits
  <2>3. ~(i[o[k]] > 0)
    <3> SUFFICES ASSUME i[o[k]] > 0 PROVE FALSE
      OBVIOUS
    <3>1. \A j \in 1..3 : j < k => i[o[j]] > 0
      BY DEF BoundFirst
    <3>2. \A j \in 1..3 : j < k => a[o[j]] = bound[o[j]]
      BY <2>1, <2>2, <3>1
    <3>3. ByteRank(a[o[k]]) < ByteRank(bound[o[k]])
      BY <2>1, <2>2
    <3>4. Before(o, a, bound)
      BY <3>2, <3>3, BeforeAt
    <3> QED  BY <3>4
  <2>4. \A m \in 1..3 : i[o[m]] > 0 => m < k
    BY <2>3 DEF BoundFirst
  <2>5. \A m \in 1..3 : i[o[m]] > 0 => a[o[m]] = i[o[m]]
    BY <1>2, <1>3, <2>1, <2>2, <2>4
  <2>6. \A p \in 1..3 : i[p] > 0 => a[p] = i[p]
    <3> SUFFICES ASSUME NEW p \in 1..3, i[p] > 0 PROVE a[p] = i[p]
      OBVIOUS
    <3>1. PICK m \in 1..3 : o[m] = p
      BY <1>1, OrderHasAll
    <3> QED  BY <2>5, <3>1
  <2> QED  BY <2>6 DEF Hits
<1> QED  BY <1>4, <1>6, <1>7

LEMMA StatementsAre ==
  ASSUME Base \in Nat \ {0, 1}, NEW S, NEW o \in Orders, NEW i, Asks(i), BoundFirst(i, o),
         NEW I, I = S.index[o], IsFiniteSet(I), I \subseteq IdTriple
  PROVE  Enumerates(o, Statements(S, i, o), Hits(i, I))
<1>1. PICK bound, early, H : bound = LowestKey(i) /\ early = EarlyRows(o, i, I) /\ H = Hits(i, I)
  OBVIOUS
<1>2. PICK same : same = {t \in I : \A j, k \in 1..3 : i[j] = i[k] => t[j] = t[k]}
  OBVIOUS
<1>3. Linear(o, I)
  BY OrderLinear DEF Linear
<1>4. /\ Low(o, I, early) /\ H \cap early = {} /\ Low(o, I \ early, H)
  BY <1>1, HitsAreLow
<1>5. H \subseteq same /\ H \subseteq I
  <2> SUFFICES ASSUME NEW t \in H, NEW j \in 1..3, NEW k \in 1..3, i[j] = i[k] PROVE t[j] = t[k]
    BY <1>1, <1>2 DEF Hits
  <2>1. CASE i[k] > 0
    BY <1>1, <2>1 DEF Hits
  <2>2. CASE ~(i[k] > 0)
    BY <2>2 DEF Asks
  <2> QED  BY <2>1, <2>2
<1>6. PICK from, run : from = Remaining(Keys(S, o), early) /\ run = Leading(from, H)
  OBVIOUS
<1>7. Enumerates(o, from, I \ early)
  <2>1. Enumerates(o, Keys(S, o), I)
    BY <1>3, KeysEnumerate
  <2> QED  BY <1>4, <1>6, <2>1, RowsParted
<1>8. Enumerates(o, run, H)
  <2>1. Enumerates(o, run, (I \ early) \cap H)
    BY <1>4, <1>6, <1>7, RowsParted
  <2>2. (I \ early) \cap H = H
    BY <1>4, <1>5
  <2> QED  BY <2>1, <2>2
<1>9. Enumerates(o, Leading(run, same), H)
  <2>1. Low(o, H, same)
    BY <1>5 DEF Low
  <2>2. Enumerates(o, Leading(run, same), H \cap same)
    BY <1>8, <2>1, RowsParted
  <2>3. H \cap same = H
    BY <1>5
  <2> QED  BY <2>2, <2>3
<1>10. ~(run # <<>> /\ run[1] \notin same)
  <2> SUFFICES ASSUME run # <<>> PROVE run[1] \in same
    OBVIOUS
  <2>1. run \in Seq(H)
    BY <1>8 DEF Enumerates
  <2>2. Len(run) \in Nat \ {0}
    BY <2>1, EmptySeq
  <2>3. run[1] \in H
    BY <2>1, <2>2, ElementOfSeq
  <2> QED  BY <1>5, <2>3
<1>11. Statements(S, i, o) = IF run # <<>> /\ run[1] \notin same THEN <<run[1]>> ELSE Leading(run, same)
  BY <1>1, <1>2, <1>6, Zenon DEF Statements, Hits, LowestKey, EarlyRows
<1> QED  BY <1>1, <1>9, <1>10, <1>11

\* The rows ascend by a position, among the ids with all but the lowest byte in common.
Ascends(rows, k) ==
  \A m, n \in DOMAIN rows :
    m < n /\ rows[m][k] \div Base = rows[n][k] \div Base => rows[m][k] <= rows[n][k]

\* Such ids have the order of their ranks.
LEMMA RankedAlike ==
  ASSUME Base \in Nat \ {0, 1}, NEW a \in Nat, NEW c \in Nat,
         a \div Base = c \div Base, ByteRank(a) < ByteRank(c) \/ ByteRank(a) = ByteRank(c)
  PROVE  a <= c
<1>1. PICK b \in Nat \ {0, 1} : b = Base
  OBVIOUS
<1>2. PICK p, q, r : p = a % b /\ q = a \div b /\ r = c % b /\ q = c \div b
  BY <1>1
<1>3. p \in 0..b - 1 /\ r \in 0..b - 1 /\ q \in Nat /\ a = b * q + p /\ c = b * q + r
  BY <1>2, DividedIs
<1>4. ByteRank(a) = p * b + q /\ ByteRank(c) = r * b + q
  BY <1>1, <1>2 DEF ByteRank
<1>5. p * b + q < r * b + q \/ p * b + q = r * b + q
  BY <1>4
<1>6. ~(p > r)
  <2> SUFFICES ASSUME p > r PROVE FALSE
    OBVIOUS
  <2>1. PICK d \in Nat : p = r + 1 + d
    <3> p - r - 1 \in Nat
      BY <1>3
    <3> QED  BY <1>3
  <2>2. p * b = r * b + b + d * b
    BY <1>3, <2>1
  <2>3. PICK u, v, w \in Nat : u = p * b /\ v = r * b /\ w = d * b
    <3>1. p * b \in Nat /\ r * b \in Nat /\ d * b \in Nat
      BY <1>3, <2>1
    <3> QED  BY <3>1
  <2> QED  BY <1>3, <1>5, <2>2, <2>3
<1>7. PICK u \in Nat : u = b * q
  <2>1. b * q \in Nat
    BY <1>3
  <2> QED  BY <2>1
<1> QED  BY <1>3, <1>6, <1>7

\* Rows ascend by a position before which all positions are bound.
LEMMA RowsOrdered ==
  ASSUME Base \in Nat \ {0, 1}, NEW o \in Orders, NEW i, NEW I, I \subseteq IdTriple,
         NEW rows, Enumerates(o, rows, Hits(i, I)),
         NEW p \in 1..3, \A m \in 1..3 : m < p => i[o[m]] > 0
  PROVE  Ascends(rows, o[p])
<1>1. PICK l \in Nat : l = Len(rows) /\ rows \in [1..l -> Hits(i, I)]
  BY LenProperties DEF Enumerates
<1> SUFFICES ASSUME NEW d \in 1..l, NEW e \in 1..l, d < e,
                    rows[d][o[p]] \div Base = rows[e][o[p]] \div Base
             PROVE  rows[d][o[p]] <= rows[e][o[p]]
  BY <1>1 DEF Ascends
<1>3. PICK a, b : a = rows[d] /\ b = rows[e]
  OBVIOUS
<1>4. a \in Hits(i, I) /\ b \in Hits(i, I) /\ Before(o, a, b)
  BY <1>1, <1>3 DEF Enumerates
<1>5. \A m \in 1..3 : o[m] \in 1..3
  BY OrderIsOrder DEF IsOrder
<1>6. PICK m \in 1..3 : /\ ByteRank(a[o[m]]) < ByteRank(b[o[m]])
                        /\ \A j \in 1..3 : j < m => a[o[j]] = b[o[j]]
  BY <1>4, BeforeHas
<1>7. \A j \in 1..3 : a[o[j]] \in Nat /\ b[o[j]] \in Nat
  BY <1>4, <1>5 DEF Hits, IdTriple, IdSpace
<1>8. \A j \in 1..3 : ByteRank(a[o[j]]) \in Nat /\ ByteRank(b[o[j]]) \in Nat
  BY <1>7, RankIs
<1>9. ~(m < p)
  <2> SUFFICES ASSUME m < p PROVE FALSE
    OBVIOUS
  <2>1. a[o[m]] = b[o[m]]
    BY <1>4, <1>5 DEF Hits
  <2> QED  BY <1>6, <1>8, <2>1
<1>10. ByteRank(a[o[p]]) < ByteRank(b[o[p]]) \/ ByteRank(a[o[p]]) = ByteRank(b[o[p]])
  <2>1. CASE m = p
    BY <1>6, <2>1
  <2>2. CASE p < m
    BY <1>6, <2>2
  <2> QED  BY <1>9, <2>1, <2>2
<1> QED  BY <1>3, <1>7, <1>10, RankedAlike

\* The order that a caller is offered has the bound positions first.
LEMMA OfferedIsBoundFirst ==
  ASSUME NEW pat, NEW o \in TripleOrderings(pat)
  PROVE  o \in Orders /\ BoundFirst(pat, o)
<1>1. o \in Orders /\ IndexOk(pat, o)
  BY DEF TripleOrderings
<1>2. IsOrder(o)
  BY <1>1, OrderIsOrder
<1>3. PICK B : B = {k \in 1..3 : pat[k] > 0}
  OBVIOUS
<1>4. IsFiniteSet(B) /\ Cardinality(B) \in 0..3
  <2>1. PICK l \in Nat : l = 3
    OBVIOUS
  <2>2. IsFiniteSet(1..l) /\ Cardinality(1..l) = 3
    <3>1. IsFiniteSet(1..l) /\ Cardinality(1..l) = IF 1 > l THEN 0 ELSE l - 1 + 1
      BY FS_Interval
    <3> QED  BY <2>1, <3>1
  <2>3. B \subseteq 1..l
    BY <1>3, <2>1
  <2>4. IsFiniteSet(B) /\ Cardinality(B) <= 3
    BY <2>2, <2>3, FS_Subset
  <2> QED  BY <2>4, FS_CardinalityType
<1>5. PICK c \in 0..3 : c = Cardinality(B)
  BY <1>4
<1>6. \A n \in 1..c : o[n] \in B
  <2>1. \A n \in 1..c : pat[o[n]] > 0
    BY <1>1, <1>3, <1>5 DEF IndexOk
  <2> QED  BY <1>2, <1>3, <2>1 DEF IsOrder
<1>7. ASSUME NEW m \in 1..3, NEW n \in 1..3, m < n, pat[o[n]] > 0, ~(pat[o[m]] > 0)
      PROVE  FALSE
  <2>1. o[n] \in B /\ o[m] \notin B
    BY <1>2, <1>3, <1>7 DEF IsOrder
  <2>2. c < m
    BY <1>6, <2>1
  <2>3. CASE c = 0
    <3>1. B = {}
      BY <1>4, <1>5, <2>3, FS_EmptySet
    <3> QED  BY <2>1, <3>1
  <2>4. CASE c = 1
    <3>1. m = 2 /\ n = 3
      BY <1>7, <2>2, <2>4
    <3>2. {o[1], o[3]} \subseteq B /\ o[1] # o[3]
      BY <1>2, <1>6, <2>1, <2>4, <3>1 DEF IsOrder
    <3>3. PICK a, b : a = o[1] /\ b = o[3]
      OBVIOUS
    <3>4. IsFiniteSet({a}) /\ Cardinality({a}) = 1
      BY FS_Singleton
    <3>5. Cardinality({a} \cup {b}) = 2
      BY <3>2, <3>3, <3>4, FS_AddElement, SMTT(60)
    <3>6. {a} \cup {b} \subseteq B
      BY <3>2, <3>3
    <3>7. Cardinality({a} \cup {b}) <= Cardinality(B)
      BY <1>4, <3>6, FS_Subset
    <3> QED  BY <1>5, <2>4, <3>5, <3>7
  <2> QED  BY <1>7, <2>2, <2>3, <2>4
<1> QED  BY <1>1, <1>7 DEF BoundFirst

\* The order that is chosen has the bound positions first, and then the one to sort by.
LEMMA OrderedIndexIs ==
  ASSUME NEW i, Asks(i), NEW k \in 1..3, NEW o, o = OrderedIndex(i, k)
  PROVE  /\ o \in Orders /\ BoundFirst(i, o)
         /\ i[k] < 0 => \A m, n \in 1..3 : o[n] = k /\ m < n => i[o[m]] > 0
         /\ (\A j \in 1..3 : i[j] > 0) => o = First
<1> DEFINE rank(j) == OrderRank(i, k, j)
<1>1. \A j \in 1..3 : i[j] \in Int /\ i[j] # 0
  BY DEF Asks
<1>2. ASSUME NEW j \in 1..3
      PROVE  /\ rank(j) \in 0..3
             /\ rank(j) = 0 <=> i[j] > 0
             /\ i[k] < 0 => (rank(j) = 1 <=> j = k) /\ (i[j] < 0 => rank(j) >= 1)
  <2>1. CASE i[j] > 0
    <3>1. i[j] > 0 /\ ~(i[j] <= 0)
      BY <1>1, <2>1
    <3>2. rank(j) = 0
      BY <3>1, Zenon DEF OrderRank
    <3> QED  BY <1>1, <2>1, <3>2
  <2>2. CASE i[j] <= 0 /\ j = k
    <3>1. ~(i[j] > 0) /\ i[j] <= 0 /\ j = k
      BY <1>1, <2>2
    <3>2. rank(j) = 1
      BY <3>1, Zenon DEF OrderRank
    <3> QED  BY <1>1, <2>2, <3>2
  <2>3. CASE i[j] <= 0 /\ j # k
    <3>1. rank(j) = 2 \/ rank(j) = 3
      BY <1>1, <2>3 DEF OrderRank
    <3> QED  BY <1>1, <2>3, <3>1
  <2> QED  BY <1>1, <2>1, <2>2, <2>3
<1> DEFINE ranked(p) == \A a, b \in 1..3 : a < b =>
             \/ OrderRank(i, k, p[a]) < OrderRank(i, k, p[b])
             \/ OrderRank(i, k, p[a]) = OrderRank(i, k, p[b]) /\ p[a] < p[b]
<1>3. o = CHOOSE p \in Orders : ranked(p)
  BY DEF OrderedIndex
<1>4. \E p \in Orders : ranked(p)
  <2> DEFINE key(j) == 4 * OrderRank(i, k, j) + j
  <2>1. \A p \in Orders : ranked(p) <=> key(p[1]) < key(p[2]) /\ key(p[2]) < key(p[3])
    <3> SUFFICES ASSUME NEW p \in Orders
                 PROVE  ranked(p) <=> key(p[1]) < key(p[2]) /\ key(p[2]) < key(p[3])
      OBVIOUS
    <3>1. p[1] \in 1..3 /\ p[2] \in 1..3 /\ p[3] \in 1..3
      BY OrderIsOrder DEF IsOrder
    <3>2. ASSUME NEW a \in 1..3, NEW b \in 1..3
          PROVE  key(a) < key(b) <=> \/ OrderRank(i, k, a) < OrderRank(i, k, b)
                                     \/ OrderRank(i, k, a) = OrderRank(i, k, b) /\ a < b
      <4>1. OrderRank(i, k, a) \in 0..3 /\ OrderRank(i, k, b) \in 0..3
        BY <1>2
      <4> QED  BY <4>1
    <3>3. ranked(p) <=> \A a, b \in 1..3 : a < b => key(p[a]) < key(p[b])
      BY <3>1, <3>2
    <3>4. key(p[1]) \in Int /\ key(p[2]) \in Int /\ key(p[3]) \in Int
      BY <1>2, <3>1
    <3> HIDE DEF key, ranked
    <3> QED  BY <3>3, <3>4
  <2>2. key(1) \in Int /\ key(2) \in Int /\ key(3) \in Int
    BY <1>2
  <2>3. key(1) # key(2) /\ key(1) # key(3) /\ key(2) # key(3)
    <3>1. OrderRank(i, k, 1) \in 0..3 /\ OrderRank(i, k, 2) \in 0..3 /\ OrderRank(i, k, 3) \in 0..3
      BY <1>2
    <3> QED  BY <3>1
  <2> HIDE DEF key, ranked
  <2> DEFINE less(a, b, c) == key(a) < key(b) /\ key(b) < key(c)
  <2>4. \/ less(1, 2, 3) \/ less(1, 3, 2) \/ less(2, 1, 3)
        \/ less(2, 3, 1) \/ less(3, 1, 2) \/ less(3, 2, 1)
    BY <2>2, <2>3
  <2>5. \A p \in Orders : less(p[1], p[2], p[3]) => ranked(p)
    BY <2>1
  <2> HIDE DEF less
  <2> QED  BY <2>4, <2>5 DEF Orders
<1>5. o \in Orders /\ ranked(o)
  BY <1>3, <1>4
<1>6. \A m \in 1..3 : o[m] \in 1..3
  BY <1>5, OrderIsOrder DEF IsOrder
<1> HIDE DEF rank
<1>7. ASSUME NEW m \in 1..3, NEW n \in 1..3, m < n PROVE rank(o[m]) <= rank(o[n])
  <2>1. rank(o[m]) < rank(o[n]) \/ rank(o[m]) = rank(o[n])
    BY <1>5, <1>7 DEF rank
  <2> QED  BY <1>2, <1>6, <2>1
<1>8. BoundFirst(i, o)
  <2> SUFFICES ASSUME NEW m \in 1..3, NEW n \in 1..3, m < n, i[o[n]] > 0 PROVE i[o[m]] > 0
    BY DEF BoundFirst
  <2>1. rank(o[n]) = 0 /\ rank(o[m]) \in 0..3 /\ rank(o[m]) <= rank(o[n])
    BY <1>2, <1>6, <1>7
  <2> QED  BY <1>2, <1>6, <2>1
<1>9. ASSUME i[k] < 0, NEW m \in 1..3, NEW n \in 1..3, o[n] = k, m < n PROVE i[o[m]] > 0
  <2>1. rank(o[n]) = 1 /\ rank(o[m]) \in 0..3 /\ rank(o[m]) <= rank(o[n])
    BY <1>2, <1>6, <1>7, <1>9
  <2>2. o[m] # k
    BY <1>5, <1>9, OrderIsOrder DEF IsOrder
  <2>3. rank(o[m]) # 1
    BY <1>2, <1>6, <1>9, <2>2
  <2> QED  BY <1>2, <1>6, <2>1, <2>3
<1>10. ASSUME \A j \in 1..3 : i[j] > 0 PROVE o = First
  <2>1. \A m \in 1..3 : OrderRank(i, k, o[m]) = 0
    BY <1>2, <1>6, <1>10 DEF rank
  <2>2. \A a, b \in 1..3 : a < b => o[a] < o[b]
    BY <1>5, <2>1
  <2>3. o[1] < o[2] /\ o[2] < o[3]
    BY <2>2
  <2> QED  BY <1>5, <2>3 DEF Orders, First
<1> QED  BY <1>5, <1>8, <1>9, <1>10

\* A pattern that repeats no variable, and its ids.
AskedAs(pat, i) ==
  /\ \A k \in 1..3 : /\ pat[k] \in Int /\ pat[k] # 0
                     /\ pat[k] < 0 => i[k] = pat[k]
                     /\ pat[k] > 0 => i[k] \in IdSpace /\ i[k] > 0
  /\ \A j, k \in 1..3 : pat[j] = pat[k] /\ pat[j] < 0 => j = k

\* The tables are finite, and there are ids to spare.
Readable(S) == \A o \in Orders : IsFiniteSet(S.index[o]) /\ S.index[o] \subseteq IdTriple

LEMMA AskedIs ==
  ASSUME NEW pat, NEW i, AskedAs(pat, i)
  PROVE  /\ Asks(i)
         /\ \A k \in 1..3 : i[k] > 0 <=> pat[k] > 0
         /\ \A o \in Orders : BoundFirst(pat, o) => BoundFirst(i, o)
         /\ SortPosition(pat, 0) = 1
         /\ \A k \in 1..3 : pat[k] < 0 => SortPosition(pat, pat[k]) = k
<1>1. \A k \in 1..3 : /\ pat[k] \in Int /\ pat[k] # 0
                      /\ i[k] \in Int /\ i[k] # 0
                      /\ (i[k] > 0 <=> pat[k] > 0)
                      /\ (i[k] > 0 => i[k] \in IdSpace)
                      /\ (i[k] < 0 => i[k] = pat[k])
  BY DEF AskedAs, IdSpace
<1>2. Asks(i)
  BY <1>1 DEF Asks, AskedAs
<1>3. ASSUME NEW o \in Orders, BoundFirst(pat, o) PROVE BoundFirst(i, o)
  <2>1. \A m \in 1..3 : o[m] \in 1..3
    BY OrderIsOrder DEF IsOrder
  <2> QED  BY <1>1, <1>3, <2>1 DEF BoundFirst
<1>4. SortPosition(pat, 0) = 1
  BY <1>1, Zenon DEF SortPosition
<1>5. ASSUME NEW k \in 1..3, pat[k] < 0 PROVE SortPosition(pat, pat[k]) = k
  <2>1. \A j \in 1..3 : pat[j] = pat[k] <=> j = k
    BY <1>5 DEF AskedAs
  <2>2. \A j \in 1..k - 1 : j \in 1..3 /\ j # k
    OBVIOUS
  <2>3. SortPosition(pat, pat[k]) =
          CHOOSE m \in 1..3 : pat[m] = pat[k] /\ \A j \in 1..m - 1 : pat[j] # pat[k]
    BY Zenon DEF SortPosition
  <2>4. \E m \in 1..3 : pat[m] = pat[k] /\ \A j \in 1..m - 1 : pat[j] # pat[k]
    BY <2>1, <2>2
  <2>5. SortPosition(pat, pat[k]) \in 1..3 /\ pat[SortPosition(pat, pat[k])] = pat[k]
    BY <2>3, <2>4, Zenon
  <2> QED  BY <2>1, <2>5
<1> QED  BY <1>1, <1>2, <1>3, <1>4, <1>5

\* Each order gives the triples of its table that fit, once.
LEMMA RowsAre ==
  ASSUME Base \in Nat \ {0, 1}, NEW S, Readable(S), NEW i, Asks(i),
         NEW o \in Orders, BoundFirst(i, o), NEW rows, rows = Statements(S, i, o),
         NEW H, H = Hits(i, S.index[o])
  PROVE  /\ Enumerates(o, rows, H)
         /\ RowSet(rows) = H /\ Len(rows) = Cardinality(H)
<1>1. PICK I : I = S.index[o] /\ IsFiniteSet(I) /\ I \subseteq IdTriple
  BY DEF Readable
<1>2. Enumerates(o, rows, H)
  BY <1>1, StatementsAre
<1>3. H \subseteq I
  BY <1>1 DEF Hits
<1>4. IsFiniteSet(H) /\ Linear(o, H)
  BY <1>1, <1>3, FS_Subset, OrderLinear DEF Linear
<1> QED  BY <1>2, <1>4, EnumeratedCount

LEMMA ContainsIs ==
  ASSUME Base \in Nat \ {0, 1}, NEW S, Readable(S), NEW pat, NEW i, i = Ids(S, pat),
         AskedAs(pat, i), \A k \in 1..3 : pat[k] > 0
  PROVE  Contains(S, pat) <=> Hits(i, S.index[First]) # {}
<1>1. PICK o : o = OrderedIndex(i, 1)
  OBVIOUS
<1>2. PICK rows, H : rows = Statements(S, i, o) /\ H = Hits(i, S.index[First])
  OBVIOUS
<1>3. Asks(i) /\ o \in Orders /\ BoundFirst(i, o) /\ o = First
  BY <1>1, AskedIs, OrderedIndexIs
<1>4. Enumerates(o, rows, H)
  BY <1>2, <1>3, RowsAre
<1>5. GetStatements(S, pat, 0) = rows
  BY <1>1, <1>2, AskedIs DEF GetStatements
<1>6. rows # <<>> <=> H # {}
  <2>1. rows \in Seq(H)
    BY <1>4 DEF Enumerates
  <2>2. CASE rows = <<>>
    <3>1. Len(rows) = 0
      BY <2>2, EmptySeq
    <3>2. 1..Len(rows) = {}
      BY <3>1
    <3> QED  BY <1>4, <2>2, <3>2 DEF Enumerates
  <2>3. CASE rows # <<>>
    <3>1. Len(rows) \in Nat \ {0}
      BY <2>1, <2>3, EmptySeq
    <3>2. rows[1] \in H
      BY <2>1, <3>1, ElementOfSeq
    <3> QED  BY <2>3, <3>2
  <2> QED  BY <2>2, <2>3
<1> QED  BY <1>2, <1>5, <1>6 DEF Contains

LEMMA OfferedAre ==
  ASSUME Base \in Nat \ {0, 1}, NEW S, Readable(S), NEW pat, NEW i, AskedAs(pat, i),
         NEW o \in TripleOrderings(pat), NEW rows, rows = Statements(S, i, o),
         NEW H, H = Hits(i, S.index[o])
  PROVE  RowSet(rows) = H /\ Len(rows) = Cardinality(H)
<1>1. o \in Orders /\ BoundFirst(i, o) /\ Asks(i)
  BY OfferedIsBoundFirst, AskedIs
<1> QED  BY <1>1, RowsAre

LEMMA AskedAre ==
  ASSUME Base \in Nat \ {0, 1}, NEW S, Readable(S), NEW pat, NEW i, i = Ids(S, pat), AskedAs(pat, i),
         NEW k \in 1..3, pat[k] < 0, NEW rows, rows = GetStatements(S, pat, pat[k])
  PROVE  /\ \E o \in Orders : LET H == Hits(i, S.index[o])
                             IN  RowSet(rows) = H /\ Len(rows) = Cardinality(H)
         /\ Ascends(rows, k)
<1>1. PICK o : o = OrderedIndex(i, k)
  OBVIOUS
<1>2. Asks(i) /\ i[k] < 0 /\ SortPosition(pat, pat[k]) = k
  BY AskedIs DEF AskedAs
<1>3. /\ o \in Orders /\ BoundFirst(i, o)
      /\ \A m, n \in 1..3 : o[n] = k /\ m < n => i[o[m]] > 0
  BY <1>1, <1>2, OrderedIndexIs
<1>4. rows = Statements(S, i, o)
  BY <1>1, <1>2 DEF GetStatements
<1> DEFINE H == Hits(i, S.index[o])
<1>5. Enumerates(o, rows, H) /\ RowSet(rows) = H /\ Len(rows) = Cardinality(H)
  <2>1. Asks(i) /\ o \in Orders /\ BoundFirst(i, o)
    BY <1>2, <1>3
  <2> QED  BY <1>4, <2>1, RowsAre
<1>6. PICK p \in 1..3 : o[p] = k
  BY <1>3, OrderIsOrder, OrderHasAll
<1>7. \A m \in 1..3 : m < p => i[o[m]] > 0
  BY <1>3, <1>6
<1>8. Ascends(rows, o[p])
  <2>1. PICK I : I = S.index[o] /\ I \subseteq IdTriple /\ H = Hits(i, I)
    BY <1>3 DEF Readable
  <2> QED  BY <1>3, <1>5, <1>7, <2>1, RowsOrdered
<1> QED  BY <1>3, <1>5, <1>6, <1>8

LEMMA UnboundAre ==
  ASSUME Base \in Nat \ {0, 1}, NEW S, Readable(S), NEW i, Asks(i), \A k \in 1..3 : i[k] < 0,
         NEW o \in Orders, NEW c \in 1..3, SortedBy(i, o, c),
         NEW rows, rows = Statements(S, i, o)
  PROVE  Ascends(rows, c)
<1>1. \A k \in 1..3 : i[k] \in Int /\ ~(i[k] > 0)
  BY DEF Asks
<1>2. IsOrder(o) /\ \A m \in 1..3 : o[m] \in 1..3
  BY OrderIsOrder DEF IsOrder
<1>3. o[1] = c
  <2>1. PICK columns :
          columns = [k \in 1..3 |-> IF i[k] < 0 THEN Cardinality({j \in 1..k : i[j] < 0}) ELSE 1]
    OBVIOUS
  <2>2. PICK at : at = CHOOSE n \in 1..3 : o[n] = columns[c]
    OBVIOUS
  <2>3. \A n \in 1..at - 1 : i[o[n]] > 0
    BY <2>1, <2>2, Zenon DEF SortedBy
  <2>4. columns[c] = c
    <3>1. {j \in 1..c : i[j] < 0} = 1..c
      OBVIOUS
    <3>2. Cardinality(1..c) = IF 1 > c THEN 0 ELSE c - 1 + 1
      BY FS_Interval
    <3>3. columns[c] = Cardinality({j \in 1..c : i[j] < 0})
      BY <2>1
    <3>4. Cardinality(1..c) = c
      BY <3>2
    <3> QED  BY <3>1, <3>3, <3>4
  <2>5. at \in 1..3 /\ o[at] = c
    <3>1. \E n \in 1..3 : o[n] = c
      BY <1>2, OrderHasAll
    <3> QED  BY <2>2, <2>4, <3>1
  <2>6. at = 1
    <3> SUFFICES ASSUME at # 1 PROVE FALSE
      OBVIOUS
    <3>1. 1 \in 1..at - 1
      BY <2>5
    <3> QED  BY <1>1, <1>2, <2>3, <3>1
  <2> QED  BY <2>5, <2>6
<1>4. BoundFirst(i, o)
  BY <1>1, <1>2 DEF BoundFirst
<1>5. PICK H : H = Hits(i, S.index[o])
  OBVIOUS
<1>6. Enumerates(o, rows, H)
  BY <1>4, <1>5, RowsAre
<1>7. PICK I : I = S.index[o] /\ I \subseteq IdTriple /\ H = Hits(i, I)
  BY <1>5 DEF Readable
<1>8. PICK p \in 1..3 : p = 1
  OBVIOUS
<1>9. \A m \in 1..3 : m < p => i[o[m]] > 0
  BY <1>8
<1>10. Ascends(rows, o[p])
  BY <1>6, <1>7, <1>9, RowsOrdered
<1> QED  BY <1>3, <1>8, <1>10

-----------------------------------------------------------------------------
(* What makes the tables readable.                                         *)

\* The tables have what the first has, or less while a bulk load is on; the store may
\* have been opened again since the load began, and then adds to all of them.
Even(S, loading) ==
  /\ S.bulk => loading
  /\ \A o \in Orders : /\ S.index[o] \subseteq S.index[First]
                       /\ ~loading => S.index[o] = S.index[First]

\* Ids are no more than the nodes there are.
Numbered(S, terms) ==
  /\ DOMAIN S.node2id \subseteq terms
  /\ S.next_id <= Cardinality(DOMAIN S.node2id) + 1
  /\ \A n \in DOMAIN S.node2id : S.node2id[n] <= Cardinality(terms)

LEMMA EvenAdd ==
  ASSUME NEW S, Files(S), NEW loading, Even(S, loading), NEW x \in Node3, NEW N, N = AddTriple(S, x)
  PROVE  Even(N, loading)
<1>1. PICK U, i : U = AddNodes(S, x) /\ i = Ids(U, x)
  OBVIOUS
<1>2. PICK into : into = IF U.bulk THEN {<<1,2,3>>} ELSE Orders
  OBVIOUS
<1>3. Files(U) /\ MoreNodes(S, U)
  BY <1>1, FileAddNodes
<1>4. PICK J, c :
        /\ J = [o \in Orders |-> IF o \in into THEN U.index[o] \cup {i} ELSE U.index[o]]
        /\ c = [key \in CountKeys(i) \cup DOMAIN IndexAdd(U, into, i).counts |->
                  Counter(U, key) + (IF key \in CountKeys(i) THEN 1 ELSE 0)]
  OBVIOUS
<1>5. IndexAdd(U, into, i) = [U EXCEPT !.index = J]
  BY <1>4 DEF IndexAdd
<1>6. N = [IndexAdd(U, into, i) EXCEPT !.counts = c]
  BY <1>1, <1>2, <1>4 DEF AddTriple, AddTripleId
<1>7. N.index = J /\ N.bulk = U.bulk
  BY <1>3, <1>5, <1>6 DEF Files
<1>8. U.index = S.index /\ U.bulk = S.bulk
  BY <1>3 DEF MoreNodes
<1>9. First \in into /\ (~U.bulk => into = Orders)
  BY <1>2, FirstIsOrder DEF First
<1>10. ~loading => ~U.bulk
  BY <1>8 DEF Even
<1> QED  BY <1>4, <1>7, <1>8, <1>9, <1>10, FirstIsOrder DEF Even

LEMMA EvenOthers ==
  ASSUME NEW S, Files(S), NEW loading, Even(S, loading), NEW N
  PROVE  /\ \A x : N = RemoveTriple(S, x) => Even(N, loading)
         /\ N = BeginBulk(S) => Even(N, TRUE)
         /\ N = EndBulk(S) => Even(N, FALSE)
         /\ N = Reopen(S) => Even(N, loading)
<1>1. ASSUME NEW x, N = RemoveTriple(S, x) PROVE Even(N, loading)
  <2>1. PICK i : N = IndexRemove(S, i)
    BY <1>1 DEF RemoveTriple
  <2>2. PICK J : J = [o \in Orders |-> S.index[o] \ {i}]
    OBVIOUS
  <2>3. N = [S EXCEPT !.index = J]
    BY <2>1, <2>2 DEF IndexRemove
  <2>4. N.index = J /\ N.bulk = S.bulk
    BY <2>3 DEF Files
  <2> QED  BY <2>2, <2>4, FirstIsOrder DEF Even
<1>2. ASSUME N = BeginBulk(S) PROVE Even(N, TRUE)
  <2>1. N.index = S.index
    BY <1>2 DEF BeginBulk, Files
  <2> QED  BY <2>1 DEF Even
<1>3. ASSUME N = EndBulk(S) PROVE Even(N, FALSE)
  <2>1. PICK J : J = [o \in Orders |-> S.index[o] \cup S.index[<<1,2,3>>]]
    OBVIOUS
  <2>2. N.index = J /\ N.bulk = FALSE
    BY <1>3, <2>1 DEF EndBulk, Files
  <2>3. \A o \in Orders : N.index[o] = S.index[First]
    BY <2>1, <2>2 DEF Even, First
  <2> QED  BY <2>2, <2>3, FirstIsOrder DEF Even
<1>4. ASSUME N = Reopen(S) PROVE Even(N, loading)
  <2>1. N.index = S.index /\ N.bulk = FALSE
    BY <1>4 DEF Reopen, Files
  <2> QED  BY <2>1 DEF Even
<1> QED  BY <1>1, <1>2, <1>3, <1>4

LEMMA NumberedAddNode ==
  ASSUME NEW S, Files(S), NEW terms, IsFiniteSet(terms), Numbered(S, terms),
         NEW n \in terms, NEW N, N = AddNode(S, n)
  PROVE  Numbered(N, terms)
<1>1. CASE n \in DOMAIN S.node2id
  BY <1>1 DEF AddNode
<1>2. CASE n \notin DOMAIN S.node2id
  <2>1. PICK f, g : f = Put(S.node2id, n, S.next_id) /\ g = Put(S.id2node, S.next_id, n)
    OBVIOUS
  <2>2. N = [S EXCEPT !.node2id = f, !.id2node = g, !.next_id = S.next_id + 1]
    BY <1>2, <2>1 DEF AddNode
  <2>3. N.node2id = f /\ N.next_id = S.next_id + 1
    BY <2>2 DEF Files
  <2>4. PICK D : D = DOMAIN S.node2id /\ D \subseteq terms /\ n \notin D
    BY <1>2 DEF Numbered
  <2>5. IsFiniteSet(D) /\ IsFiniteSet(D \cup {n}) /\ D \cup {n} \subseteq terms
    BY <2>4, FS_Subset, FS_AddElement
  <2>6. PICK c \in Nat : c = Cardinality(D)
    BY <2>5, FS_CardinalityType
  <2>7. Cardinality(D \cup {n}) = c + 1
    BY <2>4, <2>5, <2>6, FS_AddElement
  <2>8. PICK t \in Nat : t = Cardinality(terms)
    BY FS_CardinalityType
  <2>9. c + 1 <= t
    BY <2>5, <2>7, <2>8, FS_Subset
  <2>10. PICK next \in Nat : next = S.next_id /\ next <= c + 1
    BY <2>4, <2>6 DEF Files, Numbered
  <2>11. IsPut(S.node2id, n, S.next_id, f)
    BY <2>1, PutIs
  <2>12. DOMAIN f = D \cup {n}
    BY <2>4, <2>11 DEF IsPut
  <2>13. ASSUME NEW m \in DOMAIN f PROVE f[m] <= t
    <3>1. CASE m = n
      BY <2>9, <2>10, <2>11, <3>1 DEF IsPut
    <3>2. CASE m # n
      <4>1. m \in D /\ f[m] = S.node2id[m]
        BY <2>4, <2>11, <2>12, <3>2 DEF IsPut
      <4> QED  BY <2>4, <2>8, <4>1 DEF Numbered
    <3> QED  BY <3>1, <3>2
  <2>14. next + 1 <= c + 1 + 1
    BY <2>10
  <2> QED  BY <2>3, <2>5, <2>7, <2>8, <2>10, <2>12, <2>13, <2>14 DEF Numbered
<1> QED  BY <1>1, <1>2

LEMMA NumberedAdd ==
  ASSUME NEW S, Files(S), NEW terms, IsFiniteSet(terms), Numbered(S, terms),
         NEW x \in Node3, x[1] \in terms, x[2] \in terms, x[3] \in terms,
         NEW N, N = AddTriple(S, x)
  PROVE  Numbered(N, terms)
<1>1. PICK l, m, n : l = x[1] /\ m = x[2] /\ n = x[3]
  OBVIOUS
<1>2. PICK U, V, W : U = AddNode(S, l) /\ V = AddNode(U, m) /\ W = AddNode(V, n)
  OBVIOUS
<1>3. Files(U) /\ Numbered(U, terms)
  BY <1>1, <1>2, FileAddNode, NumberedAddNode
<1>4. Files(V) /\ Numbered(V, terms)
  BY <1>1, <1>2, <1>3, FileAddNode, NumberedAddNode
<1>5. Files(W) /\ Numbered(W, terms)
  BY <1>1, <1>2, <1>4, FileAddNode, NumberedAddNode
<1>6. W = AddNodes(S, x)
  BY <1>1, <1>2 DEF AddNodes
<1>7. PICK i : i = Ids(W, x)
  OBVIOUS
<1>8. PICK into : into = IF W.bulk THEN {<<1,2,3>>} ELSE Orders
  OBVIOUS
<1>9. PICK J, c :
        /\ J = [o \in Orders |-> IF o \in into THEN W.index[o] \cup {i} ELSE W.index[o]]
        /\ c = [key \in CountKeys(i) \cup DOMAIN IndexAdd(W, into, i).counts |->
                  Counter(W, key) + (IF key \in CountKeys(i) THEN 1 ELSE 0)]
  OBVIOUS
<1>10. IndexAdd(W, into, i) = [W EXCEPT !.index = J]
  BY <1>9 DEF IndexAdd
<1>11. N = [IndexAdd(W, into, i) EXCEPT !.counts = c]
  BY <1>6, <1>7, <1>8, <1>9 DEF AddTriple, AddTripleId
<1>12. N.node2id = W.node2id /\ N.next_id = W.next_id
  BY <1>5, <1>10, <1>11 DEF Files
<1> QED  BY <1>5, <1>12 DEF Numbered

LEMMA NumberedOthers ==
  ASSUME NEW S, Files(S), NEW terms, IsFiniteSet(terms), Numbered(S, terms), NEW N,
         \/ \E x : N = RemoveTriple(S, x)
         \/ N = BeginBulk(S) \/ N = EndBulk(S) \/ N = Reopen(S)
  PROVE  Numbered(N, terms)
<1>1. N.node2id = S.node2id /\ (N.next_id = S.next_id \/ N.next_id = 1)
  <2>1. CASE \E x : N = RemoveTriple(S, x)
    <3>1. PICK i : N = IndexRemove(S, i)
      BY <2>1 DEF RemoveTriple
    <3> QED  BY <3>1 DEF IndexRemove, Files
  <2>2. CASE N = BeginBulk(S) \/ N = EndBulk(S) \/ N = Reopen(S)
    BY <2>2 DEF BeginBulk, EndBulk, Reopen, Files
  <2> QED  BY <2>1, <2>2
<1>2. Cardinality(DOMAIN S.node2id) \in Nat
  <2>1. IsFiniteSet(DOMAIN S.node2id)
    BY FS_Subset DEF Numbered
  <2> QED  BY <2>1, FS_CardinalityType
<1>3. 1 <= Cardinality(DOMAIN S.node2id) + 1
  BY <1>2
<1> QED  BY <1>1, <1>3 DEF Numbered

LEMMA EvenNew == \A terms : Even(EmptyStore, FALSE) /\ Numbered(EmptyStore, terms)
<1>1. PICK S : S = EmptyStore
  OBVIOUS
<1>2. /\ S.node2id = <<>> /\ DOMAIN S.node2id = {} /\ S.next_id = 1 /\ S.bulk = FALSE
      /\ \A o \in Orders : S.index[o] = {}
  BY <1>1 DEF EmptyStore, NewTables
<1>3. Cardinality({}) = 0
  BY FS_EmptySet
<1>4. Even(S, FALSE)
  BY <1>2, FirstIsOrder DEF Even
<1>5. S.next_id <= Cardinality(DOMAIN S.node2id) + 1
  BY <1>2, <1>3
<1>6. \A terms : Numbered(S, terms)
  BY <1>2, <1>5 DEF Numbered
<1> QED  BY <1>1, <1>4, <1>6

\* A store whose tables are even and whose ids are numbered can be read.
LEMMA ReadableIs ==
  ASSUME Base \in Nat \ {0, 1}, NEW S, Files(S), Covered(S), NEW loading, Even(S, loading),
         NEW terms, IsFiniteSet(terms), Cardinality(terms) < Base * Base, Numbered(S, terms)
  PROVE  Readable(S)
<1>1. PICK b, c : b = Base /\ c = Cardinality(terms) /\ c \in Nat /\ b \in Nat
  BY FS_CardinalityType
<1>2. b * b \in Nat /\ c < b * b
  BY <1>1
<1>3. ASSUME NEW i \in S.index[First] PROVE i \in IdTriple
  <2>1. ASSUME NEW k \in 1..3 PROVE i[k] \in IdSpace
    <3>1. PICK n \in DOMAIN S.node2id : i[k] = S.node2id[n]
      BY DEF Files
    <3>2. i[k] \in Nat \ {0} /\ i[k] <= c
      BY <1>1, <3>1 DEF Covered, Numbered
    <3> QED  BY <1>1, <1>2, <3>2 DEF IdSpace
  <2>2. i = [k \in 1..3 |-> i[k]]
    BY DEF Files
  <2> QED  BY <2>1, <2>2 DEF IdTriple
<1>4. S.index[First] \subseteq IdTriple /\ IsFiniteSet(S.index[First])
  BY <1>3 DEF Covered
<1>5. \A o \in Orders : S.index[o] \subseteq S.index[First]
  BY DEF Even
<1> QED  BY <1>4, <1>5, FS_Subset DEF Readable
=============================================================================
