--------------------------- MODULE Stores_proofs ---------------------------
(***************************************************************************)
(* Proofs about module Stores, for any nodes, triples and sizes of tables: *)
(* each of the other stores is the set of the triples that were added and  *)
(* not removed, tells how many of them fit a pattern and, of the store in  *)
(* files, which; a node map has just the nodes that were added, and an id  *)
(* that names a node names no other later.                                 *)
(***************************************************************************)
EXTENDS Stores, FiniteSetTheorems, SequenceTheorems, WellFoundedInduction, TLAPS

\* Induction over the natural numbers, for a set in place of a predicate.
LEMMA NatSetInduction ==
  ASSUME NEW A, 0 \in A, \A n \in Nat : n \in A => n + 1 \in A
  PROVE  Nat \subseteq A
<1> SUFFICES ASSUME Nat \ A # {} PROVE FALSE OBVIOUS
<1> DEFINE Less == OpToRel(<, Nat)
<1>1. IsWellFoundedOn(Less, Nat) BY NatLessThanWellFounded
<1>2. \A x, y \in Nat : <<x, y>> \in Less <=> x < y BY DEF OpToRel
<1> HIDE DEF Less
<1>3. \E x \in Nat \ A : \A y \in Nat \ A : <<y, x>> \notin Less BY <1>1, WFMin
<1>4. PICK x \in Nat \ A : \A y \in Nat \ A : <<y, x>> \notin Less BY <1>3
<1>5. x # 0 OBVIOUS
<1>6. x - 1 \in Nat /\ x - 1 < x BY <1>5
<1>7. x - 1 \in A BY <1>2, <1>4, <1>6
<1> QED BY <1>6, <1>7

-----------------------------------------------------------------------------
(* The store of chains: tables.                                            *)

Record == [value : Terms, fs : Nat, fp : Nat, fo : Nat, sc : Int, pc : Int, oc : Int]

Statement == [s : Nat, p : Nat, o : Nat, ns : Nat, np : Nat, no : Nat, deleted : BOOLEAN]

Tables(S) ==
  /\ S \in [records : Seq(Record), statements : Seq(Statement), count : Int]
  /\ \A a, b \in DOMAIN S.records : S.records[a].value = S.records[b].value => a = b

\* A chain goes on with the statement of this subject before.
Previous(S, subject, before, id) ==
  /\ id \in 0..before - 1
  /\ id # 0 => S.statements[id].s = subject
  /\ \A k \in id + 1..before - 1 : S.statements[k].s # subject

Chained(S) ==
  /\ \A id \in 1..Len(S.statements) :
       /\ {S.statements[id].s, S.statements[id].p, S.statements[id].o} \subseteq DOMAIN S.records
       /\ Previous(S, S.statements[id].s, id, S.statements[id].ns)
  /\ \A r \in DOMAIN S.records : Previous(S, r, Len(S.statements) + 1, S.records[r].fs)

\* And with that of this object.
PreviousObject(S, object, before, id) ==
  /\ id \in 0..before - 1
  /\ id # 0 => S.statements[id].o = object
  /\ \A k \in id + 1..before - 1 : S.statements[k].o # object

ChainedObjects(S) ==
  /\ \A id \in 1..Len(S.statements) :
       PreviousObject(S, S.statements[id].o, id, S.statements[id].no)
  /\ \A r \in DOMAIN S.records : PreviousObject(S, r, Len(S.statements) + 1, S.records[r].fo)

\* A statement has the nodes i.
Says(S, id, i) ==
  S.statements[id].s = i[1] /\ S.statements[id].p = i[2] /\ S.statements[id].o = i[3]

NoDoubles(S) ==
  \A a, b \in 1..Len(S.statements) :
    /\ S.statements[a].s = S.statements[b].s /\ S.statements[a].p = S.statements[b].p
    /\ S.statements[a].o = S.statements[b].o
    => a = b

ParliamentOK(S) == Tables(S) /\ Chained(S) /\ ChainedObjects(S) /\ NoDoubles(S)

LEMMA TablesAre ==
  ASSUME NEW S, Tables(S)
  PROVE  /\ Len(S.records) \in Nat /\ DOMAIN S.records = 1..Len(S.records)
         /\ Len(S.statements) \in Nat /\ DOMAIN S.statements = 1..Len(S.statements)
         /\ \A id \in 1..Len(S.records) : S.records[id] \in Record
         /\ \A id \in 1..Len(S.statements) : S.statements[id] \in Statement
BY DEF Tables

\* The tree from nodes to ids.
LEMMA NodeHasId ==
  ASSUME NEW S, Tables(S), NEW n \in Nat
  PROVE  /\ P!Node2Id(S, n) \in 0..Len(S.records)
         /\ P!Node2Id(S, n) # 0 => /\ P!Node2Id(S, n) \in 1..Len(S.records)
                                   /\ S.records[P!Node2Id(S, n)].value = n
         /\ P!Node2Id(S, n) = 0 => \A id \in 1..Len(S.records) : S.records[id].value # n
         /\ \A id \in 1..Len(S.records) : S.records[id].value = n => P!Node2Id(S, n) = id
<1>1. Len(S.records) \in Nat /\ DOMAIN S.records = 1..Len(S.records)
  BY TablesAre
<1>2. CASE \E id \in DOMAIN S.records : S.records[id].value = n
  <2>1. P!Node2Id(S, n) = CHOOSE id \in DOMAIN S.records : S.records[id].value = n
    BY <1>2 DEF P!Node2Id
  <2>2. P!Node2Id(S, n) \in DOMAIN S.records /\ S.records[P!Node2Id(S, n)].value = n
    BY <1>2, <2>1
  <2> QED  BY <1>1, <2>2, SMTT(60) DEF Tables
<1>3. CASE \A id \in DOMAIN S.records : S.records[id].value # n
  <2>1. P!Node2Id(S, n) = 0
    BY <1>3 DEF P!Node2Id
  <2> QED  BY <1>1, <1>3, <2>1, SMTT(60)
<1> QED  BY <1>2, <1>3

-----------------------------------------------------------------------------
(* The loop along the chain of a subject.                                  *)

\* f is the loop, for statements up to n.
Searches(S, i, n, f) ==
  f = [id \in 0..n |->
         IF id = 0 \/ (S.statements[id].p = i[2] /\ S.statements[id].o = i[3]) THEN id
         ELSE f[S.statements[id].ns]]

LEMMA SearchExists ==
  ASSUME NEW S, Tables(S), Chained(S), NEW i
  PROVE  Searches(S, i, Len(S.statements), P!Search(S, i))
<1>1. Len(S.statements) \in Nat
  BY TablesAre
<1>2. \A id \in 1..Len(S.statements) : S.statements[id].ns \in 0..id - 1
  BY DEF Chained, Previous
<1> DEFINE A == {n \in Nat : n <= Len(S.statements) => \E f : Searches(S, i, n, f)}
<1>3. 0 \in A
  <2> DEFINE f == [id \in 0..0 |-> id]
  <2>1. Searches(S, i, 0, f)
    BY DEF Searches
  <2> QED  BY <2>1
<1>4. ASSUME NEW n \in Nat, n \in A, n + 1 <= Len(S.statements)
      PROVE  \E f : Searches(S, i, n + 1, f)
  <2>1. PICK f : Searches(S, i, n, f)
    BY <1>1, <1>4
  <2> DEFINE Here == S.statements[n + 1].p = i[2] /\ S.statements[n + 1].o = i[3]
             g == [id \in 0..n + 1 |->
                     IF id = n + 1 THEN (IF Here THEN n + 1 ELSE f[S.statements[n + 1].ns])
                     ELSE f[id]]
  <2>2. \A id \in 0..n : g[id] = f[id]
    OBVIOUS
  <2>3. S.statements[n + 1].ns \in 0..n
    BY <1>2, <1>4
  <2>4. g[n + 1] = IF Here THEN n + 1 ELSE g[S.statements[n + 1].ns]
    BY <2>2, <2>3
  <2>5. \A id \in 1..n : S.statements[id].ns \in 0..n
    BY <1>1, <1>2, <1>4
  <2>6. ASSUME NEW id \in 0..n
        PROVE  g[id] = IF id = 0 \/ (S.statements[id].p = i[2] /\ S.statements[id].o = i[3])
                       THEN id ELSE g[S.statements[id].ns]
    <3>1. f[id] = IF id = 0 \/ (S.statements[id].p = i[2] /\ S.statements[id].o = i[3])
                  THEN id ELSE f[S.statements[id].ns]
      BY <2>1 DEF Searches
    <3>2. id # 0 => S.statements[id].ns \in 0..n
      BY <2>5
    <3> QED  BY <2>2, <3>1, <3>2
  <2>7. DOMAIN g = 0..n + 1 /\ g = [id \in 0..n + 1 |-> g[id]]
    OBVIOUS
  <2> HIDE DEF g
  <2>8. \A id \in 0..n + 1 :
          g[id] = IF id = 0 \/ (S.statements[id].p = i[2] /\ S.statements[id].o = i[3])
                  THEN id ELSE g[S.statements[id].ns]
    BY <2>4, <2>6
  <2>9. Searches(S, i, n + 1, g)
    BY <2>7, <2>8 DEF Searches
  <2> QED  BY <2>9
<1>5. \A n \in Nat : n \in A => n + 1 \in A
  BY <1>1, <1>4
<1> HIDE DEF A
<1>6. Nat \subseteq A
  BY <1>3, <1>5, NatSetInduction
<1>7. \E f : Searches(S, i, Len(S.statements), f)
  BY <1>1, <1>6 DEF A
<1> QED  BY <1>7, Zenon DEF P!Search, Searches

\* The loop finds the statement that has the nodes, if there is one.
LEMMA SearchFinds ==
  ASSUME NEW S, Tables(S), Chained(S), NEW i, NEW at \in 0..Len(S.statements),
         at # 0 => S.statements[at].s = i[1]
  PROVE  /\ P!Search(S, i)[at] \in 0..at
         /\ P!Search(S, i)[at] # 0 => Says(S, P!Search(S, i)[at], i)
         /\ P!Search(S, i)[at] = 0 => \A id \in 1..at : ~Says(S, id, i)
<1> DEFINE f == P!Search(S, i)
           Good(n) == /\ f[n] \in 0..n
                      /\ f[n] # 0 => Says(S, f[n], i)
                      /\ f[n] = 0 => \A id \in 1..n : ~Says(S, id, i)
           A == {n \in Nat : \A m \in 0..n :
                   m <= Len(S.statements) /\ (m # 0 => S.statements[m].s = i[1]) => Good(m)}
<1>1. Len(S.statements) \in Nat
  BY TablesAre
<1>2. \A id \in 0..Len(S.statements) :
        f[id] = IF id = 0 \/ (S.statements[id].p = i[2] /\ S.statements[id].o = i[3]) THEN id
                ELSE f[S.statements[id].ns]
  <2>1. Searches(S, i, Len(S.statements), f)
    BY SearchExists
  <2> HIDE DEF f
  <2> QED  BY <2>1 DEF Searches
<1> HIDE DEF f
<1>3. 0 \in A
  <2>1. f[0] = 0
    BY <1>1, <1>2
  <2> QED  BY <2>1
<1>4. ASSUME NEW n \in Nat, n \in A, n + 1 <= Len(S.statements), S.statements[n + 1].s = i[1]
      PROVE  Good(n + 1)
  <2>1. PICK m : m = S.statements[n + 1].ns
    OBVIOUS
  <2>2. /\ m \in 0..n /\ (m # 0 => S.statements[m].s = i[1])
        /\ \A k \in m + 1..n : S.statements[k].s # i[1]
    <3>1. n + 1 \in 1..Len(S.statements) /\ (n + 1) - 1 = n
      BY <1>1, <1>4
    <3>2. Previous(S, i[1], n + 1, m)
      BY <1>4, <2>1, <3>1 DEF Chained
    <3> QED  BY <3>1, <3>2 DEF Previous
  <2>3. Good(m)
    BY <1>1, <1>4, <2>2
  <2>4. n + 1 \in 0..Len(S.statements) /\ n + 1 # 0
    BY <1>1, <1>4
  <2>5. CASE S.statements[n + 1].p = i[2] /\ S.statements[n + 1].o = i[3]
    <3>1. f[n + 1] = n + 1
      BY <1>2, <2>4, <2>5
    <3>2. Says(S, n + 1, i)
      BY <1>4, <2>5 DEF Says
    <3> QED  BY <2>4, <3>1, <3>2
  <2>6. CASE ~(S.statements[n + 1].p = i[2] /\ S.statements[n + 1].o = i[3])
    <3>1. f[n + 1] = f[m]
      BY <1>2, <2>1, <2>4, <2>6
    <3>2. ~Says(S, n + 1, i)
      BY <2>6 DEF Says
    <3>3. ASSUME NEW id \in 1..n + 1, f[m] = 0 PROVE ~Says(S, id, i)
      <4>1. id \in 1..m \/ id \in m + 1..n \/ id = n + 1
        BY <2>2
      <4>2. \A k \in m + 1..n : ~Says(S, k, i)
        BY <2>2 DEF Says
      <4> QED  BY <2>3, <3>2, <3>3, <4>1, <4>2
    <3> QED  BY <2>2, <2>3, <3>1, <3>3
  <2> QED  BY <2>5, <2>6
<1>5. ASSUME NEW n \in Nat, n \in A PROVE n + 1 \in A
  <2>1. \A m \in 0..n + 1 : m \in 0..n \/ m = n + 1
    OBVIOUS
  <2> HIDE DEF Good
  <2> QED  BY <1>4, <1>5, <2>1
<1> HIDE DEF A
<1>6. Nat \subseteq A
  BY <1>3, <1>5, NatSetInduction
<1>7. at \in Nat /\ at \in 0..at /\ at <= Len(S.statements)
  BY <1>1
<1>8. Good(at)
  BY <1>6, <1>7 DEF A
<1> QED  BY <1>8 DEF f

-----------------------------------------------------------------------------
(* What the store of chains holds.                                         *)

Term3 == [1..3 -> Terms]

\* The nodes of a statement.
NodesOf(S, id) ==
  [k \in 1..3 |-> S.records[<<S.statements[id].s, S.statements[id].p, S.statements[id].o>>[k]].value]

LEMMA ContentIs ==
  ASSUME NEW S, Tables(S), NEW y
  PROVE  y \in P!Content(S) <=>
           \E id \in 1..Len(S.statements) : ~S.statements[id].deleted /\ y = NodesOf(S, id)
<1>1. DOMAIN S.statements = 1..Len(S.statements)
  BY TablesAre
<1>2. P!Content(S) = {NodesOf(S, id) : id \in {d \in DOMAIN S.statements : ~S.statements[d].deleted}}
  <2> DEFINE kept == {d \in DOMAIN S.statements : ~S.statements[d].deleted}
             said(q) == [k \in 1..3 |-> S.records[<<q.s, q.p, q.o>>[k]].value]
  <2>1. P!Content(S) = {said(q) : q \in {S.statements[id] : id \in kept}}
    BY DEF P!Content
  <2>2. \A id \in kept : said(S.statements[id]) = NodesOf(S, id)
    BY DEF NodesOf
  <2> HIDE DEF said, kept
  <2>3. {said(q) : q \in {S.statements[id] : id \in kept}} = {said(S.statements[id]) : id \in kept}
    OBVIOUS
  <2>4. P!Content(S) = {NodesOf(S, id) : id \in kept}
    BY <2>1, <2>2, <2>3
  <2> QED  BY <2>4 DEF kept
<1> QED  BY <1>1, <1>2

LEMMA IdsAre ==
  ASSUME NEW S, Tables(S), NEW x \in Term3
  PROVE  /\ P!Ids(S, x) = [k \in 1..3 |-> P!Node2Id(S, x[k])]
         /\ \A k \in 1..3 : /\ x[k] \in Nat /\ x[k] # 0
                            /\ P!Ids(S, x)[k] = P!Node2Id(S, x[k])
                            /\ P!Ids(S, x)[k] \in 0..Len(S.records)
<1>1. \A k \in 1..3 : x[k] \in Nat /\ x[k] # 0
  BY StoresAssumption DEF Term3
<1>2. \A k \in 1..3 : P!Node2Id(S, x[k]) \in 0..Len(S.records)
  BY <1>1, NodeHasId
<1> QED  BY <1>1, <1>2 DEF P!Ids

LEMMA SaysIs ==
  ASSUME NEW S, Tables(S), Chained(S), NEW x \in Term3, NEW id \in 1..Len(S.statements)
  PROVE  Says(S, id, P!Ids(S, x)) <=> NodesOf(S, id) = x
<1>1. PICK q : q = S.statements[id]
  OBVIOUS
<1>2. q.s \in DOMAIN S.records /\ q.p \in DOMAIN S.records /\ q.o \in DOMAIN S.records
  BY <1>1 DEF Chained
<1>3. /\ NodesOf(S, id)[1] = S.records[q.s].value /\ NodesOf(S, id)[2] = S.records[q.p].value
      /\ NodesOf(S, id)[3] = S.records[q.o].value
  BY <1>1 DEF NodesOf
<1>4. DOMAIN S.records = 1..Len(S.records)
  BY TablesAre
<1>5. ASSUME NEW k \in 1..3, NEW r \in DOMAIN S.records
      PROVE  r = P!Ids(S, x)[k] <=> S.records[r].value = x[k]
  <2>1. x[k] \in Nat /\ P!Ids(S, x)[k] = P!Node2Id(S, x[k])
    BY IdsAre
  <2>2. r \in 1..Len(S.records) /\ r # 0
    BY <1>4
  <2>3. PICK n \in Nat : n = x[k]
    BY <2>1
  <2>4. /\ P!Node2Id(S, n) # 0 => S.records[P!Node2Id(S, n)].value = n
        /\ \A m \in 1..Len(S.records) : S.records[m].value = n => P!Node2Id(S, n) = m
    BY NodeHasId
  <2> QED  BY <2>1, <2>2, <2>3, <2>4
<1>6. Says(S, id, P!Ids(S, x)) <=> \A k \in 1..3 : NodesOf(S, id)[k] = x[k]
  <2>1. 1 \in 1..3 /\ 2 \in 1..3 /\ 3 \in 1..3 /\ \A k \in 1..3 : k = 1 \/ k = 2 \/ k = 3
    OBVIOUS
  <2> QED  BY <1>1, <1>2, <1>3, <1>5, <2>1 DEF Says
<1>7. (\A k \in 1..3 : NodesOf(S, id)[k] = x[k]) <=> NodesOf(S, id) = x
  BY DEF NodesOf, Term3
<1> QED  BY <1>6, <1>7

\* The loops of contains, add and remove.
LEMMA StatementFound ==
  ASSUME NEW S, Tables(S), Chained(S), NEW x \in Term3
  PROVE  /\ P!FindStatement(S, x) \in 0..Len(S.statements)
         /\ P!FindStatement(S, x) # 0 => Says(S, P!FindStatement(S, x), P!Ids(S, x))
         /\ P!FindStatement(S, x) = 0 =>
              \A id \in 1..Len(S.statements) : ~Says(S, id, P!Ids(S, x))
<1>1. PICK i : i = P!Ids(S, x)
  OBVIOUS
<1>2. /\ Len(S.statements) \in Nat /\ DOMAIN S.records = 1..Len(S.records)
      /\ Len(S.records) \in Nat
  BY TablesAre
<1>3. /\ i[1] \in 0..Len(S.records) /\ i[2] \in 0..Len(S.records)
      /\ i[3] \in 0..Len(S.records)
  BY <1>1, IdsAre
<1>4. CASE 0 \in {i[1], i[2], i[3]}
  <2>1. P!FindStatement(S, x) = 0
    BY <1>1, <1>4 DEF P!FindStatement
  <2>2. ASSUME NEW id \in 1..Len(S.statements) PROVE ~Says(S, id, i)
    <3>1. 0 \notin {S.statements[id].s, S.statements[id].p, S.statements[id].o}
      BY <1>2 DEF Chained
    <3> QED  BY <1>4, <3>1 DEF Says
  <2> QED  BY <1>1, <1>2, <2>1, <2>2
<1>5. CASE 0 \notin {i[1], i[2], i[3]}
  <2>1. PICK at : at = S.records[i[1]].fs
    OBVIOUS
  <2>2. P!FindStatement(S, x) = P!Search(S, i)[at]
    BY <1>1, <1>5, <2>1 DEF P!FindStatement
  <2>3. Previous(S, i[1], Len(S.statements) + 1, at)
    BY <1>2, <1>3, <1>5, <2>1 DEF Chained
  <2>4. at \in 0..Len(S.statements) /\ (at # 0 => S.statements[at].s = i[1])
        /\ \A k \in at + 1..Len(S.statements) : S.statements[k].s # i[1]
    BY <1>2, <2>3 DEF Previous
  <2>5. /\ P!Search(S, i)[at] \in 0..at
        /\ P!Search(S, i)[at] # 0 => Says(S, P!Search(S, i)[at], i)
        /\ P!Search(S, i)[at] = 0 => \A id \in 1..at : ~Says(S, id, i)
    BY <2>4, SearchFinds
  <2>6. ASSUME NEW id \in 1..Len(S.statements), P!Search(S, i)[at] = 0 PROVE ~Says(S, id, i)
    <3>1. id \in 1..at \/ id \in at + 1..Len(S.statements)
      BY <1>2, <2>4
    <3> QED  BY <2>4, <2>5, <2>6, <3>1 DEF Says
  <2>7. P!Search(S, i)[at] \in 0..Len(S.statements)
    BY <1>2, <2>4, <2>5
  <2> QED  BY <1>1, <2>2, <2>5, <2>6, <2>7
<1> QED  BY <1>4, <1>5

\* A statement with the nodes of x is the one that holds x or that has been removed.
LEMMA ContentHas ==
  ASSUME NEW S, ParliamentOK(S), NEW x \in Term3
  PROVE  LET f == P!FindStatement(S, x)
         IN  x \in P!Content(S) <=> f # 0 /\ ~S.statements[f].deleted
<1>1. PICK f : f = P!FindStatement(S, x)
  OBVIOUS
<1>2. /\ f \in 0..Len(S.statements) /\ Len(S.statements) \in Nat
      /\ f # 0 => Says(S, f, P!Ids(S, x))
      /\ f = 0 => \A id \in 1..Len(S.statements) : ~Says(S, id, P!Ids(S, x))
  BY <1>1, StatementFound, TablesAre DEF ParliamentOK
<1>3. \A id \in 1..Len(S.statements) : Says(S, id, P!Ids(S, x)) <=> NodesOf(S, id) = x
  BY SaysIs DEF ParliamentOK
<1>4. \A id \in 1..Len(S.statements) :
        Says(S, id, P!Ids(S, x)) /\ f # 0 => id = f
  BY <1>2 DEF ParliamentOK, NoDoubles, Says
<1>5. x \in P!Content(S) <=>
        \E id \in 1..Len(S.statements) : ~S.statements[id].deleted /\ x = NodesOf(S, id)
  BY ContentIs DEF ParliamentOK
<1>6. x \in P!Content(S) <=> f # 0 /\ ~S.statements[f].deleted
  <2>1. f # 0 => f \in 1..Len(S.statements)
    BY <1>2
  <2> QED  BY <1>2, <1>3, <1>4, <1>5, <2>1
<1> QED  BY <1>1, <1>6

LEMMA ContentNodes ==
  ASSUME NEW S, Tables(S), Chained(S)
  PROVE  P!Content(S) \subseteq Term3
<1>1. ASSUME NEW id \in 1..Len(S.statements) PROVE NodesOf(S, id) \in Term3
  <2>1. PICK q : q = S.statements[id]
    OBVIOUS
  <2>2. q.s \in DOMAIN S.records /\ q.p \in DOMAIN S.records /\ q.o \in DOMAIN S.records
    BY <2>1 DEF Chained
  <2>3. \A r \in DOMAIN S.records : S.records[r].value \in Terms
    BY TablesAre DEF Record
  <2>4. \A k \in 1..3 : <<q.s, q.p, q.o>>[k] \in DOMAIN S.records
    BY <2>2
  <2> QED  BY <2>1, <2>3, <2>4 DEF NodesOf, Term3
<1> QED  BY <1>1, ContentIs

-----------------------------------------------------------------------------
(* What the operations of the store of chains change.                      *)

\* N has the nodes, statements and chains of S, counts and marks aside.
SameChains(S, N) ==
  /\ Len(N.records) = Len(S.records) /\ Len(N.statements) = Len(S.statements)
  /\ \A r \in 1..Len(S.records) :
       /\ N.records[r].value = S.records[r].value
       /\ N.records[r].fs = S.records[r].fs /\ N.records[r].fo = S.records[r].fo
  /\ \A id \in 1..Len(S.statements) :
       /\ N.statements[id].s = S.statements[id].s /\ N.statements[id].p = S.statements[id].p
       /\ N.statements[id].o = S.statements[id].o /\ N.statements[id].ns = S.statements[id].ns
       /\ N.statements[id].no = S.statements[id].no

TablesType == [records : Seq(Record), statements : Seq(Statement), count : Int]

LEMMA StaysOK ==
  ASSUME NEW S, ParliamentOK(S), NEW N \in TablesType, SameChains(S, N)
  PROVE  /\ ParliamentOK(N)
         /\ \A id \in 1..Len(S.statements) : NodesOf(N, id) = NodesOf(S, id)
<1>1. /\ Len(S.records) \in Nat /\ DOMAIN S.records = 1..Len(S.records)
      /\ Len(S.statements) \in Nat
  BY TablesAre DEF ParliamentOK
<1>2. DOMAIN N.records = 1..Len(S.records) /\ Len(N.statements) = Len(S.statements)
  BY DEF TablesType, SameChains
<1>3. Tables(N)
  BY <1>1, <1>2 DEF Tables, TablesType, ParliamentOK, SameChains
<1>4. \A subject, before, id : before <= Len(S.statements) + 1 /\ before \in Nat =>
        (Previous(S, subject, before, id) => Previous(N, subject, before, id))
  <2> SUFFICES ASSUME NEW subject, NEW before \in Nat, before <= Len(S.statements) + 1, NEW id,
                      Previous(S, subject, before, id)
               PROVE  Previous(N, subject, before, id)
    OBVIOUS
  <2>1. id \in 0..before - 1 /\ (id # 0 => id \in 1..Len(S.statements))
        /\ \A k \in id + 1..before - 1 : k \in 1..Len(S.statements)
    BY <1>1 DEF Previous
  <2> QED  BY <2>1 DEF Previous, SameChains
<1>5. Chained(N)
  <2>1. ASSUME NEW id \in 1..Len(S.statements)
        PROVE  /\ {N.statements[id].s, N.statements[id].p, N.statements[id].o} \subseteq DOMAIN N.records
               /\ Previous(N, N.statements[id].s, id, N.statements[id].ns)
    <3>1. /\ {S.statements[id].s, S.statements[id].p, S.statements[id].o} \subseteq DOMAIN S.records
          /\ Previous(S, S.statements[id].s, id, S.statements[id].ns)
      BY DEF ParliamentOK, Chained
    <3>2. /\ N.statements[id].s = S.statements[id].s /\ N.statements[id].p = S.statements[id].p
          /\ N.statements[id].o = S.statements[id].o /\ N.statements[id].ns = S.statements[id].ns
      BY DEF SameChains
    <3>3. id \in Nat /\ id <= Len(S.statements) + 1
      BY <1>1
    <3> QED  BY <1>1, <1>2, <1>4, <3>1, <3>2, <3>3
  <2>2. ASSUME NEW r \in 1..Len(S.records)
        PROVE  Previous(N, r, Len(N.statements) + 1, N.records[r].fs)
    <3>1. Previous(S, r, Len(S.statements) + 1, S.records[r].fs)
      BY <1>1 DEF ParliamentOK, Chained
    <3> QED  BY <1>1, <1>2, <1>4, <3>1 DEF SameChains
  <2> QED  BY <1>2, <2>1, <2>2 DEF Chained
<1>6. NoDoubles(N)
  BY <1>2, SMTT(60) DEF NoDoubles, ParliamentOK, SameChains
<1>7. ASSUME NEW id \in 1..Len(S.statements) PROVE NodesOf(N, id) = NodesOf(S, id)
  <2>1. PICK q : q = S.statements[id]
    OBVIOUS
  <2>2. q.s \in 1..Len(S.records) /\ q.p \in 1..Len(S.records) /\ q.o \in 1..Len(S.records)
    BY <1>1, <2>1 DEF ParliamentOK, Chained
  <2>3. \A k \in 1..3 : <<q.s, q.p, q.o>>[k] \in 1..Len(S.records)
    BY <2>2
  <2>4. N.statements[id].s = q.s /\ N.statements[id].p = q.p /\ N.statements[id].o = q.o
    BY <2>1 DEF SameChains
  <2>5. \A k \in 1..3 : N.records[<<q.s, q.p, q.o>>[k]].value = S.records[<<q.s, q.p, q.o>>[k]].value
    BY <2>3 DEF SameChains
  <2> QED  BY <2>1, <2>4, <2>5, Zenon DEF NodesOf
<1>8. \A object, before, id : before <= Len(S.statements) + 1 /\ before \in Nat =>
        (PreviousObject(S, object, before, id) => PreviousObject(N, object, before, id))
  <2> SUFFICES ASSUME NEW object, NEW before \in Nat, before <= Len(S.statements) + 1, NEW id,
                      PreviousObject(S, object, before, id)
               PROVE  PreviousObject(N, object, before, id)
    OBVIOUS
  <2>1. id \in 0..before - 1 /\ (id # 0 => id \in 1..Len(S.statements))
        /\ \A k \in id + 1..before - 1 : k \in 1..Len(S.statements)
    BY <1>1 DEF PreviousObject
  <2> QED  BY <2>1 DEF PreviousObject, SameChains
<1>9. ChainedObjects(N)
  <2>1. ASSUME NEW id \in 1..Len(S.statements)
        PROVE  PreviousObject(N, N.statements[id].o, id, N.statements[id].no)
    <3>1. PreviousObject(S, S.statements[id].o, id, S.statements[id].no)
      BY DEF ParliamentOK, ChainedObjects
    <3>2. N.statements[id].o = S.statements[id].o /\ N.statements[id].no = S.statements[id].no
      BY DEF SameChains
    <3>3. id \in Nat /\ id <= Len(S.statements) + 1
      BY <1>1
    <3> QED  BY <1>8, <3>1, <3>2, <3>3
  <2>2. ASSUME NEW r \in 1..Len(S.records)
        PROVE  PreviousObject(N, r, Len(N.statements) + 1, N.records[r].fo)
    <3>1. PreviousObject(S, r, Len(S.statements) + 1, S.records[r].fo)
      BY <1>1 DEF ParliamentOK, ChainedObjects
    <3> QED  BY <1>1, <1>2, <1>8, <3>1 DEF SameChains
  <2> QED  BY <1>2, <2>1, <2>2 DEF ChainedObjects
<1> QED  BY <1>3, <1>5, <1>6, <1>7, <1>9 DEF ParliamentOK

LEMMA RaisedIs ==
  ASSUME NEW S \in TablesType, NEW i, NEW id \in 1..Len(S.records), NEW change \in Int
  PROVE  /\ P!Raised(S, i, id, change) \in Record
         /\ P!Raised(S, i, id, change).value = S.records[id].value
         /\ P!Raised(S, i, id, change).fs = S.records[id].fs
         /\ P!Raised(S, i, id, change).fo = S.records[id].fo
<1>1. PICK r \in Record, a \in Int, b \in Int, c \in Int :
        /\ r = S.records[id] /\ a = IF i[1] = id THEN change ELSE 0
        /\ b = (IF i[2] = id THEN change ELSE 0) /\ c = IF i[3] = id THEN change ELSE 0
  BY DEF TablesType
<1>2. PICK q : q = P!Raised(S, i, id, change)
  OBVIOUS
<1>3. q = [r EXCEPT !.sc = @ + a, !.pc = @ + b, !.oc = @ + c]
  BY <1>1, <1>2 DEF P!Raised
<1>4. q = [value |-> r.value, fs |-> r.fs, fp |-> r.fp, fo |-> r.fo, sc |-> r.sc + a,
           pc |-> r.pc + b, oc |-> r.oc + c]
  BY <1>3 DEF Record
<1>5. q \in Record /\ q.value = r.value /\ q.fs = r.fs /\ q.fo = r.fo
  BY <1>4, SMTT(60) DEF Record
<1> QED  BY <1>1, <1>2, <1>5

\* By how much the count of a subject changes.
Share(i, id, change) == IF i[1] = id THEN change ELSE 0

LEMMA RaisedCount ==
  ASSUME NEW S \in TablesType, NEW i, NEW id \in 1..Len(S.records), NEW change \in Int
  PROVE  P!Raised(S, i, id, change).sc = S.records[id].sc + Share(i, id, change)
<1>1. S.records[id] \in Record
  BY DEF TablesType
<1> QED  BY <1>1 DEF P!Raised, Record, Share

LEMMA CountedIs ==
  ASSUME NEW S \in TablesType, NEW i, NEW change \in Int, NEW N, N = P!Counted(S, i, change)
  PROVE  /\ N \in TablesType /\ SameChains(S, N) /\ N.statements = S.statements
         /\ N.count = S.count + change
         /\ \A r \in 1..Len(S.records) :
              N.records[r].sc = S.records[r].sc + Share(i, r, change)
<1>1. S.records \in Seq(Record) /\ DOMAIN S.records = 1..Len(S.records) /\ Len(S.records) \in Nat
      /\ S.statements \in Seq(Statement) /\ S.count \in Int
  BY DEF TablesType
<1>2. PICK R : R = [id \in DOMAIN S.records |-> P!Raised(S, i, id, change)]
  OBVIOUS
<1>3. N = [records |-> R, statements |-> S.statements, count |-> S.count + change]
  <2>1. N = [S EXCEPT !.count = @ + change, !.records = R]
    BY <1>2 DEF P!Counted
  <2> QED  BY <2>1 DEF TablesType
<1>4. R \in [1..Len(S.records) -> Record]
  BY <1>1, <1>2, RaisedIs
<1>5. R \in Seq(Record) /\ Len(R) = Len(S.records)
  BY <1>1, <1>4
<1>6. N \in TablesType /\ N.records = R /\ N.statements = S.statements
  BY <1>1, <1>3, <1>5 DEF TablesType
<1>7. SameChains(S, N)
  BY <1>1, <1>2, <1>5, <1>6, RaisedIs DEF SameChains
<1>8. \A r \in 1..Len(S.records) :
        N.records[r].sc = S.records[r].sc + Share(i, r, change)
  BY <1>1, <1>2, <1>6, RaisedCount
<1> QED  BY <1>3, <1>6, <1>7, <1>8

Marked(S, f, b) == [S EXCEPT !.statements[f].deleted = b]

LEMMA StatementMarked ==
  ASSUME NEW q \in Statement, NEW b \in BOOLEAN, NEW m, m = [q EXCEPT !.deleted = b]
  PROVE  /\ m \in Statement /\ m.s = q.s /\ m.p = q.p /\ m.o = q.o /\ m.ns = q.ns
         /\ m.no = q.no /\ m.deleted = b
BY DEF Statement

LEMMA MarkedIs ==
  ASSUME NEW S \in TablesType, NEW f \in DOMAIN S.statements, NEW b \in BOOLEAN,
         NEW N, N = Marked(S, f, b)
  PROVE  /\ N \in TablesType /\ SameChains(S, N) /\ N.records = S.records /\ N.count = S.count
         /\ \A id \in 1..Len(S.statements) :
              N.statements[id].deleted = IF id = f THEN b ELSE S.statements[id].deleted
<1>1. S.statements \in Seq(Statement) /\ S.records \in Seq(Record) /\ S.count \in Int
      /\ DOMAIN S.statements = 1..Len(S.statements) /\ Len(S.statements) \in Nat
  BY DEF TablesType
<1>2. PICK m : m = [S.statements[f] EXCEPT !.deleted = b]
  OBVIOUS
<1>3. N = [records |-> S.records, statements |-> [S.statements EXCEPT ![f] = m], count |-> S.count]
  BY <1>2 DEF TablesType, Marked
<1>4. /\ m \in Statement /\ m.s = S.statements[f].s /\ m.p = S.statements[f].p
      /\ m.o = S.statements[f].o /\ m.ns = S.statements[f].ns /\ m.no = S.statements[f].no
      /\ m.deleted = b
  BY <1>1, <1>2, StatementMarked
<1>5. [S.statements EXCEPT ![f] = m] \in Seq(Statement)
      /\ Len([S.statements EXCEPT ![f] = m]) = Len(S.statements)
  BY <1>1, <1>4
<1>6. N \in TablesType
  BY <1>1, <1>3, <1>5 DEF TablesType
<1>7. \A id \in 1..Len(S.statements) :
        N.statements[id] = IF id = f THEN m ELSE S.statements[id]
  BY <1>1, <1>3
<1>8. \A id \in 1..Len(S.statements) :
        N.statements[id].deleted = IF id = f THEN b ELSE S.statements[id].deleted
  BY <1>4, <1>7
<1>9. SameChains(S, N)
  BY <1>3, <1>4, <1>5, <1>7 DEF SameChains
<1> QED  BY <1>3, <1>6, <1>8, <1>9

Remarked(S, x, b, change) ==
  P!Counted(Marked(S, P!FindStatement(S, x), b), P!Ids(S, x), change)

\* A statement that is there is marked, or its mark is taken away.
LEMMA MarkChanges ==
  ASSUME NEW S, ParliamentOK(S), NEW x \in Term3, P!FindStatement(S, x) # 0,
         NEW b \in BOOLEAN, NEW change \in Int,
         NEW N, N = Remarked(S, x, b, change)
  PROVE  /\ ParliamentOK(N) /\ SameChains(S, N)
         /\ P!Content(N) = IF b THEN P!Content(S) \ {x} ELSE P!Content(S) \cup {x}
<1>1. PICK f, i, U :
        /\ f = P!FindStatement(S, x) /\ i = P!Ids(S, x) /\ U = Marked(S, f, b)
        /\ N = P!Counted(U, i, change)
  BY DEF Remarked
<1>2. S \in TablesType /\ Tables(S) /\ Chained(S) /\ NoDoubles(S)
  BY DEF ParliamentOK, Tables, TablesType
<1>3. /\ Len(S.statements) \in Nat /\ DOMAIN S.statements = 1..Len(S.statements)
      /\ DOMAIN S.records = 1..Len(S.records)
  BY <1>2, TablesAre
<1>4. f \in 1..Len(S.statements) /\ Says(S, f, i)
  <2>1. f \in 0..Len(S.statements) /\ (f # 0 => Says(S, f, i))
    BY <1>1, <1>2, StatementFound
  <2> QED  BY <1>1, <1>3, <2>1
<1>5. /\ U \in TablesType /\ SameChains(S, U) /\ U.records = S.records
      /\ \A id \in 1..Len(S.statements) :
           U.statements[id].deleted = IF id = f THEN b ELSE S.statements[id].deleted
  BY <1>1, <1>2, <1>3, <1>4, MarkedIs, SMTT(60)
<1>7. N \in TablesType /\ SameChains(U, N) /\ N.statements = U.statements
  BY <1>1, <1>5, CountedIs
<1>8. SameChains(S, N)
  BY <1>3, <1>5, <1>7 DEF SameChains
<1>9. ParliamentOK(N) /\ \A id \in 1..Len(S.statements) : NodesOf(N, id) = NodesOf(S, id)
  BY <1>7, <1>8, StaysOK
<1>10. \A id \in 1..Len(S.statements) : NodesOf(S, id) = x <=> id = f
  <2>1. \A id \in 1..Len(S.statements) : Says(S, id, i) <=> NodesOf(S, id) = x
    BY <1>1, <1>2, SaysIs
  <2>2. \A id \in 1..Len(S.statements) : Says(S, id, i) => id = f
    BY <1>2, <1>4 DEF NoDoubles, Says
  <2> QED  BY <1>4, <2>1, <2>2
<1>11. ASSUME NEW y
       PROVE  y \in P!Content(N) <=> IF b THEN y \in P!Content(S) /\ y # x
                                          ELSE y \in P!Content(S) \/ y = x
  <2>1. y \in P!Content(N) <=>
          \E id \in 1..Len(S.statements) :
            ~(IF id = f THEN b ELSE S.statements[id].deleted) /\ y = NodesOf(S, id)
    <3>1. y \in P!Content(N) <=>
            \E id \in 1..Len(N.statements) : ~N.statements[id].deleted /\ y = NodesOf(N, id)
      BY <1>9, ContentIs DEF ParliamentOK
    <3>2. Len(N.statements) = Len(S.statements)
      BY <1>8 DEF SameChains
    <3>3. \A id \in 1..Len(S.statements) :
            /\ N.statements[id].deleted = IF id = f THEN b ELSE S.statements[id].deleted
            /\ NodesOf(N, id) = NodesOf(S, id)
      BY <1>5, <1>7, <1>9
    <3> QED  BY <3>1, <3>2, <3>3
  <2>2. y \in P!Content(S) <=>
          \E id \in 1..Len(S.statements) : ~S.statements[id].deleted /\ y = NodesOf(S, id)
    BY <1>2, ContentIs
  <2> QED  BY <1>4, <1>10, <2>1, <2>2
<1>12. P!Content(N) = IF b THEN P!Content(S) \ {x} ELSE P!Content(S) \cup {x}
  BY <1>11
<1> QED  BY <1>8, <1>9, <1>12

-----------------------------------------------------------------------------
(* The counts that the store of chains keeps.                              *)

Live(S) == {id \in 1..Len(S.statements) : ~S.statements[id].deleted}

LiveOf(S, r) == {id \in Live(S) : S.statements[id].s = r}

\* The store and its records tell how many statements there are, and of each subject.
Tallied(S) ==
  /\ S.count = Cardinality(Live(S))
  /\ \A r \in 1..Len(S.records) : S.records[r].sc = Cardinality(LiveOf(S, r))

\* They miss by one statement of the nodes i that has come or gone.
OffBy(S, i, change) ==
  /\ S.count + change = Cardinality(Live(S))
  /\ \A r \in 1..Len(S.records) :
       S.records[r].sc + Share(i, r, change) = Cardinality(LiveOf(S, r))

LEMMA LiveFinite ==
  ASSUME NEW S, Len(S.statements) \in Nat
  PROVE  /\ IsFiniteSet(Live(S)) /\ Cardinality(Live(S)) \in Nat
         /\ \A r : IsFiniteSet(LiveOf(S, r)) /\ Cardinality(LiveOf(S, r)) \in Nat
<1>1. IsFiniteSet(1..Len(S.statements))
  BY FS_Interval
<1>2. IsFiniteSet(Live(S))
  BY <1>1, FS_Subset DEF Live
<1>3. \A r : IsFiniteSet(LiveOf(S, r))
  BY <1>2, FS_Subset DEF LiveOf
<1> QED  BY <1>2, <1>3, FS_CardinalityType

LEMMA CountedTallies ==
  ASSUME NEW S \in TablesType, NEW i, NEW change \in Int, OffBy(S, i, change),
         NEW N, N = P!Counted(S, i, change)
  PROVE  Tallied(N)
<1>1. /\ SameChains(S, N) /\ N.statements = S.statements /\ N.count = S.count + change
      /\ \A r \in 1..Len(S.records) :
           N.records[r].sc = S.records[r].sc + Share(i, r, change)
  BY CountedIs
<1>2. Live(N) = Live(S) /\ (\A r : LiveOf(N, r) = LiveOf(S, r)) /\ Len(N.records) = Len(S.records)
  BY <1>1 DEF Live, LiveOf, SameChains
<1> QED  BY <1>1, <1>2 DEF Tallied, OffBy

\* N has one statement more that is not deleted.
OneMore(S, N, f) ==
  /\ Live(N) = Live(S) \cup {f} /\ f \notin Live(S)
  /\ \A id \in Live(S) : N.statements[id].s = S.statements[id].s

LEMMA LiveMore ==
  ASSUME NEW S, NEW N, NEW f, Len(S.statements) \in Nat, OneMore(S, N, f)
  PROVE  /\ Cardinality(Live(N)) = Cardinality(Live(S)) + 1
         /\ \A r : Cardinality(LiveOf(N, r)) =
                     Cardinality(LiveOf(S, r)) + IF N.statements[f].s = r THEN 1 ELSE 0
<1>1. /\ IsFiniteSet(Live(S)) /\ Cardinality(Live(S)) \in Nat
      /\ \A r : IsFiniteSet(LiveOf(S, r)) /\ Cardinality(LiveOf(S, r)) \in Nat
  BY LiveFinite
<1>2. Cardinality(Live(N)) = Cardinality(Live(S)) + 1
  BY <1>1, FS_AddElement DEF OneMore
<1>3. ASSUME NEW r
      PROVE  Cardinality(LiveOf(N, r)) =
               Cardinality(LiveOf(S, r)) + IF N.statements[f].s = r THEN 1 ELSE 0
  <2>1. CASE N.statements[f].s = r
    <3>1. LiveOf(N, r) = LiveOf(S, r) \cup {f} /\ f \notin LiveOf(S, r)
      BY <2>1 DEF OneMore, LiveOf
    <3>2. IsFiniteSet(LiveOf(S, r))
      BY <1>1
    <3>3. Cardinality(LiveOf(S, r) \cup {f}) = Cardinality(LiveOf(S, r)) + 1
      BY <3>1, <3>2, FS_AddElement
    <3> QED  BY <2>1, <3>1, <3>3
  <2>2. CASE N.statements[f].s # r
    <3>1. LiveOf(N, r) = LiveOf(S, r)
      BY <2>2 DEF OneMore, LiveOf
    <3> QED  BY <1>1, <2>2, <3>1
  <2> QED  BY <2>1, <2>2
<1> QED  BY <1>2, <1>3

\* A statement of the nodes i that has come, or gone, without being counted.
LEMMA CameUncounted ==
  ASSUME NEW S, NEW N, NEW f, NEW i, Len(S.statements) \in Nat, Tallied(S), OneMore(S, N, f),
         N.statements[f].s = i[1], N.count = S.count, Len(N.records) = Len(S.records),
         \A r \in 1..Len(S.records) : N.records[r].sc = S.records[r].sc
  PROVE  OffBy(N, i, 1)
<1>1. /\ Cardinality(Live(N)) = Cardinality(Live(S)) + 1
      /\ \A r : Cardinality(LiveOf(N, r)) = Cardinality(LiveOf(S, r)) + Share(i, r, 1)
  BY LiveMore DEF Share
<1> QED  BY <1>1 DEF OffBy, Tallied

LEMMA WentUncounted ==
  ASSUME NEW S, NEW N, NEW f, NEW i, Len(N.statements) \in Nat, Tallied(S), OneMore(N, S, f),
         S.statements[f].s = i[1], N.count = S.count, Len(N.records) = Len(S.records),
         \A r \in 1..Len(S.records) : N.records[r].sc = S.records[r].sc
  PROVE  OffBy(N, i, -1)
<1>1. /\ Cardinality(Live(S)) = Cardinality(Live(N)) + 1
      /\ \A r : Cardinality(LiveOf(S, r)) = Cardinality(LiveOf(N, r)) + IF i[1] = r THEN 1 ELSE 0
  BY LiveMore
<1>2. Cardinality(Live(N)) \in Nat /\ \A r : Cardinality(LiveOf(N, r)) \in Nat
  BY LiveFinite
<1>3. S.count + (-1) = Cardinality(Live(N))
  BY <1>1, <1>2 DEF Tallied
<1>4. ASSUME NEW r \in 1..Len(S.records)
      PROVE  S.records[r].sc + Share(i, r, -1) = Cardinality(LiveOf(N, r))
  <2>1. S.records[r].sc = Cardinality(LiveOf(N, r)) + IF i[1] = r THEN 1 ELSE 0
    BY <1>1 DEF Tallied
  <2> QED  BY <1>2, <2>1 DEF Share
<1> QED  BY <1>3, <1>4 DEF OffBy

\* A mark on a statement that changes is counted.
LEMMA MarkTallies ==
  ASSUME NEW S, ParliamentOK(S), Tallied(S), NEW x \in Term3, P!FindStatement(S, x) # 0,
         NEW b \in BOOLEAN, S.statements[P!FindStatement(S, x)].deleted # b,
         NEW N, N = Remarked(S, x, b, IF b THEN -1 ELSE 1)
  PROVE  Tallied(N)
<1>1. PICK f, i, U :
        /\ f = P!FindStatement(S, x) /\ i = P!Ids(S, x) /\ U = Marked(S, f, b)
        /\ N = P!Counted(U, i, IF b THEN -1 ELSE 1)
  BY DEF Remarked
<1>2. S \in TablesType /\ Tables(S) /\ Chained(S)
  BY DEF ParliamentOK, Tables, TablesType
<1>3. Len(S.statements) \in Nat /\ DOMAIN S.statements = 1..Len(S.statements)
  BY <1>2, TablesAre
<1>4. f \in 1..Len(S.statements) /\ S.statements[f].s = i[1]
  <2>1. f \in 0..Len(S.statements) /\ (f # 0 => Says(S, f, i))
    BY <1>1, <1>2, StatementFound
  <2> QED  BY <1>1, <1>3, <2>1 DEF Says
<1>5. /\ U \in TablesType /\ SameChains(S, U) /\ U.records = S.records /\ U.count = S.count
      /\ \A id \in 1..Len(S.statements) :
           U.statements[id].deleted = IF id = f THEN b ELSE S.statements[id].deleted
  BY <1>1, <1>2, <1>3, <1>4, MarkedIs, SMTT(60)
<1>6. /\ Len(U.statements) = Len(S.statements)
      /\ \A id \in 1..Len(S.statements) : U.statements[id].s = S.statements[id].s
  BY <1>5 DEF SameChains
<1>7. S.statements[f].deleted \in BOOLEAN /\ S.statements[f].deleted # b
  BY <1>1, <1>2, <1>4, TablesAre DEF Statement
<1>8. CASE b
  <2>1. OneMore(U, S, f)
    BY <1>4, <1>5, <1>6, <1>7, <1>8 DEF OneMore, Live
  <2>2. OffBy(U, i, -1)
    BY <1>3, <1>4, <1>5, <1>6, <2>1, WentUncounted
  <2>3. N = P!Counted(U, i, -1)
    BY <1>1, <1>8
  <2> QED  BY <1>5, <2>2, <2>3, CountedTallies
<1>9. CASE ~b
  <2>1. OneMore(S, U, f)
    BY <1>4, <1>5, <1>6, <1>7, <1>9 DEF OneMore, Live
  <2>2. OffBy(U, i, 1)
    BY <1>3, <1>4, <1>5, <1>6, <2>1, CameUncounted
  <2>3. N = P!Counted(U, i, 1)
    BY <1>1, <1>9
  <2> QED  BY <1>5, <2>2, <2>3, CountedTallies
<1> QED  BY <1>8, <1>9

-----------------------------------------------------------------------------
(* Nodes and statements that are put into the tables.                      *)

\* N has the statements of S, its nodes, and more of them.
Grown(S, N) ==
  /\ N.statements = S.statements
  /\ Len(S.records) <= Len(N.records)
  /\ \A r \in 1..Len(S.records) : N.records[r] = S.records[r]

LEMMA NewRecord ==
  ASSUME NEW S \in TablesType, NEW r \in Record, NEW N, N = [S EXCEPT !.records = Append(@, r)]
  PROVE  /\ N \in TablesType /\ N.statements = S.statements /\ N.count = S.count
         /\ Len(N.records) = Len(S.records) + 1 /\ N.records[Len(N.records)] = r
         /\ \A id \in 1..Len(S.records) : N.records[id] = S.records[id]
<1>1. N = [records |-> Append(S.records, r), statements |-> S.statements, count |-> S.count]
  BY DEF TablesType
<1>2. S.statements \in Seq(Statement) /\ S.records \in Seq(Record) /\ S.count \in Int
  BY DEF TablesType
<1>3. Append(S.records, r) \in Seq(Record) /\ Len(Append(S.records, r)) = Len(S.records) + 1
      /\ Append(S.records, r)[Len(S.records) + 1] = r
      /\ \A id \in 1..Len(S.records) : Append(S.records, r)[id] = S.records[id]
  BY <1>2, AppendProperties
<1> QED  BY <1>1, <1>2, <1>3 DEF TablesType

HasNode(S, n) == \E id \in 1..Len(S.records) : S.records[id].value = n

LEMMA AddNodeIs ==
  ASSUME NEW S, ParliamentOK(S), NEW n \in Terms, NEW N, N = P!AddNode(S, n)
  PROVE  ParliamentOK(N) /\ Grown(S, N) /\ HasNode(N, n) /\ (Tallied(S) => Tallied(N))
<1>1. /\ Len(S.records) \in Nat /\ DOMAIN S.records = 1..Len(S.records)
      /\ Len(S.statements) \in Nat /\ n \in Nat
      /\ S \in TablesType /\ Tables(S) /\ Chained(S) /\ ChainedObjects(S) /\ NoDoubles(S)
  BY TablesAre, StoresAssumption DEF ParliamentOK, Tables, TablesType
<1>2. CASE P!Node2Id(S, n) # 0
  <2>1. N = S
    BY <1>2 DEF P!AddNode
  <2>2. \E id \in 1..Len(S.records) : S.records[id].value = n
    BY <1>1, <1>2, NodeHasId
  <2> QED  BY <1>1, <2>1, <2>2 DEF Grown, HasNode
<1>3. CASE P!Node2Id(S, n) = 0
  <2>1. PICK r : r = [value |-> n, fs |-> 0, fp |-> 0, fo |-> 0, sc |-> 0, pc |-> 0, oc |-> 0]
    OBVIOUS
  <2>2. r \in Record /\ r.value = n /\ r.fs = 0 /\ r.fo = 0 /\ r.sc = 0
    BY <2>1 DEF Record
  <2>3. N = [S EXCEPT !.records = Append(@, r)]
    BY <1>3, <2>1 DEF P!AddNode
  <2>4. /\ N \in TablesType /\ N.statements = S.statements /\ N.count = S.count
        /\ Len(N.records) = Len(S.records) + 1 /\ N.records[Len(N.records)] = r
        /\ \A id \in 1..Len(S.records) : N.records[id] = S.records[id]
    BY <1>1, <2>2, <2>3, NewRecord
  <2>5. DOMAIN N.records = 1..Len(N.records)
    BY <2>4 DEF TablesType
  <2>6. \A id \in 1..Len(N.records) : id \in 1..Len(S.records) \/ id = Len(N.records)
    BY <1>1, <2>4
  <2>7. \A id \in 1..Len(S.records) : S.records[id].value # n
    BY <1>1, <1>3, NodeHasId
  <2>8. Tables(N)
    <3> SUFFICES ASSUME NEW a \in 1..Len(N.records), NEW b \in 1..Len(N.records),
                        N.records[a].value = N.records[b].value
                 PROVE  a = b
      BY <2>4, <2>5 DEF Tables, TablesType
    <3> QED  BY <1>1, <2>2, <2>4, <2>6, <2>7, SMTT(60) DEF Tables
  <2>9. \A subject, before, id : Previous(S, subject, before, id) => Previous(N, subject, before, id)
    BY <2>4 DEF Previous
  <2>10. Chained(N)
    <3>1. ASSUME NEW id \in 1..Len(S.statements)
          PROVE  /\ {S.statements[id].s, S.statements[id].p, S.statements[id].o} \subseteq DOMAIN N.records
                 /\ Previous(N, S.statements[id].s, id, S.statements[id].ns)
      <4>1. /\ {S.statements[id].s, S.statements[id].p, S.statements[id].o} \subseteq 1..Len(S.records)
            /\ Previous(S, S.statements[id].s, id, S.statements[id].ns)
        BY <1>1 DEF Chained
      <4>2. 1..Len(S.records) \subseteq DOMAIN N.records
        BY <1>1, <2>4, <2>5
      <4> QED  BY <2>9, <4>1, <4>2
    <3>2. ASSUME NEW id \in 1..Len(N.records)
          PROVE  Previous(N, id, Len(S.statements) + 1, N.records[id].fs)
      <4>1. CASE id \in 1..Len(S.records)
        BY <1>1, <2>4, <2>9, <4>1 DEF Chained
      <4>2. CASE id = Len(N.records)
        <5>1. \A k \in 1..Len(S.statements) : S.statements[k].s # id
          BY <1>1, <2>4, <4>2 DEF Chained
        <5> QED  BY <1>1, <2>2, <2>4, <4>2, <5>1, SMTT(60) DEF Previous
      <4> QED  BY <2>6, <4>1, <4>2
    <3> QED  BY <2>4, <2>5, <3>1, <3>2 DEF Chained
  <2>11. NoDoubles(N)
    BY <1>1, <2>4 DEF NoDoubles
  <2>12. Grown(S, N) /\ HasNode(N, n)
    BY <1>1, <2>2, <2>4 DEF Grown, HasNode
  <2>13. \A object, before, id :
           PreviousObject(S, object, before, id) => PreviousObject(N, object, before, id)
    BY <2>4 DEF PreviousObject
  <2>14. ChainedObjects(N)
    <3>1. \A id \in 1..Len(S.statements) :
            PreviousObject(N, S.statements[id].o, id, S.statements[id].no)
      BY <1>1, <2>13 DEF ChainedObjects
    <3>2. ASSUME NEW id \in 1..Len(N.records)
          PROVE  PreviousObject(N, id, Len(S.statements) + 1, N.records[id].fo)
      <4>1. CASE id \in 1..Len(S.records)
        BY <1>1, <2>4, <2>13, <4>1 DEF ChainedObjects
      <4>2. CASE id = Len(N.records)
        <5>1. \A k \in 1..Len(S.statements) : S.statements[k].o # id
          BY <1>1, <2>4, <4>2 DEF Chained
        <5> QED  BY <1>1, <2>2, <2>4, <4>2, <5>1, SMTT(60) DEF PreviousObject
      <4> QED  BY <2>6, <4>1, <4>2
    <3> QED  BY <2>4, <2>5, <3>1, <3>2 DEF ChainedObjects
  <2>15. ASSUME Tallied(S) PROVE Tallied(N)
    <3>1. Live(N) = Live(S) /\ \A id : LiveOf(N, id) = LiveOf(S, id)
      BY <2>4 DEF Live, LiveOf
    <3>2. LiveOf(S, Len(N.records)) = {}
      <4>1. \A k \in 1..Len(S.statements) : S.statements[k].s # Len(N.records)
        BY <1>1, <2>4 DEF Chained
      <4> QED  BY <4>1 DEF Live, LiveOf
    <3>3. Cardinality(LiveOf(S, Len(N.records))) = 0
      BY <3>2, FS_EmptySet
    <3> QED  BY <2>2, <2>4, <2>6, <2>15, <3>1, <3>3, SMTT(60) DEF Tallied
  <2> QED  BY <2>8, <2>10, <2>11, <2>12, <2>14, <2>15 DEF ParliamentOK
<1> QED  BY <1>2, <1>3

LEMMA GrownTwice ==
  ASSUME NEW S, NEW N, NEW U, Len(S.records) \in Nat, Len(N.records) \in Nat,
         Len(U.records) \in Nat, Grown(S, N), Grown(N, U)
  PROVE  Grown(S, U)
BY DEF Grown

LEMMA GrownHas ==
  ASSUME NEW S, NEW N, ParliamentOK(S), ParliamentOK(N), Grown(S, N)
  PROVE  /\ \A id \in 1..Len(S.statements) : NodesOf(N, id) = NodesOf(S, id)
         /\ P!Content(N) = P!Content(S)
<1>1. /\ Len(S.records) \in Nat /\ DOMAIN S.records = 1..Len(S.records)
      /\ Tables(S) /\ Chained(S) /\ Tables(N)
  BY TablesAre, SMTT(60) DEF ParliamentOK
<1>2. ASSUME NEW id \in 1..Len(S.statements) PROVE NodesOf(N, id) = NodesOf(S, id)
  <2>1. PICK q : q = S.statements[id]
    OBVIOUS
  <2>2. q.s \in 1..Len(S.records) /\ q.p \in 1..Len(S.records) /\ q.o \in 1..Len(S.records)
    BY <1>1, <2>1 DEF Chained
  <2>3. \A k \in 1..3 : <<q.s, q.p, q.o>>[k] \in 1..Len(S.records)
    BY <2>2
  <2>4. \A k \in 1..3 : N.records[<<q.s, q.p, q.o>>[k]] = S.records[<<q.s, q.p, q.o>>[k]]
    BY <2>3 DEF Grown
  <2>5. N.statements[id] = q
    BY <2>1 DEF Grown
  <2> QED  BY <2>1, <2>4, <2>5 DEF NodesOf
<1>3. N.statements = S.statements
  BY DEF Grown
<1>4. ASSUME NEW y PROVE y \in P!Content(N) <=> y \in P!Content(S)
  <2>1. y \in P!Content(N) <=>
          \E id \in 1..Len(S.statements) : ~S.statements[id].deleted /\ y = NodesOf(N, id)
    BY <1>1, <1>3, ContentIs
  <2>2. y \in P!Content(S) <=>
          \E id \in 1..Len(S.statements) : ~S.statements[id].deleted /\ y = NodesOf(S, id)
    BY <1>1, ContentIs
  <2> QED  BY <1>2, <2>1, <2>2
<1> QED  BY <1>2, <1>4

LEMMA AddNodesIs ==
  ASSUME NEW S, ParliamentOK(S), NEW x \in Term3, NEW N, N = P!AddNodes(S, x)
  PROVE  /\ ParliamentOK(N) /\ Grown(S, N)
         /\ \A k \in 1..3 : P!Ids(N, x)[k] \in 1..Len(N.records)
         /\ Tallied(S) => Tallied(N)
<1>1. PICK l \in Terms, m \in Terms, n \in Terms : l = x[1] /\ m = x[2] /\ n = x[3]
  BY DEF Term3
<1>2. PICK U, V : U = P!AddNode(S, l) /\ V = P!AddNode(U, m) /\ N = P!AddNode(V, n)
  BY <1>1 DEF P!AddNodes
<1>3. ParliamentOK(U) /\ Grown(S, U) /\ HasNode(U, l) /\ (Tallied(S) => Tallied(U))
  BY <1>2, AddNodeIs
<1>4. ParliamentOK(V) /\ Grown(U, V) /\ HasNode(V, m) /\ (Tallied(U) => Tallied(V))
  BY <1>2, <1>3, AddNodeIs
<1>5. ParliamentOK(N) /\ Grown(V, N) /\ HasNode(N, n) /\ (Tallied(V) => Tallied(N))
  BY <1>2, <1>4, AddNodeIs
<1>6. Len(S.records) \in Nat /\ Len(U.records) \in Nat /\ Len(V.records) \in Nat /\ Len(N.records) \in Nat
  BY <1>3, <1>4, <1>5, TablesAre DEF ParliamentOK
<1>7. Grown(U, N)
  BY <1>4, <1>5, <1>6, GrownTwice
<1>8. Grown(S, N)
  BY <1>3, <1>6, <1>7, GrownTwice
<1>9. \A k \in 1..3 : \E id \in 1..Len(N.records) : N.records[id].value = x[k]
  <2>1. \E id \in 1..Len(N.records) : N.records[id].value = x[1]
    BY <1>1, <1>3, <1>6, <1>7, SMTT(60) DEF Grown, HasNode
  <2>2. \E id \in 1..Len(N.records) : N.records[id].value = x[2]
    BY <1>1, <1>4, <1>5, <1>6, SMTT(60) DEF Grown, HasNode
  <2> QED  BY <1>1, <1>5, <2>1, <2>2 DEF HasNode
<1>10. ASSUME NEW k \in 1..3 PROVE P!Ids(N, x)[k] \in 1..Len(N.records)
  <2>1. PICK id \in 1..Len(N.records) : N.records[id].value = x[k]
    BY <1>9
  <2>2. Tables(N)
    BY <1>5 DEF ParliamentOK
  <2>3. x[k] \in Nat /\ P!Ids(N, x)[k] = P!Node2Id(N, x[k])
    BY <2>2, IdsAre
  <2>4. P!Node2Id(N, x[k]) = id
    BY <2>1, <2>2, <2>3, NodeHasId
  <2> QED  BY <2>3, <2>4
<1> QED  BY <1>3, <1>4, <1>5, <1>8, <1>10

\* The nodes i have records.
Recorded(S, i) == \A k \in 1..3 : i[k] \in 1..Len(S.records)

\* A statement becomes the first of its chains.
LEMMA LinkedIs ==
  ASSUME NEW S \in TablesType, NEW i, NEW id \in Nat, NEW N, N = P!Linked(S, i, id),
         Recorded(S, i)
  PROVE  /\ N \in TablesType /\ N.statements = S.statements /\ Len(N.records) = Len(S.records)
         /\ N.count = S.count
         /\ \A r \in 1..Len(S.records) :
              /\ N.records[r].value = S.records[r].value /\ N.records[r].sc = S.records[r].sc
              /\ N.records[r].fs = IF r = i[1] THEN id ELSE S.records[r].fs
              /\ N.records[r].fo = IF r = i[3] THEN id ELSE S.records[r].fo
<1>1. S.records \in Seq(Record) /\ DOMAIN S.records = 1..Len(S.records) /\ Len(S.records) \in Nat
      /\ S.statements \in Seq(Statement) /\ S.count \in Int
  BY DEF TablesType
<1>2. PICK A : A = [S.records EXCEPT ![i[1]].fs = id]
  OBVIOUS
<1>3. PICK B : B = [A EXCEPT ![i[2]].fp = id]
  OBVIOUS
<1>4. PICK C : C = [B EXCEPT ![i[3]].fo = id]
  OBVIOUS
<1>5. N = [records |-> C, statements |-> S.statements, count |-> S.count]
  <2>1. N = [S EXCEPT !.records = C]
    BY <1>2, <1>3, <1>4, ZenonT(60) DEF P!Linked, TablesType
  <2> QED  BY <2>1 DEF TablesType
<1>6. /\ \A r \in 1..Len(S.records) : S.records[r] \in Record
      /\ i[1] \in 1..Len(S.records) /\ i[2] \in 1..Len(S.records) /\ i[3] \in 1..Len(S.records)
  BY <1>1 DEF Recorded
<1>7. /\ DOMAIN A = 1..Len(S.records)
      /\ \A r \in 1..Len(S.records) :
           A[r] = IF r = i[1] THEN [S.records[r] EXCEPT !.fs = id] ELSE S.records[r]
  BY <1>1, <1>2, <1>6
<1>8. /\ DOMAIN B = 1..Len(S.records)
      /\ \A r \in 1..Len(S.records) : B[r] = IF r = i[2] THEN [A[r] EXCEPT !.fp = id] ELSE A[r]
  BY <1>3, <1>6, <1>7
<1>9. /\ DOMAIN C = 1..Len(S.records)
      /\ \A r \in 1..Len(S.records) : C[r] = IF r = i[3] THEN [B[r] EXCEPT !.fo = id] ELSE B[r]
  BY <1>4, <1>6, <1>8
<1>10. ASSUME NEW r \in 1..Len(S.records)
       PROVE  /\ C[r] \in Record /\ C[r].value = S.records[r].value /\ C[r].sc = S.records[r].sc
              /\ C[r].fs = IF r = i[1] THEN id ELSE S.records[r].fs
              /\ C[r].fo = IF r = i[3] THEN id ELSE S.records[r].fo
  <2>1. PICK q \in Record : q = S.records[r]
    BY <1>6
  <2>2. /\ A[r] \in Record /\ A[r].value = q.value /\ A[r].fo = q.fo /\ A[r].sc = q.sc
        /\ A[r].fs = IF r = i[1] THEN id ELSE q.fs
    BY <1>7, <2>1 DEF Record
  <2>3. /\ B[r] \in Record /\ B[r].value = A[r].value /\ B[r].fs = A[r].fs
        /\ B[r].fo = A[r].fo /\ B[r].sc = A[r].sc
    BY <1>8, <2>2, ZenonT(60) DEF Record
  <2>4. /\ C[r] \in Record /\ C[r].value = B[r].value /\ C[r].fs = B[r].fs
        /\ C[r].fo = (IF r = i[3] THEN id ELSE B[r].fo) /\ C[r].sc = B[r].sc
    BY <1>9, <2>3, ZenonT(60) DEF Record
  <2> QED  BY <2>1, <2>2, <2>3, <2>4
<1>11. C \in Seq(Record) /\ Len(C) = Len(S.records)
  <2>1. C = [r \in 1..Len(S.records) |-> C[r]]
    BY <1>4, <1>8, <1>9
  <2>2. C \in [1..Len(S.records) -> Record]
    BY <1>10, <2>1
  <2> QED  BY <1>1, <2>2
<1> QED  BY <1>1, <1>5, <1>10, <1>11 DEF TablesType

LEMMA NewStatement ==
  ASSUME NEW S \in TablesType, NEW q \in Statement,
         NEW N, N = [S EXCEPT !.statements = Append(@, q)]
  PROVE  /\ N \in TablesType /\ N.records = S.records /\ N.count = S.count
         /\ Len(N.statements) = Len(S.statements) + 1 /\ N.statements[Len(N.statements)] = q
         /\ \A id \in 1..Len(S.statements) : N.statements[id] = S.statements[id]
<1>1. N = [records |-> S.records, statements |-> Append(S.statements, q), count |-> S.count]
  BY DEF TablesType
<1>2. S.statements \in Seq(Statement) /\ S.records \in Seq(Record) /\ S.count \in Int
  BY DEF TablesType
<1>3. Append(S.statements, q) \in Seq(Statement)
      /\ Len(Append(S.statements, q)) = Len(S.statements) + 1
      /\ Append(S.statements, q)[Len(S.statements) + 1] = q
      /\ \A id \in 1..Len(S.statements) : Append(S.statements, q)[id] = S.statements[id]
  BY <1>2, AppendProperties
<1> QED  BY <1>1, <1>2, <1>3 DEF TablesType

\* N is S with a statement of the nodes i, which is the first of its chains.
Appended(S, N, i) ==
  /\ Len(N.records) = Len(S.records) /\ Len(N.statements) = Len(S.statements) + 1
  /\ \A r \in 1..Len(S.records) :
       /\ N.records[r].value = S.records[r].value
       /\ N.records[r].fs = IF r = i[1] THEN Len(S.statements) + 1 ELSE S.records[r].fs
       /\ N.records[r].fo = IF r = i[3] THEN Len(S.statements) + 1 ELSE S.records[r].fo
  /\ \A id \in 1..Len(S.statements) : N.statements[id] = S.statements[id]
  /\ Says(N, Len(S.statements) + 1, i) /\ ~N.statements[Len(S.statements) + 1].deleted
  /\ N.statements[Len(S.statements) + 1].ns = S.records[i[1]].fs
  /\ N.statements[Len(S.statements) + 1].no = S.records[i[3]].fo

LEMMA AppendedOK ==
  ASSUME NEW S, ParliamentOK(S), NEW i, NEW N \in TablesType, Appended(S, N, i),
         \A k \in 1..3 : i[k] \in 1..Len(S.records),
         \A id \in 1..Len(S.statements) : ~Says(S, id, i)
  PROVE  ParliamentOK(N)
<1>1. /\ Len(S.records) \in Nat /\ DOMAIN S.records = 1..Len(S.records)
      /\ Len(S.statements) \in Nat /\ Tables(S) /\ Chained(S) /\ ChainedObjects(S) /\ NoDoubles(S)
  BY TablesAre DEF ParliamentOK
<1>2. PICK last \in Nat : last = Len(S.statements) + 1
  BY <1>1
<1>3. /\ DOMAIN N.records = 1..Len(S.records) /\ Len(N.statements) = last
      /\ \A id \in 1..last : id \in 1..last - 1 \/ id = last
      /\ last - 1 = Len(S.statements) /\ last \in 1..last
  BY <1>1, <1>2 DEF Appended, TablesType
<1>4. PICK q : q = N.statements[last]
  OBVIOUS
<1>5. /\ q.s = i[1] /\ q.p = i[2] /\ q.o = i[3] /\ q.ns = S.records[i[1]].fs
      /\ q.no = S.records[i[3]].fo
  BY <1>2, <1>4 DEF Appended, Says
<1>6. i[1] \in 1..Len(S.records) /\ i[2] \in 1..Len(S.records) /\ i[3] \in 1..Len(S.records)
  OBVIOUS
<1>7. Tables(N)
  BY <1>1, <1>3 DEF Tables, TablesType, Appended
<1>8. ASSUME NEW subject, NEW before \in 1..last, NEW id, Previous(S, subject, before, id)
      PROVE  Previous(N, subject, before, id)
  <2>1. id \in 0..before - 1 /\ (id # 0 => id \in 1..last - 1)
        /\ \A k \in id + 1..before - 1 : k \in 1..last - 1
    BY <1>8 DEF Previous
  <2>2. \A k \in 1..last - 1 : N.statements[k] = S.statements[k]
    BY <1>3 DEF Appended
  <2> QED  BY <1>8, <2>1, <2>2 DEF Previous
<1>9. Chained(N)
  <2>1. ASSUME NEW id \in 1..last
        PROVE  /\ {N.statements[id].s, N.statements[id].p, N.statements[id].o} \subseteq DOMAIN N.records
               /\ Previous(N, N.statements[id].s, id, N.statements[id].ns)
    <3>1. CASE id \in 1..last - 1
      <4>1. N.statements[id] = S.statements[id]
        BY <1>3, <3>1 DEF Appended
      <4>2. /\ {S.statements[id].s, S.statements[id].p, S.statements[id].o} \subseteq DOMAIN S.records
            /\ Previous(S, S.statements[id].s, id, S.statements[id].ns)
        BY <1>1, <1>3, <3>1 DEF Chained
      <4> QED  BY <1>1, <1>3, <1>8, <4>1, <4>2
    <3>2. CASE id = last
      <4>1. Previous(S, i[1], last, S.records[i[1]].fs)
        BY <1>1, <1>2, <1>6 DEF Chained
      <4>2. Previous(N, i[1], last, S.records[i[1]].fs)
        BY <1>3, <1>8, <4>1
      <4> QED  BY <1>3, <1>4, <1>5, <1>6, <3>2, <4>2
    <3> QED  BY <1>3, <3>1, <3>2
  <2>2. ASSUME NEW r \in 1..Len(S.records) PROVE Previous(N, r, last + 1, N.records[r].fs)
    <3>1. CASE r = i[1]
      <4>1. N.records[r].fs = last
        BY <1>2, <3>1 DEF Appended
      <4>2. last \in 0..(last + 1) - 1 /\ last + 1..(last + 1) - 1 = {}
        OBVIOUS
      <4> QED  BY <1>4, <1>5, <3>1, <4>1, <4>2 DEF Previous
    <3>2. CASE r # i[1]
      <4>1. PICK fs : fs = S.records[r].fs
        OBVIOUS
      <4>2. N.records[r].fs = fs
        BY <3>2, <4>1 DEF Appended
      <4>3. Previous(S, r, last, fs)
        BY <1>1, <1>2, <4>1 DEF Chained
      <4>4. Previous(N, r, last, fs)
        BY <1>3, <1>8, <4>3
      <4>5. \A k \in fs + 1..(last + 1) - 1 : k \in fs + 1..last - 1 \/ k = last
        BY <4>3 DEF Previous
      <4> QED  BY <1>4, <1>5, <3>2, <4>2, <4>4, <4>5 DEF Previous
    <3> QED  BY <3>1, <3>2
  <2> QED  BY <1>3, <2>1, <2>2 DEF Chained
<1>10. NoDoubles(N)
  <2>1. \A id \in 1..last - 1 : N.statements[id] = S.statements[id]
    BY <1>3 DEF Appended
  <2>2. \A id \in 1..last - 1 : ~(S.statements[id].s = q.s /\ S.statements[id].p = q.p
                                  /\ S.statements[id].o = q.o)
    BY <1>3, <1>5 DEF Says
  <2>3. SUFFICES ASSUME NEW a \in 1..last, NEW b \in 1..last,
                        N.statements[a].s = N.statements[b].s,
                        N.statements[a].p = N.statements[b].p,
                        N.statements[a].o = N.statements[b].o
                 PROVE  a = b
    BY <1>3 DEF NoDoubles
  <2>4. CASE a = last
    BY <1>3, <1>4, <2>1, <2>2, <2>3, <2>4
  <2>5. CASE b = last
    BY <1>3, <1>4, <2>1, <2>2, <2>3, <2>5
  <2>6. CASE a \in 1..last - 1 /\ b \in 1..last - 1
    <3>1. N.statements[a] = S.statements[a] /\ N.statements[b] = S.statements[b]
      BY <2>1, <2>6
    <3> QED  BY <1>1, <1>3, <2>3, <2>6, <3>1 DEF NoDoubles
  <2> QED  BY <1>3, <2>4, <2>5, <2>6
<1>11. ASSUME NEW object, NEW before \in 1..last, NEW id, PreviousObject(S, object, before, id)
       PROVE  PreviousObject(N, object, before, id)
  <2>1. id \in 0..before - 1 /\ (id # 0 => id \in 1..last - 1)
        /\ \A k \in id + 1..before - 1 : k \in 1..last - 1
    BY <1>11 DEF PreviousObject
  <2>2. \A k \in 1..last - 1 : N.statements[k] = S.statements[k]
    BY <1>3 DEF Appended
  <2> QED  BY <1>11, <2>1, <2>2 DEF PreviousObject
<1>12. ChainedObjects(N)
  <2>1. ASSUME NEW id \in 1..last
        PROVE  PreviousObject(N, N.statements[id].o, id, N.statements[id].no)
    <3>1. CASE id \in 1..last - 1
      <4>1. N.statements[id] = S.statements[id]
        BY <1>3, <3>1 DEF Appended
      <4>2. PreviousObject(S, S.statements[id].o, id, S.statements[id].no)
        BY <1>1, <1>3, <3>1 DEF ChainedObjects
      <4> QED  BY <1>11, <4>1, <4>2
    <3>2. CASE id = last
      <4>1. PreviousObject(S, i[3], last, S.records[i[3]].fo)
        BY <1>1, <1>2, <1>6 DEF ChainedObjects
      <4>2. PreviousObject(N, i[3], last, S.records[i[3]].fo)
        BY <1>3, <1>11, <4>1
      <4> QED  BY <1>4, <1>5, <3>2, <4>2
    <3> QED  BY <1>3, <3>1, <3>2
  <2>2. ASSUME NEW r \in 1..Len(S.records) PROVE PreviousObject(N, r, last + 1, N.records[r].fo)
    <3>1. CASE r = i[3]
      <4>1. N.records[r].fo = last
        BY <1>2, <3>1 DEF Appended
      <4>2. last \in 0..(last + 1) - 1 /\ last + 1..(last + 1) - 1 = {}
        OBVIOUS
      <4> QED  BY <1>4, <1>5, <3>1, <4>1, <4>2 DEF PreviousObject
    <3>2. CASE r # i[3]
      <4>1. PICK fo : fo = S.records[r].fo
        OBVIOUS
      <4>2. N.records[r].fo = fo
        BY <3>2, <4>1 DEF Appended
      <4>3. PreviousObject(S, r, last, fo)
        BY <1>1, <1>2, <4>1 DEF ChainedObjects
      <4>4. PreviousObject(N, r, last, fo)
        BY <1>3, <1>11, <4>3
      <4>5. \A k \in fo + 1..(last + 1) - 1 : k \in fo + 1..last - 1 \/ k = last
        BY <4>3 DEF PreviousObject
      <4> QED  BY <1>4, <1>5, <3>2, <4>2, <4>4, <4>5 DEF PreviousObject
    <3> QED  BY <3>1, <3>2
  <2> QED  BY <1>3, <2>1, <2>2 DEF ChainedObjects
<1> QED  BY <1>7, <1>9, <1>10, <1>12 DEF ParliamentOK

\* AppendStatement, when all nodes have a record, and no statement has them all.
LEMMA AppendIs ==
  ASSUME NEW S, ParliamentOK(S), NEW x \in Term3, NEW N, N = P!AppendStatement(S, x),
         \A k \in 1..3 : P!Ids(S, x)[k] \in 1..Len(S.records),
         \A id \in 1..Len(S.statements) : NodesOf(S, id) # x
  PROVE  /\ ParliamentOK(N) /\ P!Content(N) = P!Content(S) \cup {x}
         /\ Len(N.records) = Len(S.records) /\ Len(N.statements) = Len(S.statements) + 1
         /\ \A r \in 1..Len(S.records) : N.records[r].value = S.records[r].value
         /\ Tallied(S) => Tallied(N)
<1>1. PICK i : i = P!Ids(S, x)
  OBVIOUS
<1>2. /\ Len(S.records) \in Nat /\ DOMAIN S.records = 1..Len(S.records)
      /\ Len(S.statements) \in Nat /\ Tables(S) /\ Chained(S) /\ NoDoubles(S)
      /\ S \in TablesType
  BY TablesAre DEF ParliamentOK, Tables, TablesType
<1>3. i[1] \in 1..Len(S.records) /\ i[2] \in 1..Len(S.records) /\ i[3] \in 1..Len(S.records)
  BY <1>1
<1>4. PICK q : q = [s |-> i[1], p |-> i[2], o |-> i[3], ns |-> S.records[i[1]].fs,
                    np |-> S.records[i[2]].fp, no |-> S.records[i[3]].fo, deleted |-> FALSE]
  OBVIOUS
<1>5. q \in Statement
  <2>1. S.records[i[1]] \in Record /\ S.records[i[2]] \in Record /\ S.records[i[3]] \in Record
    BY <1>2, <1>3, TablesAre
  <2>2. S.records[i[1]].fs \in Nat /\ S.records[i[2]].fp \in Nat /\ S.records[i[3]].fo \in Nat
    BY <2>1 DEF Record
  <2> QED  BY <1>2, <1>3, <1>4, <2>2, SMTT(60) DEF Statement
<1>6. PICK A : A = [S EXCEPT !.statements = Append(@, q)]
  OBVIOUS
<1>7. /\ A \in TablesType /\ A.records = S.records /\ A.count = S.count
      /\ Len(A.statements) = Len(S.statements) + 1 /\ A.statements[Len(A.statements)] = q
      /\ \A id \in 1..Len(S.statements) : A.statements[id] = S.statements[id]
  BY <1>2, <1>5, <1>6, NewStatement, SMTT(60)
<1>8. PICK B : B = P!Linked(A, i, Len(A.statements))
  OBVIOUS
<1>9. /\ B \in TablesType /\ B.statements = A.statements /\ Len(B.records) = Len(S.records)
      /\ B.count = S.count
      /\ \A r \in 1..Len(S.records) :
           /\ B.records[r].value = S.records[r].value /\ B.records[r].sc = S.records[r].sc
           /\ B.records[r].fs = IF r = i[1] THEN Len(A.statements) ELSE S.records[r].fs
           /\ B.records[r].fo = IF r = i[3] THEN Len(A.statements) ELSE S.records[r].fo
  <2>1. Len(A.statements) \in Nat
    BY <1>2, <1>7
  <2>2. Recorded(A, i)
    BY <1>3, <1>7 DEF Recorded
  <2>3. /\ B \in TablesType /\ B.statements = A.statements /\ Len(B.records) = Len(A.records)
        /\ B.count = A.count
        /\ \A r \in 1..Len(A.records) :
             /\ B.records[r].value = A.records[r].value /\ B.records[r].sc = A.records[r].sc
             /\ B.records[r].fs = IF r = i[1] THEN Len(A.statements) ELSE A.records[r].fs
             /\ B.records[r].fo = IF r = i[3] THEN Len(A.statements) ELSE A.records[r].fo
    BY <1>7, <1>8, <2>1, <2>2, LinkedIs, SMTT(60)
  <2> QED  BY <1>7, <2>3
<1>10. Appended(S, B, i)
  <2>1. B.statements[Len(S.statements) + 1] = q
    BY <1>7, <1>9
  <2>2. /\ q.s = i[1] /\ q.p = i[2] /\ q.o = i[3] /\ q.ns = S.records[i[1]].fs
        /\ q.no = S.records[i[3]].fo /\ ~q.deleted
    BY <1>4
  <2>3. Len(B.statements) = Len(S.statements) + 1
    BY <1>7, <1>9
  <2> QED  BY <1>7, <1>9, <2>1, <2>2, <2>3 DEF Appended, Says
<1>11. \A id \in 1..Len(S.statements) : ~Says(S, id, i)
  BY <1>1, <1>2, SaysIs
<1>12. ParliamentOK(B)
  BY <1>1, <1>9, <1>10, <1>11, AppendedOK
<1>13. N = P!Counted(B, i, 1)
  BY <1>1, <1>4, <1>6, <1>8 DEF P!AppendStatement
<1>14. N \in TablesType /\ SameChains(B, N) /\ N.statements = B.statements
  BY <1>9, <1>13, CountedIs
<1>15. ParliamentOK(N) /\ \A id \in 1..Len(B.statements) : NodesOf(N, id) = NodesOf(B, id)
  BY <1>12, <1>14, StaysOK
<1>16. /\ Len(N.records) = Len(S.records) /\ Len(N.statements) = Len(S.statements) + 1
       /\ \A r \in 1..Len(S.records) : N.records[r].value = S.records[r].value
  BY <1>7, <1>9, <1>14, SMTT(60) DEF SameChains
<1>17. ASSUME NEW id \in 1..Len(S.statements) PROVE NodesOf(B, id) = NodesOf(S, id)
  <2>1. PICK t : t = S.statements[id]
    OBVIOUS
  <2>2. t.s \in 1..Len(S.records) /\ t.p \in 1..Len(S.records) /\ t.o \in 1..Len(S.records)
    BY <1>2, <2>1 DEF Chained
  <2>3. \A k \in 1..3 : <<t.s, t.p, t.o>>[k] \in 1..Len(S.records)
    BY <2>2
  <2>4. \A k \in 1..3 : B.records[<<t.s, t.p, t.o>>[k]].value = S.records[<<t.s, t.p, t.o>>[k]].value
    BY <1>9, <2>3
  <2>5. B.statements[id] = t
    BY <1>7, <1>9, <2>1
  <2> QED  BY <2>1, <2>4, <2>5, Zenon DEF NodesOf
<1>18. PICK last \in Nat : last = Len(S.statements) + 1
  BY <1>2
<1>19. /\ Len(B.statements) = last /\ last \in 1..last /\ 1..last - 1 = 1..Len(S.statements)
       /\ \A id \in 1..last : id \in 1..last - 1 \/ id = last
       /\ \A id \in 1..last - 1 : id \in 1..last
  BY <1>2, <1>7, <1>9, <1>18
<1>20. NodesOf(B, last) = x
  <2>1. Says(B, last, i)
    BY <1>10, <1>18 DEF Appended
  <2>2. P!Ids(B, x) = P!Ids(S, x)
    <3>1. Tables(B)
      BY <1>12 DEF ParliamentOK
    <3>2. \A k \in 1..3 : x[k] \in Nat /\ P!Ids(S, x)[k] = P!Node2Id(S, x[k])
      BY <1>2, IdsAre
    <3>3. ASSUME NEW n \in Nat, P!Node2Id(S, n) \in 1..Len(S.records)
          PROVE  P!Node2Id(B, n) = P!Node2Id(S, n)
      <4>1. 0 \notin 1..Len(S.records)
        OBVIOUS
      <4>2. P!Node2Id(S, n) # 0
        BY <3>3, <4>1
      <4>3. S.records[P!Node2Id(S, n)].value = n
        BY <1>2, <4>2, NodeHasId
      <4>4. B.records[P!Node2Id(S, n)].value = n /\ P!Node2Id(S, n) \in 1..Len(B.records)
        BY <1>9, <3>3, <4>3
      <4> QED  BY <3>1, <4>4, NodeHasId
    <3>4. \A k \in 1..3 : P!Node2Id(B, x[k]) = P!Node2Id(S, x[k])
      BY <3>2, <3>3
    <3> QED  BY <3>4 DEF P!Ids
  <2> QED  BY <1>1, <1>12, <1>19, <2>1, <2>2, SaysIs DEF ParliamentOK
<1>21. ASSUME NEW y PROVE y \in P!Content(N) <=> y \in P!Content(S) \/ y = x
  <2>1. y \in P!Content(N) <=>
          \E id \in 1..last : ~B.statements[id].deleted /\ y = NodesOf(B, id)
    <3>1. y \in P!Content(N) <=>
            \E id \in 1..Len(N.statements) : ~N.statements[id].deleted /\ y = NodesOf(N, id)
      BY <1>15, ContentIs DEF ParliamentOK
    <3> QED  BY <1>14, <1>15, <1>19, <3>1
  <2>2. y \in P!Content(S) <=>
          \E id \in 1..last - 1 : ~S.statements[id].deleted /\ y = NodesOf(S, id)
    BY <1>2, <1>19, ContentIs
  <2>3. \A id \in 1..last - 1 :
          B.statements[id] = S.statements[id] /\ NodesOf(B, id) = NodesOf(S, id)
    BY <1>7, <1>9, <1>17, <1>19
  <2>4. ~B.statements[last].deleted
    BY <1>10, <1>18 DEF Appended
  <2> QED  BY <1>19, <1>20, <2>1, <2>2, <2>3, <2>4
<1>22. P!Content(N) = P!Content(S) \cup {x}
  BY <1>21
<1>23. ASSUME Tallied(S) PROVE Tallied(N)
  <2>1. B.statements[last] = q /\ q.s = i[1] /\ ~q.deleted
    BY <1>4, <1>7, <1>9, <1>18
  <2>2. \A id \in 1..last - 1 : B.statements[id] = S.statements[id]
    BY <1>7, <1>9, <1>19
  <2>3. OneMore(S, B, last)
    <3>1. last \notin 1..last - 1
      OBVIOUS
    <3> QED  BY <1>19, <2>1, <2>2, <3>1 DEF OneMore, Live
  <2>4. OffBy(B, i, 1)
    BY <1>2, <1>9, <1>23, <2>1, <2>3, CameUncounted, SMTT(60)
  <2> QED  BY <1>9, <1>13, <2>4, CountedTallies
<1> QED  BY <1>15, <1>16, <1>22, <1>23

\* What adding a triple leaves of the tables, if it does not end the process.
LEMMA AddTripleIs ==
  ASSUME NEW S, ParliamentOK(S), NEW x \in Term3,
         Len(S.records) <= MaxResources, Len(S.statements) <= MaxStatements,
         NEW N, P!AddTriple(S, x) = <<N>>
  PROVE  /\ ParliamentOK(N) /\ P!Content(N) = P!Content(S) \cup {x}
         /\ Len(N.records) <= MaxResources /\ Len(N.statements) <= MaxStatements
         /\ Len(S.records) <= Len(N.records)
         /\ \A r \in 1..Len(S.records) : N.records[r].value = S.records[r].value
         /\ Tallied(S) => Tallied(N)
<1>1. /\ Len(S.records) \in Nat /\ Len(S.statements) \in Nat
      /\ Tables(S) /\ Chained(S) /\ NoDoubles(S)
  BY TablesAre DEF ParliamentOK
<1>2. PICK f : f = P!FindStatement(S, x)
  OBVIOUS
<1>3. x \in P!Content(S) <=> f # 0 /\ ~S.statements[f].deleted
  BY <1>2, ContentHas
<1>4. f # 0 => f \in 1..Len(S.statements) /\ S.statements[f].deleted \in BOOLEAN
  <2>1. f \in 0..Len(S.statements)
    BY <1>1, <1>2, StatementFound
  <2>2. f # 0 => f \in 1..Len(S.statements)
    BY <1>1, <2>1
  <2> QED  BY <1>1, <2>2, TablesAre DEF Statement
<1>5. CASE f # 0 /\ ~S.statements[f].deleted
  <2>1. P!ContainsStatement(S, x) = 1
    BY <1>2, <1>5 DEF P!ContainsStatement
  <2>2. N = S
    BY <2>1 DEF P!AddTriple
  <2> QED  BY <1>1, <1>3, <1>5, <2>2
<1>6. CASE f # 0 /\ S.statements[f].deleted
  <2>1. P!ContainsStatement(S, x) = -1
    BY <1>2, <1>6 DEF P!ContainsStatement
  <2>2. N = Remarked(S, x, FALSE, 1)
    <3>1. P!AddTriple(S, x) =
            << P!Counted([S EXCEPT !.statements[P!FindStatement(S, x)].deleted = FALSE],
                         P!Ids(S, x), 1) >>
      BY <2>1 DEF P!AddTriple
    <3> QED  BY <3>1 DEF Remarked, Marked
  <2>3. /\ ParliamentOK(N) /\ SameChains(S, N) /\ P!Content(N) = P!Content(S) \cup {x}
    <3>1. PICK b \in BOOLEAN : b = FALSE
      OBVIOUS
    <3>2. N = Remarked(S, x, b, 1)
      BY <2>2, <3>1
    <3>3. /\ ParliamentOK(N) /\ SameChains(S, N)
          /\ P!Content(N) = IF b THEN P!Content(S) \ {x} ELSE P!Content(S) \cup {x}
      BY <1>2, <1>6, <3>2, MarkChanges
    <3> QED  BY <3>1, <3>3
  <2>4. ASSUME Tallied(S) PROVE Tallied(N)
    <3>1. PICK b \in BOOLEAN : b = FALSE
      OBVIOUS
    <3>2. N = Remarked(S, x, b, IF b THEN -1 ELSE 1)
      BY <2>2, <3>1
    <3>3. S.statements[P!FindStatement(S, x)].deleted # b
      BY <1>2, <1>6, <3>1
    <3> QED  BY <1>2, <1>6, <2>4, <3>2, <3>3, MarkTallies
  <2> QED  BY <1>1, <2>3, <2>4 DEF SameChains
<1>7. CASE f = 0
  <2>1. P!ContainsStatement(S, x) = 0
    BY <1>2, <1>7 DEF P!ContainsStatement
  <2>2. PICK T1 : T1 = P!AddNodes(S, x)
    OBVIOUS
  <2>3. /\ ~(Len(T1.records) > MaxResources \/ Len(T1.statements) = MaxStatements)
        /\ N = P!AppendStatement(T1, x)
    BY <2>1, <2>2 DEF P!AddTriple
  <2>4. /\ ParliamentOK(T1) /\ Grown(S, T1)
        /\ \A k \in 1..3 : P!Ids(T1, x)[k] \in 1..Len(T1.records)
        /\ Tallied(S) => Tallied(T1)
    BY <2>2, AddNodesIs
  <2>5. Len(T1.records) \in Nat /\ Len(T1.statements) = Len(S.statements)
    BY <2>4, TablesAre DEF ParliamentOK, Grown
  <2>6. \A id \in 1..Len(S.statements) : NodesOf(S, id) # x
    BY <1>1, <1>2, <1>7, StatementFound, SaysIs
  <2>7. /\ \A id \in 1..Len(T1.statements) : NodesOf(T1, id) # x
        /\ P!Content(T1) = P!Content(S)
    BY <2>4, <2>5, <2>6, GrownHas
  <2>8. /\ ParliamentOK(N) /\ P!Content(N) = P!Content(T1) \cup {x}
        /\ Len(N.records) = Len(T1.records) /\ Len(N.statements) = Len(T1.statements) + 1
        /\ \A r \in 1..Len(T1.records) : N.records[r].value = T1.records[r].value
        /\ Tallied(T1) => Tallied(N)
    BY <2>3, <2>4, <2>7, AppendIs, SMTT(60)
  <2>9. MaxResources \in Nat /\ MaxStatements \in Nat
    BY StoresAssumption
  <2>10. Len(N.records) <= MaxResources /\ Len(N.statements) <= MaxStatements
    BY <1>1, <2>3, <2>5, <2>8, <2>9
  <2>11. /\ Len(S.records) <= Len(N.records)
         /\ \A r \in 1..Len(S.records) : N.records[r].value = S.records[r].value
    <3>1. Len(S.records) <= Len(T1.records)
          /\ \A r \in 1..Len(S.records) : T1.records[r] = S.records[r]
      BY <2>4 DEF Grown
    <3>2. \A r \in 1..Len(S.records) : r \in 1..Len(T1.records)
      BY <1>1, <2>5, <3>1
    <3> QED  BY <2>8, <3>1, <3>2
  <2> QED  BY <2>4, <2>7, <2>8, <2>10, <2>11
<1> QED  BY <1>4, <1>5, <1>6, <1>7

LEMMA AddTripleGives ==
  ASSUME NEW S, NEW x
  PROVE  P!AddTriple(S, x) # <<>> => P!AddTriple(S, x) = << P!AddTriple(S, x)[1] >>
<1>1. P!ContainsStatement(S, x) \in {0, 1, -1}
  BY DEF P!ContainsStatement
<1> QED  BY <1>1 DEF P!AddTriple

LEMMA RemoveTripleIs ==
  ASSUME NEW S, ParliamentOK(S), NEW x \in Term3, NEW N, N = P!RemoveTriple(S, x)
  PROVE  /\ ParliamentOK(N) /\ P!Content(N) = P!Content(S) \ {x}
         /\ Len(N.records) = Len(S.records) /\ Len(N.statements) = Len(S.statements)
         /\ \A r \in 1..Len(S.records) : N.records[r].value = S.records[r].value
         /\ Tallied(S) => Tallied(N)
<1>1. PICK f : f = P!FindStatement(S, x)
  OBVIOUS
<1>2. x \in P!Content(S) <=> f # 0 /\ ~S.statements[f].deleted
  BY <1>1, ContentHas
<1>3. P!Contains(S, x) <=> f # 0 /\ ~S.statements[f].deleted
  BY <1>1 DEF P!Contains, P!ContainsStatement
<1>4. CASE ~P!Contains(S, x)
  <2>1. N = S
    BY <1>4 DEF P!RemoveTriple
  <2> QED  BY <1>2, <1>3, <1>4, <2>1
<1>5. CASE P!Contains(S, x)
  <2>1. N = Remarked(S, x, TRUE, -1)
    BY <1>5 DEF P!RemoveTriple, Remarked, Marked
  <2>2. ParliamentOK(N) /\ SameChains(S, N) /\ P!Content(N) = P!Content(S) \ {x}
    <3>1. PICK b \in BOOLEAN : b = TRUE
      OBVIOUS
    <3>2. N = Remarked(S, x, b, -1)
      BY <2>1, <3>1
    <3>3. /\ ParliamentOK(N) /\ SameChains(S, N)
          /\ P!Content(N) = IF b THEN P!Content(S) \ {x} ELSE P!Content(S) \cup {x}
      BY <1>1, <1>3, <1>5, <3>2, MarkChanges
    <3> QED  BY <3>1, <3>3
  <2>3. ASSUME Tallied(S) PROVE Tallied(N)
    <3>1. PICK b \in BOOLEAN : b = TRUE
      OBVIOUS
    <3>2. N = Remarked(S, x, b, IF b THEN -1 ELSE 1)
      BY <2>1, <3>1
    <3>3. P!FindStatement(S, x) # 0 /\ S.statements[P!FindStatement(S, x)].deleted # b
      BY <1>1, <1>3, <1>5, <3>1
    <3> QED  BY <2>3, <3>2, <3>3, MarkTallies
  <2> QED  BY <2>2, <2>3 DEF SameChains
<1> QED  BY <1>4, <1>5

LEMMA EmptyIs ==
  /\ ParliamentOK(P!EmptyStore) /\ P!Content(P!EmptyStore) = {}
  /\ Len(P!EmptyStore.records) = 0 /\ Len(P!EmptyStore.statements) = 0
  /\ Tallied(P!EmptyStore)
<1>1. PICK S : S = P!EmptyStore
  OBVIOUS
<1>2. S.records = <<>> /\ S.statements = <<>> /\ S.count = 0 /\ S \in TablesType
  BY <1>1 DEF P!EmptyStore, TablesType
<1>3. Len(S.records) = 0 /\ Len(S.statements) = 0 /\ DOMAIN S.records = {} /\ 1..0 = {}
  BY <1>2
<1>4. ParliamentOK(S)
  BY <1>2, <1>3 DEF ParliamentOK, Tables, TablesType, Chained, ChainedObjects, NoDoubles
<1>5. P!Content(S) = {}
  BY <1>3, <1>4, ContentIs DEF ParliamentOK
<1>6. Tallied(S)
  <2>1. Live(S) = {} /\ Cardinality({}) = 0
    BY <1>3, FS_EmptySet DEF Live
  <2> QED  BY <1>2, <1>3, <2>1 DEF Tallied
<1> QED  BY <1>1, <1>3, <1>4, <1>5, <1>6

-----------------------------------------------------------------------------
(* The loops that count along a chain.                                     *)

\* f adds up, for statements up to n, what those of a chain give.
Sums(next, one, n, f) == f = [id \in 0..n |-> IF id = 0 THEN 0 ELSE one[id] + f[next[id]]]

LEMMA SumExists ==
  ASSUME NEW L \in Nat, NEW next, NEW one, \A id \in 1..L : next[id] \in 0..id - 1
  PROVE  \E f : Sums(next, one, L, f)
<1> DEFINE A == {n \in Nat : n <= L => \E f : Sums(next, one, n, f)}
<1>1. 0 \in A
  <2> DEFINE f == [id \in 0..0 |-> 0]
  <2>1. Sums(next, one, 0, f)
    BY DEF Sums
  <2> QED  BY <2>1
<1>2. ASSUME NEW n \in Nat, n \in A, n + 1 <= L
      PROVE  \E f : Sums(next, one, n + 1, f)
  <2>1. PICK f : Sums(next, one, n, f)
    BY <1>2
  <2> DEFINE g == [id \in 0..n + 1 |->
                     IF id = n + 1 THEN one[n + 1] + f[next[n + 1]] ELSE f[id]]
  <2>2. \A id \in 0..n : g[id] = f[id]
    OBVIOUS
  <2>3. next[n + 1] \in 0..n /\ \A id \in 1..n : next[id] \in 0..n
    BY <1>2
  <2>4. g[n + 1] = one[n + 1] + g[next[n + 1]]
    BY <2>2, <2>3
  <2>5. ASSUME NEW id \in 0..n PROVE g[id] = IF id = 0 THEN 0 ELSE one[id] + g[next[id]]
    <3>1. f[id] = IF id = 0 THEN 0 ELSE one[id] + f[next[id]]
      BY <2>1 DEF Sums
    <3> QED  BY <2>2, <2>3, <3>1
  <2>6. g = [id \in 0..n + 1 |-> g[id]]
    OBVIOUS
  <2> HIDE DEF g
  <2>7. \A id \in 0..n + 1 : g[id] = IF id = 0 THEN 0 ELSE one[id] + g[next[id]]
    BY <2>4, <2>5
  <2>8. Sums(next, one, n + 1, g)
    BY <2>6, <2>7 DEF Sums
  <2> QED  BY <2>8
<1>3. \A n \in Nat : n \in A => n + 1 \in A
  BY <1>2
<1> HIDE DEF A
<1>4. Nat \subseteq A
  BY <1>1, <1>3, NatSetInduction
<1> QED  BY <1>4 DEF A

\* Each statement leads to the one before of the same node.
Linking(node, next, L) ==
  \A id \in 1..L : /\ next[id] \in 0..id - 1
                   /\ next[id] # 0 => node[next[id]] = node[id]
                   /\ \A k \in next[id] + 1..id - 1 : node[k] # node[id]

\* The statements of a node that give one, up to some statement.
Giving(node, one, c, at) == {id \in 1..at : node[id] = c /\ one[id] = 1}

\* The loop counts the statements of the node that give one.
LEMMA SumCounts ==
  ASSUME NEW L \in Nat, NEW next, NEW one \in [1..L -> {0, 1}], NEW node, Linking(node, next, L),
         NEW f, Sums(next, one, L, f), NEW c, NEW at \in 0..L, at # 0 => node[at] = c
  PROVE  f[at] = Cardinality(Giving(node, one, c, at))
<1> DEFINE Good(m) == f[m] = Cardinality(Giving(node, one, c, m))
           A == {n \in Nat : \A m \in 0..n : m <= L /\ (m # 0 => node[m] = c) => Good(m)}
<1>1. \A id \in 0..L : f[id] = IF id = 0 THEN 0 ELSE one[id] + f[next[id]]
  BY DEF Sums
<1>2. 0 \in A
  <2>1. Giving(node, one, c, 0) = {} /\ Cardinality({}) = 0
    BY FS_EmptySet DEF Giving
  <2>2. f[0] = 0 /\ \A m \in 0..0 : m = 0
    BY <1>1
  <2>3. Good(0)
    BY <2>1, <2>2
  <2> HIDE DEF Good
  <2> QED  BY <2>2, <2>3
<1>3. ASSUME NEW n \in Nat, n \in A, n + 1 <= L, node[n + 1] = c
      PROVE  Good(n + 1)
  <2>1. PICK m : m = next[n + 1]
    OBVIOUS
  <2>2. m \in 0..n /\ (m # 0 => node[m] = c) /\ \A k \in m + 1..n : node[k] # c
    BY <1>3, <2>1 DEF Linking
  <2>3. f[m] = Cardinality(Giving(node, one, c, m))
    BY <1>3, <2>2
  <2>4. IsFiniteSet(Giving(node, one, c, m)) /\ n + 1 \notin Giving(node, one, c, m)
    <3>1. IsFiniteSet(1..m) /\ Giving(node, one, c, m) \subseteq 1..m
      BY <2>2, FS_Interval DEF Giving
    <3> QED  BY <2>2, <3>1, FS_Subset
  <2>5. Cardinality(Giving(node, one, c, m)) \in Nat
    BY <2>4, FS_CardinalityType
  <2>6. f[n + 1] = one[n + 1] + f[m] /\ one[n + 1] \in {0, 1}
    BY <1>1, <1>3, <2>1
  <2>7. CASE one[n + 1] = 1
    <3>1. Giving(node, one, c, n + 1) = Giving(node, one, c, m) \cup {n + 1}
      BY <1>3, <2>2, <2>7 DEF Giving
    <3>2. Cardinality(Giving(node, one, c, m) \cup {n + 1}) = Cardinality(Giving(node, one, c, m)) + 1
      BY <2>4, FS_AddElement
    <3>3. f[n + 1] = f[m] + 1
      BY <2>3, <2>5, <2>6, <2>7
    <3> QED  BY <2>3, <3>1, <3>2, <3>3
  <2>8. CASE one[n + 1] = 0
    <3>1. Giving(node, one, c, n + 1) = Giving(node, one, c, m)
      BY <1>3, <2>2, <2>8 DEF Giving
    <3> QED  BY <2>3, <2>5, <2>6, <2>8, <3>1
  <2> QED  BY <2>6, <2>7, <2>8
<1>4. ASSUME NEW n \in Nat, n \in A PROVE n + 1 \in A
  <2>1. \A m \in 0..n + 1 : m \in 0..n \/ m = n + 1
    OBVIOUS
  <2> HIDE DEF Good
  <2> QED  BY <1>3, <1>4, <2>1
<1> HIDE DEF A
<1>5. Nat \subseteq A
  BY <1>2, <1>4, NatSetInduction
<1>6. at \in Nat /\ at \in 0..at /\ at <= L
  OBVIOUS
<1> QED  BY <1>5, <1>6 DEF A

\* The last statement of a node, or 0.
LastOf(node, c, at, L) ==
  at \in 0..L /\ (at # 0 => node[at] = c) /\ \A k \in at + 1..L : node[k] # c

\* From the last statement of a node on, all of them.
LEMMA SumCountsAll ==
  ASSUME NEW L \in Nat, NEW next, NEW one \in [1..L -> {0, 1}], NEW node, Linking(node, next, L),
         NEW f, Sums(next, one, L, f), NEW c, NEW at, LastOf(node, c, at, L)
  PROVE  f[at] = Cardinality(Giving(node, one, c, L))
<1>1. f[at] = Cardinality(Giving(node, one, c, at))
  BY SumCounts DEF LastOf
<1>2. Giving(node, one, c, L) = Giving(node, one, c, at)
  BY DEF Giving, LastOf
<1> QED  BY <1>1, <1>2

\* The statements that the loops along the chains of the subject and of the object count.
FitsSubject(S, i, id) ==
  /\ ~S.statements[id].deleted
  /\ P!Meets(i[2], S.statements[id].p) /\ P!Meets(i[3], S.statements[id].o)

FitsObject(S, i, id) ==
  /\ ~S.statements[id].deleted
  /\ P!Meets(i[2], S.statements[id].p) /\ P!Meets(i[1], S.statements[id].s)

LEMMA SubjectCountIs ==
  ASSUME NEW S, Tables(S), Chained(S), NEW i, i[1] \in 1..Len(S.records)
  PROVE  P!SubjectCount(S, i)[S.records[i[1]].fs] =
           Cardinality({id \in 1..Len(S.statements) :
                          S.statements[id].s = i[1] /\ FitsSubject(S, i, id)})
<1>1. PICK L : L = Len(S.statements)
  OBVIOUS
<1>2. L \in Nat /\ DOMAIN S.records = 1..Len(S.records)
  BY <1>1, TablesAre
<1>3. PICK next, one, node, at :
        /\ next = [id \in 1..L |-> S.statements[id].ns]
        /\ one = [id \in 1..L |-> IF FitsSubject(S, i, id) THEN 1 ELSE 0]
        /\ node = [id \in 1..L |-> S.statements[id].s]
        /\ at = S.records[i[1]].fs
  OBVIOUS
<1>4. one \in [1..L -> {0, 1}]
  BY <1>3
<1>5. Linking(node, next, L)
  <2> SUFFICES ASSUME NEW id \in 1..L
               PROVE  /\ next[id] \in 0..id - 1
                      /\ next[id] # 0 => node[next[id]] = node[id]
                      /\ \A k \in next[id] + 1..id - 1 : node[k] # node[id]
    BY DEF Linking
  <2>1. PICK m : m = next[id]
    OBVIOUS
  <2>2. m = S.statements[id].ns /\ node[id] = S.statements[id].s
    BY <1>3, <2>1
  <2>3. Previous(S, S.statements[id].s, id, m)
    BY <1>1, <2>2 DEF Chained
  <2>4. m \in 0..id - 1 /\ (m # 0 => m \in 1..L) /\ \A k \in m + 1..id - 1 : k \in 1..L
    BY <1>2, <2>3 DEF Previous
  <2> QED  BY <1>3, <2>1, <2>2, <2>3, <2>4 DEF Previous
<1>6. /\ at \in 0..L /\ (at # 0 => node[at] = i[1])
      /\ \A k \in at + 1..L : node[k] # i[1]
  <2>1. Previous(S, i[1], L + 1, at)
    BY <1>1, <1>2, <1>3 DEF Chained
  <2>2. at \in 0..L /\ (at # 0 => at \in 1..L) /\ \A k \in at + 1..L : k \in 1..L /\ k \in at + 1..(L + 1) - 1
    BY <1>2, <2>1 DEF Previous
  <2> QED  BY <1>3, <2>1, <2>2 DEF Previous
<1> DEFINE Loop(f) == [id \in 0..L |->
                         IF id = 0 THEN 0
                         ELSE (IF FitsSubject(S, i, id) THEN 1 ELSE 0) + f[S.statements[id].ns]]
<1>7. ASSUME NEW f PROVE f = Loop(f) <=> Sums(next, one, L, f)
  <2>1. \A id \in 0..L : id # 0 => /\ one[id] = IF FitsSubject(S, i, id) THEN 1 ELSE 0
                                   /\ next[id] = S.statements[id].ns
    BY <1>2, <1>3
  <2>2. Loop(f) = [id \in 0..L |-> IF id = 0 THEN 0 ELSE one[id] + f[next[id]]]
    BY <2>1, Zenon
  <2> QED  BY <2>2 DEF Sums
<1>8. P!SubjectCount(S, i) = CHOOSE f : f = Loop(f)
  BY <1>1, Zenon DEF P!SubjectCount, FitsSubject
<1>9. \E f : f = Loop(f)
  <2>1. \A id \in 1..L : next[id] \in 0..id - 1
    BY <1>5 DEF Linking
  <2>2. \E f : Sums(next, one, L, f)
    BY <1>2, <2>1, SumExists
  <2> QED  BY <1>7, <2>2
<1> HIDE DEF Loop
<1>10. PICK f : f = P!SubjectCount(S, i) /\ f = Loop(f)
  BY <1>8, <1>9, Zenon
<1>11. f[at] = Cardinality(Giving(node, one, i[1], L))
  <2>1. Sums(next, one, L, f)
    BY <1>7, <1>10, Zenon
  <2>2. LastOf(node, i[1], at, L)
    BY <1>6 DEF LastOf
  <2> QED  BY <1>2, <1>4, <1>5, <2>1, <2>2, SumCountsAll
<1>12. Giving(node, one, i[1], L) =
         {id \in 1..L : S.statements[id].s = i[1] /\ FitsSubject(S, i, id)}
  BY <1>3 DEF Giving
<1> QED  BY <1>1, <1>3, <1>10, <1>11, <1>12

LEMMA ObjectCountIs ==
  ASSUME NEW S, Tables(S), ChainedObjects(S), NEW i, i[3] \in 1..Len(S.records)
  PROVE  P!ObjectCount(S, i)[S.records[i[3]].fo] =
           Cardinality({id \in 1..Len(S.statements) :
                          S.statements[id].o = i[3] /\ FitsObject(S, i, id)})
<1>1. PICK L : L = Len(S.statements)
  OBVIOUS
<1>2. L \in Nat /\ DOMAIN S.records = 1..Len(S.records)
  BY <1>1, TablesAre
<1>3. PICK next, one, node, at :
        /\ next = [id \in 1..L |-> S.statements[id].no]
        /\ one = [id \in 1..L |-> IF FitsObject(S, i, id) THEN 1 ELSE 0]
        /\ node = [id \in 1..L |-> S.statements[id].o]
        /\ at = S.records[i[3]].fo
  OBVIOUS
<1>4. one \in [1..L -> {0, 1}]
  BY <1>3
<1>5. Linking(node, next, L)
  <2> SUFFICES ASSUME NEW id \in 1..L
               PROVE  /\ next[id] \in 0..id - 1
                      /\ next[id] # 0 => node[next[id]] = node[id]
                      /\ \A k \in next[id] + 1..id - 1 : node[k] # node[id]
    BY DEF Linking
  <2>1. PICK m : m = next[id]
    OBVIOUS
  <2>2. m = S.statements[id].no /\ node[id] = S.statements[id].o
    BY <1>3, <2>1
  <2>3. PreviousObject(S, S.statements[id].o, id, m)
    BY <1>1, <2>2 DEF ChainedObjects
  <2>4. m \in 0..id - 1 /\ (m # 0 => m \in 1..L) /\ \A k \in m + 1..id - 1 : k \in 1..L
    BY <1>2, <2>3 DEF PreviousObject
  <2> QED  BY <1>3, <2>1, <2>2, <2>3, <2>4 DEF PreviousObject
<1>6. /\ at \in 0..L /\ (at # 0 => node[at] = i[3])
      /\ \A k \in at + 1..L : node[k] # i[3]
  <2>1. PreviousObject(S, i[3], L + 1, at)
    BY <1>1, <1>2, <1>3 DEF ChainedObjects
  <2>2. at \in 0..L /\ (at # 0 => at \in 1..L) /\ \A k \in at + 1..L : k \in 1..L /\ k \in at + 1..(L + 1) - 1
    BY <1>2, <2>1 DEF PreviousObject
  <2> QED  BY <1>3, <2>1, <2>2 DEF PreviousObject
<1> DEFINE Loop(f) == [id \in 0..L |->
                         IF id = 0 THEN 0
                         ELSE (IF FitsObject(S, i, id) THEN 1 ELSE 0) + f[S.statements[id].no]]
<1>7. ASSUME NEW f PROVE f = Loop(f) <=> Sums(next, one, L, f)
  <2>1. \A id \in 0..L : id # 0 => /\ one[id] = IF FitsObject(S, i, id) THEN 1 ELSE 0
                                   /\ next[id] = S.statements[id].no
    BY <1>2, <1>3
  <2>2. Loop(f) = [id \in 0..L |-> IF id = 0 THEN 0 ELSE one[id] + f[next[id]]]
    BY <2>1, Zenon
  <2> QED  BY <2>2 DEF Sums
<1>8. P!ObjectCount(S, i) = CHOOSE f : f = Loop(f)
  BY <1>1, Zenon DEF P!ObjectCount, FitsObject
<1>9. \E f : f = Loop(f)
  <2>1. \A id \in 1..L : next[id] \in 0..id - 1
    BY <1>5 DEF Linking
  <2>2. \E f : Sums(next, one, L, f)
    BY <1>2, <2>1, SumExists
  <2> QED  BY <1>7, <2>2
<1> HIDE DEF Loop
<1>10. PICK f : f = P!ObjectCount(S, i) /\ f = Loop(f)
  BY <1>8, <1>9, Zenon
<1>11. f[at] = Cardinality(Giving(node, one, i[3], L))
  <2>1. Sums(next, one, L, f)
    BY <1>7, <1>10, Zenon
  <2>2. LastOf(node, i[3], at, L)
    BY <1>6 DEF LastOf
  <2> QED  BY <1>2, <1>4, <1>5, <2>1, <2>2, SumCountsAll
<1>12. Giving(node, one, i[3], L) =
         {id \in 1..L : S.statements[id].o = i[3] /\ FitsObject(S, i, id)}
  BY <1>3 DEF Giving
<1> QED  BY <1>1, <1>3, <1>10, <1>11, <1>12

-----------------------------------------------------------------------------
(* Patterns, and what the store of chains says of how many triples fit.    *)

LEMMA SameCardinality == \A s : P!Cardinality(s) = Cardinality(s)
BY DEF P!Cardinality, Cardinality

\* i has the ids of the nodes of a pattern, and its variables.
PatternIs(S, pat, i) ==
  \A k \in 1..3 :
    /\ pat[k] > 0 => /\ pat[k] \in Terms /\ i[k] = P!Node2Id(S, pat[k])
                     /\ i[k] \in 0..Len(S.records)
    /\ ~(pat[k] > 0) => i[k] \in Int /\ i[k] < 0

LEMMA PatternIds ==
  ASSUME NEW S, Tables(S), NEW pat \in Patterns
  PROVE  PatternIs(S, pat, P!Ids(S, pat))
<1> SUFFICES ASSUME NEW k \in 1..3, NEW i, i = P!Ids(S, pat)[k]
             PROVE  /\ pat[k] > 0 => /\ pat[k] \in Terms /\ i = P!Node2Id(S, pat[k])
                                     /\ i \in 0..Len(S.records)
                    /\ ~(pat[k] > 0) => i \in Int /\ i < 0
  BY DEF PatternIs
<1>1. pat[k] \in Terms \cup Variables
  BY DEF Patterns
<1>2. i = P!Node2Id(S, pat[k])
  BY DEF P!Ids
<1>3. CASE pat[k] \in Terms
  <2>1. PICK n \in Nat : n = pat[k] /\ n # 0
    BY <1>3, StoresAssumption
  <2>2. P!Node2Id(S, n) \in 0..Len(S.records)
    BY <2>1, NodeHasId
  <2> QED  BY <1>2, <1>3, <2>1, <2>2
<1>4. CASE pat[k] \in Variables
  <2>1. pat[k] \in Int /\ pat[k] < 0 /\ ~(pat[k] > 0)
    BY <1>4 DEF Variables
  <2>2. i = pat[k]
    BY <1>2, <2>1 DEF P!Node2Id
  <2> QED  BY <2>1, <2>2
<1> QED  BY <1>1, <1>3, <1>4

\* The ids of the nodes of a statement.
Places(S, id) == <<S.statements[id].s, S.statements[id].p, S.statements[id].o>>

\* The statements that fit a pattern.
FitIds(S, pat) ==
  {id \in Live(S) : \A k \in 1..3 : pat[k] > 0 => NodesOf(S, id)[k] = pat[k]}

LEMMA FitIdsAre ==
  ASSUME NEW S, ParliamentOK(S), NEW pat \in Patterns, NEW i, PatternIs(S, pat, i)
  PROVE  FitIds(S, pat) = {id \in Live(S) : \A k \in 1..3 : pat[k] > 0 => Places(S, id)[k] = i[k]}
<1>1. /\ DOMAIN S.records = 1..Len(S.records) /\ Len(S.records) \in Nat
      /\ Tables(S) /\ Chained(S)
  BY TablesAre DEF ParliamentOK
<1>2. ASSUME NEW id \in Live(S), NEW k \in 1..3, pat[k] > 0
      PROVE  NodesOf(S, id)[k] = pat[k] <=> Places(S, id)[k] = i[k]
  <2>1. PICK r : r = Places(S, id)[k]
    OBVIOUS
  <2>2. r \in 1..Len(S.records)
    <3>1. id \in 1..Len(S.statements)
      BY DEF Live
    <3>2. {S.statements[id].s, S.statements[id].p, S.statements[id].o} \subseteq DOMAIN S.records
      BY <1>1, <3>1 DEF Chained
    <3>3. k = 1 \/ k = 2 \/ k = 3
      BY SMTT(60)
    <3> QED  BY <1>1, <2>1, <3>2, <3>3 DEF Places
  <2>3. NodesOf(S, id)[k] = S.records[r].value
    BY <2>1 DEF NodesOf, Places
  <2>4. PICK n \in Nat : n = pat[k] /\ i[k] = P!Node2Id(S, n)
    BY <1>2, StoresAssumption DEF PatternIs
  <2>5. /\ P!Node2Id(S, n) # 0 => S.records[P!Node2Id(S, n)].value = n
        /\ \A m \in 1..Len(S.records) : S.records[m].value = n => P!Node2Id(S, n) = m
    BY <1>1, NodeHasId
  <2> QED  BY <1>1, <2>1, <2>2, <2>3, <2>4, <2>5
<1> QED  BY <1>2 DEF FitIds

\* A pattern that repeats no variable: each triple that fits it is in one statement.
LEMMA FitIdsCount ==
  ASSUME NEW S, ParliamentOK(S), NEW pat \in Patterns, Straight(pat)
  PROVE  Cardinality(Fitting(pat, P!Content(S))) = Cardinality(FitIds(S, pat))
<1>1. PICK I, C : I = FitIds(S, pat) /\ C = Fitting(pat, P!Content(S))
  OBVIOUS
<1>2. Tables(S) /\ Chained(S) /\ Len(S.statements) \in Nat
  BY TablesAre DEF ParliamentOK
<1>3. IsFiniteSet(I)
  <2>1. IsFiniteSet(Live(S))
    BY <1>2, LiveFinite
  <2> QED  BY <1>1, <2>1, FS_Subset DEF FitIds
<1>4. ASSUME NEW y
      PROVE  y \in C <=> \E id \in I : y = NodesOf(S, id)
  <2>1. y \in P!Content(S) <=> \E id \in Live(S) : y = NodesOf(S, id)
    BY <1>2, ContentIs DEF Live
  <2>2. ASSUME NEW j \in 1..3, NEW k \in 1..3, pat[j] = pat[k],
               \A m \in 1..3 : pat[m] > 0 => y[m] = pat[m]
        PROVE  y[j] = y[k]
    <3>1. CASE pat[j] > 0
      BY <2>2, <3>1
    <3>2. CASE ~(pat[j] > 0)
      <4>1. pat[j] < 0
        <5>1. pat[j] \in Terms \cup Variables /\ \A n \in Terms : n \in Nat /\ n # 0
          BY StoresAssumption DEF Patterns
        <5> QED  BY <3>2, <5>1 DEF Variables
      <4> QED  BY <2>2, <4>1 DEF Straight
    <3> QED  BY <3>1, <3>2
  <2>3. y \in C <=> y \in P!Content(S) /\ \A m \in 1..3 : pat[m] > 0 => y[m] = pat[m]
    BY <1>1, <2>2 DEF Fitting
  <2> QED  BY <1>1, <2>1, <2>3 DEF FitIds
<1>5. ASSUME NEW a \in I, NEW b \in I, NodesOf(S, a) = NodesOf(S, b)
      PROVE  a = b
  <2>1. a \in 1..Len(S.statements) /\ b \in 1..Len(S.statements)
    BY <1>1 DEF FitIds, Live
  <2>2. PICK q, r : q = S.statements[a] /\ r = S.statements[b]
    OBVIOUS
  <2>3. /\ q.s \in DOMAIN S.records /\ q.p \in DOMAIN S.records /\ q.o \in DOMAIN S.records
        /\ r.s \in DOMAIN S.records /\ r.p \in DOMAIN S.records /\ r.o \in DOMAIN S.records
    BY <1>2, <2>1, <2>2 DEF Chained
  <2>4. /\ S.records[q.s].value = S.records[r.s].value
        /\ S.records[q.p].value = S.records[r.p].value
        /\ S.records[q.o].value = S.records[r.o].value
    <3>1. /\ NodesOf(S, a)[1] = NodesOf(S, b)[1] /\ NodesOf(S, a)[2] = NodesOf(S, b)[2]
          /\ NodesOf(S, a)[3] = NodesOf(S, b)[3]
      BY <1>5
    <3>2. /\ NodesOf(S, a)[1] = S.records[q.s].value /\ NodesOf(S, a)[2] = S.records[q.p].value
          /\ NodesOf(S, a)[3] = S.records[q.o].value
      BY <2>2 DEF NodesOf
    <3>3. /\ NodesOf(S, b)[1] = S.records[r.s].value /\ NodesOf(S, b)[2] = S.records[r.p].value
          /\ NodesOf(S, b)[3] = S.records[r.o].value
      BY <2>2 DEF NodesOf
    <3> QED  BY <3>1, <3>2, <3>3
  <2>5. q.s = r.s /\ q.p = r.p /\ q.o = r.o
    BY <1>2, <2>3, <2>4 DEF Tables
  <2> QED  BY <2>1, <2>2, <2>5 DEF ParliamentOK, NoDoubles
<1>6. PICK f : f = [id \in I |-> NodesOf(S, id)]
  OBVIOUS
<1>7. f \in Bijection(I, C)
  <2>1. f \in [I -> C] /\ \A id \in I : f[id] = NodesOf(S, id)
    BY <1>4, <1>6
  <2>2. \A a, b \in I : f[a] = f[b] => a = b
    BY <1>5, <2>1
  <2>3. \A y \in C : \E id \in I : f[id] = y
    BY <1>4, <2>1
  <2> QED  BY <2>1, <2>2, <2>3 DEF Bijection, Injection, Surjection, IsInjective
<1>8. ExistsBijection(I, C)
  BY <1>7 DEF ExistsBijection
<1>9. Cardinality(I) = Cardinality(C)
  BY <1>3, <1>8, FS_Bijection
<1> QED  BY <1>1, <1>9

\* How many nodes a pattern has.
Bit(b) == IF b THEN 1 ELSE 0

LEMMA BoundIs ==
  ASSUME NEW pat
  PROVE  Cardinality({k \in 1..3 : pat[k] > 0}) = Bit(pat[1] > 0) + Bit(pat[2] > 0) + Bit(pat[3] > 0)
<1> DEFINE B(n) == {k \in 1..n : pat[k] > 0}
<1>1. IsFiniteSet(B(0)) /\ Cardinality(B(0)) = 0
  <2>1. B(0) = {}
    OBVIOUS
  <2> QED  BY <2>1, FS_EmptySet
<1>2. ASSUME NEW n \in Nat, IsFiniteSet(B(n))
      PROVE  IsFiniteSet(B(n + 1)) /\ Cardinality(B(n + 1)) = Cardinality(B(n)) + Bit(pat[n + 1] > 0)
  <2>1. Cardinality(B(n)) \in Nat /\ n + 1 \notin B(n)
    BY <1>2, FS_CardinalityType
  <2>2. CASE pat[n + 1] > 0
    <3>1. B(n + 1) = B(n) \cup {n + 1}
      BY <2>2
    <3> QED  BY <1>2, <2>1, <2>2, <3>1, FS_AddElement DEF Bit
  <2>3. CASE ~(pat[n + 1] > 0)
    <3>1. B(n + 1) = B(n)
      BY <2>3
    <3> QED  BY <1>2, <2>1, <2>3, <3>1 DEF Bit
  <2> QED  BY <2>2, <2>3
<1> HIDE DEF B
<1>3. IsFiniteSet(B(1)) /\ Cardinality(B(1)) = Bit(pat[1] > 0)
  <2>1. 0 \in Nat /\ 0 + 1 = 1
    OBVIOUS
  <2>2. Bit(pat[1] > 0) \in Nat
    BY DEF Bit
  <2> QED  BY <1>1, <1>2, <2>1, <2>2
<1>4. IsFiniteSet(B(2)) /\ Cardinality(B(2)) = Bit(pat[1] > 0) + Bit(pat[2] > 0)
  <2>1. 1 \in Nat /\ 1 + 1 = 2
    OBVIOUS
  <2> QED  BY <1>2, <1>3, <2>1
<1>5. Cardinality(B(3)) = Bit(pat[1] > 0) + Bit(pat[2] > 0) + Bit(pat[3] > 0)
  <2>1. 2 \in Nat /\ 2 + 1 = 3
    OBVIOUS
  <2> QED  BY <1>2, <1>4, <2>1
<1> QED  BY <1>5 DEF B

\* The count is that of the statements that fit, but for a single predicate or object.
LEMMA ChainsCount ==
  ASSUME NEW S, ParliamentOK(S), Tallied(S), NEW pat \in Patterns,
         Cardinality({k \in 1..3 : pat[k] > 0}) # 1 \/ pat[1] > 0
  PROVE  P!Count(S, pat, {0, 1}) = {Cardinality(FitIds(S, pat))}
<1>1. PICK i, L : i = P!Ids(S, pat) /\ L = Len(S.statements)
  OBVIOUS
<1>2. PICK bound : bound = Cardinality({k \in 1..3 : pat[k] > 0})
  OBVIOUS
<1>3. Tables(S) /\ Chained(S) /\ ChainedObjects(S) /\ L \in Nat
  BY <1>1, TablesAre DEF ParliamentOK
<1>4. PatternIs(S, pat, i)
  BY <1>1, <1>3, PatternIds
<1>5. FitIds(S, pat) = {id \in Live(S) : \A k \in 1..3 : pat[k] > 0 => Places(S, id)[k] = i[k]}
  BY <1>4, FitIdsAre
<1>6. ASSUME NEW id \in Live(S)
      PROVE  /\ S.statements[id].s \in 1..Len(S.records) /\ S.statements[id].p \in 1..Len(S.records)
             /\ S.statements[id].o \in 1..Len(S.records)
             /\ Places(S, id)[1] = S.statements[id].s /\ Places(S, id)[2] = S.statements[id].p
             /\ Places(S, id)[3] = S.statements[id].o
  <2>1. id \in 1..Len(S.statements)
    BY DEF Live
  <2>2. {S.statements[id].s, S.statements[id].p, S.statements[id].o} \subseteq 1..Len(S.records)
    BY <1>3, <2>1, TablesAre DEF Chained
  <2> QED  BY <2>2 DEF Places
<1>7. /\ bound = Bit(pat[1] > 0) + Bit(pat[2] > 0) + Bit(pat[3] > 0)
      /\ P!Cardinality({k \in 1..3 : pat[k] > 0}) = bound
  BY <1>2, BoundIs, SameCardinality
<1>8. P!Count(S, pat, {0, 1}) =
        CASE 0 \in {i[1], i[2], i[3]} -> {0}
          [] OTHER ->
               CASE bound = 0 -> {P!Size(S)}
                 [] bound = 1 -> IF i[1] > 0 THEN {S.records[i[1]].sc} ELSE {0, 1}
                 [] bound = 2 -> {IF i[1] > 0 THEN P!SubjectCount(S, i)[S.records[i[1]].fs]
                                  ELSE P!ObjectCount(S, i)[S.records[i[3]].fo]}
                 [] bound = 3 -> {IF P!Contains(S, pat) THEN 1 ELSE 0}
  BY <1>1, <1>7, Zenon DEF P!Count
<1>9. CASE 0 \in {i[1], i[2], i[3]}
  <2>1. PICK k \in 1..3 : i[k] = 0
    BY <1>9
  <2>2. pat[k] > 0
    BY <1>4, <2>1 DEF PatternIs
  <2>3. ASSUME NEW id \in Live(S) PROVE Places(S, id)[k] # 0
    <3>1. k = 1 \/ k = 2 \/ k = 3
      OBVIOUS
    <3> QED  BY <1>6, <3>1
  <2>4. FitIds(S, pat) = {}
    BY <1>5, <2>1, <2>2, <2>3
  <2>5. Cardinality(FitIds(S, pat)) = 0
    BY <2>4, FS_EmptySet
  <2> QED  BY <1>8, <1>9, <2>5, Zenon
<1>10. CASE 0 \notin {i[1], i[2], i[3]}
  <2>1. \A k \in 1..3 : (i[k] > 0 <=> pat[k] > 0) /\ (pat[k] > 0 => i[k] \in 1..Len(S.records))
    <3>1. \A k \in 1..3 : i[k] # 0
      BY <1>10
    <3>2. Len(S.records) \in Nat
      BY <1>3, TablesAre
    <3> QED  BY <1>4, <3>1, <3>2 DEF PatternIs
  <2>2. \A k \in 1..3 : k = 1 \/ k = 2 \/ k = 3
    OBVIOUS
  <2>3. CASE bound = 0
    <3>1. P!Count(S, pat, {0, 1}) = {S.count}
      BY <1>8, <1>10, <2>3 DEF P!Size
    <3>2. ~(pat[1] > 0) /\ ~(pat[2] > 0) /\ ~(pat[3] > 0)
      BY <1>7, <2>3 DEF Bit
    <3>3. FitIds(S, pat) = Live(S)
      BY <1>5, <2>2, <3>2
    <3> QED  BY <3>1, <3>3 DEF Tallied
  <2>4. CASE bound = 1
    <3>1. pat[1] > 0 /\ ~(pat[2] > 0) /\ ~(pat[3] > 0)
      BY <1>2, <1>7, <2>4 DEF Bit
    <3>2. P!Count(S, pat, {0, 1}) = {S.records[i[1]].sc}
      <4>1. i[1] > 0 /\ bound # 0
        BY <2>1, <2>4, <3>1
      <4> QED  BY <1>8, <1>10, <2>4, <4>1
    <3>3. FitIds(S, pat) = LiveOf(S, i[1])
      BY <1>5, <1>6, <2>2, <3>1 DEF LiveOf
    <3> QED  BY <2>1, <3>1, <3>2, <3>3 DEF Tallied
  <2>5. CASE bound = 2
    <3>1. bound # 0 /\ bound # 1
      BY <2>5
    <3>2. CASE pat[1] > 0
      <4>1. P!Count(S, pat, {0, 1}) = {P!SubjectCount(S, i)[S.records[i[1]].fs]}
        <5>1. i[1] > 0
          BY <2>1, <3>2
        <5> QED  BY <1>8, <1>10, <2>5, <3>1, <5>1
      <4>2. P!SubjectCount(S, i)[S.records[i[1]].fs] =
              Cardinality({id \in 1..L : S.statements[id].s = i[1] /\ FitsSubject(S, i, id)})
        BY <1>1, <1>3, <2>1, <3>2, SubjectCountIs
      <4>3. FitIds(S, pat) = {id \in 1..L : S.statements[id].s = i[1] /\ FitsSubject(S, i, id)}
        <5>1. ASSUME NEW id \in Live(S)
              PROVE  id \in FitIds(S, pat) <=> S.statements[id].s = i[1] /\ FitsSubject(S, i, id)
          <6>1. ~S.statements[id].deleted
            BY DEF Live
          <6>2. id \in FitIds(S, pat) <=>
                  /\ S.statements[id].s = i[1] /\ (i[2] > 0 => S.statements[id].p = i[2])
                  /\ (i[3] > 0 => S.statements[id].o = i[3])
            BY <1>5, <1>6, <2>1, <2>2, <3>2
          <6> QED  BY <6>1, <6>2 DEF FitsSubject, P!Meets
        <5>2. FitIds(S, pat) \subseteq Live(S)
          BY DEF FitIds
        <5> QED  BY <1>1, <5>1, <5>2 DEF Live, FitsSubject
      <4> QED  BY <4>1, <4>2, <4>3
    <3>3. CASE ~(pat[1] > 0)
      <4>1. pat[2] > 0 /\ pat[3] > 0
        BY <1>7, <2>5, <3>3 DEF Bit
      <4>2. P!Count(S, pat, {0, 1}) = {P!ObjectCount(S, i)[S.records[i[3]].fo]}
        <5>1. ~(i[1] > 0)
          BY <2>1, <3>3
        <5> QED  BY <1>8, <1>10, <2>5, <3>1, <5>1
      <4>3. P!ObjectCount(S, i)[S.records[i[3]].fo] =
              Cardinality({id \in 1..L : S.statements[id].o = i[3] /\ FitsObject(S, i, id)})
        BY <1>1, <1>3, <2>1, <4>1, ObjectCountIs
      <4>4. FitIds(S, pat) = {id \in 1..L : S.statements[id].o = i[3] /\ FitsObject(S, i, id)}
        <5>1. ASSUME NEW id \in Live(S)
              PROVE  id \in FitIds(S, pat) <=> S.statements[id].o = i[3] /\ FitsObject(S, i, id)
          <6>1. ~S.statements[id].deleted
            BY DEF Live
          <6>2. id \in FitIds(S, pat) <=>
                  /\ S.statements[id].o = i[3] /\ (i[2] > 0 => S.statements[id].p = i[2])
                  /\ (i[1] > 0 => S.statements[id].s = i[1])
            BY <1>5, <1>6, <2>1, <2>2, <4>1
          <6> QED  BY <6>1, <6>2 DEF FitsObject, P!Meets
        <5>2. FitIds(S, pat) \subseteq Live(S)
          BY DEF FitIds
        <5> QED  BY <1>1, <5>1, <5>2 DEF Live, FitsObject
      <4> QED  BY <4>2, <4>3, <4>4
    <3> QED  BY <3>2, <3>3
  <2>6. CASE bound = 3
    <3>1. pat[1] > 0 /\ pat[2] > 0 /\ pat[3] > 0
      BY <1>7, <2>6 DEF Bit
    <3>2. pat \in Term3
      <4>1. \A k \in 1..3 : pat[k] \in Terms
        BY <1>4, <2>2, <3>1 DEF PatternIs
      <4> QED  BY <4>1 DEF Patterns, Term3
    <3>3. P!Count(S, pat, {0, 1}) = {IF P!Contains(S, pat) THEN 1 ELSE 0}
      <4>1. bound # 0 /\ bound # 1 /\ bound # 2
        BY <2>6
      <4> QED  BY <1>8, <1>10, <2>6, <4>1, Zenon
    <3>4. PICK f : f = P!FindStatement(S, pat)
      OBVIOUS
    <3>5. /\ f \in 0..L /\ (f # 0 => Says(S, f, i))
          /\ f = 0 => \A id \in 1..L : ~Says(S, id, i)
      BY <1>1, <1>3, <3>2, <3>4, StatementFound
    <3>6. P!Contains(S, pat) <=> f # 0 /\ ~S.statements[f].deleted
      BY <3>4 DEF P!Contains, P!ContainsStatement
    <3>7. \A id \in Live(S) : id \in FitIds(S, pat) <=> Says(S, id, i)
      BY <1>5, <1>6, <2>2, <3>1 DEF Says
    <3>8. \A id \in 1..L : Says(S, id, i) /\ f # 0 => id = f
      BY <1>1, <1>3, <3>5 DEF ParliamentOK, NoDoubles, Says
    <3>9. FitIds(S, pat) = IF P!Contains(S, pat) THEN {f} ELSE {}
      <4>1. FitIds(S, pat) \subseteq Live(S)
        BY DEF FitIds
      <4>2. f # 0 /\ ~S.statements[f].deleted => f \in Live(S)
        BY <1>1, <3>5 DEF Live
      <4>3. \A id \in Live(S) : id \in 1..L /\ ~S.statements[id].deleted
        BY <1>1 DEF Live
      <4> QED  BY <3>5, <3>6, <3>7, <3>8, <4>1, <4>2, <4>3
    <3>10. Cardinality(FitIds(S, pat)) = IF P!Contains(S, pat) THEN 1 ELSE 0
      BY <3>9, FS_EmptySet, FS_Singleton
    <3> QED  BY <3>3, <3>10
  <2>7. bound \in {0, 1, 2, 3}
    BY <1>7 DEF Bit
  <2> QED  BY <2>3, <2>4, <2>5, <2>6, <2>7
<1> QED  BY <1>9, <1>10

-----------------------------------------------------------------------------
(* The store in files: its operators are those of Tokyo_proofs.            *)

F == INSTANCE Tokyo_proofs

LEMMA SameOrders == T!Orders = F!Orders
BY DEF T!Orders, F!Orders

LEMMA SameStore ==
  /\ T!EmptyStore = F!EmptyStore
  /\ \A S : T!BeginBulk(S) = F!BeginBulk(S) /\ T!EndBulk(S) = F!EndBulk(S) /\ T!Reopen(S) = F!Reopen(S)
<1>1. T!EmptyStore = F!EmptyStore
  BY SameOrders DEF T!EmptyStore, F!EmptyStore, T!NewTables, F!NewTables
<1>2. \A S : T!BeginBulk(S) = F!BeginBulk(S) /\ T!EndBulk(S) = F!EndBulk(S)
  BY SameOrders DEF T!BeginBulk, F!BeginBulk, T!EndBulk, F!EndBulk
<1>3. \A S : T!Reopen(S) = F!Reopen(S)
  BY DEF T!Reopen, F!Reopen
<1> QED  BY <1>1, <1>2, <1>3

LEMMA SameChange ==
  \A S, x : T!AddTriple(S, x) = F!AddTriple(S, x) /\ T!RemoveTriple(S, x) = F!RemoveTriple(S, x)
<1>1. \A S, n : T!GetNodeId(S, n) = F!GetNodeId(S, n)
  BY DEF T!GetNodeId, F!GetNodeId
<1>2. \A S, x : T!Ids(S, x) = F!Ids(S, x)
  BY <1>1 DEF T!Ids, F!Ids
<1>3. \A f, k, v : T!Put(f, k, v) = F!Put(f, k, v)
  BY DEF T!Put, F!Put
<1>4. \A S, n : T!AddNode(S, n) = F!AddNode(S, n)
  BY <1>3 DEF T!AddNode, F!AddNode
<1>5. \A S, x : T!AddNodes(S, x) = F!AddNodes(S, x)
  BY <1>4 DEF T!AddNodes, F!AddNodes
<1>6. \A S, into, i : T!IndexAdd(S, into, i) = F!IndexAdd(S, into, i)
  BY SameOrders DEF T!IndexAdd, F!IndexAdd
<1>7. \A i : T!CountKeys(i) = F!CountKeys(i)
  BY DEF T!CountKeys, F!CountKeys
<1>8. \A S, key : T!Counter(S, key) = F!Counter(S, key)
  BY DEF T!Counter, F!Counter
<1>9. \A S, i : T!AddTripleId(S, i) = F!AddTripleId(S, i)
  BY <1>6, <1>7, <1>8, SameOrders DEF T!AddTripleId, F!AddTripleId
<1>10. \A S, i : T!IndexRemove(S, i) = F!IndexRemove(S, i)
  BY SameOrders DEF T!IndexRemove, F!IndexRemove
<1>11. \A S, x : T!AddTriple(S, x) = F!AddTriple(S, x)
  BY <1>2, <1>5, <1>9 DEF T!AddTriple, F!AddTriple
<1>12. \A S, x : T!RemoveTriple(S, x) = F!RemoveTriple(S, x)
  BY <1>2, <1>10 DEF T!RemoveTriple, F!RemoveTriple
<1> QED  BY <1>11, <1>12

LEMMA SameCount ==
  ASSUME NEW S, NEW pat
  PROVE  /\ T!Ids(S, pat) = F!Ids(S, pat)
         /\ ~(\A k \in 1..3 : F!Ids(S, pat)[k] > 0) => T!Count(S, pat) = F!Count(S, pat)
<1>1. \A n : T!GetNodeId(S, n) = F!GetNodeId(S, n)
  BY DEF T!GetNodeId, F!GetNodeId
<1>2. T!Ids(S, pat) = F!Ids(S, pat)
  BY <1>1 DEF T!Ids, F!Ids
<1>3. PICK i : i = F!Ids(S, pat)
  OBVIOUS
<1>4. \A key : T!Counter(S, key) = F!Counter(S, key)
  BY DEF T!Counter, F!Counter
<1>5. T!Size(S) = F!Size(S)
  <2>1. \A s : T!Cardinality(s) = F!Cardinality(s)
    BY DEF T!Cardinality, F!Cardinality
  <2> QED  BY <2>1 DEF T!Size, F!Size, T!TriplesCount, F!TriplesCount
<1>6. ASSUME ~\A k \in 1..3 : i[k] > 0 PROVE T!Count(S, pat) = F!Count(S, pat)
  <2>1. PICK key : key = [k \in 1..3 |-> IF i[k] < 0 THEN 0 ELSE i[k]]
    OBVIOUS
  <2>2. CASE \A k \in 1..3 : i[k] < 0
    <3>1. T!Count(S, pat) = T!Size(S)
      <4>1. T!Count(S, pat) =
              CASE \A k \in 1..3 : i[k] < 0 -> T!Size(S)
                [] \A k \in 1..3 : i[k] > 0 -> IF T!Contains(S, pat) THEN 1 ELSE 0
                [] OTHER -> T!Counter(S, [k \in 1..3 |-> IF i[k] < 0 THEN 0 ELSE i[k]])
        BY <1>2, <1>3, Zenon DEF T!Count
      <4> QED  BY <1>6, <2>2, <4>1
    <3>2. F!Count(S, pat) = F!Size(S)
      <4>1. F!Count(S, pat) =
              CASE \A k \in 1..3 : i[k] < 0 -> F!Size(S)
                [] \A k \in 1..3 : i[k] > 0 -> IF F!Contains(S, pat) THEN 1 ELSE 0
                [] OTHER -> F!Counter(S, [k \in 1..3 |-> IF i[k] < 0 THEN 0 ELSE i[k]])
        BY <1>3, Zenon DEF F!Count
      <4> QED  BY <1>6, <2>2, <4>1
    <3> QED  BY <1>5, <3>1, <3>2
  <2>3. CASE ~\A k \in 1..3 : i[k] < 0
    <3>1. T!Count(S, pat) = T!Counter(S, key)
      BY <1>2, <1>3, <1>6, <2>1, <2>3, Zenon DEF T!Count
    <3>2. F!Count(S, pat) = F!Counter(S, key)
      BY <1>3, <1>6, <2>1, <2>3, Zenon DEF F!Count
    <3> QED  BY <1>4, <3>1, <3>2
  <2> QED  BY <2>2, <2>3
<1> QED  BY <1>2, <1>3, <1>6

LEMMA SameRank == \A a : T!ByteRank(a) = F!ByteRank(a)
BY DEF T!ByteRank, F!ByteRank

LEMMA SameRows == \A S, i, o : T!Statements(S, i, o) = F!Statements(S, i, o)
<1>1. \A o, a, b : T!Before(o, a, b) = F!Before(o, a, b)
  BY SameRank DEF T!Before, F!Before
<1>2. \A s : T!Cardinality(s) = F!Cardinality(s)
  BY DEF T!Cardinality, F!Cardinality
<1>3. \A S, o : T!Keys(S, o) = F!Keys(S, o)
  BY Zenon DEF T!Keys, F!Keys, T!Before, F!Before, T!ByteRank, F!ByteRank, T!Cardinality, F!Cardinality
<1>4. \A rows, set : T!Leading(rows, set) = F!Leading(rows, set)
  BY DEF T!Leading, F!Leading
<1>5. \A rows, set : T!Remaining(rows, set) = F!Remaining(rows, set)
  BY <1>4 DEF T!Remaining, F!Remaining
<1>6. ASSUME NEW S, NEW i, NEW o PROVE T!Statements(S, i, o) = F!Statements(S, i, o)
  <2>1. PICK bound, table :
          bound = [k \in 1..3 |-> IF i[k] > 0 THEN i[k] ELSE 0] /\ table = S.index[o]
    OBVIOUS
  <2>2. PICK early, fits, same :
          /\ early = {t \in table : T!Before(o, t, bound)}
          /\ fits = {t \in table : \A k \in 1..3 : i[k] > 0 => t[k] = i[k]}
          /\ same = {t \in table : \A j, k \in 1..3 : i[j] = i[k] => t[j] = t[k]}
    OBVIOUS
  <2>3. early = {t \in table : F!Before(o, t, bound)}
    BY <1>1, <2>2
  <2>4. PICK from, run : from = T!Remaining(T!Keys(S, o), early) /\ run = T!Leading(from, fits)
    OBVIOUS
  <2>5. from = F!Remaining(F!Keys(S, o), early) /\ run = F!Leading(from, fits)
    BY <1>3, <1>4, <1>5, <2>4
  <2>6. T!Statements(S, i, o) =
          IF run # <<>> /\ run[1] \notin same THEN <<run[1]>> ELSE T!Leading(run, same)
    BY <2>1, <2>2, <2>4, Zenon DEF T!Statements
  <2>7. F!Statements(S, i, o) =
          IF run # <<>> /\ run[1] \notin same THEN <<run[1]>> ELSE F!Leading(run, same)
    BY <2>1, <2>2, <2>3, <2>5, Zenon DEF F!Statements
  <2> QED  BY <1>4, <2>6, <2>7
<1> QED  BY <1>6

LEMMA SameAsked ==
  \A S, pat, v : /\ T!GetStatements(S, pat, v) = F!GetStatements(S, pat, v)
                 /\ T!Contains(S, pat) = F!Contains(S, pat)
<1>1. \A S, x : T!Ids(S, x) = F!Ids(S, x)
  BY DEF T!Ids, F!Ids, T!GetNodeId, F!GetNodeId
<1>2. \A i, sort, k : T!OrderRank(i, sort, k) = F!OrderRank(i, sort, k)
  BY Zenon DEF T!OrderRank, F!OrderRank
<1>3. \A i, sort : T!OrderedIndex(i, sort) = F!OrderedIndex(i, sort)
  BY <1>2, SameOrders DEF T!OrderedIndex, F!OrderedIndex
<1>4. \A pat, v : T!SortPosition(pat, v) = F!SortPosition(pat, v)
  BY Zenon DEF T!SortPosition, F!SortPosition
<1>5. \A S, pat, v : T!GetStatements(S, pat, v) = F!GetStatements(S, pat, v)
  BY <1>1, <1>3, <1>4, SameRows DEF T!GetStatements, F!GetStatements
<1>6. \A S, pat : T!Contains(S, pat) = F!Contains(S, pat)
  BY <1>5 DEF T!Contains, F!Contains
<1> QED  BY <1>5, <1>6

LEMMA SameOffers ==
  /\ \A pat : T!TripleOrderings(pat) = F!TripleOrderings(pat)
  /\ \A i, o, c : T!SortedBy(i, o, c) = F!SortedBy(i, o, c)
<1>1. \A s : T!Cardinality(s) = F!Cardinality(s)
  BY DEF T!Cardinality, F!Cardinality
<1>2. \A pat : T!Repeated(pat) = F!Repeated(pat)
  BY Zenon DEF T!Repeated, F!Repeated
<1>3. \A pat, o : T!IndexOk(pat, o) = F!IndexOk(pat, o)
  BY <1>1, <1>2 DEF T!IndexOk, F!IndexOk
<1>4. \A pat : T!TripleOrderings(pat) = F!TripleOrderings(pat)
  BY <1>3, SameOrders DEF T!TripleOrderings, F!TripleOrderings
<1>5. \A i, o, c : T!SortedBy(i, o, c) = F!SortedBy(i, o, c)
  BY <1>1, ZenonT(60) DEF T!SortedBy, F!SortedBy
<1> QED  BY <1>4, <1>5

-----------------------------------------------------------------------------
(* The node map.                                                           *)

TypeRank(n) == IF n.type = "B" THEN 0 ELSE IF n.type = "R" THEN 1 ELSE 2

Alike(a, b) == TypeRank(a) = TypeRank(b) /\ a.value = b.value

Lower(a, b) == TypeRank(a) < TypeRank(b) \/ (TypeRank(a) = TypeRank(b) /\ a.value < b.value)

LEMMA MapNodeIs ==
  ASSUME NEW n \in MapNodes
  PROVE  /\ n.type \in {"B", "R", "L", "G", "D"} /\ n.value \in Int /\ TypeRank(n) \in 0..2
         /\ ~M!NodeIsVariable(n) /\ M!NodeRead(M!NodeWrite(n)) = n
<1>1. /\ n = [type |-> n.type, value |-> n.value, tag |-> n.tag]
      /\ n.type \in {"B", "R", "L", "G", "D"} /\ n.value \in Int
      /\ ~M!NodeIsVariable(n) /\ (n.type \notin {"G", "D"} => n.tag = 0)
  BY MapNodesAssumption DEF M!Node, M!IsNode, M!NodeIsVariable, M!NodeTypes, M!Literals, M!Variables
<1>2. M!NodeRead(M!NodeWrite(n)) = n
  <2>1. CASE n.type \in {"G", "D"}
    <3>1. M!NodeWrite(n) = <<n.type, n.value, n.tag>>
      BY <1>1, <2>1 DEF M!NodeWrite
    <3> QED  BY <1>1, <2>1, <3>1 DEF M!NodeRead, M!Node
  <2>2. CASE n.type \notin {"G", "D"}
    <3>1. M!NodeWrite(n) = <<n.type, n.value>>
      BY <1>1, <2>2 DEF M!NodeWrite
    <3> QED  BY <1>1, <2>2, <3>1 DEF M!NodeRead, M!Node
  <2> QED  BY <2>1, <2>2
<1> QED  BY <1>1, <1>2 DEF TypeRank

\* hx_node_cmp orders nodes by their type and then by their value.
LEMMA CmpIs ==
  ASSUME NEW a \in MapNodes, NEW b \in MapNodes
  PROVE  /\ M!NodeCmp(a, b) = 0 <=> Alike(a, b)
         /\ M!NodeCmp(a, b) < 0 <=> Lower(a, b)
         /\ M!NodeCmp(a, b) <= 0 <=> Lower(a, b) \/ Alike(a, b)
<1>1. /\ a.type \in {"B", "R", "L", "G", "D"} /\ a.value \in Int
      /\ b.type \in {"B", "R", "L", "G", "D"} /\ b.value \in Int
  BY MapNodeIs
<1>2. M!NodeIsLiteral(a) <=> a.type \in {"L", "G", "D"}
  BY DEF M!NodeIsLiteral, M!Literals
<1>3. M!NodeIsLiteral(b) <=> b.type \in {"L", "G", "D"}
  BY DEF M!NodeIsLiteral, M!Literals
<1>4. ~M!NodeIsVariable(a) /\ ~M!NodeIsVariable(b)
  BY MapNodeIs
<1>5. M!SameType(a, b) <=> TypeRank(a) = TypeRank(b)
  BY <1>1, <1>2, <1>3 DEF M!SameType, TypeRank
<1>6. CASE TypeRank(a) = TypeRank(b)
  <2>1. M!NodeCmp(a, b) = IF a.value < b.value THEN -1 ELSE IF a.value > b.value THEN 1 ELSE 0
    <3>1. M!NodeCmp(a, b) = M!Sign(a.value - b.value)
      BY <1>4, <1>5, <1>6 DEF M!NodeCmp
    <3> QED  BY <1>1, <3>1 DEF M!Sign
  <2>2. ~(TypeRank(a) < TypeRank(b))
    BY <1>6, MapNodeIs
  <2>3. /\ M!NodeCmp(a, b) = 0 <=> a.value = b.value
        /\ M!NodeCmp(a, b) < 0 <=> a.value < b.value
        /\ M!NodeCmp(a, b) <= 0 <=> a.value < b.value \/ a.value = b.value
    BY <1>1, <2>1
  <2> QED  BY <1>6, <2>2, <2>3 DEF Alike, Lower
<1>7. CASE TypeRank(a) # TypeRank(b)
  <2>1. M!NodeCmp(a, b) = IF TypeRank(a) < TypeRank(b) THEN -1 ELSE 1
    BY <1>1, <1>2, <1>4, <1>5, <1>7 DEF M!NodeCmp, TypeRank
  <2> QED  BY <1>7, <2>1, MapNodeIs DEF Alike, Lower
<1> QED  BY <1>6, <1>7

MapOK(m) ==
  /\ m = [id2node |-> m.id2node, node2id |-> m.id2node, next_id |-> m.next_id]
  /\ m.next_id \in Nat \ {0} /\ IsFiniteSet(m.id2node)
  /\ \A e \in m.id2node : /\ e = <<e[1], e[2]>> /\ e[2] \in MapNodes
                          /\ e[1] \in Nat \ {0} /\ e[1] < m.next_id
  /\ \A d, e \in m.id2node : d[1] = e[1] \/ Alike(d[2], e[2]) => d = e

\* The map has the nodes of H, each as the first of those that compare equal to it.
MapHolds(m, H) ==
  /\ H \subseteq MapNodes
  /\ \A n \in H : \E e \in m.id2node : Alike(e[2], n)
  /\ \A e \in m.id2node : e[2] \in H

LEMMA MapFinds ==
  ASSUME NEW m, MapOK(m), NEW n \in MapNodes
  PROVE  /\ M!WithNode(m, n) = {e \in m.id2node : Alike(e[2], n)}
         /\ \A e \in m.id2node : Alike(e[2], n) => M!GetNodeId(m, n) = e[1]
         /\ M!GetNodeId(m, n) # 0 <=> \E e \in m.id2node : Alike(e[2], n)
<1>1. M!WithNode(m, n) = {e \in m.id2node : Alike(e[2], n)}
  <2>1. m.node2id = m.id2node
    BY DEF MapOK
  <2>2. \A e \in m.id2node : M!NodeCmp(e[2], n) = 0 <=> Alike(e[2], n)
    BY CmpIs DEF MapOK
  <2> QED  BY <2>1, <2>2 DEF M!WithNode
<1>2. M!GetNodeId(m, n) = IF M!WithNode(m, n) = {} THEN 0
                          ELSE (CHOOSE e \in M!WithNode(m, n) : TRUE)[1]
  BY MapNodeIs DEF M!GetNodeId
<1>3. \A d, e \in M!WithNode(m, n) : d = e
  BY <1>1 DEF MapOK, Alike
<1>4. \A e \in m.id2node : Alike(e[2], n) => M!GetNodeId(m, n) = e[1]
  BY <1>1, <1>2, <1>3
<1>5. M!GetNodeId(m, n) # 0 <=> \E e \in m.id2node : Alike(e[2], n)
  <2>1. \A e \in m.id2node : e[1] # 0
    BY DEF MapOK
  <2> QED  BY <1>1, <1>2, <1>4, <2>1
<1> QED  BY <1>1, <1>4, <1>5

LEMMA MapAdd ==
  ASSUME NEW m, MapOK(m), NEW H, MapHolds(m, H), NEW n \in MapNodes, NEW N, N = M!MapNode(m, n)
  PROVE  /\ MapOK(N) /\ MapHolds(N, H \cup {n})
         /\ N.next_id >= m.next_id
         /\ m.id2node \subseteq N.id2node /\ \A e \in N.id2node \ m.id2node : e[1] >= m.next_id
<1>1. /\ m.node2id = m.id2node /\ m.next_id \in Nat \ {0} /\ IsFiniteSet(m.id2node)
      /\ \A e \in m.id2node : /\ e = <<e[1], e[2]>> /\ e[2] \in MapNodes
                              /\ e[1] \in Nat \ {0} /\ e[1] < m.next_id
  BY DEF MapOK
<1>2. M!WithNode(m, n) = {e \in m.id2node : Alike(e[2], n)}
  BY MapFinds
<1>3. CASE M!WithNode(m, n) # {}
  <2>1. N = m
    BY <1>3 DEF M!MapNode
  <2> QED  BY <1>1, <1>2, <1>3, <2>1 DEF MapHolds
<1>4. CASE M!WithNode(m, n) = {}
  <2>1. PICK I : I = m.id2node \cup {<<m.next_id, n>>}
    OBVIOUS
  <2>2. N = [id2node |-> I, node2id |-> I, next_id |-> m.next_id + 1]
    BY <1>1, <1>4, <2>1 DEF M!MapNode
  <2>3. IsFiniteSet(I)
    BY <1>1, <2>1, FS_AddElement
  <2>4. \A e \in I : /\ e = <<e[1], e[2]>> /\ e[2] \in MapNodes
                     /\ e[1] \in Nat \ {0} /\ e[1] < m.next_id + 1
    BY <1>1, <2>1
  <2>5. \A e \in m.id2node : ~Alike(e[2], n) /\ ~Alike(n, e[2]) /\ e[1] # m.next_id
    BY <1>1, <1>2, <1>4 DEF Alike
  <2>6. \A d, e \in I : d[1] = e[1] \/ Alike(d[2], e[2]) => d = e
    <3> SUFFICES ASSUME NEW d \in I, NEW e \in I, d[1] = e[1] \/ Alike(d[2], e[2]) PROVE d = e
      OBVIOUS
    <3>0. PICK k : k = <<m.next_id, n>>
      OBVIOUS
    <3>1. k = <<m.next_id, n>> /\ k[1] = m.next_id /\ k[2] = n
      BY <3>0
    <3>2. CASE d = k
      BY <2>1, <2>5, <3>1, <3>2
    <3>3. CASE e = k
      BY <2>1, <2>5, <3>1, <3>3
    <3>4. CASE d \in m.id2node /\ e \in m.id2node
      BY <3>4 DEF MapOK
    <3> QED  BY <2>1, <3>1, <3>2, <3>3, <3>4
  <2>7. MapOK(N)
    BY <1>1, <2>2, <2>3, <2>4, <2>6 DEF MapOK
  <2>8. MapHolds(N, H \cup {n})
    <3>1. \E e \in I : Alike(e[2], n)
      <4>1. PICK k : k = <<m.next_id, n>>
        OBVIOUS
      <4>2. k \in I /\ k[2] = n
        BY <2>1, <4>1
      <4> QED  BY <4>2 DEF Alike
    <3>2. \A l \in H : \E e \in I : Alike(e[2], l)
      BY <2>1 DEF MapHolds
    <3>3. \A e \in I : e[2] \in H \cup {n}
      BY <2>1 DEF MapHolds
    <3> QED  BY <2>2, <3>1, <3>2, <3>3 DEF MapHolds
  <2>9. /\ N.next_id >= m.next_id
        /\ m.id2node \subseteq N.id2node /\ \A e \in N.id2node \ m.id2node : e[1] >= m.next_id
    BY <1>1, <2>1, <2>2
  <2> QED  BY <2>7, <2>8, <2>9
<1> QED  BY <1>3, <1>4

\* A map with some of the nodes of another.
LEMMA MapLess ==
  ASSUME NEW m, MapOK(m), NEW I \in SUBSET m.id2node, NEW N,
         N = [id2node |-> I, node2id |-> I, next_id |-> m.next_id]
  PROVE  MapOK(N) /\ N.id2node = I
<1>1. IsFiniteSet(I)
  BY FS_Subset DEF MapOK
<1> QED  BY <1>1 DEF MapOK

LEMMA MapRemoveId ==
  ASSUME NEW m, MapOK(m), NEW H, MapHolds(m, H), NEW id, NEW N, N = M!UnmapId(m, id)
  PROVE  /\ MapOK(N) /\ MapHolds(N, {n \in H : M!GetNodeId(m, n) # id})
         /\ N.next_id = m.next_id /\ N.id2node \subseteq m.id2node
<1>1. PICK I : I = {e \in m.id2node : e[1] # id}
  OBVIOUS
<1>2. m.id2node \ M!WithId(m, id) = I
  BY <1>1 DEF M!WithId
<1>3. {e \in m.node2id : \A g \in M!WithId(m, id) : M!NodeCmp(e[2], g[2]) # 0} = I
  <2>1. m.node2id = m.id2node
    BY DEF MapOK
  <2>2. ASSUME NEW e \in m.id2node
        PROVE  e \in I <=> \A g \in M!WithId(m, id) : M!NodeCmp(e[2], g[2]) # 0
    <3>1. \A g \in m.id2node : M!NodeCmp(e[2], g[2]) = 0 <=> e = g
      <4>1. \A g \in m.id2node : M!NodeCmp(e[2], g[2]) = 0 <=> Alike(e[2], g[2])
        BY CmpIs DEF MapOK
      <4> QED  BY <4>1 DEF MapOK, Alike
    <3> QED  BY <1>1, <3>1 DEF M!WithId
  <2> QED  BY <1>1, <2>1, <2>2
<1>4. N = [id2node |-> I, node2id |-> I, next_id |-> m.next_id]
  BY <1>2, <1>3 DEF M!UnmapId, MapOK
<1>5. MapOK(N) /\ N.id2node = I
  BY <1>1, <1>4, MapLess
<1>6. MapHolds(N, {n \in H : M!GetNodeId(m, n) # id})
  <2>1. ASSUME NEW n \in H, M!GetNodeId(m, n) # id PROVE \E e \in I : Alike(e[2], n)
    <3>1. PICK e \in m.id2node : Alike(e[2], n)
      BY DEF MapHolds
    <3>2. M!GetNodeId(m, n) = e[1]
      BY <3>1, MapFinds DEF MapHolds
    <3> QED  BY <1>1, <2>1, <3>1, <3>2
  <2>2. ASSUME NEW e \in I PROVE e[2] \in H /\ M!GetNodeId(m, e[2]) # id
    <3>1. e \in m.id2node /\ e[1] # id
      BY <1>1
    <3>2. e[2] \in H /\ e[2] \in MapNodes /\ Alike(e[2], e[2])
      BY <3>1 DEF MapHolds, MapOK, Alike
    <3>3. M!GetNodeId(m, e[2]) = e[1]
      BY <3>1, <3>2, MapFinds
    <3> QED  BY <3>1, <3>2, <3>3
  <2> QED  BY <1>5, <2>1, <2>2 DEF MapHolds
<1> QED  BY <1>1, <1>4, <1>5, <1>6

LEMMA MapRemove ==
  ASSUME NEW m, MapOK(m), NEW H, MapHolds(m, H), NEW n \in MapNodes, NEW N, N = M!UnmapNode(m, n)
  PROVE  /\ MapOK(N) /\ MapHolds(N, {l \in H : M!NodeCmp(l, n) # 0})
         /\ N.next_id = m.next_id /\ N.id2node \subseteq m.id2node
<1>1. PICK I : I = {e \in m.id2node : ~Alike(e[2], n)}
  OBVIOUS
<1>2. M!WithNode(m, n) = {e \in m.id2node : Alike(e[2], n)}
  BY MapFinds
<1>3. m.node2id \ M!WithNode(m, n) = I
  BY <1>1, <1>2 DEF MapOK
<1>4. {e \in m.id2node : \A g \in M!WithNode(m, n) : e[1] # g[1]} = I
  BY <1>1, <1>2 DEF MapOK
<1>5. N = [id2node |-> I, node2id |-> I, next_id |-> m.next_id]
  BY <1>3, <1>4 DEF M!UnmapNode, MapOK
<1>6. MapOK(N) /\ N.id2node = I
  BY <1>1, <1>5, MapLess
<1>7. MapHolds(N, {l \in H : M!NodeCmp(l, n) # 0})
  <2>1. \A l \in H : M!NodeCmp(l, n) # 0 <=> ~Alike(l, n)
    BY CmpIs DEF MapHolds
  <2>2. ASSUME NEW l \in H, ~Alike(l, n) PROVE \E e \in I : Alike(e[2], l)
    <3>1. PICK e \in m.id2node : Alike(e[2], l)
      BY DEF MapHolds
    <3>2. ~Alike(e[2], n)
      BY <2>2, <3>1 DEF Alike
    <3> QED  BY <1>1, <3>1, <3>2
  <2>3. \A e \in I : e[2] \in H /\ ~Alike(e[2], n)
    BY <1>1 DEF MapHolds
  <2> QED  BY <1>6, <2>1, <2>2, <2>3 DEF MapHolds
<1> QED  BY <1>1, <1>5, <1>6, <1>7

LEMMA MapReadBack ==
  ASSUME NEW m, MapOK(m)
  PROVE  M!ReadBack(m) = m
<1>1. \A e \in m.id2node : <<e[1], M!NodeRead(M!NodeWrite(e[2]))>> = e
  <2>1. \A e \in m.id2node : M!NodeRead(M!NodeWrite(e[2])) = e[2]
    BY MapNodeIs DEF MapOK
  <2> QED  BY <2>1 DEF MapOK
<1>2. M!Stored(m) = m.id2node
  BY <1>1 DEF M!Stored
<1> QED  BY <1>2 DEF M!ReadBack, MapOK

LEMMA NewMapIs == MapOK(M!NewMap) /\ MapHolds(M!NewMap, {})
BY FS_EmptySet DEF M!NewMap, MapOK, MapHolds

\* The numbers of the nodes of a map that is ordered ascend as the nodes do.
LEMMA OrderIs ==
  ASSUME NEW m, MapOK(m), NEW O, O = M!OrderNodes(m).id2node
  PROVE  /\ {e[2] : e \in O} = {e[2] : e \in m.id2node}
         /\ \A d, e \in O : d[1] < e[1] <=> M!NodeCmp(d[2], e[2]) < 0
<1>1. PICK nodes : nodes = {e[2] : e \in m.id2node}
  OBVIOUS
<1> DEFINE UpTo(n) == {l \in nodes : M!NodeCmp(l, n) <= 0}
<1>2. nodes \subseteq MapNodes /\ IsFiniteSet(nodes)
  <2> DEFINE f == [e \in m.id2node |-> e[2]]
  <2>1. f \in Surjection(m.id2node, nodes)
    BY <1>1 DEF Surjection
  <2>2. IsFiniteSet(m.id2node)
    BY DEF MapOK
  <2> HIDE DEF f
  <2>3. IsFiniteSet(nodes)
    BY <2>1, <2>2, FS_Surjection
  <2> QED  BY <1>1, <2>3 DEF MapOK
<1>3. O = {<<Cardinality(UpTo(n)), n>> : n \in nodes}
  <2>1. O = {<<M!Cardinality(UpTo(n)), n>> : n \in nodes}
    BY <1>1 DEF M!OrderNodes
  <2>2. \A S : M!Cardinality(S) = Cardinality(S)
    BY DEF M!Cardinality, Cardinality
  <2> HIDE DEF UpTo
  <2> QED  BY <2>1, <2>2
<1>4. ASSUME NEW a \in nodes
      PROVE  /\ IsFiniteSet(UpTo(a)) /\ Cardinality(UpTo(a)) \in Nat
             /\ \A l \in nodes : l \in UpTo(a) <=> Lower(l, a) \/ Alike(l, a)
  <2>1. IsFiniteSet(UpTo(a)) /\ Cardinality(UpTo(a)) \in Nat
    BY <1>2, FS_Subset, FS_CardinalityType
  <2>2. \A l \in nodes : M!NodeCmp(l, a) <= 0 <=> Lower(l, a) \/ Alike(l, a)
    BY <1>2, CmpIs
  <2> QED  BY <2>1, <2>2
<1>5. \A n \in nodes : UpTo(n) \subseteq nodes
  OBVIOUS
<1> HIDE DEF UpTo
<1>6. \A n \in nodes : n.value \in Int /\ TypeRank(n) \in Int
  BY <1>2, MapNodeIs
<1>7. ASSUME NEW a \in nodes, NEW b \in nodes
      PROVE  Cardinality(UpTo(a)) < Cardinality(UpTo(b)) <=> Lower(a, b)
  <2>1. CASE Lower(a, b)
    <3>1. UpTo(a) \subseteq UpTo(b)
      <4>1. ASSUME NEW l \in UpTo(a) PROVE l \in UpTo(b)
        <5>1. l \in nodes
          BY <1>5
        <5>2. Lower(l, a) \/ Alike(l, a)
          BY <1>4, <5>1
        <5>3. Lower(l, b)
          BY <1>6, <2>1, <5>1, <5>2 DEF Lower, Alike
        <5> QED  BY <1>4, <5>1, <5>3
      <4> QED  BY <4>1
    <3>2. b \in UpTo(b) /\ b \notin UpTo(a)
      <4>1. Alike(b, b) /\ ~Lower(b, a) /\ ~Alike(b, a)
        BY <1>6, <2>1 DEF Lower, Alike
      <4> QED  BY <1>4, <4>1
    <3>3. Cardinality(UpTo(a)) < Cardinality(UpTo(b))
      <4>1. Cardinality(UpTo(a)) <= Cardinality(UpTo(b))
            /\ (Cardinality(UpTo(b)) = Cardinality(UpTo(a)) => UpTo(b) = UpTo(a))
        BY <1>4, <3>1, FS_Subset
      <4> QED  BY <1>4, <3>2, <4>1
    <3> QED  BY <2>1, <3>3
  <2>2. CASE ~Lower(a, b)
    <3>1. UpTo(b) \subseteq UpTo(a)
      <4>1. ASSUME NEW l \in UpTo(b) PROVE l \in UpTo(a)
        <5>1. l \in nodes
          BY <1>5
        <5>2. Lower(l, b) \/ Alike(l, b)
          BY <1>4, <5>1
        <5>3. Lower(l, a) \/ Alike(l, a)
          BY <1>6, <2>2, <5>1, <5>2 DEF Lower, Alike
        <5> QED  BY <1>4, <5>1, <5>3
      <4> QED  BY <4>1
    <3>2. Cardinality(UpTo(b)) <= Cardinality(UpTo(a))
      BY <1>4, <3>1, FS_Subset
    <3> QED  BY <1>4, <2>2, <3>2
  <2> QED  BY <2>1, <2>2
<1>8. \A d, e \in O : d[1] < e[1] <=> M!NodeCmp(d[2], e[2]) < 0
  <2> SUFFICES ASSUME NEW d \in O, NEW e \in O PROVE d[1] < e[1] <=> M!NodeCmp(d[2], e[2]) < 0
    OBVIOUS
  <2>1. PICK a \in nodes : d = <<Cardinality(UpTo(a)), a>>
    BY <1>3
  <2>2. PICK b \in nodes : e = <<Cardinality(UpTo(b)), b>>
    BY <1>3
  <2>3. M!NodeCmp(a, b) < 0 <=> Lower(a, b)
    BY <1>2, CmpIs
  <2> QED  BY <1>7, <2>1, <2>2, <2>3
<1>9. {e[2] : e \in O} = nodes
  <2>1. \A e \in O : e[2] \in nodes
    BY <1>3
  <2>2. ASSUME NEW n \in nodes PROVE \E e \in O : e[2] = n
    <3>1. PICK e : e = <<Cardinality(UpTo(n)), n>>
      OBVIOUS
    <3> QED  BY <1>3, <3>1
  <2> QED  BY <2>1, <2>2
<1> QED  BY <1>1, <1>8, <1>9

-----------------------------------------------------------------------------
(* The inductive invariant.                                                *)

ChainsInv ==
  /\ ParliamentOK(store) /\ Tallied(store) /\ P!Content(store) = held
  /\ Len(store.records) <= MaxResources /\ Len(store.statements) <= MaxStatements

FilesInv ==
  /\ F!Files(store) /\ F!Covered(store)
  /\ F!Even(store, loading) /\ F!Numbered(store, Terms)
  /\ ~reopened => F!Distinct(store)
  /\ F!RoundTrip(store) => F!Decoded(store) = held

MapInv == MapOK(store) /\ MapHolds(store, held)

StoresInv ==
  /\ kind \in {"parliament", "tokyo", "nodemap"}
  /\ status \in {"open", "closed", "exited", "aborted"}
  /\ loading \in BOOLEAN /\ reopened \in BOOLEAN
  /\ kind = "parliament" => ChainsInv
  /\ kind = "tokyo" => FilesInv
  /\ kind = "nodemap" => MapInv

\* What a step does to the nodes that have ids.
NodesStay ==
  /\ kind = "parliament" =>
       /\ Len(store.records) <= Len(store'.records)
       /\ \A r \in 1..Len(store.records) : store'.records[r].value = store.records[r].value
  /\ kind = "tokyo" =>
       /\ \A n \in DOMAIN store.node2id :
            n \in DOMAIN store'.node2id /\ store'.node2id[n] = store.node2id[n]
       /\ ~reopened => \A n, m \in DOMAIN store'.node2id :
                         store'.node2id[n] = store'.node2id[m] => n = m
  /\ kind = "nodemap" =>
       /\ store'.next_id >= store.next_id
       /\ \A e \in store'.id2node : e \in store.id2node \/ e[1] >= store.next_id

LEMMA TermsFinite == IsFiniteSet(Terms) /\ F!IsFiniteSet(Terms)
BY IdsAssumption DEF F!IsFiniteSet, IsFiniteSet

LEMMA InitStores == Init => StoresInv
<1> SUFFICES ASSUME Init PROVE StoresInv
  OBVIOUS
<1>1. CASE kind = "parliament"
  <2>1. store = P!EmptyStore /\ held = {} /\ status = "open" /\ loading = FALSE /\ reopened = FALSE
    BY <1>1 DEF Init
  <2>2. ChainsInv
    BY <2>1, EmptyIs, StoresAssumption DEF ChainsInv
  <2> QED  BY <1>1, <2>1, <2>2 DEF StoresInv
<1>2. CASE kind = "tokyo"
  <2>1. store = T!EmptyStore /\ held = {} /\ status = "open" /\ loading = FALSE /\ reopened = FALSE
    BY <1>2 DEF Init
  <2>2. FilesInv
    BY <2>1, SameStore, F!NewFiles, F!CoverNew, F!EvenNew DEF FilesInv
  <2> QED  BY <1>2, <2>1, <2>2 DEF StoresInv
<1>3. CASE kind = "nodemap"
  <2>1. store = M!NewMap /\ held = {} /\ status = "open" /\ loading = FALSE /\ reopened = FALSE
    BY <1>3 DEF Init
  <2>2. MapInv
    BY <2>1, NewMapIs DEF MapInv
  <2> QED  BY <1>3, <2>1, <2>2 DEF StoresInv
<1> QED  BY <1>1, <1>2, <1>3 DEF Init

LEMMA TripleIs == Triples \subseteq Term3 /\ Triples \subseteq F!Node3
BY StoresAssumption DEF Term3, F!Node3

LEMMA ChainsAdd ==
  ASSUME StoresInv, NEW x \in Triples, AddToParliament(x) PROVE StoresInv' /\ NodesStay
<1>1. /\ kind = "parliament" /\ kind' = kind /\ UNCHANGED <<loading, reopened>> /\ ChainsInv
      /\ x \in Term3
  BY TripleIs DEF AddToParliament, StoresInv
<1>2. PICK S, H : S = store /\ H = held
  OBVIOUS
<1>3. /\ ParliamentOK(S) /\ Tallied(S) /\ P!Content(S) = H
      /\ Len(S.records) <= MaxResources /\ Len(S.statements) <= MaxStatements
  BY <1>1, <1>2 DEF ChainsInv
<1>4. CASE P!AddTriple(S, x) = <<>>
  <2>1. store' = store /\ held' = held /\ status' = "aborted"
    BY <1>2, <1>4 DEF AddToParliament
  <2>2. ChainsInv'
    BY <1>1, <2>1 DEF ChainsInv
  <2>3. Len(store.records) \in Nat
    BY <1>2, <1>3, TablesAre DEF ParliamentOK
  <2> QED  BY <1>1, <2>1, <2>2, <2>3 DEF StoresInv, NodesStay
<1>5. CASE P!AddTriple(S, x) # <<>>
  <2>1. PICK N : N = P!AddTriple(S, x)[1]
    OBVIOUS
  <2>2. store' = N /\ held' = held \cup {x} /\ status' = status
    BY <1>2, <1>5, <2>1 DEF AddToParliament
  <2>3. P!AddTriple(S, x) = <<N>>
    BY <1>5, <2>1, AddTripleGives
  <2>4. /\ ParliamentOK(N) /\ Tallied(N) /\ P!Content(N) = P!Content(S) \cup {x}
        /\ Len(N.records) <= MaxResources /\ Len(N.statements) <= MaxStatements
        /\ Len(S.records) <= Len(N.records)
        /\ \A r \in 1..Len(S.records) : N.records[r].value = S.records[r].value
    BY <1>1, <1>3, <2>3, AddTripleIs
  <2>5. ChainsInv'
    BY <1>2, <1>3, <2>2, <2>4 DEF ChainsInv
  <2> QED  BY <1>1, <1>2, <2>2, <2>4, <2>5 DEF StoresInv, NodesStay
<1> QED  BY <1>4, <1>5

LEMMA ChainsRemove ==
  ASSUME StoresInv, NEW x \in Triples, RemoveFromParliament(x) PROVE StoresInv' /\ NodesStay
<1>1. /\ kind = "parliament" /\ kind' = kind /\ UNCHANGED <<status, loading, reopened>> /\ ChainsInv
      /\ x \in Term3 /\ store' = P!RemoveTriple(store, x) /\ held' = held \ {x}
  BY TripleIs DEF RemoveFromParliament, StoresInv
<1>2. PICK S, N : S = store /\ N = P!RemoveTriple(S, x)
  OBVIOUS
<1>3. /\ ParliamentOK(S) /\ Tallied(S) /\ P!Content(S) = held
      /\ Len(S.records) <= MaxResources /\ Len(S.statements) <= MaxStatements
  BY <1>1, <1>2 DEF ChainsInv
<1>4. /\ ParliamentOK(N) /\ Tallied(N) /\ P!Content(N) = P!Content(S) \ {x}
      /\ Len(N.records) = Len(S.records) /\ Len(N.statements) = Len(S.statements)
      /\ \A r \in 1..Len(S.records) : N.records[r].value = S.records[r].value
  BY <1>1, <1>2, <1>3, RemoveTripleIs
<1>5. store' = N /\ Len(S.records) \in Nat
  BY <1>1, <1>2, <1>3, TablesAre DEF ParliamentOK
<1>6. ChainsInv'
  BY <1>1, <1>3, <1>4, <1>5 DEF ChainsInv
<1> QED  BY <1>1, <1>2, <1>4, <1>5, <1>6 DEF StoresInv, NodesStay

LEMMA FilesAdd ==
  ASSUME StoresInv, NEW x \in Triples, AddToTokyo(x) PROVE StoresInv' /\ NodesStay
<1>1. /\ kind = "tokyo" /\ kind' = kind /\ UNCHANGED <<status, loading, reopened>> /\ FilesInv
      /\ x \in F!Node3 /\ store' = T!AddTriple(store, x) /\ held' = held \cup {x}
  BY TripleIs DEF AddToTokyo, StoresInv
<1>2. PICK S, N : S = store /\ N = F!AddTriple(S, x)
  OBVIOUS
<1>3. /\ F!Files(S) /\ F!Covered(S) /\ (~reopened => F!Distinct(S)) /\ (F!RoundTrip(S) => F!Decoded(S) = held)
      /\ F!Even(S, loading) /\ F!Numbered(S, Terms)
  BY <1>1, <1>2 DEF FilesInv
<1>4. /\ F!Files(N) /\ (F!RoundTrip(N) => F!RoundTrip(S) /\ F!Decoded(N) = F!Decoded(S) \cup {x})
      /\ F!Distinct(S) => F!Distinct(N)
      /\ \A n \in DOMAIN S.node2id : n \in DOMAIN N.node2id /\ N.node2id[n] = S.node2id[n]
  BY <1>1, <1>2, <1>3, F!FileAddTriple
<1>5. store' = N /\ F!Covered(N) /\ F!Even(N, loading) /\ F!Numbered(N, Terms)
  <2>1. store' = N
    BY <1>1, <1>2, SameChange
  <2>2. F!Covered(N) /\ F!Even(N, loading)
    BY <1>1, <1>2, <1>3, F!CoverAddTriple, F!EvenAdd
  <2>3. x[1] \in Terms /\ x[2] \in Terms /\ x[3] \in Terms
    BY TripleIs DEF Term3
  <2>4. F!Numbered(N, Terms)
    BY <1>1, <1>2, <1>3, <2>3, TermsFinite, F!NumberedAdd
  <2> QED  BY <2>1, <2>2, <2>4
<1>6. FilesInv'
  BY <1>1, <1>3, <1>4, <1>5 DEF FilesInv
<1>7. NodesStay
  BY <1>1, <1>2, <1>3, <1>4, <1>5 DEF NodesStay, F!Distinct
<1> QED  BY <1>1, <1>6, <1>7 DEF StoresInv

LEMMA FilesRemove ==
  ASSUME StoresInv, NEW x \in Triples, RemoveFromTokyo(x) PROVE StoresInv' /\ NodesStay
<1>1. /\ kind = "tokyo" /\ kind' = kind /\ UNCHANGED <<status, loading, reopened>> /\ FilesInv
      /\ x \in F!Node3 /\ store' = T!RemoveTriple(store, x) /\ held' = held \ {x}
      /\ T!Known(store, x)
  BY TripleIs DEF RemoveFromTokyo, StoresInv
<1>2. PICK S, N : S = store /\ N = F!RemoveTriple(S, x)
  OBVIOUS
<1>3. /\ F!Files(S) /\ F!Covered(S) /\ (~reopened => F!Distinct(S)) /\ (F!RoundTrip(S) => F!Decoded(S) = held)
      /\ F!Even(S, loading) /\ F!Numbered(S, Terms)
  BY <1>1, <1>2 DEF FilesInv
<1>4. \A k \in 1..3 : x[k] \in DOMAIN S.node2id
  <2>1. \A k \in 1..3 : x[k] \in Nat
    BY <1>1, StoresAssumption DEF F!Node3
  <2> QED  BY <1>1, <1>2, <2>1 DEF T!Known
<1>5. /\ F!Files(N) /\ (F!RoundTrip(N) => F!RoundTrip(S) /\ F!Decoded(N) = F!Decoded(S) \ {x})
      /\ F!Distinct(S) => F!Distinct(N)
      /\ N.node2id = S.node2id
  BY <1>1, <1>2, <1>3, <1>4, F!FileRemoveTriple
<1>6. store' = N /\ F!Covered(N) /\ F!Even(N, loading) /\ F!Numbered(N, Terms)
  <2>1. store' = N
    BY <1>1, <1>2, SameChange
  <2>2. F!Covered(N) /\ F!Even(N, loading)
    BY <1>2, <1>3, F!CoverOthers, F!EvenOthers
  <2>3. F!Numbered(N, Terms)
    BY <1>2, <1>3, TermsFinite, F!NumberedOthers
  <2> QED  BY <2>1, <2>2, <2>3
<1>7. FilesInv'
  BY <1>1, <1>3, <1>5, <1>6 DEF FilesInv
<1>8. NodesStay
  BY <1>1, <1>2, <1>3, <1>5, <1>6 DEF NodesStay, F!Distinct
<1> QED  BY <1>1, <1>7, <1>8 DEF StoresInv

LEMMA FilesBulk ==
  ASSUME StoresInv, BeginBulk \/ EndBulk PROVE StoresInv' /\ NodesStay
<1>1. /\ kind = "tokyo" /\ kind' = kind /\ UNCHANGED <<status, held, reopened>> /\ FilesInv
      /\ \/ store' = T!BeginBulk(store) /\ loading' = TRUE
         \/ store' = T!EndBulk(store) /\ loading' = FALSE
  BY DEF BeginBulk, EndBulk, StoresInv
<1>2. PICK S : S = store
  OBVIOUS
<1>3. PICK N, on : N = store' /\ on = loading' /\ on \in BOOLEAN
  BY <1>1
<1>4. /\ F!Files(S) /\ F!Covered(S) /\ (~reopened => F!Distinct(S)) /\ (F!RoundTrip(S) => F!Decoded(S) = held)
      /\ F!Even(S, loading) /\ F!Numbered(S, Terms)
  BY <1>1, <1>2 DEF FilesInv
<1>5. (N = F!BeginBulk(S) /\ on = TRUE) \/ (N = F!EndBulk(S) /\ on = FALSE)
  BY <1>1, <1>2, <1>3, SameStore
<1>6. /\ F!Files(N) /\ (F!RoundTrip(N) <=> F!RoundTrip(S)) /\ F!Decoded(N) = F!Decoded(S)
      /\ F!Distinct(S) => F!Distinct(N)
      /\ N.node2id = S.node2id
  BY <1>4, <1>5, F!FileBulk
<1>7. FilesInv'
  <2>1. F!Covered(N) /\ F!Even(N, on)
    BY <1>4, <1>5, F!CoverOthers, F!EvenOthers
  <2>2. F!Numbered(N, Terms)
    BY <1>4, <1>5, TermsFinite, F!NumberedOthers
  <2> QED  BY <1>1, <1>3, <1>4, <1>6, <2>1, <2>2 DEF FilesInv
<1>8. NodesStay
  BY <1>1, <1>2, <1>3, <1>4, <1>6 DEF NodesStay, F!Distinct
<1> QED  BY <1>1, <1>3, <1>7, <1>8 DEF StoresInv

LEMMA FilesOpen == ASSUME StoresInv, Open PROVE StoresInv' /\ NodesStay
<1>1. /\ kind = "tokyo" /\ kind' = kind /\ UNCHANGED <<held, loading>> /\ FilesInv
      /\ store' = T!Reopen(store) /\ status' = "open" /\ reopened' = TRUE
  BY DEF Open, StoresInv
<1>2. PICK S, N : S = store /\ N = F!Reopen(S)
  OBVIOUS
<1>3. /\ F!Files(S) /\ F!Covered(S) /\ (~reopened => F!Distinct(S)) /\ (F!RoundTrip(S) => F!Decoded(S) = held)
      /\ F!Even(S, loading) /\ F!Numbered(S, Terms)
  BY <1>1, <1>2 DEF FilesInv
<1>4. /\ F!Files(N) /\ (F!RoundTrip(N) <=> F!RoundTrip(S)) /\ F!Decoded(N) = F!Decoded(S)
      /\ N.node2id = S.node2id
  BY <1>2, <1>3, F!FileReopen
<1>5. store' = N /\ F!Covered(N) /\ F!Even(N, loading) /\ F!Numbered(N, Terms)
  <2>1. store' = N
    BY <1>1, <1>2, SameStore
  <2>2. F!Covered(N) /\ F!Even(N, loading)
    BY <1>2, <1>3, F!CoverOthers, F!EvenOthers
  <2>3. F!Numbered(N, Terms)
    BY <1>2, <1>3, TermsFinite, F!NumberedOthers
  <2> QED  BY <2>1, <2>2, <2>3
<1>6. FilesInv'
  BY <1>1, <1>3, <1>4, <1>5 DEF FilesInv
<1>7. NodesStay
  BY <1>1, <1>2, <1>3, <1>4, <1>5 DEF NodesStay, F!Distinct
<1> QED  BY <1>1, <1>6, <1>7 DEF StoresInv

LEMMA FilesStay ==
  ASSUME StoresInv, AskUnknown \/ Close PROVE StoresInv' /\ NodesStay
<1>1. /\ kind = "tokyo" /\ UNCHANGED <<kind, store, held, loading, reopened>> /\ FilesInv
      /\ status' \in {"open", "closed", "exited", "aborted"}
  BY DEF AskUnknown, Close, StoresInv
<1>2. FilesInv'
  BY <1>1 DEF FilesInv
<1>3. NodesStay
  BY <1>1 DEF NodesStay, FilesInv, F!Distinct
<1> QED  BY <1>1, <1>2, <1>3 DEF StoresInv

\* What a step does to a node map.
LEMMA MapSteps ==
  ASSUME StoresInv, kind = "nodemap", UNCHANGED <<kind, status, loading, reopened>>,
         NEW m, m = store, NEW N, N = store', MapOK(N), MapHolds(N, held'),
         N.next_id >= m.next_id, \A e \in N.id2node : e \in m.id2node \/ e[1] >= m.next_id
  PROVE  StoresInv' /\ NodesStay
<1>1. MapInv'
  BY DEF MapInv
<1> QED  BY <1>1 DEF StoresInv, NodesStay

LEMMA MapNodeAdded ==
  ASSUME StoresInv, NEW n \in MapNodes, AddNode(n) PROVE StoresInv' /\ NodesStay
<1>1. PICK m, H : m = store /\ H = held
  OBVIOUS
<1>2. PICK N : N = M!MapNode(m, n)
  OBVIOUS
<1>3. /\ kind = "nodemap" /\ UNCHANGED <<kind, status, loading, reopened>>
      /\ N = store' /\ held' = H \cup {n}
  BY <1>1, <1>2 DEF AddNode
<1>4. MapOK(m) /\ MapHolds(m, H)
  BY <1>1, <1>3 DEF StoresInv, MapInv
<1>5. /\ MapOK(N) /\ MapHolds(N, H \cup {n}) /\ N.next_id >= m.next_id
      /\ \A e \in N.id2node \ m.id2node : e[1] >= m.next_id
  BY <1>2, <1>4, MapAdd
<1>6. \A e \in N.id2node : e \in m.id2node \/ e[1] >= m.next_id
  BY <1>5
<1> QED  BY <1>1, <1>3, <1>5, <1>6, MapSteps

LEMMA MapIdRemoved ==
  ASSUME StoresInv, NEW id, RemoveNodeId(id) PROVE StoresInv' /\ NodesStay
<1>1. PICK m, H : m = store /\ H = held
  OBVIOUS
<1>2. PICK N : N = M!UnmapId(m, id)
  OBVIOUS
<1>3. /\ kind = "nodemap" /\ UNCHANGED <<kind, status, loading, reopened>>
      /\ N = store' /\ held' = {n \in H : M!GetNodeId(m, n) # id}
  BY <1>1, <1>2 DEF RemoveNodeId
<1>4. MapOK(m) /\ MapHolds(m, H)
  BY <1>1, <1>3 DEF StoresInv, MapInv
<1>5. /\ MapOK(N) /\ MapHolds(N, {n \in H : M!GetNodeId(m, n) # id})
      /\ N.next_id = m.next_id /\ N.id2node \subseteq m.id2node
  BY <1>2, <1>4, MapRemoveId
<1>6. N.next_id >= m.next_id /\ \A e \in N.id2node : e \in m.id2node \/ e[1] >= m.next_id
  BY <1>4, <1>5 DEF MapOK
<1> QED  BY <1>1, <1>3, <1>5, <1>6, MapSteps

LEMMA MapNodeRemoved ==
  ASSUME StoresInv, NEW n \in MapNodes, RemoveNode(n) PROVE StoresInv' /\ NodesStay
<1>1. PICK m, H : m = store /\ H = held
  OBVIOUS
<1>2. PICK N : N = M!UnmapNode(m, n)
  OBVIOUS
<1>3. /\ kind = "nodemap" /\ UNCHANGED <<kind, status, loading, reopened>>
      /\ N = store' /\ held' = {l \in H : M!NodeCmp(l, n) # 0}
  BY <1>1, <1>2 DEF RemoveNode
<1>4. MapOK(m) /\ MapHolds(m, H)
  BY <1>1, <1>3 DEF StoresInv, MapInv
<1>5. /\ MapOK(N) /\ MapHolds(N, {l \in H : M!NodeCmp(l, n) # 0})
      /\ N.next_id = m.next_id /\ N.id2node \subseteq m.id2node
  BY <1>2, <1>4, MapRemove
<1>6. N.next_id >= m.next_id /\ \A e \in N.id2node : e \in m.id2node \/ e[1] >= m.next_id
  BY <1>4, <1>5 DEF MapOK
<1> QED  BY <1>1, <1>3, <1>5, <1>6, MapSteps

LEMMA MapWritten ==
  ASSUME StoresInv, WriteAndRead PROVE StoresInv' /\ NodesStay
<1>1. PICK m : m = store
  OBVIOUS
<1>2. kind = "nodemap" /\ UNCHANGED <<kind, status, held, loading, reopened>>
  BY DEF WriteAndRead
<1>3. MapOK(m) /\ MapHolds(m, held)
  BY <1>1, <1>2 DEF StoresInv, MapInv
<1>4. m = store'
  BY <1>1, <1>3, MapReadBack DEF WriteAndRead
<1>5. MapHolds(m, held')
  BY <1>2, <1>3
<1>6. m.next_id >= m.next_id
  BY <1>3 DEF MapOK
<1> QED  BY <1>1, <1>2, <1>3, <1>4, <1>5, <1>6, MapSteps

LEMMA StoresStutter ==
  ASSUME StoresInv, UNCHANGED vars PROVE StoresInv' /\ NodesStay
<1>1. UNCHANGED <<kind, store, status, held, loading, reopened>>
  BY DEF vars
<1>2. StoresInv'
  BY <1>1 DEF StoresInv, ChainsInv, FilesInv, MapInv
<1>3. ASSUME kind = "parliament" PROVE NodesStay
  <2>1. PICK S : S = store
    OBVIOUS
  <2>2. ParliamentOK(S)
    BY <1>3, <2>1 DEF StoresInv, ChainsInv
  <2>3. Len(S.records) \in Nat
    BY <2>2, TablesAre DEF ParliamentOK
  <2> QED  BY <1>1, <1>3, <2>1, <2>3 DEF NodesStay
<1>4. ASSUME kind = "tokyo" PROVE NodesStay
  BY <1>1, <1>4 DEF NodesStay, StoresInv, FilesInv, F!Distinct
<1>5. ASSUME kind = "nodemap" PROVE NodesStay
  <2>1. PICK m : m = store
    OBVIOUS
  <2>2. MapOK(m)
    BY <1>5, <2>1 DEF StoresInv, MapInv
  <2>3. m.next_id >= m.next_id
    BY <2>2 DEF MapOK
  <2> QED  BY <1>1, <1>5, <2>1, <2>3 DEF NodesStay
<1> QED  BY <1>2, <1>3, <1>4, <1>5 DEF StoresInv

LEMMA NextStores ==
  ASSUME StoresInv, [Next]_vars PROVE StoresInv' /\ NodesStay
<1>1. ASSUME NEW x \in Triples,
             AddToParliament(x) \/ AddToTokyo(x) \/ RemoveFromParliament(x) \/ RemoveFromTokyo(x)
      PROVE  StoresInv' /\ NodesStay
  BY <1>1, ChainsAdd, ChainsRemove, FilesAdd, FilesRemove
<1>2. ASSUME AskUnknown \/ Close \/ BeginBulk \/ EndBulk \/ Open PROVE StoresInv' /\ NodesStay
  BY <1>2, FilesStay, FilesBulk, FilesOpen
<1>3. ASSUME NEW n \in MapNodes, AddNode(n) \/ RemoveNode(n) PROVE StoresInv' /\ NodesStay
  BY <1>3, MapNodeAdded, MapNodeRemoved
<1>4. ASSUME NEW id \in 1..MaxCount, RemoveNodeId(id) PROVE StoresInv' /\ NodesStay
  BY <1>4, MapIdRemoved
<1>5. ASSUME WriteAndRead PROVE StoresInv' /\ NodesStay
  BY <1>5, MapWritten
<1>6. ASSUME UNCHANGED vars PROVE StoresInv' /\ NodesStay
  BY <1>6, StoresStutter
<1> QED  BY <1>1, <1>2, <1>3, <1>4, <1>5, <1>6 DEF Next

\* In every state the tables of the one store are chained so that the loop along a
\* subject finds each statement and no two statements say the same; the ids of the
\* other are given once until it is opened again, and what its first table decodes
\* to is what was added, for as long as its maps undo each other; and the node map
\* has one item for each class of nodes that hx_node_cmp cannot tell apart.
THEOREM StoresKept == Spec => []StoresInv
<1>1. StoresInv /\ [Next]_vars => StoresInv'
  BY NextStores
<1> QED  BY <1>1, InitStores, PTL DEF Spec

-----------------------------------------------------------------------------

\* The state is of the kind that was made: the tables of the store of chains never
\* grow beyond their places, every node of the store in files has an id that leads
\* back to some node, in each of the six tables' keys, and no id of a node map is
\* ahead of the next one.
THEOREM TypeCorrect == Spec => []TypeOK
<1>1. StoresInv => TypeOK
  <2> SUFFICES ASSUME StoresInv PROVE TypeOK
    OBVIOUS
  <2>1. kind = "parliament" => Len(store.records) <= MaxResources /\ Len(store.statements) <= MaxStatements
    BY DEF StoresInv, ChainsInv
  <2>2. kind = "tokyo" => /\ DOMAIN store.index = T!Orders
                          /\ \A n \in DOMAIN store.node2id : store.node2id[n] \in DOMAIN store.id2node
    BY SameOrders DEF StoresInv, FilesInv, F!Files
  <2>3. kind = "nodemap" => \A e \in store.id2node : e[1] < store.next_id /\ e[2] \in MapNodes
    BY DEF StoresInv, MapInv, MapOK
  <2> QED  BY <2>1, <2>2, <2>3 DEF StoresInv, TypeOK
<1> QED  BY <1>1, StoresKept, PTL

LEMMA MapIsHeld == ASSUME MapInv, kind = "nodemap" PROVE HoldsWhatWasAdded
<1>1. PICK m, H : m = store /\ H = held
  OBVIOUS
<1>2. MapOK(m) /\ MapHolds(m, H)
  BY <1>1 DEF MapInv
<1>3. H = {n \in MapNodes : n \in H /\ M!GetNodeId(m, n) # 0}
  <2>1. ASSUME NEW n \in H PROVE n \in MapNodes /\ M!GetNodeId(m, n) # 0
    BY <1>2, MapFinds DEF MapHolds
  <2> QED  BY <2>1
<1>4. ASSUME NEW e \in m.id2node
      PROVE  M!GetNode(m, e[1]) = <<e[2]>> /\ M!GetNodeId(m, e[2]) = e[1] /\ e[2] \in H
  <2>1. e[2] \in MapNodes /\ e[1] # 0 /\ e[2] \in H /\ Alike(e[2], e[2])
    BY <1>2 DEF MapOK, MapHolds, Alike
  <2>2. M!WithId(m, e[1]) = {e}
    BY <1>2 DEF M!WithId, MapOK
  <2>3. (CHOOSE d \in M!WithId(m, e[1]) : TRUE) = e
    BY <2>2
  <2>4. M!GetNode(m, e[1]) = <<e[2]>>
    BY <2>1, <2>2, <2>3 DEF M!GetNode
  <2> QED  BY <1>2, <2>1, <2>4, MapFinds
<1>5. Named = m.id2node
  BY <1>1, <1>2 DEF Named, MapOK
<1>6. NodesRoundTrip
  BY <1>1, <1>4, <1>5 DEF NodesRoundTrip
<1> QED  BY <1>1, <1>3, <1>4, <1>6 DEF HoldsWhatWasAdded

\* HoldsWhatWasAdded, for any triples and nodes: the chains of the one store, the six
\* tables of the other and the two trees of the node map hold what was added to
\* them and not removed, while the maps between nodes and ids undo each other.
THEOREM StoresHoldWhatWasAdded == Spec => []HoldsWhatWasAdded
<1>1. ASSUME StoresInv PROVE HoldsWhatWasAdded
  <2>1. CASE kind = "parliament"
    BY <1>1, <2>1 DEF StoresInv, ChainsInv, HoldsWhatWasAdded, Content
  <2>2. CASE kind = "tokyo"
    <3>1. PICK S : S = store
      OBVIOUS
    <3>2. Content = F!Decoded(S)
      BY <2>2, <3>1 DEF Content, F!Decoded, F!First
    <3>3. NodesRoundTrip => F!RoundTrip(S)
      <4>1. \A n \in DOMAIN S.node2id : <<S.node2id[n], n>> \in Named
        BY <2>2, <3>1 DEF Named
      <4>2. ASSUME NodesRoundTrip, NEW n \in DOMAIN S.node2id PROVE S.id2node[S.node2id[n]] = n
        <5>1. PICK e \in Named : e = <<S.node2id[n], n>>
          BY <4>1
        <5>2. S.id2node[e[1]] = e[2]
          BY <2>2, <3>1, <4>2 DEF NodesRoundTrip
        <5> QED  BY <5>1, <5>2
      <4> QED  BY <4>2 DEF F!RoundTrip
    <3>4. F!RoundTrip(S) => F!Decoded(S) = held
      BY <1>1, <2>2, <3>1 DEF StoresInv, FilesInv
    <3> QED  BY <2>2, <3>2, <3>3, <3>4 DEF HoldsWhatWasAdded
  <2>3. CASE kind = "nodemap"
    BY <1>1, <2>3, MapIsHeld DEF StoresInv
  <2> QED  BY <1>1, <2>1, <2>2, <2>3 DEF StoresInv
<1> QED  BY <1>1, StoresKept, PTL

\* What the store in files tells of a pattern.
LEMMA FilesCount ==
  ASSUME StoresInv, kind = "tokyo", NEW pat \in Patterns, T!Known(store, pat),
         \E k \in 1..3 : pat[k] < 0
  PROVE  T!Count(store, pat) >= Cardinality(Fitting(T!Ids(store, pat), store.index[<<1,2,3>>]))
<1>1. PICK S, i : S = store /\ i = T!Ids(S, pat)
  OBVIOUS
<1>2. F!Files(S) /\ F!Covered(S)
  BY <1>1 DEF StoresInv, FilesInv
<1>3. i = F!Ids(S, pat)
  BY <1>1, SameCount
<1>4. ASSUME NEW k \in 1..3
      PROVE  i[k] \in Int /\ i[k] # 0 /\ (pat[k] < 0 => i[k] < 0)
  <2>1. i[k] = IF pat[k] < 0 THEN pat[k] ELSE S.node2id[pat[k]]
    BY <1>1 DEF T!Ids, T!GetNodeId
  <2>2. CASE pat[k] < 0
    <3>1. pat[k] \in Int
      <4>1. pat[k] \in Terms \cup Variables /\ \A n \in Terms : n \in Nat
        BY StoresAssumption DEF Patterns
      <4> QED  BY <4>1 DEF Variables
    <3> QED  BY <2>1, <2>2, <3>1
  <2>3. CASE ~(pat[k] < 0)
    <3>1. pat[k] \in DOMAIN S.node2id
      BY <1>1, <2>3 DEF T!Known
    <3> QED  BY <1>2, <2>1, <2>3, <3>1 DEF F!Covered
  <2> QED  BY <2>2, <2>3
<1>5. PICK X : X = Fitting(i, S.index[<<1,2,3>>])
  OBVIOUS
<1>6. X \subseteq S.index[F!First] /\ \A t \in X : \A k \in 1..3 : i[k] > 0 => t[k] = i[k]
  BY <1>5 DEF Fitting, F!First
<1>7. F!Count(S, pat) >= F!Cardinality(X)
  <2>1. \A k \in 1..3 : i[k] \in Int /\ i[k] # 0
    BY <1>4
  <2>2. \E k \in 1..3 : i[k] < 0
    BY <1>4
  <2> QED  BY <1>2, <1>3, <1>6, <2>1, <2>2, F!CountCovers
<1>8. F!Cardinality(X) = Cardinality(X)
  BY DEF F!Cardinality, Cardinality
<1>9. T!Count(S, pat) = F!Count(S, pat)
  <2>1. ~\A k \in 1..3 : i[k] > 0
    BY <1>4
  <2> QED  BY <1>3, <2>1, SameCount
<1> QED  BY <1>1, <1>5, <1>7, <1>8, <1>9

\* CountsMatch, for any terms, triples and sizes of the tables: the counts that the
\* loops of the store of chains arrive at, and those that its records hold of subjects,
\* are the numbers of triples that fit, and no counter of the store in files is below
\* that number, whatever was loaded in bulk, removed or reopened.
THEOREM CountsAreRight == Spec => []CountsMatch
<1>1. ASSUME StoresInv PROVE CountsMatch
  <2>1. ASSUME kind = "parliament", NEW pat \in Patterns, Straight(pat),
               Cardinality({k \in 1..3 : pat[k] > 0}) # 1 \/ pat[1] > 0
        PROVE  P!Count(store, pat, {0, 1}) = {Cardinality(Fitting(pat, Content))}
    <3>1. PICK S : S = store
      OBVIOUS
    <3>2. ParliamentOK(S) /\ Tallied(S)
      BY <1>1, <2>1, <3>1 DEF StoresInv, ChainsInv
    <3>3. P!Count(S, pat, {0, 1}) = {Cardinality(FitIds(S, pat))}
      BY <2>1, <3>2, ChainsCount
    <3>4. Cardinality(Fitting(pat, P!Content(S))) = Cardinality(FitIds(S, pat))
      BY <2>1, <3>2, FitIdsCount
    <3>5. Content = P!Content(S)
      BY <2>1, <3>1 DEF Content
    <3> QED  BY <3>1, <3>3, <3>4, <3>5
  <2>2. ASSUME kind = "tokyo", NEW pat \in Patterns, T!Known(store, pat), \E k \in 1..3 : pat[k] < 0
        PROVE  T!Count(store, pat) >= Cardinality(Fitting(T!Ids(store, pat), store.index[<<1,2,3>>]))
    BY <1>1, <2>2, FilesCount
  <2> QED  BY <2>1, <2>2 DEF CountsMatch
<1> QED  BY <1>1, StoresKept, PTL

\* The ids that a pattern is read with, and the triples of a table that fit it: of
\* the first table all, of the others those that they have.
LEMMA FilesReadable ==
  ASSUME StoresInv, kind = "tokyo", NEW pat \in Patterns, Straight(pat),
         T!Known(store, pat), NEW i, i = T!Ids(store, pat),
         NEW all, all = Fitting(i, store.index[<<1,2,3>>])
  PROVE  /\ F!Readable(store) /\ F!AskedAs(pat, i) /\ i = F!Ids(store, pat)
         /\ F!Hits(i, store.index[F!First]) = all
         /\ \A o \in F!Orders : /\ F!Hits(i, store.index[o]) \subseteq all
                                /\ ~loading => F!Hits(i, store.index[o]) = all
<1>1. PICK S : S = store
  OBVIOUS
<1>2. /\ F!Files(S) /\ F!Covered(S) /\ F!Even(S, loading) /\ F!Numbered(S, Terms)
  BY <1>1 DEF StoresInv, FilesInv
<1>3. Base \in Nat \ {0, 1}
  BY StoresAssumption
<1>4. F!Readable(S)
  <2>1. F!Cardinality(Terms) < Base * Base
    <3>1. F!Cardinality(Terms) = Cardinality(Terms)
      BY DEF F!Cardinality, Cardinality
    <3> QED  BY <3>1, IdsAssumption
  <2> QED  BY <1>2, <1>3, <2>1, TermsFinite, F!ReadableIs
<1>5. i = F!Ids(S, pat)
  BY <1>1, SameCount
<1>6. ASSUME NEW k \in 1..3
      PROVE  /\ pat[k] \in Int /\ pat[k] # 0
             /\ i[k] = IF pat[k] < 0 THEN pat[k] ELSE S.node2id[pat[k]]
             /\ ~(pat[k] < 0) => i[k] \in F!IdSpace /\ i[k] > 0
  <2>1. pat[k] \in Int /\ pat[k] # 0
    <3>1. pat[k] \in Terms \cup Variables /\ \A n \in Terms : n \in Nat \ {0}
      BY StoresAssumption DEF Patterns
    <3> QED  BY <3>1 DEF Variables
  <2>2. i[k] = IF pat[k] < 0 THEN pat[k] ELSE S.node2id[pat[k]]
    BY <1>1 DEF T!Ids, T!GetNodeId
  <2>3. ASSUME ~(pat[k] < 0) PROVE i[k] \in F!IdSpace /\ i[k] > 0
    <3>1. pat[k] \in DOMAIN S.node2id /\ i[k] = S.node2id[pat[k]]
      BY <1>1, <2>2, <2>3 DEF T!Known
    <3>2. i[k] \in Nat \ {0}
      BY <1>2, <3>1 DEF F!Covered
    <3>3. i[k] <= F!Cardinality(Terms)
      BY <1>2, <3>1 DEF F!Numbered
    <3>4. F!Cardinality(Terms) = Cardinality(Terms)
      BY DEF F!Cardinality, Cardinality
    <3>5. PICK b, c \in Nat : c = Cardinality(Terms) /\ b = Base /\ c < b * b
      BY <1>3, TermsFinite, IdsAssumption, FS_CardinalityType
    <3>6. b * b \in Nat /\ i[k] <= c
      BY <3>3, <3>4, <3>5
    <3> QED  BY <3>2, <3>5, <3>6 DEF F!IdSpace
  <2> QED  BY <2>1, <2>2, <2>3
<1>7. F!AskedAs(pat, i)
  <2>1. \A j, k \in 1..3 : pat[j] = pat[k] /\ pat[j] < 0 => j = k
    BY DEF Straight
  <2> QED  BY <1>6, <2>1 DEF F!AskedAs
<1>8. F!Hits(i, S.index[F!First]) = Fitting(i, S.index[<<1,2,3>>])
  <2>1. PICK I : I = S.index[<<1,2,3>>]
    OBVIOUS
  <2>2. S.index[F!First] = I
    BY <2>1 DEF F!First
  <2>3. ASSUME NEW t \in I, \A k \in 1..3 : i[k] > 0 => t[k] = i[k],
               NEW j \in 1..3, NEW k \in 1..3, i[j] = i[k]
        PROVE  t[j] = t[k]
    <3>1. CASE i[k] > 0
      BY <2>3, <3>1
    <3>2. CASE ~(i[k] > 0)
      <4>1. pat[k] < 0 /\ pat[j] < 0 /\ pat[j] = pat[k]
        BY <1>6, <2>3, <3>2
      <4> QED  BY <4>1 DEF Straight
    <3> QED  BY <3>1, <3>2
  <2>4. Fitting(i, I) = {t \in I : \A k \in 1..3 : i[k] > 0 => t[k] = i[k]}
    BY <2>3 DEF Fitting
  <2> QED  BY <2>1, <2>2, <2>4 DEF F!Hits
<1>9. ASSUME NEW o \in F!Orders
      PROVE  /\ F!Hits(i, S.index[o]) \subseteq F!Hits(i, S.index[F!First])
             /\ ~loading => F!Hits(i, S.index[o]) = F!Hits(i, S.index[F!First])
  BY <1>2 DEF F!Even, F!Hits
<1> QED  BY <1>1, <1>4, <1>5, <1>7, <1>8, <1>9

\* StatementsMatch, for any terms, triples and base of the ids, after any adds, removals,
\* bulk loads and reopenings: a search from the first key that is not before the bound
\* nodes gives each triple of the table that fits, once; the rows ascend, as numbers, by
\* the position that comes after the bound ones, among the ids that have all but the
\* lowest byte in common, and no more is said of the order of others; and the tables give
\* all that fits, but for those other than the first during a bulk load.
THEOREM StatementsAreRight == Spec => []StatementsMatch
<1>1. ASSUME StoresInv PROVE StatementsMatch
  <2> SUFFICES ASSUME kind = "tokyo", NEW pat \in Patterns, Straight(pat),
                      T!Known(store, pat), NEW i, i = T!Ids(store, pat),
                      NEW all, all = Fitting(i, store.index[<<1,2,3>>])
               PROVE  /\ (\A k \in 1..3 : pat[k] > 0) => (T!Contains(store, pat) <=> all # {})
                      /\ \A o \in T!TripleOrderings(pat) :
                           (\E k \in 1..3 : pat[k] < 0) =>
                             OnceEach(T!Statements(store, i, o), all, loading /\ o # <<1,2,3>>)
                      /\ \A k \in {m \in 1..3 : pat[m] < 0} :
                           /\ OnceEach(T!GetStatements(store, pat, pat[k]), all, loading)
                           /\ OrderedBy(T!GetStatements(store, pat, pat[k]), k)
                      /\ pat = <<-1,-2,-3>> =>
                           \A o \in T!Orders, c \in 1..3 :
                             T!SortedBy(i, o, c) => OrderedBy(T!Statements(store, i, o), c)
    BY Zenon DEF StatementsMatch
  <2>1. PICK S : S = store
    OBVIOUS
  <2>2. /\ F!Readable(S) /\ F!AskedAs(pat, i) /\ i = F!Ids(S, pat)
        /\ F!Hits(i, S.index[F!First]) = all
        /\ \A o \in F!Orders : /\ F!Hits(i, S.index[o]) \subseteq all
                               /\ ~loading => F!Hits(i, S.index[o]) = all
    BY <1>1, <2>1, FilesReadable
  <2>3. Base \in Nat \ {0, 1}
    BY StoresAssumption
  <2>4. ASSUME \A k \in 1..3 : pat[k] > 0 PROVE T!Contains(S, pat) <=> all # {}
    BY <2>2, <2>3, <2>4, SameAsked, F!ContainsIs
  <2>5. ASSUME NEW rows, NEW o \in F!Orders, NEW part \in BOOLEAN,
               loading /\ o # F!First => part, F!RowSet(rows) = F!Hits(i, S.index[o]),
               Len(rows) = F!Cardinality(F!Hits(i, S.index[o]))
        PROVE  OnceEach(rows, all, part)
    <3>1. PICK H : H = F!Hits(i, S.index[o])
      OBVIOUS
    <3>2. {rows[n] : n \in DOMAIN rows} = H /\ F!Cardinality(H) = Cardinality(H)
      BY <2>5, <3>1 DEF F!RowSet, F!Cardinality, Cardinality
    <3>3. H \subseteq all /\ (~part => H = all)
      BY <2>2, <2>5, <3>1
    <3> QED  BY <2>5, <3>1, <3>2, <3>3 DEF OnceEach
  <2>6. ASSUME NEW o \in T!TripleOrderings(pat), NEW rows, rows = T!Statements(S, i, o)
        PROVE  OnceEach(rows, all, loading /\ o # <<1,2,3>>)
    <3>1. o \in F!TripleOrderings(pat) /\ rows = F!Statements(S, i, o)
      BY <2>6, SameOffers, SameRows
    <3>2. PICK H : H = F!Hits(i, S.index[o])
      OBVIOUS
    <3>3. F!RowSet(rows) = H /\ Len(rows) = F!Cardinality(H)
      BY <2>2, <2>3, <3>1, <3>2, F!OfferedAre
    <3>4. o \in F!Orders
      BY <3>1 DEF F!TripleOrderings
    <3>5. PICK part \in BOOLEAN : part = (loading /\ o # <<1,2,3>>)
      OBVIOUS
    <3>6. OnceEach(rows, all, part)
      <4>1. loading /\ o # F!First => part
        BY <3>5 DEF F!First
      <4> QED  BY <2>5, <3>2, <3>3, <3>4, <4>1
    <3> QED  BY <3>5, <3>6
  <2>7. ASSUME NEW k \in 1..3, pat[k] < 0, NEW rows, rows = T!GetStatements(S, pat, pat[k])
        PROVE  OnceEach(rows, all, loading) /\ OrderedBy(rows, k)
    <3>1. rows = F!GetStatements(S, pat, pat[k])
      BY <2>7, SameAsked
    <3>2. PICK o \in F!Orders : /\ F!RowSet(rows) = F!Hits(i, S.index[o])
                               /\ Len(rows) = F!Cardinality(F!Hits(i, S.index[o]))
      BY <2>2, <2>3, <2>7, <3>1, F!AskedAre
    <3>3. OnceEach(rows, all, loading)
      <4>1. loading \in BOOLEAN
        BY <1>1 DEF StoresInv
      <4> QED  BY <2>5, <3>2, <4>1
    <3>4. F!Ascends(rows, k)
      BY <2>2, <2>3, <2>7, <3>1, F!AskedAre
    <3> QED  BY <3>3, <3>4 DEF F!Ascends, OrderedBy
  <2>8. ASSUME pat = <<-1,-2,-3>>, NEW o \in T!Orders, NEW c \in 1..3, T!SortedBy(i, o, c),
               NEW rows, rows = T!Statements(S, i, o)
        PROVE  OrderedBy(rows, c)
    <3>1. o \in F!Orders /\ F!SortedBy(i, o, c) /\ rows = F!Statements(S, i, o)
      BY <2>8, SameOrders, SameOffers, SameRows
    <3>2. F!Asks(i) /\ \A k \in 1..3 : i[k] < 0
      <4>1. \A k \in 1..3 : pat[k] < 0
        BY <2>8
      <4> QED  BY <2>2, <4>1, F!AskedIs DEF F!AskedAs
    <3>3. F!Ascends(rows, c)
      BY <2>2, <2>3, <3>1, <3>2, F!UnboundAre
    <3> QED  BY <3>3 DEF F!Ascends, OrderedBy
  <2> QED  BY <2>1, <2>4, <2>6, <2>7, <2>8
<1> QED  BY <1>1, StoresKept, PTL

\* NamesStay, for any nodes: an id that names a node names no other after a step, the
\* ids that a step of a node map gives are not below its next id, whatever was removed
\* or written and read, and a map that is ordered numbers its nodes as hx_node_cmp
\* orders them.
THEOREM NamesAreKept == Spec => NamesStay
<1> DEFINE Stays == \A d \in Named, e \in Named' : d[1] = e[1] => d = e
<1> DEFINE Ordered(items) ==
      /\ {e[2] : e \in items} = {e[2] : e \in Named'}
      /\ \A d, e \in items : d[1] < e[1] <=> M!NodeCmp(d[2], e[2]) < 0
<1>1. ASSUME StoresInv, StoresInv', NodesStay, kind' = kind, ~reopened
      PROVE  Stays
  <2>1. CASE kind = "parliament"
    <3>1. PICK S, N : S = store /\ N = store'
      OBVIOUS
    <3>2. /\ Len(S.records) <= Len(N.records)
          /\ \A r \in 1..Len(S.records) : N.records[r].value = S.records[r].value
      BY <1>1, <2>1, <3>1 DEF NodesStay
    <3>3. Tables(S)
      BY <1>1, <2>1, <3>1 DEF StoresInv, ChainsInv, ParliamentOK
    <3>4. DOMAIN S.records = 1..Len(S.records)
      BY <3>3, TablesAre
    <3>5. Named = {<<id, S.records[id].value>> : id \in DOMAIN S.records}
      BY <2>1, <3>1 DEF Named
    <3>6. Named' = {<<id, N.records[id].value>> : id \in DOMAIN N.records}
      BY <1>1, <2>1, <3>1 DEF Named
    <3> QED  BY <3>2, <3>4, <3>5, <3>6
  <2>2. CASE kind = "tokyo"
    <3>1. PICK S, N : S = store /\ N = store'
      OBVIOUS
    <3>2. /\ \A n \in DOMAIN S.node2id : n \in DOMAIN N.node2id /\ N.node2id[n] = S.node2id[n]
          /\ \A n, m \in DOMAIN N.node2id : N.node2id[n] = N.node2id[m] => n = m
      BY <1>1, <2>2, <3>1 DEF NodesStay
    <3>3. Named = {<<S.node2id[n], n>> : n \in DOMAIN S.node2id}
      BY <2>2, <3>1 DEF Named
    <3>4. Named' = {<<N.node2id[n], n>> : n \in DOMAIN N.node2id}
      BY <1>1, <2>2, <3>1 DEF Named
    <3> QED  BY <3>2, <3>3, <3>4
  <2>3. CASE kind = "nodemap"
    <3>1. PICK S, N : S = store /\ N = store'
      OBVIOUS
    <3>2. \A e \in N.id2node : e \in S.id2node \/ e[1] >= S.next_id
      BY <1>1, <2>3, <3>1 DEF NodesStay
    <3>3. MapOK(S) /\ MapOK(N)
      BY <1>1, <2>3, <3>1 DEF StoresInv, MapInv
    <3>4. Named = S.id2node /\ Named' = N.id2node
      BY <1>1, <2>3, <3>1, <3>3 DEF Named, MapOK
    <3> QED  BY <3>2, <3>3, <3>4 DEF MapOK
  <2> QED  BY <1>1, <2>1, <2>2, <2>3 DEF StoresInv
<1>2. ASSUME StoresInv, StoresInv', NodesStay, kind' = kind, kind = "nodemap"
      PROVE  /\ \A e \in Named' \ Named : e[1] >= store.next_id
             /\ store'.next_id >= store.next_id
             /\ Ordered(M!OrderNodes(store').id2node)
  <2>1. PICK S, N : S = store /\ N = store'
    OBVIOUS
  <2>2. MapOK(S) /\ MapOK(N)
    BY <1>2, <2>1 DEF StoresInv, MapInv
  <2>3. Named = S.id2node /\ Named' = N.id2node
    BY <1>2, <2>1, <2>2 DEF Named, MapOK
  <2>4. PICK O : O = M!OrderNodes(N).id2node
    OBVIOUS
  <2>5. /\ {e[2] : e \in O} = {e[2] : e \in N.id2node}
        /\ \A d, e \in O : d[1] < e[1] <=> M!NodeCmp(d[2], e[2]) < 0
    BY <2>2, <2>4, OrderIs
  <2> QED  BY <1>2, <2>1, <2>3, <2>4, <2>5 DEF NodesStay
<1>3. [Next]_vars => kind' = kind
  BY DEF Next, vars, AddToParliament, AddToTokyo, RemoveFromParliament, RemoveFromTokyo,
         AskUnknown, BeginBulk, EndBulk, Close, Open, AddNode, RemoveNode, RemoveNodeId, WriteAndRead
<1> DEFINE Kept == /\ ~reopened => Stays
                   /\ kind = "nodemap" =>
                        /\ \A e \in Named' \ Named : e[1] >= store.next_id
                        /\ store'.next_id >= store.next_id
                        /\ Ordered(M!OrderNodes(store').id2node)
<1>4. StoresInv /\ [Next]_vars => Kept
  <2> SUFFICES ASSUME StoresInv, [Next]_vars PROVE Kept
    OBVIOUS
  <2>1. StoresInv' /\ NodesStay /\ kind' = kind
    BY <1>3, NextStores
  <2> HIDE DEF Stays, Ordered
  <2> QED  BY <1>1, <1>2, <2>1
<1> QED  BY <1>4, StoresKept, PTL DEF Spec, NamesStay
=============================================================================
