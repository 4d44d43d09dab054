--------------------------- MODULE Loading_proofs ---------------------------
(***************************************************************************)
(* Proofs about module Loading, for every number of ranks, every file and  *)
(* every size of the buffers: no byte is lost or read twice, and of a file *)
(* that can be loaded a rank hands on whole lines only.                    *)
(***************************************************************************)
EXTENDS Loading, FiniteSetTheorems, SequenceTheorems, WellFoundedInduction, TLAPS

-----------------------------------------------------------------------------
(* Numbers.                                                                *)

LEMMA LeastOf ==
  ASSUME NEW S \in SUBSET Nat, S # {}
  PROVE  \E n \in S : \A m \in S : n <= m
<1> DEFINE Less == OpToRel(<, Nat)
<1>1. IsWellFoundedOn(Less, Nat)
  BY NatLessThanWellFounded
<1>2. \A x, y \in Nat : <<x, y>> \in Less <=> x < y
  BY DEF OpToRel
<1> HIDE DEF Less
<1>3. PICK n \in S : \A m \in S : <<m, n>> \notin Less
  BY <1>1, WFMin
<1>4. ASSUME NEW m \in S PROVE n <= m
  <2>1. n \in Nat /\ m \in Nat
    OBVIOUS
  <2>2. ~(m < n)
    BY <1>2, <1>3, <2>1
  <2> QED  BY <2>1, <2>2
<1> QED  BY <1>4

LEMMA TimesMonotone ==
  ASSUME NEW a \in Nat, NEW b \in Nat, a <= b, NEW c \in Nat
  PROVE  a * c <= b * c /\ a * c \in Nat
<1>1. b - a \in Nat /\ (b - a) * c \in Nat /\ a * c \in Nat /\ b * c \in Nat
  OBVIOUS
<1>2. (b - a) * c = b * c - a * c
  OBVIOUS
<1> QED  BY <1>1, <1>2

\* What mpi_rdfio_readnt makes the chunks of.
LEMMA ChunkIs ==
  ASSUME NEW n \in Nat, n = Len(file)
  PROVE  /\ Chunk \in Nat /\ n % CommSize \in Nat
         /\ CommSize * Chunk + (n % CommSize) = n
BY LoadingAssumption DEF Chunk

LEMMA FirstAndLast ==
  ASSUME Len(file) \in Nat, NEW r \in Ranks
  PROVE  /\ r \in Nat /\ First(r) \in Nat /\ Last(r) \in Nat
         /\ First(r) <= Last(r) /\ Last(r) <= Len(file)
         /\ r = 0 => First(r) = 0
         /\ r = CommSize - 1 => Last(r) = Len(file)
         /\ r # CommSize - 1 => Last(r) = First(r + 1) /\ r + 1 \in Ranks
         /\ r # 0 => r - 1 \in Ranks /\ Last(r - 1) = First(r)
         /\ \A s \in Ranks : r < s => Last(r) <= First(s)
<1> DEFINE n == Len(file)
<1>1. /\ Chunk \in Nat /\ n % CommSize \in Nat
      /\ CommSize * Chunk + (n % CommSize) = n
  BY ChunkIs
<1>2. r \in Nat /\ r <= CommSize - 1 /\ CommSize \in Nat /\ CommSize - 1 \in Nat
  BY LoadingAssumption DEF Ranks
<1> HIDE DEF n
<1>3. ASSUME NEW s \in Nat PROVE s * Chunk \in Nat /\ (s + 1) * Chunk = s * Chunk + Chunk
  BY <1>1
<1>4. (CommSize - 1) * Chunk + Chunk + (n % CommSize) = n
  <2>1. ((CommSize - 1) + 1) * Chunk = (CommSize - 1) * Chunk + Chunk
    BY <1>2, <1>3
  <2>2. ((CommSize - 1) + 1) * Chunk = CommSize * Chunk
    BY <1>2
  <2> QED  BY <1>1, <1>2, <1>3, <2>1, <2>2
<1>5. r * Chunk \in Nat /\ r * Chunk <= (CommSize - 1) * Chunk
  BY <1>1, <1>2, TimesMonotone
<1>6. First(r) \in Nat /\ Last(r) \in Nat /\ First(r) <= Last(r)
  BY <1>1, <1>5 DEF First, Last, n
<1>7. Last(r) <= n /\ (r = CommSize - 1 => Last(r) = n)
  BY <1>1, <1>2, <1>3, <1>4, <1>5 DEF First, Last, n
<1>8. r # CommSize - 1 => Last(r) = First(r + 1) /\ r + 1 \in Ranks
  BY <1>1, <1>2, <1>3 DEF First, Last, Ranks
<1>9. r # 0 => r - 1 \in Ranks /\ Last(r - 1) = First(r)
  <2>1. ASSUME r # 0 PROVE r - 1 \in Ranks /\ Last(r - 1) = First(r)
    <3>1. r - 1 \in Nat /\ r - 1 \in Ranks /\ r - 1 # CommSize - 1
      BY <1>2, <2>1 DEF Ranks
    <3>2. ((r - 1) + 1) * Chunk = (r - 1) * Chunk + Chunk
      BY <1>3, <3>1
    <3>3. (r - 1) + 1 = r
      BY <1>2
    <3> QED  BY <1>1, <3>1, <3>2, <3>3 DEF First, Last
  <2> QED  BY <2>1
<1>10. ASSUME NEW s \in Ranks, r < s PROVE Last(r) <= First(s)
  <2>1. s \in Nat /\ r + 1 <= s /\ r # CommSize - 1 /\ r + 1 \in Nat
    BY <1>2, <1>10, LoadingAssumption DEF Ranks
  <2>2. (r + 1) * Chunk <= s * Chunk
    BY <1>1, <2>1, TimesMonotone
  <2> QED  BY <1>8, <2>1, <2>2 DEF First
<1>11. r = 0 => First(r) = 0
  BY <1>1 DEF First
<1> QED  BY <1>2, <1>6, <1>7, <1>8, <1>9, <1>10, <1>11 DEF n

\* Each byte is in the chunk of one rank.
LEMMA ChunksCover ==
  ASSUME Len(file) \in Nat, NEW at \in 0..Len(file) - 1
  PROVE  \E r \in Ranks : \A s \in Ranks : at \in First(s)..Last(s) - 1 <=> s = r
<1> DEFINE S == {r \in Ranks : at < Last(r)}
<1>1. CommSize - 1 \in Ranks /\ at \in Nat /\ at < Len(file) /\ Ranks \subseteq Nat
  BY LoadingAssumption DEF Ranks
<1>2. CommSize - 1 \in S /\ S \subseteq Nat
  BY <1>1, FirstAndLast
<1>3. PICK r \in S : \A s \in S : r <= s
  BY <1>2, LeastOf
<1>4. r \in Ranks /\ at < Last(r) /\ \A s \in Ranks : s < r => Last(s) <= at
  <2>1. ASSUME NEW s \in Ranks, s < r PROVE Last(s) <= at
    <3>1. s \notin S
      BY <1>1, <1>3, <2>1
    <3> QED  BY <1>1, <3>1, FirstAndLast
  <2> QED  BY <1>3, <2>1
<1> HIDE DEF S
<1>5. First(r) <= at
  <2>1. CASE r = 0
    BY <1>1, <1>4, <2>1, FirstAndLast
  <2>2. CASE r # 0
    BY <1>1, <1>4, <2>2, FirstAndLast
  <2> QED  BY <2>1, <2>2
<1>6. ASSUME NEW s \in Ranks PROVE at \in First(s)..Last(s) - 1 <=> s = r
  <2>1. /\ First(s) \in Nat /\ Last(s) \in Nat /\ First(r) \in Nat /\ Last(r) \in Nat
        /\ s < r => Last(s) <= at
        /\ r < s => Last(r) <= First(s)
    BY <1>4, FirstAndLast
  <2>2. s < r \/ s = r \/ r < s
    BY <1>1, <1>4
  <2> QED  BY <1>1, <1>4, <1>5, <2>1, <2>2
<1> QED  BY <1>4, <1>6

-----------------------------------------------------------------------------
(* Pieces.                                                                 *)

LEMMA OffsetsAre ==
  ASSUME NEW a \in Nat, NEW b \in Nat, a <= b
  PROVE  /\ Offsets(a, b) \in Seq(Nat) /\ Len(Offsets(a, b)) = b - a
         /\ DOMAIN Offsets(a, b) = 1..b - a
         /\ \A n \in 1..b - a : Offsets(a, b)[n] = a + n - 1
         /\ Covered(Offsets(a, b)) = a..b - 1
         /\ Offsets(a, b) = <<>> <=> a = b
<1>1. /\ b - a \in Nat /\ \A n \in 1..b - a : a + n - 1 \in Nat
  OBVIOUS
<1>2. Offsets(a, b) \in [1..b - a -> Nat]
  BY <1>1 DEF Offsets
<1>3. Offsets(a, b) \in Seq(Nat) /\ Len(Offsets(a, b)) = b - a
  BY <1>1, <1>2
<1>4. DOMAIN Offsets(a, b) = 1..b - a /\ \A n \in 1..b - a : Offsets(a, b)[n] = a + n - 1
  BY DEF Offsets
<1>5. Covered(Offsets(a, b)) = a..b - 1
  <2>1. Covered(Offsets(a, b)) = {a + n - 1 : n \in 1..b - a}
    BY <1>4 DEF Covered
  <2>2. ASSUME NEW at \in a..b - 1 PROVE \E n \in 1..b - a : at = a + n - 1
    <3>1. at - a + 1 \in 1..b - a /\ at = a + (at - a + 1) - 1
      OBVIOUS
    <3> QED  BY <3>1
  <2>3. \A n \in 1..b - a : a + n - 1 \in a..b - 1
    OBVIOUS
  <2> QED  BY <2>1, <2>2, <2>3
<1>6. Offsets(a, b) = <<>> <=> a = b
  BY <1>3
<1> QED  BY <1>3, <1>4, <1>5, <1>6

LEMMA OffsetsJoin ==
  ASSUME NEW a \in Nat, NEW b \in Nat, NEW c \in Nat, a <= b, b <= c
  PROVE  Offsets(a, b) \o Offsets(b, c) = Offsets(a, c)
<1> DEFINE s == Offsets(a, b)
           t == Offsets(b, c)
           u == Offsets(a, c)
<1>1. /\ s \in Seq(Nat) /\ Len(s) = b - a /\ \A n \in 1..b - a : s[n] = a + n - 1
      /\ t \in Seq(Nat) /\ Len(t) = c - b /\ \A n \in 1..c - b : t[n] = b + n - 1
      /\ u \in Seq(Nat) /\ Len(u) = c - a /\ \A n \in 1..c - a : u[n] = a + n - 1
  <2>1. s \in Seq(Nat) /\ Len(s) = b - a /\ \A n \in 1..b - a : s[n] = a + n - 1
    BY OffsetsAre
  <2>2. t \in Seq(Nat) /\ Len(t) = c - b /\ \A n \in 1..c - b : t[n] = b + n - 1
    BY OffsetsAre
  <2>3. a <= c
    OBVIOUS
  <2>4. u \in Seq(Nat) /\ Len(u) = c - a /\ \A n \in 1..c - a : u[n] = a + n - 1
    BY <2>3, OffsetsAre
  <2> QED  BY <2>1, <2>2, <2>4
<1> HIDE DEF s, t, u
<1>2. s \o t \in Seq(Nat) /\ Len(s \o t) = c - a
  BY <1>1
<1>3. ASSUME NEW n \in 1..c - a PROVE (s \o t)[n] = u[n]
  <2>1. CASE n <= b - a
    <3>1. n \in 1..b - a /\ (s \o t)[n] = s[n]
      BY <1>1, <2>1
    <3>2. s[n] = a + n - 1 /\ u[n] = a + n - 1
      BY <1>1, <3>1
    <3> QED  BY <3>1, <3>2
  <2>2. CASE n > b - a
    <3>1. n - (b - a) \in 1..c - b
      BY <2>2
    <3>2. (s \o t)[n] = t[n - (b - a)]
      BY <1>1, <2>2, SMTT(30)
    <3>3. t[n - (b - a)] = b + (n - (b - a)) - 1
      BY <1>1, <3>1
    <3>4. u[n] = a + n - 1
      BY <1>1
    <3>5. b + (n - (b - a)) - 1 = a + n - 1
      OBVIOUS
    <3> QED  BY <3>2, <3>3, <3>4, <3>5
  <2>3. n <= b - a \/ n > b - a
    OBVIOUS
  <2> QED  BY <2>1, <2>2, <2>3
<1>4. s \o t = u
  BY <1>1, <1>2, <1>3, SeqEqual
<1> QED  BY <1>4 DEF s, t, u

LEMMA CoveredJoin ==
  ASSUME NEW s \in Seq(Nat), NEW t \in Seq(Nat)
  PROVE  s \o t \in Seq(Nat) /\ Covered(s \o t) = Covered(s) \cup Covered(t)
<1>1. /\ s \o t \in Seq(Nat) /\ Len(s \o t) = Len(s) + Len(t)
      /\ Len(s) \in Nat /\ Len(t) \in Nat
      /\ DOMAIN s = 1..Len(s) /\ DOMAIN t = 1..Len(t) /\ DOMAIN (s \o t) = 1..Len(s) + Len(t)
  OBVIOUS
<1>2. \A n \in 1..Len(s) : (s \o t)[n] = s[n] /\ n \in 1..Len(s) + Len(t)
  BY <1>1
<1>3. \A n \in 1..Len(t) : (s \o t)[Len(s) + n] = t[n] /\ Len(s) + n \in 1..Len(s) + Len(t)
  BY <1>1
<1>4. \A n \in 1..Len(s) + Len(t) : n \in 1..Len(s) \/ \E m \in 1..Len(t) : n = Len(s) + m
  <2>1. ASSUME NEW n \in 1..Len(s) + Len(t), n > Len(s)
        PROVE  \E m \in 1..Len(t) : n = Len(s) + m
    <3>1. n - Len(s) \in 1..Len(t) /\ n = Len(s) + (n - Len(s))
      BY <1>1, <2>1
    <3> QED  BY <3>1
  <2>2. ASSUME NEW n \in 1..Len(s) + Len(t), ~(n > Len(s)) PROVE n \in 1..Len(s)
    BY <1>1, <2>2
  <2> QED  BY <2>1, <2>2
<1>5. Covered(s \o t) = {(s \o t)[n] : n \in 1..Len(s) + Len(t)}
  BY <1>1 DEF Covered
<1>6. Covered(s) = {s[n] : n \in 1..Len(s)} /\ Covered(t) = {t[n] : n \in 1..Len(t)}
  BY <1>1 DEF Covered
<1>7. ASSUME NEW n \in 1..Len(s) + Len(t) PROVE (s \o t)[n] \in Covered(s) \cup Covered(t)
  BY <1>2, <1>3, <1>4, <1>6, ZenonT(60)
<1>8. Covered(s) \cup Covered(t) \subseteq Covered(s \o t)
  BY <1>2, <1>3, <1>5, <1>6
<1> QED  BY <1>1, <1>5, <1>7, <1>8

LEMMA AppendSeq ==
  ASSUME NEW S, NEW s \in Seq(S), NEW x \in S
  PROVE  /\ Append(s, x) \in Seq(S) /\ Len(s) \in Nat
         /\ DOMAIN s = 1..Len(s) /\ DOMAIN Append(s, x) = 1..Len(s) + 1
         /\ \A n \in 1..Len(s) : Append(s, x)[n] = s[n]
         /\ Append(s, x)[Len(s) + 1] = x
OBVIOUS

LEMMA CoveredNothing == Covered(<<>>) = {}
BY DEF Covered

-----------------------------------------------------------------------------
(* Where a rank is in its chunk.                                           *)

RankTypes(r) ==
  /\ pc[r] \in {"next", "probe", "done", "crashed"}
  /\ index[r] \in Nat /\ end[r] \in Nat
  /\ First(r) <= index[r] /\ index[r] <= end[r] /\ end[r] <= Last(r)
  /\ first[r] \in Seq(Nat) /\ last[r] \in Seq(Nat)
  /\ mail[r] \subseteq Seq(Nat)
  /\ lines[r] \in Seq(Seq(Nat))
  /\ pc[r] = "probe" => first[r] = <<>>

Typed ==
  /\ Len(file) \in Nat \ {0} /\ DOMAIN file = 1..Len(file) /\ bufsize \in Nat \ {0}
  /\ DOMAIN pc = Ranks /\ DOMAIN index = Ranks /\ DOMAIN end = Ranks
  /\ DOMAIN first = Ranks /\ DOMAIN last = Ranks /\ DOMAIN mail = Ranks
  /\ DOMAIN lines = Ranks
  /\ \A r \in Ranks : RankTypes(r)

LEMMA MarkIs ==
  ASSUME NEW r \in Ranks, index[r] \in Nat, end[r] \in Nat, Marked(r)
  PROVE  /\ Mark(r) \in index[r]..end[r] - 1 /\ Mark(r) \in Nat /\ Newline(Mark(r))
         /\ \A b \in index[r]..Mark(r) - 1 : ~Newline(b)
<1> DEFINE S == {at \in index[r]..end[r] - 1 : Newline(at)}
<1>1. S \in SUBSET Nat /\ S # {}
  BY DEF Marked
<1>2. PICK n \in S : \A m \in S : n <= m
  BY <1>1, LeastOf
<1>3. n \in index[r]..end[r] - 1 /\ Newline(n) /\ \A b \in index[r]..n - 1 : ~Newline(b)
  <2>1. ASSUME NEW b \in index[r]..n - 1, Newline(b) PROVE FALSE
    <3>1. b \in S
      BY <1>2, <2>1
    <3> QED  BY <1>1, <1>2, <2>1, <3>1
  <2> QED  BY <1>2, <2>1
<1> HIDE DEF S
<1>4. /\ Mark(r) \in index[r]..end[r] - 1 /\ Newline(Mark(r))
      /\ \A b \in index[r]..Mark(r) - 1 : ~Newline(b)
  BY <1>3 DEF Mark
<1> QED  BY <1>4

To(r)   == IF r > 0 THEN r - 1 ELSE CommSize - 1
From(r) == IF r < CommSize - 1 THEN r + 1 ELSE 0

LEMMA ToFrom ==
  ASSUME NEW r \in Ranks
  PROVE  To(r) \in Ranks /\ From(r) \in Ranks /\ From(To(r)) = r
BY LoadingAssumption DEF Ranks, To, From

\* What each step changes, of the rank that takes it and of the one it sends to.
LEMMA StepTyped ==
  ASSUME Typed, NEW r \in Ranks, Step(r)
  PROVE  Typed'
<1> USE DEF Typed
<1>1. /\ RankTypes(r) /\ First(r) \in Nat /\ Last(r) \in Nat /\ bufsize \in Nat
      /\ pc[r] \notin {"done", "crashed"} /\ UNCHANGED <<file, bufsize>>
  BY FirstAndLast DEF Step, ReadBuffer, KeepPiece, SendPiece, Receive, NextLine, LastLine, End
<1>2. \A s \in Ranks : First(s)' = First(s) /\ Last(s)' = Last(s)
  BY <1>1 DEF First, Last, Chunk
<1>3. SUFFICES
        /\ DOMAIN pc' = Ranks /\ DOMAIN index' = Ranks /\ DOMAIN end' = Ranks
        /\ DOMAIN first' = Ranks /\ DOMAIN last' = Ranks /\ DOMAIN mail' = Ranks
        /\ DOMAIN lines' = Ranks
        /\ \A s \in Ranks : RankTypes(s)'
  BY <1>1
<1>4. \A s \in Ranks : RankTypes(s)
  OBVIOUS
<1>5. CASE ReadBuffer(r)
  <2>1. /\ UNCHANGED <<pc, index, first, last, mail, lines>>
        /\ index[r] = end[r] /\ end[r] < Last(r) /\ DOMAIN end' = Ranks
        /\ \A s \in Ranks : s # r => end'[s] = end[s]
        /\ end'[r] = IF Last(r) - end[r] < bufsize THEN Last(r) ELSE end[r] + bufsize
    BY <1>5 DEF ReadBuffer
  <2>2. end'[r] \in Nat /\ end[r] <= end'[r] /\ end'[r] <= Last(r)
    BY <1>1, <2>1 DEF RankTypes
  <2>7. ASSUME NEW s \in Ranks PROVE RankTypes(s)'
    <3>1. CASE s = r  BY <1>1, <1>2, <1>4, <2>1, <2>2, <3>1 DEF RankTypes
    <3>2. CASE s # r  BY <1>1, <1>2, <1>4, <2>1, <2>2, <3>2 DEF RankTypes
    <3> QED  BY <3>1, <3>2
  <2> QED  BY <1>1, <2>1, <2>7
<1>6. CASE KeepPiece(r)
  <2>1. /\ UNCHANGED <<pc, end, first, mail, lines>>
        /\ DOMAIN index' = Ranks /\ DOMAIN last' = Ranks
        /\ \A s \in Ranks : s # r => index'[s] = index[s] /\ last'[s] = last[s]
        /\ index'[r] = end[r] /\ last'[r] = last[r] \o Offsets(index[r], end[r])
    BY <1>6 DEF KeepPiece
  <2>2. last'[r] \in Seq(Nat)
    BY <1>1, <2>1, OffsetsAre, CoveredJoin DEF RankTypes
  <2>3. index'[r] \in Nat /\ end'[r] \in Nat /\ First(r) <= index'[r] /\ index'[r] <= end'[r]
        /\ end'[r] <= Last(r)
    BY <1>1, <2>1 DEF RankTypes
  <2>7. ASSUME NEW s \in Ranks PROVE RankTypes(s)'
    <3>1. CASE s = r  BY <1>1, <1>2, <2>1, <2>2, <2>3, <3>1 DEF RankTypes
    <3>2. CASE s # r  BY <1>1, <1>2, <1>4, <2>1, <3>2 DEF RankTypes
    <3> QED  BY <3>1, <3>2
  <2> QED  BY <1>1, <2>1, <2>7
<1>7. CASE SendPiece(r)
  <2>1. /\ UNCHANGED <<end, first, last, lines>> /\ Marked(r) /\ first[r] = <<>>
        /\ DOMAIN index' = Ranks /\ DOMAIN mail' = Ranks /\ DOMAIN pc' = Ranks
        /\ \A s \in Ranks : s # r => index'[s] = index[s] /\ pc'[s] = pc[s]
        /\ \A s \in Ranks : s # To(r) => mail'[s] = mail[s]
        /\ To(r) \in Ranks => mail'[To(r)] = mail[To(r)] \cup {Offsets(index[r], Mark(r) + 1)}
        /\ index'[r] = Mark(r) + 1 /\ pc'[r] = "probe"
    BY <1>7 DEF SendPiece, To
  <2>2. Mark(r) \in index[r]..end[r] - 1 /\ Mark(r) \in Nat
    BY <1>1, <2>1, MarkIs DEF RankTypes
  <2>3. Offsets(index[r], Mark(r) + 1) \in Seq(Nat)
    <3>1. index[r] \in Nat /\ Mark(r) + 1 \in Nat /\ index[r] <= Mark(r) + 1
      BY <1>1, <2>2 DEF RankTypes
    <3> QED  BY <3>1, OffsetsAre
  <2>4. \A s \in Ranks : mail'[s] \subseteq Seq(Nat)
    BY <1>4, <2>1, <2>3, ZenonT(30) DEF RankTypes
  <2>5. index'[r] \in Nat /\ First(r) <= index'[r] /\ index'[r] <= end[r]
    BY <1>1, <2>1, <2>2 DEF RankTypes
  <2>7. ASSUME NEW s \in Ranks PROVE RankTypes(s)'
    <3>1. CASE s = r  BY <1>1, <1>2, <1>4, <2>1, <2>4, <2>5, <3>1 DEF RankTypes
    <3>2. CASE s # r  BY <1>1, <1>2, <1>4, <2>1, <2>4, <2>5, <3>2 DEF RankTypes
    <3> QED  BY <3>1, <3>2
  <2> QED  BY <1>1, <2>1, <2>7
<1>8. CASE Receive(r)
  <2>1. PICK piece \in mail[r] :
          /\ first' = [first EXCEPT ![r] = piece]
          /\ mail' = [mail EXCEPT ![r] = @ \ {piece}]
    BY <1>8 DEF Receive
  <2>2. pc' = [pc EXCEPT ![r] = "next"] /\ UNCHANGED <<index, end, last, lines>>
    BY <1>8 DEF Receive
  <2>3. piece \in Seq(Nat)
    BY <1>1, <2>1 DEF RankTypes
  <2>7. ASSUME NEW s \in Ranks PROVE RankTypes(s)'
    <3>1. CASE s = r  BY <1>1, <1>2, <1>4, <2>1, <2>2, <2>3, <3>1 DEF RankTypes
    <3>2. CASE s # r  BY <1>1, <1>2, <1>4, <2>1, <2>2, <2>3, <3>2 DEF RankTypes
    <3> QED  BY <3>1, <3>2
  <2> QED  BY <1>1, <2>1, <2>2, <2>7
<1>9. CASE NextLine(r)
  <2>1. /\ UNCHANGED <<end, first, mail>> /\ Marked(r) /\ pc[r] = "next"
        /\ HandOn(r, last[r] \o Offsets(index[r], Mark(r) + 1))
        /\ last' = [last EXCEPT ![r] = <<>>] /\ index' = [index EXCEPT ![r] = Mark(r) + 1]
    BY <1>9 DEF NextLine
  <2>2. Mark(r) \in index[r]..end[r] - 1 /\ Mark(r) \in Nat
    BY <1>1, <2>1, MarkIs DEF RankTypes
  <2>3. PICK line \in Seq(Nat) : HandOn(r, line)
    <3>1. index[r] \in Nat /\ Mark(r) + 1 \in Nat /\ index[r] <= Mark(r) + 1
      BY <1>1, <2>2 DEF RankTypes
    <3>2. last[r] \o Offsets(index[r], Mark(r) + 1) \in Seq(Nat)
      BY <1>1, <3>1, OffsetsAre, CoveredJoin DEF RankTypes
    <3> QED  BY <2>1, <3>2
  <2>4. /\ DOMAIN pc' = Ranks /\ DOMAIN lines' = Ranks
        /\ \A s \in Ranks : s # r => pc'[s] = pc[s] /\ lines'[s] = lines[s]
        /\ pc'[r] \in {"next", "crashed"}
        /\ lines'[r] = lines[r] \/ lines'[r] = Append(lines[r], line)
    BY <2>1, <2>3 DEF HandOn
  <2>5. lines'[r] \in Seq(Seq(Nat))
    <3>1. lines[r] \in Seq(Seq(Nat))
      BY <1>1 DEF RankTypes
    <3>2. Append(lines[r], line) \in Seq(Seq(Nat))
      BY <3>1, AppendSeq
    <3> QED  BY <2>4, <3>1, <3>2
  <2>7. ASSUME NEW s \in Ranks PROVE RankTypes(s)'
    <3>1. CASE s = r  BY <1>1, <1>2, <1>4, <2>1, <2>2, <2>4, <2>5, <3>1, SMTT(30) DEF RankTypes
    <3>2. CASE s # r  BY <1>1, <1>2, <1>4, <2>1, <2>2, <2>4, <2>5, <3>2 DEF RankTypes
    <3> QED  BY <3>1, <3>2
  <2> QED  BY <1>1, <2>1, <2>4, <2>7
<1>10. CASE LastLine(r)
  <2>1. /\ UNCHANGED <<index, end, mail>> /\ pc[r] = "next"
        /\ HandOn(r, last[r] \o first[r])
        /\ last' = [last EXCEPT ![r] = <<>>] /\ first' = [first EXCEPT ![r] = <<>>]
    BY <1>10 DEF LastLine
  <2>2. PICK line \in Seq(Nat) : HandOn(r, line)
    BY <1>1, <2>1, CoveredJoin DEF RankTypes
  <2>3. /\ DOMAIN pc' = Ranks /\ DOMAIN lines' = Ranks
        /\ \A s \in Ranks : s # r => pc'[s] = pc[s] /\ lines'[s] = lines[s]
        /\ pc'[r] \in {"next", "crashed"}
        /\ lines'[r] = lines[r] \/ lines'[r] = Append(lines[r], line)
    BY <2>1, <2>2 DEF HandOn
  <2>4. lines'[r] \in Seq(Seq(Nat))
    <3>1. lines[r] \in Seq(Seq(Nat))
      BY <1>1 DEF RankTypes
    <3>2. Append(lines[r], line) \in Seq(Seq(Nat))
      BY <3>1, AppendSeq
    <3> QED  BY <2>3, <3>1, <3>2
  <2>7. ASSUME NEW s \in Ranks PROVE RankTypes(s)'
    <3>1. CASE s = r  BY <1>1, <1>2, <1>4, <2>1, <2>3, <2>4, <3>1 DEF RankTypes
    <3>2. CASE s # r  BY <1>1, <1>2, <1>4, <2>1, <2>3, <2>4, <3>2 DEF RankTypes
    <3> QED  BY <3>1, <3>2
  <2> QED  BY <1>1, <2>1, <2>3, <2>7
<1>11. CASE End(r)
  <2>1. /\ UNCHANGED <<index, end, first, last, mail, lines>> /\ DOMAIN pc' = Ranks
        /\ pc'[r] \in {"done", "crashed"} /\ \A s \in Ranks : s # r => pc'[s] = pc[s]
    BY <1>11 DEF End
  <2>7. ASSUME NEW s \in Ranks PROVE RankTypes(s)'
    <3>1. CASE s = r  BY <1>1, <1>2, <1>4, <2>1, <3>1 DEF RankTypes
    <3>2. CASE s # r  BY <1>1, <1>2, <1>4, <2>1, <3>2 DEF RankTypes
    <3> QED  BY <3>1, <3>2
  <2> QED  BY <1>1, <2>1, <2>7
<1> QED
  BY <1>5, <1>6, <1>7, <1>8, <1>9, <1>10, <1>11 DEF Step

LEMMA InitTyped == Init => Typed
<1> SUFFICES ASSUME Init PROVE Typed
  OBVIOUS
<1>1. PICK n \in Sizes : file \in [1..n -> {"c", "\n"}]
  BY DEF Init
<1>2. n \in Nat \ {0} /\ bufsize \in Nat \ {0}
  BY LoadingAssumption DEF Init
<1>3. Len(file) = n /\ DOMAIN file = 1..n
  BY <1>1, <1>2
<1>4. \A r \in Ranks : First(r) \in Nat /\ First(r) <= Last(r)
  BY <1>2, <1>3, FirstAndLast
<1> QED  BY <1>2, <1>3, <1>4 DEF Init, Typed, RankTypes

-----------------------------------------------------------------------------
(* Each byte is in one place.                                              *)

Byte  == 0..Len(file) - 1
Place == ({"unread", "first", "last"} \X Ranks \X {0})
         \cup ({"mail"} \X Ranks \X Seq(Nat)) \cup ({"line"} \X Ranks \X Nat)

\* The bytes that are in each place.
Where ==
  [p \in Place |->
     CASE p[1] = "unread" -> index[p[2]]..Last(p[2]) - 1
       [] p[1] = "first"  -> Covered(first[p[2]])
       [] p[1] = "last"   -> Covered(last[p[2]])
       [] p[1] = "mail"   -> IF p[3] \in mail[p[2]] THEN Covered(p[3]) ELSE {}
       [] p[1] = "line"   -> IF p[3] \in DOMAIN lines[p[2]] THEN Covered(lines[p[2]][p[3]]) ELSE {}]

Once == \A at \in Byte : \E p \in Place : \A q \in Place : at \in Where[q] <=> q = p

OnceInv == (\A r \in Ranks : pc[r] # "crashed") => Once

\* Bytes that go from one place, or from two, to another.
LEMMA BytesMove ==
  ASSUME Once, Len(file)' = Len(file), NEW a \in Place, NEW b \in Place, NEW c \in Place,
         a # c, b # c, NEW M, NEW N, M \subseteq Where[a], N \subseteq Where[b],
         a = b => M = N,
         Where'[a] = Where[a] \ M, Where'[b] = Where[b] \ N,
         Where'[c] = Where[c] \cup M \cup N,
         \A q \in Place : q \notin {a, b, c} => Where'[q] = Where[q]
  PROVE  Once'
<1> SUFFICES ASSUME NEW at \in Byte
             PROVE  \E p \in Place : \A q \in Place : at \in Where'[q] <=> q = p
  BY DEF Once, Byte
<1>1. PICK p \in Place : \A q \in Place : at \in Where[q] <=> q = p
  BY DEF Once
<1>2. CASE at \in M \cup N
  <2>1. p \in {a, b}
    BY <1>1, <1>2
  <2>2. ASSUME NEW q \in Place PROVE at \in Where'[q] <=> q = c
    <3>1. CASE q = c  BY <1>2, <3>1
    <3>2. CASE q # c /\ q = p  BY <1>1, <1>2, <2>1, <3>2
    <3>3. CASE q # c /\ q # p  BY <1>1, <3>3
    <3> QED  BY <3>1, <3>2, <3>3
  <2> QED  BY <2>2
<1>3. CASE at \notin M \cup N
  <2>1. ASSUME NEW q \in Place PROVE at \in Where'[q] <=> at \in Where[q]
    BY <1>3
  <2> QED  BY <1>1, <2>1
<1> QED  BY <1>2, <1>3

LEMMA BytesMoveFrom ==
  ASSUME Once, Len(file)' = Len(file), NEW a \in Place, NEW c \in Place, a # c,
         NEW M, M \subseteq Where[a], Where'[a] = Where[a] \ M, Where'[c] = Where[c] \cup M,
         \A q \in Place : q \notin {a, c} => Where'[q] = Where[q]
  PROVE  Once'
<1> SUFFICES ASSUME NEW at \in Byte
             PROVE  \E p \in Place : \A q \in Place : at \in Where'[q] <=> q = p
  BY DEF Once, Byte
<1>1. PICK p \in Place : \A q \in Place : at \in Where[q] <=> q = p
  BY DEF Once
<1>2. CASE at \in M
  <2>1. p = a
    BY <1>1, <1>2
  <2>2. \A q \in Place : at \in Where'[q] <=> q = c
    BY <1>1, <1>2, <2>1
  <2> QED  BY <2>2
<1>3. CASE at \notin M
  <2>1. \A q \in Place : at \in Where'[q] <=> at \in Where[q]
    BY <1>3
  <2> QED  BY <1>1, <2>1
<1> QED  BY <1>2, <1>3

LEMMA PlacesAre ==
  /\ \A r \in Ranks : /\ <<"unread", r, 0>> \in Place /\ <<"first", r, 0>> \in Place
                      /\ <<"last", r, 0>> \in Place
                      /\ \A x \in Seq(Nat) : <<"mail", r, x>> \in Place
                      /\ \A n \in Nat : <<"line", r, n>> \in Place
  /\ \A q \in Place : q[2] \in Ranks /\
       (\/ q = <<"unread", q[2], 0>> \/ q = <<"first", q[2], 0>> \/ q = <<"last", q[2], 0>>
        \/ q = <<"mail", q[2], q[3]>> /\ q[3] \in Seq(Nat)
        \/ q = <<"line", q[2], q[3]>> /\ q[3] \in Nat)
BY DEF Place

LEMMA WhereIs ==
  \A r \in Ranks :
    /\ Where[<<"unread", r, 0>>] = index[r]..Last(r) - 1
    /\ Where[<<"first", r, 0>>] = Covered(first[r])
    /\ Where[<<"last", r, 0>>] = Covered(last[r])
    /\ \A x \in Seq(Nat) : Where[<<"mail", r, x>>] = IF x \in mail[r] THEN Covered(x) ELSE {}
    /\ \A n \in Nat : Where[<<"line", r, n>>]
                         = IF n \in DOMAIN lines[r] THEN Covered(lines[r][n]) ELSE {}
BY PlacesAre DEF Where

LEMMA WhereIsNext ==
  ASSUME file' = file
  PROVE  \A r \in Ranks :
           /\ Where'[<<"unread", r, 0>>] = index'[r]..Last(r) - 1
           /\ Where'[<<"first", r, 0>>] = Covered(first'[r])
           /\ Where'[<<"last", r, 0>>] = Covered(last'[r])
           /\ \A x \in Seq(Nat) : Where'[<<"mail", r, x>>]
                                    = IF x \in mail'[r] THEN Covered(x) ELSE {}
           /\ \A n \in Nat : Where'[<<"line", r, n>>]
                                = IF n \in DOMAIN lines'[r] THEN Covered(lines'[r][n]) ELSE {}
<1>1. \A r : Last(r)' = Last(r)
  BY DEF First, Last, Chunk
<1> QED  BY <1>1, PlacesAre DEF Where

\* The step leaves alone what is in the places that are not in D.
Leaves(D) ==
  /\ \A r \in Ranks : <<"unread", r, 0>> \notin D => index'[r] = index[r]
  /\ \A r \in Ranks : <<"first", r, 0>> \notin D => first'[r] = first[r]
  /\ \A r \in Ranks : <<"last", r, 0>> \notin D => last'[r] = last[r]
  /\ \A r \in Ranks, x \in Seq(Nat) :
       <<"mail", r, x>> \notin D => (x \in mail'[r] <=> x \in mail[r])
  /\ \A r \in Ranks, n \in Nat :
       <<"line", r, n>> \notin D =>
         /\ n \in DOMAIN lines'[r] <=> n \in DOMAIN lines[r]
         /\ n \in DOMAIN lines[r] => lines'[r][n] = lines[r][n]

LEMMA OthersKeep ==
  ASSUME file' = file, NEW D, Leaves(D)
  PROVE  \A q \in Place : q \notin D => Where'[q] = Where[q]
<1> SUFFICES ASSUME NEW q \in Place, q \notin D PROVE Where'[q] = Where[q]
  OBVIOUS
<1> DEFINE r == q[2]
           x == q[3]
<1>1. /\ r \in Ranks
      /\ \/ q = <<"unread", r, 0>> \/ q = <<"first", r, 0>> \/ q = <<"last", r, 0>>
         \/ q = <<"mail", r, x>> /\ x \in Seq(Nat)
         \/ q = <<"line", r, x>> /\ x \in Nat
  BY PlacesAre
<1> HIDE DEF r, x
<1>7. /\ Where'[<<"unread", r, 0>>] = index'[r]..Last(r) - 1
      /\ Where'[<<"first", r, 0>>] = Covered(first'[r])
      /\ Where'[<<"last", r, 0>>] = Covered(last'[r])
      /\ x \in Seq(Nat) => Where'[<<"mail", r, x>>] = IF x \in mail'[r] THEN Covered(x) ELSE {}
      /\ x \in Nat => Where'[<<"line", r, x>>]
                        = IF x \in DOMAIN lines'[r] THEN Covered(lines'[r][x]) ELSE {}
  BY <1>1, WhereIsNext
<1>2. CASE q = <<"unread", r, 0>>
  <2>2. <<"unread", r, 0>> \notin D
    BY <1>2
  <2>3. index'[r] = index[r]
    BY <1>1, <1>2, <2>2 DEF Leaves
  <2>1. Where'[<<"unread", r, 0>>] = Where[<<"unread", r, 0>>]
    BY <1>1, <1>2, <1>7, <2>3, WhereIs
  <2> QED  BY <1>2, <2>1
<1>3. CASE q = <<"first", r, 0>>
  <2>2. <<"first", r, 0>> \notin D
    BY <1>3
  <2>3. first'[r] = first[r]
    BY <1>1, <1>3, <2>2 DEF Leaves
  <2>1. Where'[<<"first", r, 0>>] = Where[<<"first", r, 0>>]
    BY <1>1, <1>3, <1>7, <2>3, WhereIs
  <2> QED  BY <1>3, <2>1
<1>4. CASE q = <<"last", r, 0>>
  <2>2. <<"last", r, 0>> \notin D
    BY <1>4
  <2>3. last'[r] = last[r]
    BY <1>1, <1>4, <2>2 DEF Leaves
  <2>1. Where'[<<"last", r, 0>>] = Where[<<"last", r, 0>>]
    BY <1>1, <1>4, <1>7, <2>3, WhereIs
  <2> QED  BY <1>4, <2>1
<1>5. CASE q = <<"mail", r, x>> /\ x \in Seq(Nat)
  <2>2. <<"mail", r, x>> \notin D
    BY <1>5
  <2>3. x \in mail'[r] <=> x \in mail[r]
    BY <1>1, <1>5, <2>2 DEF Leaves
  <2>1. Where'[<<"mail", r, x>>] = Where[<<"mail", r, x>>]
    BY <1>1, <1>5, <1>7, <2>3, WhereIs
  <2> QED  BY <1>5, <2>1
<1>6. CASE q = <<"line", r, x>> /\ x \in Nat
  <2>2. <<"line", r, x>> \notin D
    BY <1>6
  <2>3. /\ x \in DOMAIN lines'[r] <=> x \in DOMAIN lines[r]
        /\ x \in DOMAIN lines[r] => lines'[r][x] = lines[r][x]
    BY <1>1, <1>6, <2>2 DEF Leaves
  <2>1. Where'[<<"line", r, x>>] = Where[<<"line", r, x>>]
    BY <1>1, <1>6, <1>7, <2>3, WhereIs
  <2> QED  BY <1>6, <2>1
<1> QED  BY <1>1, <1>2, <1>3, <1>4, <1>5, <1>6

\* A step that leaves the pieces, and how far the ranks have read, alone.
LEMMA SamePlaces ==
  ASSUME Once, UNCHANGED <<file, index, first, last, mail, lines>>
  PROVE  Once'
<1>1. \A q \in Place : Where'[q] = Where[q]
  <2> DEFINE D == {}
  <2>1. Leaves(D)
    BY DEF Leaves
  <2>2. \A q \in Place : q \notin D => Where'[q] = Where[q]
    BY <2>1, OthersKeep
  <2> QED  BY <2>2
<1>2. Byte' = Byte
  BY DEF Byte
<1> QED  BY <1>1, <1>2 DEF Once

LEMMA KeepPieceOnce ==
  ASSUME Typed, Once, NEW r \in Ranks, KeepPiece(r)
  PROVE  Once'
<1>1. /\ UNCHANGED <<file, pc, end, first, mail, lines>> /\ index[r] < end[r]
      /\ DOMAIN index = Ranks /\ DOMAIN last = Ranks
      /\ index' = [index EXCEPT ![r] = end[r]]
      /\ last' = [last EXCEPT ![r] = @ \o Offsets(index[r], end[r])]
  BY DEF Typed, KeepPiece
<1>2. /\ index[r] \in Nat /\ end[r] \in Nat /\ end[r] <= Last(r) /\ Last(r) \in Nat
      /\ last[r] \in Seq(Nat) /\ Len(file) \in Nat
  BY FirstAndLast DEF Typed, RankTypes
<1>3. PICK a, c, M : /\ a = <<"unread", r, 0>> /\ c = <<"last", r, 0>>
                     /\ M = index[r]..end[r] - 1
  OBVIOUS
<1>4. \A q \in Place : q \notin {a, c} => Where'[q] = Where[q]
  <2>1. \A s \in Ranks : s # r => index'[s] = index[s] /\ last'[s] = last[s]
    BY <1>1
  <2>2. \A s \in Ranks : /\ <<"unread", s, 0>> \notin {a, c} => s # r
                         /\ <<"last", s, 0>> \notin {a, c} => s # r
    BY <1>3
  <2>3. Leaves({a, c})
    BY <1>1, <2>1, <2>2 DEF Leaves
  <2> QED  BY <1>1, <2>3, OthersKeep
<1>5. Covered(last'[r]) = Covered(last[r]) \cup M
  <2>1. last'[r] = last[r] \o Offsets(index[r], end[r])
    BY <1>1
  <2>2. Offsets(index[r], end[r]) \in Seq(Nat) /\ Covered(Offsets(index[r], end[r])) = M
    <3>1. index[r] <= end[r]
      BY <1>1, <1>2
    <3>2. /\ Offsets(index[r], end[r]) \in Seq(Nat)
          /\ Covered(Offsets(index[r], end[r])) = index[r]..end[r] - 1
      BY <1>2, <3>1, OffsetsAre
    <3> QED  BY <1>3, <3>2
  <2> QED  BY <1>2, <2>1, <2>2, CoveredJoin
<1>6. /\ Where[a] = index[r]..Last(r) - 1 /\ Where'[a] = end[r]..Last(r) - 1
      /\ Where[c] = Covered(last[r]) /\ Where'[c] = Covered(last[r]) \cup M
  BY <1>1, <1>3, <1>5, WhereIs, WhereIsNext
<1>7. M \subseteq Where[a] /\ Where'[a] = Where[a] \ M /\ Where'[c] = Where[c] \cup M
  BY <1>1, <1>2, <1>3, <1>6
<1>8. a \in Place /\ c \in Place /\ a # c
  BY <1>3, PlacesAre
<1>9. Len(file)' = Len(file)
  BY <1>1
<1> QED  BY <1>4, <1>7, <1>8, <1>9, BytesMoveFrom

LEMMA SendPieceOnce ==
  ASSUME Typed, Once, NEW r \in Ranks, SendPiece(r)
  PROVE  Once'
<1>1. PICK x, to, a, c, M :
        /\ x = Offsets(index[r], Mark(r) + 1) /\ to = To(r) /\ M = index[r]..Mark(r)
        /\ a = <<"unread", r, 0>> /\ c = <<"mail", to, x>>
  OBVIOUS
<1>2. /\ UNCHANGED <<file, end, first, last, lines>> /\ index[r] < end[r] /\ Marked(r)
      /\ DOMAIN index = Ranks /\ DOMAIN mail = Ranks /\ to \in Ranks
      /\ index' = [index EXCEPT ![r] = Mark(r) + 1]
      /\ mail' = [mail EXCEPT ![to] = @ \cup {x}]
  BY <1>1, ToFrom DEF Typed, SendPiece, To
<1>3. /\ index[r] \in Nat /\ end[r] \in Nat /\ end[r] <= Last(r) /\ Last(r) \in Nat
      /\ Len(file) \in Nat
  BY FirstAndLast DEF Typed, RankTypes
<1>4. Mark(r) \in index[r]..end[r] - 1 /\ Mark(r) \in Nat
  BY <1>2, <1>3, MarkIs
<1>5. x \in Seq(Nat) /\ Covered(x) = M
  <2>1. Mark(r) + 1 \in Nat /\ index[r] <= Mark(r) + 1 /\ (Mark(r) + 1) - 1 = Mark(r)
    BY <1>3, <1>4
  <2>2. /\ Offsets(index[r], Mark(r) + 1) \in Seq(Nat)
        /\ Covered(Offsets(index[r], Mark(r) + 1)) = index[r]..(Mark(r) + 1) - 1
    <3>1. index[r] \in Nat
      BY <1>3
    <3> QED  BY <2>1, <3>1, OffsetsAre, ZenonT(30)
  <2> QED  BY <1>1, <2>1, <2>2
<1>6. \A q \in Place : q \notin {a, c} => Where'[q] = Where[q]
  <2>1. \A s \in Ranks : s # r => index'[s] = index[s]
    BY <1>2
  <2>2. \A s \in Ranks : \A y : s # to \/ y # x => (y \in mail'[s] <=> y \in mail[s])
    BY <1>2
  <2>3. \A s \in Ranks : /\ <<"unread", s, 0>> \notin {a, c} => s # r
                         /\ \A y : <<"mail", s, y>> \notin {a, c} => s # to \/ y # x
    BY <1>1
  <2>4. Leaves({a, c})
    BY <1>2, <2>1, <2>2, <2>3 DEF Leaves
  <2> QED  BY <1>2, <2>4, OthersKeep
<1>7. /\ Where[a] = index[r]..Last(r) - 1 /\ Where'[a] = Mark(r) + 1..Last(r) - 1
      /\ Where[c] \subseteq M /\ Where'[c] = M
  <2>1. index'[r] = Mark(r) + 1 /\ x \in mail'[to]
    BY <1>2
  <2>2. Where[a] = index[r]..Last(r) - 1 /\ Where'[a] = Mark(r) + 1..Last(r) - 1
    BY <1>1, <1>2, <2>1, WhereIs, WhereIsNext
  <2>3. Where[c] = (IF x \in mail[to] THEN Covered(x) ELSE {}) /\ Where'[c] = Covered(x)
    BY <1>1, <1>2, <1>5, <2>1, WhereIs, WhereIsNext, ZenonT(60)
  <2> QED  BY <1>5, <2>2, <2>3
<1>8. M \subseteq Where[a] /\ Where'[a] = Where[a] \ M /\ Where'[c] = Where[c] \cup M
  <2>1. PICK i, k, l : i = index[r] /\ k = Mark(r) /\ l = Last(r)
    OBVIOUS
  <2>2. i \in Nat /\ k \in Nat /\ l \in Nat /\ i <= k /\ k <= l - 1
    BY <1>3, <1>4, <2>1
  <2>3. i..k \subseteq i..l - 1 /\ k + 1..l - 1 = (i..l - 1) \ (i..k)
    BY <2>2
  <2> QED  BY <1>1, <1>7, <2>1, <2>3
<1>9. a \in Place /\ c \in Place /\ a # c
  BY <1>1, <1>2, <1>5, PlacesAre
<1> QED  BY <1>2, <1>6, <1>8, <1>9, BytesMoveFrom

LEMMA ReceiveOnce ==
  ASSUME Typed, Once, NEW r \in Ranks, Receive(r)
  PROVE  Once'
<1>1. PICK x \in mail[r] :
        /\ first' = [first EXCEPT ![r] = x]
        /\ mail' = [mail EXCEPT ![r] = @ \ {x}]
  BY DEF Receive
<1>2. /\ UNCHANGED <<file, index, end, last, lines>> /\ first[r] = <<>>
      /\ DOMAIN first = Ranks /\ DOMAIN mail = Ranks /\ x \in Seq(Nat)
  BY DEF Typed, Receive, RankTypes
<1>3. PICK a, c, M : a = <<"mail", r, x>> /\ c = <<"first", r, 0>> /\ M = Covered(x)
  OBVIOUS
<1>4. \A q \in Place : q \notin {a, c} => Where'[q] = Where[q]
  <2>1. \A s \in Ranks : s # r => first'[s] = first[s]
    BY <1>1, <1>2
  <2>2. \A s \in Ranks : \A y : s # r \/ y # x => (y \in mail'[s] <=> y \in mail[s])
    BY <1>1, <1>2
  <2>3. \A s \in Ranks : /\ <<"first", s, 0>> \notin {a, c} => s # r
                         /\ \A y : <<"mail", s, y>> \notin {a, c} => s # r \/ y # x
    BY <1>3
  <2>4. Leaves({a, c})
    BY <1>2, <2>1, <2>2, <2>3 DEF Leaves
  <2> QED  BY <1>2, <2>4, OthersKeep
<1>5. Where[a] = M /\ Where'[a] = {} /\ Where[c] = {} /\ Where'[c] = M
  BY <1>1, <1>2, <1>3, WhereIs, WhereIsNext, CoveredNothing
<1>6. M \subseteq Where[a] /\ Where'[a] = Where[a] \ M /\ Where'[c] = Where[c] \cup M
  BY <1>5
<1>7. a \in Place /\ c \in Place /\ a # c
  BY <1>2, <1>3, PlacesAre
<1>8. Len(file)' = Len(file)
  BY <1>2
<1> QED  BY <1>4, <1>6, <1>7, <1>8, BytesMoveFrom

\* The line that is handed on has a place of its own.
LEMMA HandedOn ==
  ASSUME Typed, NEW r \in Ranks, NEW line \in Seq(Nat), HandOn(r, line), pc'[r] # "crashed"
  PROVE  LET n == Len(lines[r]) + 1
         IN  /\ n \in Nat /\ n \notin DOMAIN lines[r] /\ n \in DOMAIN lines'[r]
             /\ lines'[r][n] = line
             /\ \A s \in Ranks : \A m : s # r \/ m # n =>
                  /\ m \in DOMAIN lines'[s] <=> m \in DOMAIN lines[s]
                  /\ m \in DOMAIN lines[s] => lines'[s][m] = lines[s][m]
<1>1. /\ DOMAIN pc = Ranks /\ DOMAIN lines = Ranks /\ lines[r] \in Seq(Seq(Nat))
  BY DEF Typed, RankTypes
<1>2. lines' = [lines EXCEPT ![r] = Append(@, line)]
  BY <1>1 DEF HandOn
<1>3. lines'[r] = Append(lines[r], line) /\ \A s \in Ranks : s # r => lines'[s] = lines[s]
  BY <1>1, <1>2
<1> DEFINE n == Len(lines[r]) + 1
<1>4. /\ Len(lines[r]) \in Nat
      /\ DOMAIN lines[r] = 1..Len(lines[r]) /\ DOMAIN lines'[r] = 1..n
      /\ \A m \in 1..Len(lines[r]) : lines'[r][m] = lines[r][m]
      /\ lines'[r][n] = line
  BY <1>1, <1>3, AppendSeq
<1>5. n \in Nat /\ n \notin DOMAIN lines[r] /\ n \in DOMAIN lines'[r]
  BY <1>4
<1>6. \A m : m # n => (m \in 1..n <=> m \in 1..Len(lines[r]))
  BY <1>4
<1> QED  BY <1>3, <1>4, <1>5, <1>6

LEMMA NextLineOnce ==
  ASSUME Typed, Once, NEW r \in Ranks, NextLine(r), pc'[r] # "crashed"
  PROVE  Once'
<1>1. PICK x, n, a, b, c, M, N :
        /\ x = last[r] \o Offsets(index[r], Mark(r) + 1) /\ n = Len(lines[r]) + 1
        /\ a = <<"unread", r, 0>> /\ b = <<"last", r, 0>> /\ c = <<"line", r, n>>
        /\ M = index[r]..Mark(r) /\ N = Covered(last[r])
  OBVIOUS
<1>2. /\ UNCHANGED <<file, end, first, mail>> /\ index[r] < end[r] /\ Marked(r)
      /\ DOMAIN index = Ranks /\ DOMAIN last = Ranks /\ HandOn(r, x)
      /\ index' = [index EXCEPT ![r] = Mark(r) + 1]
      /\ last' = [last EXCEPT ![r] = <<>>]
  BY <1>1 DEF Typed, NextLine
<1>3. /\ index[r] \in Nat /\ end[r] \in Nat /\ end[r] <= Last(r) /\ Last(r) \in Nat
      /\ Len(file) \in Nat /\ last[r] \in Seq(Nat)
  BY FirstAndLast DEF Typed, RankTypes
<1>4. Mark(r) \in index[r]..end[r] - 1 /\ Mark(r) \in Nat
  BY <1>2, <1>3, MarkIs
<1>5. x \in Seq(Nat) /\ Covered(x) = N \cup M
  <2>1. Mark(r) + 1 \in Nat /\ index[r] <= Mark(r) + 1 /\ (Mark(r) + 1) - 1 = Mark(r)
    BY <1>3, <1>4
  <2>2. /\ Offsets(index[r], Mark(r) + 1) \in Seq(Nat)
        /\ Covered(Offsets(index[r], Mark(r) + 1)) = index[r]..(Mark(r) + 1) - 1
    <3>1. index[r] \in Nat
      BY <1>3
    <3> QED  BY <2>1, <3>1, OffsetsAre, ZenonT(30)
  <2>3. /\ x \in Seq(Nat)
        /\ Covered(x) = Covered(last[r]) \cup Covered(Offsets(index[r], Mark(r) + 1))
    BY <1>1, <1>3, <2>2, CoveredJoin
  <2> QED  BY <1>1, <2>1, <2>2, <2>3
<1>6. /\ n \in Nat /\ n \notin DOMAIN lines[r] /\ n \in DOMAIN lines'[r]
      /\ lines'[r][n] = x
      /\ \A s \in Ranks : \A m : s # r \/ m # n =>
           /\ m \in DOMAIN lines'[s] <=> m \in DOMAIN lines[s]
           /\ m \in DOMAIN lines[s] => lines'[s][m] = lines[s][m]
  <2>1. HandOn(r, x) /\ x \in Seq(Nat)
    BY <1>1, <1>2, <1>5
  <2>2. LET k == Len(lines[r]) + 1
        IN  /\ k \in Nat /\ k \notin DOMAIN lines[r] /\ k \in DOMAIN lines'[r]
            /\ lines'[r][k] = x
            /\ \A s \in Ranks : \A m : s # r \/ m # k =>
                 /\ m \in DOMAIN lines'[s] <=> m \in DOMAIN lines[s]
                 /\ m \in DOMAIN lines[s] => lines'[s][m] = lines[s][m]
    BY <2>1, HandedOn
  <2> QED  BY <1>1, <2>2
<1>7. \A q \in Place : q \notin {a, b, c} => Where'[q] = Where[q]
  <2>1. \A s \in Ranks : s # r => index'[s] = index[s] /\ last'[s] = last[s]
    BY <1>2
  <2>2. \A s \in Ranks : /\ <<"unread", s, 0>> \notin {a, b, c} => s # r
                         /\ <<"last", s, 0>> \notin {a, b, c} => s # r
                         /\ \A m : <<"line", s, m>> \notin {a, b, c} => s # r \/ m # n
    BY <1>1
  <2>3. Leaves({a, b, c})
    BY <1>2, <1>6, <2>1, <2>2 DEF Leaves
  <2> QED  BY <1>2, <2>3, OthersKeep
<1>8. /\ Where[a] = index[r]..Last(r) - 1 /\ Where'[a] = Mark(r) + 1..Last(r) - 1
      /\ Where[b] = N /\ Where'[b] = {} /\ Where[c] = {} /\ Where'[c] = N \cup M
  <2>1. index'[r] = Mark(r) + 1 /\ last'[r] = <<>> /\ file' = file
    BY <1>2
  <2>2. Where[a] = index[r]..Last(r) - 1 /\ Where'[a] = Mark(r) + 1..Last(r) - 1
    BY <1>1, <2>1, WhereIs, WhereIsNext
  <2>3. Where[b] = N /\ Where'[b] = {}
    BY <1>1, <2>1, WhereIs, WhereIsNext, CoveredNothing
  <2>4. Where[c] = {} /\ Where'[c] = Covered(x)
    <3>1. /\ Where[<<"line", r, n>>] = IF n \in DOMAIN lines[r] THEN Covered(lines[r][n]) ELSE {}
          /\ Where'[<<"line", r, n>>] = IF n \in DOMAIN lines'[r] THEN Covered(lines'[r][n]) ELSE {}
      BY <1>6, <2>1, WhereIs, WhereIsNext
    <3> QED  BY <1>1, <1>6, <3>1
  <2> QED  BY <1>5, <2>2, <2>3, <2>4
<1>9. M \subseteq Where[a] /\ Where'[a] = Where[a] \ M
  BY <1>1, <1>2, <1>3, <1>4, <1>8, SMTT(30)
<1>10. /\ N \subseteq Where[b] /\ Where'[b] = Where[b] \ N
       /\ Where'[c] = Where[c] \cup M \cup N
  BY <1>8
<1>11. a \in Place /\ b \in Place /\ c \in Place /\ a # c /\ b # c /\ a # b
  BY <1>1, <1>6, PlacesAre
<1> QED  BY <1>2, <1>7, <1>9, <1>10, <1>11, BytesMove

LEMMA LastLineOnce ==
  ASSUME Typed, Once, NEW r \in Ranks, LastLine(r), pc'[r] # "crashed"
  PROVE  Once'
<1>1. PICK x, n, a, b, c, M, N :
        /\ x = last[r] \o first[r] /\ n = Len(lines[r]) + 1
        /\ a = <<"first", r, 0>> /\ b = <<"last", r, 0>> /\ c = <<"line", r, n>>
        /\ M = Covered(first[r]) /\ N = Covered(last[r])
  OBVIOUS
<1>2. /\ UNCHANGED <<file, index, end, mail>>
      /\ DOMAIN first = Ranks /\ DOMAIN last = Ranks /\ HandOn(r, x)
      /\ first' = [first EXCEPT ![r] = <<>>]
      /\ last' = [last EXCEPT ![r] = <<>>]
  BY <1>1 DEF Typed, LastLine
<1>3. first[r] \in Seq(Nat) /\ last[r] \in Seq(Nat)
  BY DEF Typed, RankTypes
<1>4. x \in Seq(Nat) /\ Covered(x) = N \cup M
  BY <1>1, <1>3, CoveredJoin
<1>5. /\ n \in Nat /\ n \notin DOMAIN lines[r] /\ n \in DOMAIN lines'[r]
      /\ lines'[r][n] = x
      /\ \A s \in Ranks : \A m : s # r \/ m # n =>
           /\ m \in DOMAIN lines'[s] <=> m \in DOMAIN lines[s]
           /\ m \in DOMAIN lines[s] => lines'[s][m] = lines[s][m]
  <2>1. HandOn(r, x) /\ x \in Seq(Nat)
    BY <1>1, <1>2, <1>4
  <2>2. LET k == Len(lines[r]) + 1
        IN  /\ k \in Nat /\ k \notin DOMAIN lines[r] /\ k \in DOMAIN lines'[r]
            /\ lines'[r][k] = x
            /\ \A s \in Ranks : \A m : s # r \/ m # k =>
                 /\ m \in DOMAIN lines'[s] <=> m \in DOMAIN lines[s]
                 /\ m \in DOMAIN lines[s] => lines'[s][m] = lines[s][m]
    BY <2>1, HandedOn
  <2> QED  BY <1>1, <2>2
<1>6. \A q \in Place : q \notin {a, b, c} => Where'[q] = Where[q]
  <2>1. \A s \in Ranks : s # r => first'[s] = first[s] /\ last'[s] = last[s]
    BY <1>2
  <2>2. \A s \in Ranks : /\ <<"first", s, 0>> \notin {a, b, c} => s # r
                         /\ <<"last", s, 0>> \notin {a, b, c} => s # r
                         /\ \A m : <<"line", s, m>> \notin {a, b, c} => s # r \/ m # n
    BY <1>1
  <2>3. Leaves({a, b, c})
    BY <1>2, <1>5, <2>1, <2>2 DEF Leaves
  <2> QED  BY <1>2, <2>3, OthersKeep
<1>7. /\ Where[a] = M /\ Where'[a] = {} /\ Where[b] = N /\ Where'[b] = {}
      /\ Where[c] = {} /\ Where'[c] = N \cup M
  <2>1. first'[r] = <<>> /\ last'[r] = <<>> /\ file' = file
    BY <1>2
  <2>2. Where[a] = M /\ Where'[a] = {}
    BY <1>1, <2>1, WhereIs, WhereIsNext, CoveredNothing
  <2>3. Where[b] = N /\ Where'[b] = {}
    BY <1>1, <2>1, WhereIs, WhereIsNext, CoveredNothing
  <2>4. Where[c] = {} /\ Where'[c] = Covered(x)
    <3>1. /\ Where[<<"line", r, n>>] = IF n \in DOMAIN lines[r] THEN Covered(lines[r][n]) ELSE {}
          /\ Where'[<<"line", r, n>>] = IF n \in DOMAIN lines'[r] THEN Covered(lines'[r][n]) ELSE {}
      BY <1>5, <2>1, WhereIs, WhereIsNext
    <3> QED  BY <1>1, <1>5, <3>1
  <2> QED  BY <1>4, <2>2, <2>3, <2>4
<1>8. a \in Place /\ b \in Place /\ c \in Place /\ a # c /\ b # c /\ a # b
  BY <1>1, <1>5, PlacesAre
<1>9. /\ M \subseteq Where[a] /\ Where'[a] = Where[a] \ M
      /\ N \subseteq Where[b] /\ Where'[b] = Where[b] \ N
      /\ Where'[c] = Where[c] \cup M \cup N
  BY <1>7
<1> QED  BY <1>2, <1>6, <1>8, <1>9, BytesMove

LEMMA StepOnce ==
  ASSUME Typed, OnceInv, NEW r \in Ranks, Step(r)
  PROVE  OnceInv'
<1> SUFFICES ASSUME \A s \in Ranks : pc'[s] # "crashed" PROVE Once'
  BY DEF OnceInv
<1>1. Once
  <2>1. DOMAIN pc = Ranks /\ pc[r] # "crashed" /\ \A s \in Ranks : s # r => pc'[s] = pc[s]
    BY DEF Typed, Step, ReadBuffer, KeepPiece, SendPiece, Receive, NextLine, LastLine, End, HandOn
  <2> QED  BY <2>1 DEF OnceInv
<1>2. CASE ReadBuffer(r)
  BY <1>1, <1>2, SamePlaces DEF ReadBuffer
<1>3. CASE KeepPiece(r)  BY <1>1, <1>3, KeepPieceOnce
<1>4. CASE SendPiece(r)  BY <1>1, <1>4, SendPieceOnce
<1>5. CASE Receive(r)    BY <1>1, <1>5, ReceiveOnce
<1>6. CASE NextLine(r)   BY <1>1, <1>6, NextLineOnce
<1>7. CASE LastLine(r)   BY <1>1, <1>7, LastLineOnce
<1>8. CASE End(r)
  BY <1>1, <1>8, SamePlaces DEF End
<1> QED
  BY <1>2, <1>3, <1>4, <1>5, <1>6, <1>7, <1>8 DEF Step

LEMMA InitOnce == Init => OnceInv
<1> SUFFICES ASSUME Init, NEW at \in Byte
             PROVE  \E p \in Place : \A q \in Place : at \in Where[q] <=> q = p
  BY DEF OnceInv, Once
<1>1. Typed
  BY InitTyped
<1>2. /\ \A r \in Ranks : /\ index[r] = First(r) /\ first[r] = <<>> /\ last[r] = <<>>
                          /\ mail[r] = {} /\ lines[r] = <<>>
      /\ Len(file) \in Nat
  BY <1>1 DEF Init, Typed
<1>3. PICK r \in Ranks : \A s \in Ranks : at \in First(s)..Last(s) - 1 <=> s = r
  BY <1>2, ChunksCover DEF Byte
<1>4. <<"unread", r, 0>> \in Place
  BY PlacesAre
<1>5. ASSUME NEW q \in Place PROVE at \in Where[q] <=> q = <<"unread", r, 0>>
  <2>1. PICK s, x : s = q[2] /\ x = q[3]
    OBVIOUS
  <2>2. /\ s \in Ranks
        /\ \/ q = <<"unread", s, 0>> \/ q = <<"first", s, 0>> \/ q = <<"last", s, 0>>
           \/ q = <<"mail", s, x>> /\ x \in Seq(Nat)
           \/ q = <<"line", s, x>> /\ x \in Nat
    BY <2>1, PlacesAre
  <2>3. CASE q = <<"unread", s, 0>>
    <3>1. Where[q] = First(s)..Last(s) - 1
      BY <1>2, <2>2, <2>3, WhereIs
    <3>2. q = <<"unread", r, 0>> <=> s = r
      BY <2>3
    <3> QED  BY <1>3, <2>2, <3>1, <3>2
  <2>4. CASE q = <<"first", s, 0>> \/ q = <<"last", s, 0>>
    <3>1. Where[q] = {}
      BY <1>2, <2>2, <2>4, WhereIs, CoveredNothing, ZenonT(60)
    <3> QED  BY <2>4, <3>1
  <2>5. CASE q = <<"mail", s, x>> /\ x \in Seq(Nat)
    <3>1. Where[q] = {}
      BY <1>2, <2>2, <2>5, WhereIs
    <3> QED  BY <2>5, <3>1
  <2>6. CASE q = <<"line", s, x>> /\ x \in Nat
    <3>1. x \notin DOMAIN lines[s]
      BY <1>2, <2>2
    <3>2. Where[q] = {}
      BY <2>2, <2>6, <3>1, WhereIs
    <3> QED  BY <2>6, <3>2
  <2> QED  BY <2>2, <2>3, <2>4, <2>5, <2>6
<1> QED  BY <1>4, <1>5

\* The piece that is in a place.
PieceAt(q) ==
  CASE q[1] = "first" -> <<"first", 0, first[q[2]]>>
    [] q[1] = "last"  -> <<"last", 0, last[q[2]]>>
    [] q[1] = "mail"  -> <<"mail", 0, q[3]>>
    [] q[1] = "line"  -> <<"line", q[3], lines[q[2]][q[3]]>>

LEMMA PlaceHeld ==
  ASSUME NEW q \in Place, q[1] # "unread", NEW at \in Where[q]
  PROVE  q[2] \in Ranks /\ PieceAt(q) \in Held(q[2]) /\ at \in Covered(PieceAt(q)[3])
<1>1. PICK s, x : s = q[2] /\ x = q[3]
  OBVIOUS
<1>2. /\ s \in Ranks
      /\ \/ q = <<"first", s, 0>> \/ q = <<"last", s, 0>>
         \/ q = <<"mail", s, x>> /\ x \in Seq(Nat)
         \/ q = <<"line", s, x>> /\ x \in Nat
  BY <1>1, PlacesAre
<1>3. CASE q = <<"first", s, 0>>
  BY <1>2, <1>3, WhereIs DEF PieceAt, Held
<1>4. CASE q = <<"last", s, 0>>
  BY <1>2, <1>4, WhereIs DEF PieceAt, Held
<1>5. CASE q = <<"mail", s, x>> /\ x \in Seq(Nat)
  <2>1. x \in mail[s] /\ at \in Covered(x)
    BY <1>2, <1>5, WhereIs
  <2> QED  BY <1>2, <1>5, <2>1 DEF PieceAt, Held
<1>6. CASE q = <<"line", s, x>> /\ x \in Nat
  <2>1. x \in DOMAIN lines[s] /\ at \in Covered(lines[s][x])
    BY <1>2, <1>6, WhereIs
  <2> QED  BY <1>2, <1>6, <2>1 DEF PieceAt, Held
<1> QED  BY <1>2, <1>3, <1>4, <1>5, <1>6

LEMMA HeldPlace ==
  ASSUME Typed, NEW r \in Ranks, NEW x \in Held(r), NEW at \in Covered(x[3])
  PROVE  \E q \in Place : /\ q[1] # "unread" /\ q[2] = r /\ at \in Where[q]
                          /\ PieceAt(q) = x
<1>1. mail[r] \subseteq Seq(Nat) /\ DOMAIN lines[r] \subseteq Nat
  BY DEF Typed, RankTypes
<1>2. CASE x = <<"first", 0, first[r]>>
  <2>1. <<"first", r, 0>> \in Place /\ at \in Where[<<"first", r, 0>>]
    BY <1>2, PlacesAre, WhereIs
  <2>2. PieceAt(<<"first", r, 0>>) = x
    BY <1>2 DEF PieceAt
  <2> QED  BY <2>1, <2>2
<1>3. CASE x = <<"last", 0, last[r]>>
  <2>1. <<"last", r, 0>> \in Place /\ at \in Where[<<"last", r, 0>>]
    BY <1>3, PlacesAre, WhereIs
  <2>2. PieceAt(<<"last", r, 0>>) = x
    BY <1>3 DEF PieceAt
  <2> QED  BY <2>1, <2>2
<1>4. CASE x \in {<<"mail", 0, p>> : p \in mail[r]}
  <2>1. PICK p \in mail[r] : x = <<"mail", 0, p>>
    BY <1>4
  <2>2. <<"mail", r, p>> \in Place /\ at \in Where[<<"mail", r, p>>]
    BY <1>1, <2>1, PlacesAre, WhereIs
  <2>3. PieceAt(<<"mail", r, p>>) = x
    BY <2>1 DEF PieceAt
  <2> QED  BY <2>2, <2>3
<1>5. CASE x \in {<<"line", n, lines[r][n]>> : n \in DOMAIN lines[r]}
  <2>1. PICK n \in DOMAIN lines[r] : x = <<"line", n, lines[r][n]>>
    BY <1>5
  <2>2. <<"line", r, n>> \in Place /\ at \in Where[<<"line", r, n>>]
    BY <1>1, <2>1, PlacesAre, WhereIs
  <2>3. PieceAt(<<"line", r, n>>) = x
    BY <2>1 DEF PieceAt
  <2> QED  BY <2>2, <2>3
<1> QED  BY <1>2, <1>3, <1>4, <1>5 DEF Held

LEMMA OncePlace ==
  ASSUME Typed, Once, NEW at \in 0..Len(file) - 1
  PROVE  LET unread  == {r \in Ranks : at \in index[r]..Last(r) - 1}
             holders == {h \in Ranks \X UNION {Held(r) : r \in Ranks} :
                           h[2] \in Held(h[1]) /\ at \in Covered(h[2][3])}
         IN  Cardinality(unread) + Cardinality(holders) = 1
<1> DEFINE unread  == {r \in Ranks : at \in index[r]..Last(r) - 1}
           holders == {h \in Ranks \X UNION {Held(r) : r \in Ranks} :
                         h[2] \in Held(h[1]) /\ at \in Covered(h[2][3])}
<1>1. PICK p \in Place : \A q \in Place : at \in Where[q] <=> q = p
  BY DEF Once, Byte
<1>2. \A r \in Ranks : r \in unread <=> p = <<"unread", r, 0>>
  BY <1>1, PlacesAre, WhereIs, ZenonT(60)
<1>3. \A h \in holders : /\ p[1] # "unread" /\ h[1] \in Ranks /\ h[1] = p[2] /\ h[2] = PieceAt(p)
                         /\ h = <<h[1], h[2]>>
  <2> TAKE h \in holders
  <2>1. h[1] \in Ranks /\ h[2] \in Held(h[1]) /\ at \in Covered(h[2][3]) /\ h = <<h[1], h[2]>>
    OBVIOUS
  <2> HIDE DEF holders
  <2>2. PICK q \in Place : q[1] # "unread" /\ q[2] = h[1] /\ at \in Where[q] /\ PieceAt(q) = h[2]
    BY <2>1, HeldPlace
  <2>3. q = p
    BY <1>1, <2>2
  <2> QED  BY <2>1, <2>2, <2>3
<1>4. CASE p[1] = "unread"
  <2>1. p[2] \in Ranks /\ p = <<"unread", p[2], 0>>
    BY <1>4, PlacesAre
  <2>2. unread = {p[2]}
    BY <1>2, <2>1
  <2>3. holders = {}
    BY <1>3, <1>4
  <2> HIDE DEF unread, holders
  <2>4. Cardinality(unread) = 1
    BY <2>2, FS_Singleton
  <2>5. Cardinality(holders) = 0
    BY <2>3, FS_EmptySet
  <2>6. Cardinality(unread) + Cardinality(holders) = 1
    BY <2>4, <2>5
  <2> QED  BY <2>6 DEF unread, holders
<1>5. CASE p[1] # "unread"
  <2>1. unread = {}
    BY <1>2, <1>5
  <2>2. p[2] \in Ranks /\ PieceAt(p) \in Held(p[2]) /\ at \in Covered(PieceAt(p)[3])
    BY <1>1, <1>5, PlaceHeld
  <2>3. <<p[2], PieceAt(p)>> \in holders
    BY <2>2
  <2>4. holders = {<<p[2], PieceAt(p)>>}
    BY <1>3, <2>3
  <2> HIDE DEF unread, holders
  <2>5. Cardinality(unread) = 0
    BY <2>1, FS_EmptySet
  <2>6. Cardinality(holders) = 1
    BY <2>4, FS_Singleton
  <2>7. Cardinality(unread) + Cardinality(holders) = 1
    BY <2>5, <2>6
  <2> QED  BY <2>7 DEF unread, holders
<1> QED  BY <1>4, <1>5

LEMMA NextTypedOnce == Typed /\ OnceInv /\ [Next]_vars => Typed' /\ OnceInv'
<1> SUFFICES ASSUME Typed, OnceInv, [Next]_vars PROVE Typed' /\ OnceInv'
  OBVIOUS
<1>1. CASE Next
  <2>1. PICK r \in Ranks : Step(r)
    BY <1>1 DEF Next
  <2> QED  BY <2>1, StepTyped, StepOnce
<1>2. CASE UNCHANGED vars
  <2>1. UNCHANGED <<file, bufsize, pc, index, end, first, last, mail, lines>>
    BY <1>2 DEF vars
  <2>2. \A s : First(s)' = First(s) /\ Last(s)' = Last(s)
    BY <2>1 DEF First, Last, Chunk
  <2>3. Typed'
    BY <2>1, <2>2 DEF Typed, RankTypes
  <2>4. OnceInv'
    BY <2>1, SamePlaces DEF OnceInv
  <2> QED  BY <2>3, <2>4
<1> QED  BY <1>1, <1>2

\* Where the ranks are, and what they have in each place, for any number of ranks
\* and any file, even of fewer bytes than ranks.
THEOREM EachByteInOnePlace == Spec => [](Typed /\ OnceInv)
<1>1. Init => Typed /\ OnceInv
  BY InitTyped, InitOnce
<1> QED  BY <1>1, NextTypedOnce, PTL DEF Spec

\* The exchange of the pieces of lines between the ranks loses no byte and hands on
\* none twice, whatever the file, the buffers and the order of the ranks' steps.
THEOREM NothingLostOrTwice == Spec => []BytesOnce
<1>1. Typed /\ OnceInv => BytesOnce
  BY OncePlace DEF OnceInv, BytesOnce
<1> QED  BY <1>1, EachByteInOnePlace, PTL

-----------------------------------------------------------------------------
(* Whole lines.                                                            *)

\* What a chunk begins with up to its first newline, which the rank sends.
HeadPiece(s, piece) ==
  \E n \in First(s)..Last(s) - 1 :
    /\ Newline(n) /\ \A b \in First(s)..n - 1 : ~Newline(b)
    /\ piece = Offsets(First(s), n + 1)

\* The rank has read nothing; the first newline will be in the first buffer.
Fresh(r) ==
  /\ pc[r] = "next" /\ index[r] = First(r) /\ first[r] = <<>> /\ last[r] = <<>>
  /\ end[r] = First(r) \/ Marked(r)

\* It is behind the first newline, and has kept what it has read of the line it is in.
Within(r) ==
  /\ \E b \in First(r) + 1..index[r] :
       /\ Newline(b - 1) /\ \A c \in b..index[r] - 1 : ~Newline(c)
       /\ last[r] = Offsets(b, index[r])
  /\ \/ pc[r] = "probe" /\ first[r] = <<>>
     \/ pc[r] = "next" /\ HeadPiece(From(r), first[r])

\* It has handed on the last line.
Ended(r) ==
  /\ pc[r] \in {"next", "done"} /\ index[r] = Last(r) /\ end[r] = Last(r)
  /\ first[r] = <<>> /\ last[r] = <<>>

RankLines(r) ==
  /\ Fresh(r) \/ Within(r) \/ Ended(r)
  /\ \A piece \in mail[r] : HeadPiece(From(r), piece)
  /\ \A piece \in LinesOf(r) : Line(piece)

LinesInv == Loadable => \A r \in Ranks : RankLines(r)

\* The positions of the files that can be loaded.
LEMMA LoadableIs ==
  ASSUME Typed, Loadable
  PROVE  /\ \A r \in Ranks : /\ First(r) \in Nat /\ Last(r) \in Nat /\ First(r) < Last(r)
                             /\ Last(r) <= Len(file)
                             /\ \E n \in First(r)..Last(r) - 1 :
                                  Newline(n) /\ n < First(r) + bufsize
         /\ Newline(Len(file) - 1)
         /\ \A at \in Nat : at < Len(file) /\ Newline(at) => at > 0 /\ ~Newline(at - 1)
<1>1. Len(file) \in Nat /\ Len(file) > 0
  BY DEF Typed
<1>2. \A r \in Ranks : First(r) \in Nat /\ Last(r) \in Nat /\ Last(r) <= Len(file)
  BY <1>1, FirstAndLast
<1>3. \A r \in Ranks : \E n \in First(r)..Last(r) - 1 : Newline(n) /\ n < First(r) + bufsize
  BY DEF Loadable
<1>4. \A r \in Ranks : First(r) < Last(r)
  BY <1>2, <1>3
<1>5. Newline(Len(file) - 1)
  BY <1>1 DEF Loadable, Newline
<1>6. \A at \in Nat : at < Len(file) /\ Newline(at) => at > 0 /\ ~Newline(at - 1)
  BY <1>1 DEF Loadable
<1> QED  BY <1>2, <1>3, <1>4, <1>5, <1>6

\* What lies between two newlines is a line, and not an empty one.
LEMMA LineIs ==
  ASSUME Typed, Loadable, NEW b \in Nat, NEW m \in Nat, b <= m, m < Len(file), Newline(m),
         \A c \in b..m - 1 : ~Newline(c), b = 0 \/ Newline(b - 1)
  PROVE  /\ Offsets(b, m + 1) \in Seq(Nat) /\ Len(Offsets(b, m + 1)) # 1
         /\ Line(Offsets(b, m + 1))
<1>1. PICK p : p = Offsets(b, m + 1)
  OBVIOUS
<1>2. m + 1 \in Nat /\ b <= m + 1
  OBVIOUS
<1>3. /\ p \in Seq(Nat) /\ Len(p) = (m + 1) - b /\ DOMAIN p = 1..(m + 1) - b
      /\ \A n \in 1..(m + 1) - b : p[n] = b + n - 1
  <2>1. PICK d \in Nat : d = m + 1
    OBVIOUS
  <2>2. /\ Offsets(b, d) \in Seq(Nat) /\ Len(Offsets(b, d)) = d - b
        /\ DOMAIN Offsets(b, d) = 1..d - b
        /\ \A n \in 1..d - b : Offsets(b, d)[n] = b + n - 1
    BY <1>2, <2>1, OffsetsAre
  <2> QED  BY <1>1, <2>1, <2>2
<1>4. b # m
  BY LoadableIs
<1>5. p[1] = b /\ p[Len(p)] = m
  BY <1>3
<1>6. p # <<>> /\ Len(p) # 1
  BY <1>3, <1>4
<1>7. ASSUME NEW n \in DOMAIN p PROVE Newline(p[n]) <=> n = Len(p)
  <2>1. p[n] = b + n - 1 /\ n \in Nat /\ 1 <= n /\ n <= m + 1 - b
    BY <1>3
  <2>2. CASE n = m + 1 - b
    <3>1. p[n] = m
      BY <2>1, <2>2
    <3> QED  BY <1>3, <2>2, <3>1
  <2>3. CASE n # m + 1 - b
    <3>1. p[n] \in b..m - 1
      BY <2>1, <2>3
    <3> QED  BY <1>3, <2>3, <3>1
  <2> QED  BY <2>2, <2>3
<1>8. p = Offsets(p[1], p[Len(p)] + 1)
  BY <1>1, <1>5
<1>9. p[1] = 0 \/ Newline(p[1] - 1)
  BY <1>5
<1>10. Line(p)
  BY <1>6, <1>7, <1>8, <1>9 DEF Line
<1> QED  BY <1>1, <1>3, <1>6, <1>10

LEMMA SameFile ==
  ASSUME file' = file, bufsize' = bufsize
  PROVE  /\ \A at : Newline(at)' <=> Newline(at)
         /\ \A s : First(s)' = First(s) /\ Last(s)' = Last(s)
         /\ Loadable' <=> Loadable
         /\ \A s, p : HeadPiece(s, p)' <=> HeadPiece(s, p)
         /\ \A p : Line(p)' <=> Line(p)
<1>1. \A at : Newline(at)' <=> Newline(at)
  BY DEF Newline
<1>2. \A s : First(s)' = First(s) /\ Last(s)' = Last(s)
  BY DEF First, Last, Chunk
<1>3. Loadable' <=> Loadable
  BY <1>1, <1>2 DEF Loadable
<1>4. \A s, p : HeadPiece(s, p)' <=> HeadPiece(s, p)
  BY <1>1, <1>2 DEF HeadPiece
<1>5. \A p : Line(p)' <=> Line(p)
  BY <1>1 DEF Line
<1> QED  BY <1>1, <1>2, <1>3, <1>4, <1>5

\* A rank whose own variables a step leaves alone.
LEMMA OtherRankLines ==
  ASSUME file' = file, bufsize' = bufsize, NEW s \in Ranks, RankLines(s),
         pc'[s] = pc[s], index'[s] = index[s], end'[s] = end[s], first'[s] = first[s],
         last'[s] = last[s], lines'[s] = lines[s],
         \A piece \in mail'[s] : HeadPiece(From(s), piece)
  PROVE  RankLines(s)'
<1>1. (Fresh(s) \/ Within(s) \/ Ended(s))'
  <2>1. CASE Fresh(s)
    BY <2>1, SameFile DEF Fresh, Marked
  <2>2. CASE Within(s)
    BY <2>2, SameFile DEF Within
  <2>3. CASE Ended(s)
    BY <2>3, SameFile DEF Ended
  <2> QED  BY <2>1, <2>2, <2>3 DEF RankLines
<1>2. \A piece \in mail'[s] : HeadPiece(From(s), piece)'
  BY SameFile
<1>3. \A piece \in LinesOf(s)' : Line(piece)'
  BY SameFile DEF LinesOf, RankLines
<1> QED  BY <1>1, <1>2, <1>3 DEF RankLines

LEMMA HeadPieceIs ==
  ASSUME Typed, NEW s \in Ranks, NEW p, HeadPiece(s, p)
  PROVE  /\ p # <<>>
         /\ \E n \in Nat : /\ First(s) \in Nat /\ First(s) <= n /\ n < Last(s) /\ Newline(n)
                           /\ \A b \in First(s)..n - 1 : ~Newline(b)
                           /\ p = Offsets(First(s), n + 1)
<1>1. First(s) \in Nat /\ Last(s) \in Nat
  BY FirstAndLast DEF Typed
<1>2. PICK n \in First(s)..Last(s) - 1 :
        /\ Newline(n) /\ \A b \in First(s)..n - 1 : ~Newline(b)
        /\ p = Offsets(First(s), n + 1)
  BY DEF HeadPiece
<1>3. n \in Nat /\ n + 1 \in Nat /\ First(s) <= n + 1 /\ First(s) # n + 1
  BY <1>1
<1>4. p # <<>>
  BY <1>1, <1>2, <1>3, OffsetsAre, SMTT(30)
<1> QED  BY <1>1, <1>2, <1>3, <1>4

\* Which phase a rank is in, by what it has received.
LEMMA PhaseIs ==
  ASSUME Typed, NEW r \in Ranks, RankLines(r)
  PROVE  /\ pc[r] # "crashed"
         /\ pc[r] = "probe" => Within(r)
         /\ pc[r] = "next" /\ first[r] # <<>> => Within(r) /\ HeadPiece(From(r), first[r])
         /\ pc[r] = "next" /\ first[r] = <<>> => Fresh(r) \/ Ended(r)
<1>1. From(r) \in Ranks
  BY ToFrom
<1>2. HeadPiece(From(r), first[r]) => first[r] # <<>>
  BY <1>1, HeadPieceIs
<1> QED  BY <1>2 DEF RankLines, Fresh, Within, Ended

\* What a step of a rank has to keep of its own.
OwnLines(r) ==
  /\ Fresh(r) \/ Within(r) \/ Ended(r)
  /\ \A piece \in LinesOf(r) : Line(piece)

LEMMA ReadBufferLines ==
  ASSUME Typed, Loadable, NEW r \in Ranks, RankLines(r), ReadBuffer(r)
  PROVE  OwnLines(r)'
<1>1. /\ UNCHANGED <<file, bufsize, pc, index, first, last, mail, lines>>
      /\ pc[r] = "next" /\ index[r] = end[r] /\ end[r] < Last(r)
      /\ end'[r] = IF Last(r) - end[r] < bufsize THEN Last(r) ELSE end[r] + bufsize
  BY DEF Typed, ReadBuffer
<1>2. \A piece \in LinesOf(r)' : Line(piece)'
  BY <1>1, SameFile DEF LinesOf, RankLines
<1>3. /\ First(r) \in Nat /\ Last(r) \in Nat /\ bufsize \in Nat /\ end[r] \in Nat
      /\ First(r)' = First(r)
  BY <1>1, FirstAndLast, SameFile DEF Typed, RankTypes
<1>4. CASE Fresh(r)
  <2>1. index[r] = First(r) /\ first[r] = <<>> /\ last[r] = <<>>
    BY <1>4 DEF Fresh
  <2>2. PICK n \in First(r)..Last(r) - 1 : Newline(n) /\ n < First(r) + bufsize
    BY LoadableIs
  <2>3. n \in index'[r]..end'[r] - 1
    BY <1>1, <1>3, <2>1, <2>2
  <2>4. Newline(n)'
    BY <1>1, <2>2, SameFile
  <2>5. Marked(r)'
    BY <2>3, <2>4 DEF Marked
  <2>6. Fresh(r)'
    BY <1>1, <1>3, <2>1, <2>5 DEF Fresh
  <2> QED  BY <1>2, <2>6 DEF OwnLines
<1>5. CASE Within(r)
  <2>1. Within(r)'
    BY <1>1, <1>5, SameFile DEF Within
  <2> QED  BY <1>2, <2>1 DEF OwnLines
<1>6. ~Ended(r)
  BY <1>1, <1>3 DEF Ended
<1> QED  BY <1>4, <1>5, <1>6 DEF RankLines

LEMMA KeepPieceLines ==
  ASSUME Typed, Loadable, NEW r \in Ranks, RankLines(r), KeepPiece(r)
  PROVE  OwnLines(r)'
<1>1. /\ UNCHANGED <<file, bufsize, pc, end, first, mail, lines>>
      /\ pc[r] = "next" /\ index[r] < end[r] /\ ~Marked(r)
      /\ last'[r] = last[r] \o Offsets(index[r], end[r]) /\ index'[r] = end[r]
  BY DEF Typed, KeepPiece
<1>2. \A piece \in LinesOf(r)' : Line(piece)'
  BY <1>1, SameFile DEF LinesOf, RankLines
<1>3. /\ First(r) \in Nat /\ Last(r) \in Nat /\ end[r] \in Nat /\ index[r] \in Nat
      /\ First(r)' = First(r) /\ First(r) <= index[r] /\ end[r] <= Last(r)
  BY <1>1, FirstAndLast, SameFile DEF Typed, RankTypes
<1>4. Within(r)
  BY <1>1, <1>3 DEF RankLines, Fresh, Ended
<1>5. PICK b \in First(r) + 1..index[r] :
        /\ Newline(b - 1) /\ \A c \in b..index[r] - 1 : ~Newline(c)
        /\ last[r] = Offsets(b, index[r])
  BY <1>4 DEF Within
<1>6. b \in Nat /\ b <= index[r] /\ b \in First(r)' + 1..index'[r]
  BY <1>1, <1>3
<1>7. last'[r] = Offsets(b, index'[r])
  <2>1. PICK i \in Nat, e \in Nat : i = index[r] /\ e = end[r]
    BY <1>3
  <2>2. b <= i /\ i <= e
    BY <1>1, <1>6, <2>1
  <2>3. Offsets(b, i) \o Offsets(i, e) = Offsets(b, e)
    BY <1>6, <2>1, <2>2, OffsetsJoin
  <2> QED  BY <1>1, <1>5, <2>1, <2>3
<1>8. \A c \in b..index'[r] - 1 : ~Newline(c)'
  <2>1. ASSUME NEW c \in b..end[r] - 1 PROVE ~Newline(c)
    <3>1. CASE c < index[r]
      BY <1>3, <1>5, <1>6, <2>1, <3>1
    <3>2. CASE c >= index[r]
      BY <1>1, <1>3, <1>6, <2>1, <3>2 DEF Marked
    <3> QED  BY <1>3, <1>6, <3>1, <3>2
  <2> QED  BY <1>1, <2>1, SameFile
<1>9. Within(r)'
  BY <1>1, <1>4, <1>5, <1>6, <1>7, <1>8, SameFile DEF Within
<1> QED  BY <1>2, <1>9 DEF OwnLines

LEMMA SendPieceLines ==
  ASSUME Typed, Loadable, NEW r \in Ranks, RankLines(r), SendPiece(r)
  PROVE  OwnLines(r)' /\ HeadPiece(r, Offsets(index[r], Mark(r) + 1))
<1>1. /\ UNCHANGED <<file, bufsize, end, first, last, lines>>
      /\ pc[r] = "next" /\ index[r] < end[r] /\ Marked(r) /\ first[r] = <<>>
      /\ pc'[r] = "probe" /\ index'[r] = Mark(r) + 1
  BY DEF Typed, SendPiece
<1>2. \A piece \in LinesOf(r)' : Line(piece)'
  BY <1>1, SameFile DEF LinesOf, RankLines
<1>3. /\ First(r) \in Nat /\ Last(r) \in Nat /\ end[r] \in Nat /\ index[r] \in Nat
      /\ First(r)' = First(r) /\ First(r) <= index[r] /\ end[r] <= Last(r)
  BY <1>1, FirstAndLast, SameFile DEF Typed, RankTypes
<1>4. Fresh(r)
  BY <1>1, <1>3, PhaseIs DEF Ended
<1>5. /\ Mark(r) \in index[r]..end[r] - 1 /\ Mark(r) \in Nat /\ Newline(Mark(r))
      /\ \A b \in index[r]..Mark(r) - 1 : ~Newline(b)
  BY <1>1, <1>3, MarkIs
<1>6. index[r] = First(r) /\ last[r] = <<>>
  BY <1>4 DEF Fresh
<1>7. HeadPiece(r, Offsets(index[r], Mark(r) + 1))
  BY <1>3, <1>5, <1>6 DEF HeadPiece
<1>8. PICK b \in Nat : b = Mark(r) + 1
  BY <1>5
<1>9. last'[r] = Offsets(b, index'[r])
  <2>1. Offsets(b, b) = <<>>
    BY OffsetsAre
  <2> QED  BY <1>1, <1>6, <1>8, <2>1
<1>10. b \in First(r)' + 1..index'[r] /\ b - 1 = Mark(r)
  BY <1>1, <1>3, <1>5, <1>8
<1>11. Newline(b - 1)' /\ \A c \in b..index'[r] - 1 : ~Newline(c)'
  BY <1>1, <1>5, <1>8, <1>10, SameFile
<1>12. Within(r)'
  BY <1>1, <1>9, <1>10, <1>11 DEF Within
<1> QED  BY <1>2, <1>7, <1>12 DEF OwnLines

LEMMA ReceiveLines ==
  ASSUME Typed, Loadable, NEW r \in Ranks, RankLines(r), Receive(r)
  PROVE  OwnLines(r)'
<1>1. PICK piece \in mail[r] :
        /\ UNCHANGED <<file, bufsize, index, end, last, lines>>
        /\ pc[r] = "probe" /\ first'[r] = piece /\ pc'[r] = "next"
  BY DEF Typed, Receive
<1>2. \A p \in LinesOf(r)' : Line(p)'
  BY <1>1, SameFile DEF LinesOf, RankLines
<1>3. Within(r)
  BY <1>1, PhaseIs
<1>4. HeadPiece(From(r), first[r])'
  BY <1>1, SameFile DEF RankLines
<1>5. Within(r)'
  BY <1>1, <1>3, <1>4, SameFile DEF Within
<1> QED  BY <1>2, <1>5 DEF OwnLines

\* The node iterator takes apart a line that is not empty.
LEMMA HandedOnLine ==
  ASSUME Typed, NEW r \in Ranks, NEW x \in Seq(Nat), HandOn(r, x), Len(x) # 1, Line(x),
         \A piece \in LinesOf(r) : Line(piece), file' = file, bufsize' = bufsize
  PROVE  pc' = pc /\ \A piece \in LinesOf(r)' : Line(piece)'
<1>1. pc' = pc /\ lines'[r] = Append(lines[r], x) /\ lines[r] \in Seq(Seq(Nat))
  BY DEF Typed, RankTypes, HandOn
<1>2. /\ DOMAIN lines[r] = 1..Len(lines[r]) /\ Len(lines[r]) \in Nat
      /\ DOMAIN lines'[r] = 1..Len(lines[r]) + 1
      /\ \A n \in 1..Len(lines[r]) : lines'[r][n] = lines[r][n]
      /\ lines'[r][Len(lines[r]) + 1] = x
  BY <1>1, AppendSeq
<1>3. ASSUME NEW piece \in LinesOf(r)' PROVE Line(piece)
  <2>1. PICK n \in 1..Len(lines[r]) + 1 : piece = lines'[r][n]
    BY <1>2 DEF LinesOf
  <2>2. CASE n = Len(lines[r]) + 1
    BY <1>2, <2>1, <2>2
  <2>3. CASE n # Len(lines[r]) + 1
    <3>1. n \in 1..Len(lines[r])
      BY <1>2, <2>3
    <3>2. piece \in LinesOf(r)
      BY <1>2, <2>1, <3>1 DEF LinesOf
    <3> QED  BY <3>2
  <2> QED  BY <2>2, <2>3
<1> QED  BY <1>1, <1>3, SameFile

LEMMA NextLineLines ==
  ASSUME Typed, Loadable, NEW r \in Ranks, RankLines(r), NextLine(r)
  PROVE  OwnLines(r)'
<1>1. /\ UNCHANGED <<file, bufsize, end, first, mail>>
      /\ pc[r] = "next" /\ index[r] < end[r] /\ Marked(r) /\ first[r] # <<>>
      /\ HandOn(r, last[r] \o Offsets(index[r], Mark(r) + 1))
      /\ last'[r] = <<>> /\ index'[r] = Mark(r) + 1
  BY DEF Typed, NextLine
<1>3. /\ First(r) \in Nat /\ Last(r) \in Nat /\ end[r] \in Nat /\ index[r] \in Nat
      /\ First(r)' = First(r) /\ First(r) <= index[r] /\ end[r] <= Last(r)
      /\ Last(r) <= Len(file) /\ Len(file) \in Nat
  BY <1>1, FirstAndLast, SameFile DEF Typed, RankTypes
<1>4. Within(r) /\ HeadPiece(From(r), first[r])
  BY <1>1, PhaseIs
<1>5. PICK b \in First(r) + 1..index[r] :
        /\ Newline(b - 1) /\ \A c \in b..index[r] - 1 : ~Newline(c)
        /\ last[r] = Offsets(b, index[r])
  BY <1>4 DEF Within
<1>6. PICK m \in index[r]..end[r] - 1 :
        /\ m = Mark(r) /\ m \in Nat /\ Newline(m)
        /\ \A c \in index[r]..m - 1 : ~Newline(c)
  BY <1>1, <1>3, MarkIs
<1>7. /\ b \in Nat /\ b <= index[r] /\ m + 1 \in Nat /\ index[r] <= m + 1
      /\ b <= m /\ m < Len(file)
  BY <1>3, <1>6
<1>8. last[r] \o Offsets(index[r], Mark(r) + 1) = Offsets(b, m + 1)
  <2>1. PICK i \in Nat, e \in Nat : i = index[r] /\ e = m + 1
    BY <1>3, <1>7
  <2>2. Offsets(b, i) \o Offsets(i, e) = Offsets(b, e)
    BY <1>7, <2>1, OffsetsJoin
  <2> QED  BY <1>5, <1>6, <2>1, <2>2
<1>9. \A c \in b..m - 1 : ~Newline(c)
  <2>1. ASSUME NEW c \in b..m - 1 PROVE ~Newline(c)
    <3>1. c < index[r] \/ c >= index[r]
      BY <1>3, <1>7
    <3> QED  BY <1>3, <1>5, <1>6, <1>7, <2>1, <3>1
  <2> QED  BY <2>1
<1>10. /\ Offsets(b, m + 1) \in Seq(Nat) /\ Len(Offsets(b, m + 1)) # 1
       /\ Line(Offsets(b, m + 1))
  BY <1>5, <1>6, <1>7, <1>9, LineIs
<1>11. pc' = pc /\ \A piece \in LinesOf(r)' : Line(piece)'
  BY <1>1, <1>8, <1>10, HandedOnLine DEF RankLines
<1>12. Within(r)'
  <2>1. PICK d \in Nat : d = m + 1
    BY <1>7
  <2>2. last'[r] = Offsets(d, index'[r])
    <3>1. Offsets(d, d) = <<>>
      BY OffsetsAre
    <3> QED  BY <1>1, <1>6, <2>1, <3>1
  <2>3. d \in First(r)' + 1..index'[r] /\ d - 1 = m
    BY <1>1, <1>3, <1>6, <2>1
  <2>4. Newline(d - 1)' /\ \A c \in d..index'[r] - 1 : ~Newline(c)'
    BY <1>1, <1>6, <2>1, <2>3, SameFile
  <2>5. pc'[r] = "next" /\ HeadPiece(From(r), first[r])'
    BY <1>1, <1>4, <1>11, SameFile
  <2> QED  BY <2>2, <2>3, <2>4, <2>5 DEF Within
<1> QED  BY <1>11, <1>12 DEF OwnLines

LEMMA LastLineLines ==
  ASSUME Typed, Loadable, NEW r \in Ranks, RankLines(r), LastLine(r)
  PROVE  OwnLines(r)'
<1>1. /\ UNCHANGED <<file, bufsize, index, end, mail>>
      /\ pc[r] = "next" /\ index[r] = Last(r) /\ end[r] = Last(r) /\ first[r] # <<>>
      /\ HandOn(r, last[r] \o first[r]) /\ last'[r] = <<>> /\ first'[r] = <<>>
  BY DEF Typed, LastLine
<1>2. Len(file) \in Nat /\ From(r) \in Ranks
  BY ToFrom DEF Typed
<1>3. /\ First(r) \in Nat /\ Last(r) \in Nat /\ Last(r)' = Last(r)
      /\ r = CommSize - 1 => Last(r) = Len(file) /\ From(r) = 0
      /\ r # CommSize - 1 => Last(r) = First(From(r))
      /\ Last(From(r)) <= Len(file) /\ Last(From(r)) \in Nat
  <2>1. r \in 0..CommSize - 1 /\ CommSize \in Nat
    BY LoadingAssumption DEF Ranks
  <2> QED  BY <1>1, <1>2, <2>1, FirstAndLast, SameFile DEF From
<1>4. Within(r) /\ HeadPiece(From(r), first[r])
  BY <1>1, PhaseIs
<1>5. PICK b \in First(r) + 1..Last(r) :
        /\ Newline(b - 1) /\ \A c \in b..Last(r) - 1 : ~Newline(c)
        /\ last[r] = Offsets(b, Last(r))
  BY <1>1, <1>4 DEF Within
<1>6. PICK n \in Nat :
        /\ First(From(r)) \in Nat /\ First(From(r)) <= n /\ n < Last(From(r)) /\ Newline(n)
        /\ \A c \in First(From(r))..n - 1 : ~Newline(c)
        /\ first[r] = Offsets(First(From(r)), n + 1)
  BY <1>2, <1>4, HeadPieceIs
<1>7. \E x \in Seq(Nat) : x = last[r] \o first[r] /\ Len(x) # 1 /\ Line(x)
  <2>1. b \in Nat /\ b <= Last(r) /\ n + 1 \in Nat /\ n < Len(file)
    BY <1>2, <1>3, <1>6
  <2>2. CASE r # CommSize - 1
    <3>1. Last(r) <= n + 1 /\ Last(r) <= n /\ b <= n
      BY <1>3, <1>6, <2>1, <2>2
    <3>2. last[r] \o first[r] = Offsets(b, n + 1)
      <4>1. PICK i \in Nat, e \in Nat : i = Last(r) /\ e = n + 1
        BY <1>3, <2>1
      <4>2. Offsets(b, i) \o Offsets(i, e) = Offsets(b, e)
        BY <2>1, <3>1, <4>1, OffsetsJoin
      <4> QED  BY <1>3, <1>5, <1>6, <2>2, <4>1, <4>2
    <3>3. ASSUME NEW c \in b..n - 1 PROVE ~Newline(c)
      <4>1. c < Last(r) \/ c >= Last(r)
        BY <1>3, <2>1
      <4> QED  BY <1>3, <1>5, <1>6, <2>1, <2>2, <3>3, <4>1
    <3> QED  BY <1>5, <1>6, <2>1, <3>1, <3>2, <3>3, LineIs
  <2>3. CASE r = CommSize - 1
    <3>1. Last(r) = Len(file) /\ From(r) = 0 /\ First(From(r)) = 0
      BY <1>2, <1>3, <2>3, FirstAndLast
    <3>2. Newline(Len(file) - 1)
      BY LoadableIs
    <3>3. b = Last(r)
      BY <1>2, <1>5, <2>1, <3>1, <3>2
    <3>4. last[r] = <<>>
      <4>1. b \in Nat /\ Offsets(b, b) = <<>>
        BY <2>1, OffsetsAre
      <4> QED  BY <1>5, <3>3, <4>1
    <3>5. /\ Offsets(0, n + 1) \in Seq(Nat) /\ Len(Offsets(0, n + 1)) # 1
          /\ Line(Offsets(0, n + 1))
      BY <1>6, <2>1, <3>1, LineIs
    <3>6. last[r] \o first[r] = Offsets(0, n + 1)
      BY <1>6, <3>1, <3>4, <3>5
    <3> QED  BY <3>5, <3>6
  <2> QED  BY <2>2, <2>3
<1>8. pc' = pc /\ \A piece \in LinesOf(r)' : Line(piece)'
  BY <1>1, <1>7, HandedOnLine DEF RankLines
<1>9. Ended(r)'
  BY <1>1, <1>3, <1>8 DEF Ended
<1> QED  BY <1>8, <1>9 DEF OwnLines

LEMMA EndLines ==
  ASSUME Typed, Loadable, NEW r \in Ranks, RankLines(r), End(r)
  PROVE  OwnLines(r)'
<1>1. /\ UNCHANGED <<file, bufsize, index, end, first, last, mail, lines>>
      /\ pc[r] = "next" /\ index[r] = Last(r) /\ end[r] = Last(r) /\ first[r] = <<>>
      /\ pc'[r] = IF last[r] = <<>> THEN "done" ELSE "crashed"
  BY DEF Typed, End
<1>2. \A piece \in LinesOf(r)' : Line(piece)'
  BY <1>1, SameFile DEF LinesOf, RankLines
<1>3. ~Fresh(r)
  <2>1. First(r) \in Nat /\ First(r) < Last(r) /\ Last(r) \in Nat
    BY LoadableIs
  <2> QED  BY <1>1, <2>1 DEF Fresh, Marked
<1>4. Ended(r)
  BY <1>1, <1>3, PhaseIs
<1>5. Ended(r)'
  BY <1>1, <1>4, SameFile DEF Ended
<1> QED  BY <1>2, <1>5 DEF OwnLines

LEMMA StepLines ==
  ASSUME Typed, Loadable, \A s \in Ranks : RankLines(s), NEW r \in Ranks, Step(r)
  PROVE  \A s \in Ranks : RankLines(s)'
<1>1. OwnLines(r)'
  BY ReadBufferLines, KeepPieceLines, SendPieceLines, ReceiveLines, NextLineLines,
     LastLineLines, EndLines DEF Step
<1>2. file' = file /\ bufsize' = bufsize
  BY DEF Step, ReadBuffer, KeepPiece, SendPiece, Receive, NextLine, LastLine, End
<1>3. ASSUME NEW s \in Ranks, NEW piece \in mail'[s] PROVE HeadPiece(From(s), piece)
  <2>1. CASE SendPiece(r)
    <3>1. PICK x : x = Offsets(index[r], Mark(r) + 1)
      OBVIOUS
    <3>2. DOMAIN mail = Ranks /\ mail' = [mail EXCEPT ![To(r)] = @ \cup {x}]
      BY <2>1, <3>1 DEF Typed, SendPiece, To
    <3>3. HeadPiece(r, x)
      BY <2>1, <3>1, SendPieceLines
    <3>4. piece \in mail[s] \/ (s = To(r) /\ piece = x)
      BY <1>3, <3>2
    <3> QED  BY <3>3, <3>4, ToFrom DEF RankLines
  <2>2. CASE Receive(r)
    <3>1. mail'[s] \subseteq mail[s]
      BY <2>2 DEF Typed, Receive
    <3> QED  BY <1>3, <3>1 DEF RankLines
  <2>3. CASE mail' = mail
    BY <1>3, <2>3 DEF RankLines
  <2> QED  BY <2>1, <2>2, <2>3 DEF Step, ReadBuffer, KeepPiece, NextLine, LastLine, End
<1>4. ASSUME NEW s \in Ranks PROVE RankLines(s)'
  <2>1. \A piece \in mail'[s] : HeadPiece(From(s), piece)
    BY <1>3
  <2>2. CASE s = r
    <3>1. \A piece \in mail'[s] : HeadPiece(From(s), piece)'
      BY <1>2, <2>1, SameFile
    <3> QED  BY <1>1, <2>2, <3>1 DEF OwnLines, RankLines
  <2>3. CASE s # r
    <3>1. /\ pc'[s] = pc[s] /\ index'[s] = index[s] /\ end'[s] = end[s]
          /\ first'[s] = first[s] /\ last'[s] = last[s] /\ lines'[s] = lines[s]
      BY <2>3 DEF Typed, Step, ReadBuffer, KeepPiece, SendPiece, Receive, NextLine,
                  LastLine, End, HandOn
    <3> QED  BY <1>2, <2>1, <3>1, OtherRankLines
  <2> QED  BY <2>2, <2>3
<1> QED  BY <1>4

LEMMA NextLines == Typed /\ LinesInv /\ [Next]_vars => LinesInv'
<1> SUFFICES ASSUME Typed, LinesInv, [Next]_vars, Loadable'
             PROVE  \A s \in Ranks : RankLines(s)'
  BY DEF LinesInv
<1>1. file' = file /\ bufsize' = bufsize
  BY DEF Next, Step, ReadBuffer, KeepPiece, SendPiece, Receive, NextLine, LastLine, End, vars
<1>2. Loadable /\ \A s \in Ranks : RankLines(s)
  BY <1>1, SameFile DEF LinesInv
<1>3. CASE Next
  <2>1. PICK r \in Ranks : Step(r)
    BY <1>3 DEF Next
  <2> QED  BY <1>2, <2>1, StepLines
<1>4. CASE UNCHANGED vars
  <2>1. UNCHANGED <<file, bufsize, pc, index, end, first, last, mail, lines>>
    BY <1>4 DEF vars
  <2>2. ASSUME NEW s \in Ranks PROVE RankLines(s)'
    BY <1>2, <2>1, OtherRankLines DEF RankLines
  <2> QED  BY <2>2
<1> QED  BY <1>3, <1>4

LEMMA InitLines == Init => LinesInv
<1> SUFFICES ASSUME Init, NEW r \in Ranks PROVE RankLines(r)
  BY DEF LinesInv
<1>1. /\ pc[r] = "next" /\ index[r] = First(r) /\ end[r] = First(r) /\ first[r] = <<>>
      /\ last[r] = <<>> /\ mail[r] = {} /\ lines[r] = <<>>
  BY DEF Init
<1> QED  BY <1>1 DEF RankLines, Fresh, LinesOf

\* Of a file that can be loaded every rank is before its first newline, within a
\* line of which it has all it has read, or at its end; what it is sent is what
\* the chunk of the rank after it begins with.
THEOREM RanksAreInLines == Spec => []LinesInv
<1>1. Spec => [](Typed /\ OnceInv)
  BY EachByteInOnePlace
<1> QED  BY <1>1, InitLines, NextLines, PTL DEF Spec

\* No rank ends in an error and each line that is handed on is a whole line of the
\* file, for any number of ranks, any buffers and any order of the ranks' steps.
THEOREM WholeLines == Spec => []LinesExact
<1>1. Typed /\ LinesInv => LinesExact
  <2> SUFFICES ASSUME Typed, LinesInv, Loadable, NEW r \in Ranks
               PROVE  pc[r] # "crashed" /\ \A piece \in LinesOf(r) : Line(piece)
    BY DEF LinesExact
  <2>1. RankLines(r)
    BY DEF LinesInv
  <2>2. pc[r] # "crashed"
    BY <2>1, PhaseIs
  <2> QED  BY <2>1, <2>2 DEF RankLines
<1> QED  BY <1>1, EachByteInOnePlace, RanksAreInLines, PTL
=============================================================================
