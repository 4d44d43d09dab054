------------------------------ MODULE Loading ------------------------------
(***************************************************************************)
(* Reading one file of triples on all ranks (parallel/mpi_rdfio.c and the  *)
(* three iterators below it).  Each rank reads its chunk of the file in    *)
(* buffers and cuts it into lines.  What comes before the first newline    *)
(* of a chunk belongs to a line of the rank before, and is sent there (by  *)
(* rank 0 to the last rank); a rank hands on the piece it is sent as its   *)
(* last line, after what its chunk ends with.                              *)
(*                                                                         *)
(* A file is a sequence of bytes, of which only newlines matter; a line    *)
(* or a piece of one is the sequence of its offsets in the file.           *)
(*                                                                         *)
(* An operator with an underscore in its name is a mutated form of the one *)
(* that follows it, and is used by no specification.                       *)
(***************************************************************************)
EXTENDS Integers, Sequences, FiniteSets

CONSTANTS
  CommSize,     \* the number of ranks
  Sizes,        \* bound of the model: the sizes of the file
  BufSizes      \* the buffer sizes

ASSUME LoadingAssumption ==
  /\ CommSize \in Nat \ {0} /\ Sizes \subseteq Nat \ {0}
  /\ BufSizes \subseteq Nat \ {0}

Ranks == 0..CommSize - 1

VARIABLES
  file,      \* the bytes: "\n" or "c"
  bufsize,
  pc,        \* where a rank is: "next", "probe", "done" or "crashed"
  index,     \* the offset in the file of the next byte of its buffer
  end,       \* the offset behind its buffer
  first,     \* first_frag: the piece it was sent; <<>> for NULL
  last,      \* last_frag: what it has of a line
  mail,      \* the pieces that were sent to it and not received
  lines      \* the lines it has handed on, in order

vars == <<file, bufsize, pc, index, end, first, last, mail, lines>>

Newline(at) == file[at + 1] = "\n"

\* mpi_rdfio_readnt: the chunk of a rank is from First(r) to Last(r) - 1.
Chunk == Len(file) \div CommSize

First(r) == r * Chunk

Last_NoRemainder(r) == First(r) + Chunk

Last(r) == First(r) + Chunk + (IF r = CommSize - 1 THEN Len(file) % CommSize ELSE 0)

Init ==
  /\ file \in UNION {[1..n -> {"c", "\n"}] : n \in Sizes}
  /\ bufsize \in BufSizes
  /\ pc = [r \in Ranks |-> "next"]
  /\ index = [r \in Ranks |-> First(r)]
  /\ end = [r \in Ranks |-> First(r)]
  /\ first = [r \in Ranks |-> <<>>]
  /\ last = [r \in Ranks |-> <<>>]
  /\ mail = [r \in Ranks |-> {}]
  /\ lines = [r \in Ranks |-> <<>>]

Offsets(a, b) == [n \in 1..b - a |-> a + n - 1]

\* The first newline of what is left in the buffer, or the end of the buffer.
Marked(r) == \E at \in index[r]..end[r] - 1 : Newline(at)

Mark(r) ==
  CHOOSE at \in index[r]..end[r] - 1 : Newline(at) /\ \A b \in index[r]..at - 1 : ~Newline(b)

\* The node iterator takes a line apart; it finds no node in an empty line, and
\* the parser is given NULL.
HandOn(r, line) ==
  IF Len(line) = 1 THEN pc' = [pc EXCEPT ![r] = "crashed"] /\ UNCHANGED lines
  ELSE lines' = [lines EXCEPT ![r] = Append(@, line)] /\ UNCHANGED pc

\* _mpi_file_iterator_next: the buffer is read again, shorter at the end.
ReadBuffer(r) ==
  /\ pc[r] = "next" /\ index[r] = end[r] /\ end[r] < Last(r)
  /\ end' = [end EXCEPT ![r] = IF Last(r) - @ < bufsize THEN Last(r) ELSE @ + bufsize]
  /\ UNCHANGED <<file, bufsize, pc, index, first, last, mail, lines>>

\* _mpi_file_ntriples_iterator_next, when the buffer ends within a line.
KeepPiece(r) ==
  /\ pc[r] = "next" /\ index[r] < end[r] /\ ~Marked(r)
  /\ last' = [last EXCEPT ![r] = @ \o Offsets(index[r], end[r])]
  /\ index' = [index EXCEPT ![r] = end[r]]
  /\ UNCHANGED <<file, bufsize, pc, end, first, mail, lines>>

\* The same when there is a newline and nothing has been received: what is before
\* it in this buffer is sent.
SendPiece_Forward(r) ==
  /\ pc[r] = "next" /\ index[r] < end[r] /\ Marked(r) /\ first[r] = <<>>
  /\ mail' = [mail EXCEPT ![(r + 1) % CommSize] = @ \cup {Offsets(index[r], Mark(r) + 1)}]
  /\ index' = [index EXCEPT ![r] = Mark(r) + 1]
  /\ pc' = [pc EXCEPT ![r] = "probe"]
  /\ UNCHANGED <<file, bufsize, end, first, last, lines>>

SendPiece_Rank0Keeps(r) ==
  /\ pc[r] = "next" /\ index[r] < end[r] /\ Marked(r) /\ first[r] = <<>>
  /\ mail' = IF r = 0 THEN mail
             ELSE [mail EXCEPT ![r - 1] = @ \cup {Offsets(index[r], Mark(r) + 1)}]
  /\ index' = [index EXCEPT ![r] = Mark(r) + 1]
  /\ pc' = [pc EXCEPT ![r] = "probe"]
  /\ UNCHANGED <<file, bufsize, end, first, last, lines>>

SendPiece(r) ==
  LET to == IF r > 0 THEN r - 1 ELSE CommSize - 1
  IN  /\ pc[r] = "next" /\ index[r] < end[r] /\ Marked(r) /\ first[r] = <<>>
      /\ mail' = [mail EXCEPT ![to] = @ \cup {Offsets(index[r], Mark(r) + 1)}]
      /\ index' = [index EXCEPT ![r] = Mark(r) + 1]
      /\ pc' = [pc EXCEPT ![r] = "probe"]
      /\ UNCHANGED <<file, bufsize, end, first, last, lines>>

\* The loop of MPI_Iprobe, and the receive from the rank it found; a send is over
\* at once or when its piece has been received, which every rank gets to.
Receive(r) ==
  /\ pc[r] = "probe"
  /\ \E piece \in mail[r] :
       /\ first' = [first EXCEPT ![r] = piece]
       /\ mail' = [mail EXCEPT ![r] = @ \ {piece}]
  /\ pc' = [pc EXCEPT ![r] = "next"]
  /\ UNCHANGED <<file, bufsize, index, end, last, lines>>

\* The same when the rank has received: a line, after what was kept of it.
NextLine(r) ==
  /\ pc[r] = "next" /\ index[r] < end[r] /\ Marked(r) /\ first[r] # <<>>
  /\ HandOn(r, last[r] \o Offsets(index[r], Mark(r) + 1))
  /\ last' = [last EXCEPT ![r] = <<>>]
  /\ index' = [index EXCEPT ![r] = Mark(r) + 1]
  /\ UNCHANGED <<file, bufsize, end, first, mail>>

\* The same at the end of the chunk: what was received is the end of the last line.
LastLine(r) ==
  /\ pc[r] = "next" /\ index[r] = Last(r) /\ end[r] = Last(r) /\ first[r] # <<>>
  /\ HandOn(r, last[r] \o first[r])
  /\ last' = [last EXCEPT ![r] = <<>>]
  /\ first' = [first EXCEPT ![r] = <<>>]
  /\ UNCHANGED <<file, bufsize, index, end, mail>>

\* The end of the chunk when there is nothing to hand on.  A chunk without newline
\* has kept something: the length of NULL is asked for.
End(r) ==
  /\ pc[r] = "next" /\ index[r] = Last(r) /\ end[r] = Last(r) /\ first[r] = <<>>
  /\ pc' = [pc EXCEPT ![r] = IF last[r] = <<>> THEN "done" ELSE "crashed"]
  /\ UNCHANGED <<file, bufsize, index, end, first, last, mail, lines>>

Step(r) ==
  \/ ReadBuffer(r) \/ KeepPiece(r) \/ SendPiece(r) \/ Receive(r)
  \/ NextLine(r) \/ LastLine(r) \/ End(r)

Next == \E r \in Ranks : Step(r)

\* Each rank runs its own loop; a probe that finds nothing is tried again.
Spec == Init /\ [][Next]_vars /\ \A r \in Ranks : WF_vars(Step(r))

-----------------------------------------------------------------------------
\* The offsets a sequence of pieces or a piece covers.
Covered(piece) == {piece[n] : n \in DOMAIN piece}

LinesOf(r) == {lines[r][n] : n \in DOMAIN lines[r]}

\* The pieces a rank holds, received, kept or still to be received, and the lines it has
\* handed on, each with where it is: a line that is handed on twice is there twice.
Held(r) ==
  {<<"first", 0, first[r]>>, <<"last", 0, last[r]>>} \cup {<<"mail", 0, p>> : p \in mail[r]}
    \cup {<<"line", n, lines[r][n]>> : n \in DOMAIN lines[r]}

\* No byte of the file is lost or read twice by an exchange of pieces: at any time
\* it is still to be read by the rank whose chunk it is in, or in exactly one piece
\* or line of one rank.  This holds of files that are cut into wrong lines, too.
BytesOnce ==
  (\A r \in Ranks : pc[r] # "crashed") =>
    \A at \in 0..Len(file) - 1 :
      LET unread  == {r \in Ranks : at \in index[r]..Last(r) - 1}
          holders == {h \in Ranks \X UNION {Held(r) : r \in Ranks} :
                        h[2] \in Held(h[1]) /\ at \in Covered(h[2][3])}
      IN  Cardinality(unread) + Cardinality(holders) = 1

\* The files that the ranks can load: the file ends with a newline, has no empty
\* line, and the first newline of each chunk is in the first buffer of its rank.
Loadable ==
  /\ file[Len(file)] = "\n"
  /\ \A at \in 0..Len(file) - 1 : Newline(at) => at > 0 /\ ~Newline(at - 1)
  /\ \A r \in Ranks : \E at \in First(r)..Last(r) - 1 : Newline(at) /\ at < First(r) + bufsize

Line(piece) ==
  /\ piece # <<>> /\ piece = Offsets(piece[1], piece[Len(piece)] + 1)
  /\ piece[1] = 0 \/ Newline(piece[1] - 1)
  /\ \A n \in DOMAIN piece : Newline(piece[n]) <=> n = Len(piece)

\* Of a file that can be loaded a rank hands on whole lines only, wherever chunks
\* and buffers are cut, and no rank ends in an error.
LinesExact ==
  Loadable => \A r \in Ranks : pc[r] # "crashed" /\ \A piece \in LinesOf(r) : Line(piece)

\* Every rank comes to the end of a file that can be loaded, and all lines have
\* been handed on by then.
AllLoaded ==
  Loadable ~> /\ \A r \in Ranks : pc[r] = "done"
              /\ UNION {UNION {Covered(piece) : piece \in LinesOf(r)} : r \in Ranks}
                   = 0..Len(file) - 1
=============================================================================
