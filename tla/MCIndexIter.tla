----------------------------- MODULE MCIndexIter -----------------------------
(* Instances of IndexIter for TLC.                                         *)
EXTENDS IndexIter

MCVariable == {-1, -2, -3}

\* Every index over two nodes, and those of up to three triples over all nodes.
MCContents ==
  LET Two == {1, 2} IN
  SUBSET (Two \X Two \X Two) \cup {Range(f) : f \in [1..3 -> Triple]}
==============================================================================
