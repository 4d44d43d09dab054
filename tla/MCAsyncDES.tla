----------------------------- MODULE MCAsyncDES -----------------------------
(* Instances of AsyncDES for TLC.                                          *)
EXTENDS AsyncDES

\* In the first exchange one rank has more messages to send than it has slots, in
\* the second another one has one; the third only receives.
First  == CHOOSE r \in Rank : TRUE
Second == CHOOSE r \in Rank : r # First
MCLoad == << [r \in Rank |-> IF r = First THEN 2 ELSE 0],
             [r \in Rank |-> IF r = Second THEN 1 ELSE 0] >>
=============================================================================
