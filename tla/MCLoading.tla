----------------------------- MODULE MCLoading -----------------------------
(* Three ranks; in a file of 10 bytes a chunk may begin within a line.      *)
EXTENDS Loading

MCSizes == {2, 5, 10}
MCBufSizes == {2, 4}
=============================================================================
