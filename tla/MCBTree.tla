------------------------------- MODULE MCBTree -------------------------------
(* Instances of BTree for TLC.                                             *)
EXTENDS BTree
==============================================================================
