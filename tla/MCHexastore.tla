----------------------------- MODULE MCHexastore -----------------------------
(* Instances of Hexastore for TLC.                                         *)
EXTENDS Hexastore

AllIndexes   == {"spo", "sop", "pso", "pos", "osp", "ops"}
AllButPos    == AllIndexes \ {"pos"}
MCVariable   == {-1, -2, -3}
==============================================================================
