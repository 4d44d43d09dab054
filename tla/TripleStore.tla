----------------------------- MODULE TripleStore -----------------------------
(***************************************************************************)
(* What a store promises to its client (store/store.h): it is a set of     *)
(* triples.  Adding a triple that is there, removing one that is not and   *)
(* saving and reloading leave the set as it is.  Every store of the        *)
(* program is meant to implement this module.                              *)
(***************************************************************************)

CONSTANT Node       \* the node identifiers a nodemap has handed out

VARIABLE triples    \* the set of triples in the store

Triple == Node \X Node \X Node

TypeOK == triples \subseteq Triple

Init == triples = {}

AddTriple(x) == triples' = triples \cup {x}

RemoveTriple(x) == triples' = triples \ {x}

Next == \E x \in Triple : AddTriple(x) \/ RemoveTriple(x)

Spec == Init /\ [][Next]_triples
==============================================================================
