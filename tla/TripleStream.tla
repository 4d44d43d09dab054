---------------------------- MODULE TripleStream ----------------------------
(***************************************************************************)
(* What an iterator over the triples that match a pattern promises to its  *)
(* client (hx_variablebindings_iter over a store): it yields the triples   *)
(* of the answer one by one, in the order of the index it walks, each      *)
(* once, and finishes when all of them have been yielded.                  *)
(***************************************************************************)
EXTENDS Integers, Sequences, SequencesExt

CONSTANT Node

VARIABLES
  answer,     \* the triples to yield, with positions in the order of the index
  yielded,    \* the sequence of triples yielded so far
  done        \* the iterator says that it is finished

vars == <<answer, yielded, done>>

Triple == Node \X Node \X Node

\* The order of an index: by the first position, then the second, the third.
Precedes(x, y) ==
  \/ x[1] < y[1]
  \/ x[1] = y[1] /\ x[2] < y[2]
  \/ x[1] = y[1] /\ x[2] = y[2] /\ x[3] < y[3]

Left == answer \ Range(yielded)

Init == answer \in SUBSET Triple /\ yielded = <<>> /\ done = FALSE

Yield ==
  /\ \E x \in Left : /\ \A y \in Left \ {x} : Precedes(x, y)
                     /\ yielded' = Append(yielded, x)
  /\ UNCHANGED <<answer, done>>

Finish ==
  /\ Left = {} /\ ~done
  /\ done' = TRUE
  /\ UNCHANGED <<answer, yielded>>

Next == Yield \/ Finish

Spec == Init /\ [][Next]_vars

\* ... and it does finish when its client asks for one triple after the other.
FairSpec == Spec /\ WF_vars(Next)
==============================================================================
