--------------------------- MODULE MCSzgMessages ---------------------------
EXTENDS SzgMessages, TLC

Symmetry == Permutations(Component) \cup Permutations(Key)

(* At most two read threads hold a record and at most one of the clients   *)
(* that left is still in the socket database.                              *)
Calm ==
  /\ Cardinality({c \in Component : held[c] # NoRequest}) <= 2
  /\ Cardinality(Broken) <= 1
=============================================================================
