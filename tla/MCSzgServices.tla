--------------------------- MODULE MCSzgServices ---------------------------
EXTENDS SzgServices, TLC, FiniteSets

Symmetry == Permutations(Component) \cup Permutations(Service)

(* Blocks of ports; those of Resized overlap.                              *)
OnePort == {[first |-> 1, size |-> 1]}
Resized == {[first |-> 1, size |-> 3], [first |-> 2, size |-> 2]}

(* At most two read threads hold a record and at most one of the clients   *)
(* that left is still in the socket database.                              *)
Calm ==
  /\ Cardinality({c \in Component : held[c] # NoRequest}) <= 2
  /\ Cardinality(Broken) <= 1
=============================================================================
