------------------------------ MODULE MCBarrier ------------------------------
(* Barrier for TLC. *)
EXTENDS Barrier, TLC

(* The first departure, and all that follows until the next one. *)
OneLeaves == Cardinality({c \in Client : client[c].pc = "gone"
                                         \/ client[c].exiting}) <= 1

=============================================================================
