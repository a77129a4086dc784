--------------------------- MODULE MCTaggedQueues ---------------------------
(* TaggedQueues for TLC. *)
EXTENDS TaggedQueues

(* Only the first match gets more than one record, and only when there is  *)
(* no message; the application stops the queues only of a client that is   *)
(* connected.  No step that is cut off is one that fairness forces.        *)
Calm ==
  /\ \A m \in Match : m > 1 \/ answers.messages > 0 => answers.to[m] <= 1
  /\ client.stopped /\ ~client.connected => client.dataThread = "left"
=============================================================================
