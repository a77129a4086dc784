----------------------------- MODULE MCSyncData -----------------------------
(* SyncData for TLC. *)
EXTENDS SyncData, FiniteSets

Started == {c \in Client : client[c].bar # 0 \/ client[c].conn # "barrier"}

First == CHOOSE c \in Client : TRUE

(* Two clients share one record, one mode and the life of the server; the  *)
(* producer waits only while one of them is active, and resumes before the *)
(* send thread enters the barrier.  A client that is alone meets all the   *)
(* rest.  The names of the clients do not matter: one starts first.        *)
Together ==
  /\ Started # {} => First \in Started
  /\ Cardinality(Started) > 1 =>
       /\ mode = "auto" /\ server.up /\ Len(history) <= 1
       /\ producer = "full" =>
            \/ server.full /\ Cardinality(data.active) < 2
            \/ server.pc \in {"activate", "await", "dump", "send", "enter"}

(* In the second life one client and one record do.                        *)
SecondLife ==
  server.life = 2 =>
    mode = "auto" /\ Len(history) <= 1 /\ Cardinality(Started) <= 1

=============================================================================
