--------------------------- MODULE MessageService ---------------------------
(***************************************************************************)
(* What the szgserver promises about messages that ask for a response:     *)
(* one client at a time is responsible for the response, and the sender    *)
(* gets exactly one final response: from the client responsible, or from   *)
(* the server when that client departs.                                    *)
(*                                                                         *)
(* Every step may cost the server some of its clients, those it could not  *)
(* write to.                                                               *)
(***************************************************************************)
CONSTANTS Client, Ticket, SenderOf(_)

VARIABLES pending,   \* the [ticket, client] pairs that await a response
          final,     \* the tickets whose final response was sent
          absent     \* the clients that departed

svars == <<pending, final, absent>>

Init ==
  /\ pending = {}
  /\ final = {}
  /\ absent = {}

(* The step left P pending and sent the final responses to S, and then D   *)
(* departed: what its members were responsible for has failed.             *)
Serve(P, S, D) ==
  LET failed == {p.ticket : p \in {q \in P : q.client \in D}}
  IN /\ absent' = absent \cup D
     /\ pending' = {p \in P : p.client \notin D}
     /\ final' = final \cup {t \in S \cup failed :
                               SenderOf(t) \notin absent \cup D}

Post(t, c, D) ==
  /\ t \notin final
  /\ \A p \in pending : p.ticket # t
  /\ Serve(pending \cup {[ticket |-> t, client |-> c]}, {}, D)

Respond(p, D) ==
  /\ p \in pending
  /\ Serve(pending \ {p}, {p.ticket}, D)

HandOver(p, c, D) ==
  /\ p \in pending
  /\ Serve((pending \ {p}) \cup {[ticket |-> p.ticket, client |-> c]}, {}, D)

Depart(D) == Serve(pending, {}, D)

Next ==
  \E D \in SUBSET Client :
    \/ \E t \in Ticket, c \in Client : Post(t, c, D)
    \/ \E p \in pending : Respond(p, D)
    \/ \E p \in pending, c \in Client : HandOver(p, c, D)
    \/ Depart(D)

Spec == Init /\ [][Next]_svars
=============================================================================
