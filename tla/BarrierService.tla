--------------------------- MODULE BarrierService ---------------------------
(***************************************************************************)
(* What a barrier promises to the loops that take part in it.  A loop      *)
(* joins, and from then on no round ends before it has entered.  The       *)
(* promise holds until somebody leaves: the server of Barrier counts those *)
(* who entered without their names, and a count outlives the client.       *)
(***************************************************************************)
EXTENDS FiniteSets

CONSTANT Participant

VARIABLES
  member,    \* the participants of the current round
  waiting,   \* the members that have entered and were not released yet
  intact     \* nobody has left so far

vars == <<member, waiting, intact>>

TypeOK ==
  /\ member \subseteq Participant
  /\ waiting \subseteq Participant
  /\ intact \in BOOLEAN

Init ==
  /\ member \in SUBSET Participant
  /\ waiting = {}
  /\ intact = TRUE

(* A participant may have entered by the time it is made a member.         *)
Join(p) ==
  /\ p \notin member
  /\ member' = member \cup {p}
  /\ waiting' \in {waiting, waiting \cup {p}}
  /\ intact' = intact

Enter(p) ==
  /\ p \in member \ waiting
  /\ waiting' = waiting \cup {p}
  /\ member' = member
  /\ intact' = intact

(* The round ends for all its members at once, and for nobody before all   *)
(* of them have entered.                                                   *)
EndRound ==
  /\ intact
  /\ member # {}
  /\ member \subseteq waiting
  /\ waiting' = {}
  /\ member' = member
  /\ intact' = intact

(* Once somebody leaves nothing is promised any more.                      *)
Disturbed ==
  /\ intact' = FALSE
  /\ member' \in SUBSET Participant
  /\ waiting' \in SUBSET Participant

Next ==
  \/ \E p \in Participant : Join(p) \/ Enter(p)
  \/ EndRound
  \/ Disturbed

Spec == Init /\ [][Next]_vars
=============================================================================
