---------------------------- MODULE LockService ----------------------------
(***************************************************************************)
(* What the szgserver promises about named locks: a lock has at most one   *)
(* holder; nobody waits for the release of a free lock; the step that      *)
(* frees a lock notifies everyone who waits for it and is still there; a   *)
(* client that departs takes its locks and its waiting with it.            *)
(*                                                                         *)
(* The code lets a departed client acquire and await (see the finding on   *)
(* LocksOfConnectedOnly), so this service does not forbid it either.       *)
(***************************************************************************)
CONSTANTS Client, Lock, Ticket, OwnerOf(_), NoHolder

VARIABLES holder,    \* holder[l]: the client that holds l, or NoHolder
          waiting,   \* waiting[l]: the tickets that await the release of l
          notified,  \* the tickets that were called
          absent     \* the clients that departed

svars == <<holder, waiting, notified, absent>>

Init ==
  /\ holder = [l \in Lock |-> NoHolder]
  /\ waiting = [l \in Lock |-> {}]
  /\ notified = {}
  /\ absent = {}

Acquire(c, l) ==
  /\ holder[l] = NoHolder
  /\ holder' = [holder EXCEPT ![l] = c]
  /\ UNCHANGED <<waiting, notified, absent>>

Await(l, t) ==
  /\ holder[l] # NoHolder
  /\ waiting' = [waiting EXCEPT ![l] = @ \cup {t}]
  /\ UNCHANGED <<holder, notified, absent>>

(* A ticket drawn for a free lock is called at once.                       *)
CallAtOnce(t) ==
  /\ \E l \in Lock : holder[l] = NoHolder
  /\ OwnerOf(t) \notin absent
  /\ notified' = notified \cup {t}
  /\ UNCHANGED <<holder, waiting, absent>>

(* The tickets waiting for a lock in S whose clients are not in Away.      *)
Called(S, Away) ==
  {t \in UNION {waiting[l] : l \in S} : OwnerOf(t) \notin Away}

Release(l) ==
  /\ holder[l] # NoHolder
  /\ holder' = [holder EXCEPT ![l] = NoHolder]
  /\ waiting' = [waiting EXCEPT ![l] = {}]
  /\ notified' = notified \cup Called({l}, absent)
  /\ UNCHANGED absent

(* A departing client may still have been called for a lock that one of    *)
(* the departing held.                                                     *)
Depart(D) ==
  LET S == {l \in Lock : holder[l] \in D}
  IN /\ holder' = [l \in Lock |-> IF l \in S THEN NoHolder ELSE holder[l]]
     /\ waiting' = [l \in Lock |-> IF l \in S THEN {}
                      ELSE {t \in waiting[l] : OwnerOf(t) \notin D}]
     /\ \E late \in SUBSET {t \in Called(S, {}) : OwnerOf(t) \in D} :
          notified' = notified \cup Called(S, absent \cup D) \cup late
     /\ absent' = absent \cup D

Next ==
  \/ \E c \in Client, l \in Lock : Acquire(c, l)
  \/ \E l \in Lock, t \in Ticket : Await(l, t)
  \/ \E t \in Ticket : CallAtOnce(t)
  \/ \E l \in Lock : Release(l)
  \/ \E D \in SUBSET Client : Depart(D)

Spec == Init /\ [][Next]_svars
=============================================================================
