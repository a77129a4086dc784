------------------------------ MODULE SzgLocks ------------------------------
(***************************************************************************)
(* The named locks of the szgserver and the notifications it sends when a  *)
(* lock is released (src/phleet/szgserver.cpp).                            *)
(*                                                                         *)
(* The four maps the code keeps are the fields of lockDB:                  *)
(*   owner   lockOwnershipDB              lock -> owning component         *)
(*   owned   componentLockOwnershipDB     component -> list of locks       *)
(*   notify  lockNotificationDB           lock -> list of notifications    *)
(*   waits   lockNotificationOwnershipDB  component -> list of locks       *)
(* and answered records the notifications written to a connected client.   *)
(*                                                                         *)
(* A std::list whose elements are only ever pushed, removed BY VALUE and   *)
(* iterated is a set here: a second copy of a name is removed with the     *)
(* first and iterating it twice only logs an error.  The code erases an    *)
(* entry of notify or waits when its list gets empty, so {} is no entry.   *)
(* It does not do so for owned, hence the field listed: the components     *)
(* that have an entry in componentLockOwnershipDB, be it empty.            *)
(***************************************************************************)
EXTENDS SzgConnections, Naturals

CONSTANTS LockName,   \* the names of locks
          MaxMatch,   \* how many notifications a component may ask for
          NoOwner     \* no entry in lockOwnershipDB

VARIABLES lockDB,     \* the tables above
          holding,    \* holding[c]: the locks c's getLock() calls obtained
          lastMatch   \* lastMatch[c]: _match, as far as notifications go

locksVars == <<lockDB, holding, lastMatch>>
vars == <<link, proc, held, server, lockDB, holding, lastMatch>>

Notification == [comp : Component, match : 1..MaxMatch]

Request ==
       [kind : {"lockRequest", "lockRelease"}, lock : LockName]
  \cup [kind : {"lockNotification"}, lock : LockName, match : 1..MaxMatch]
  \cup [kind : {"kill"}, target : Component]

ASSUME LocksAssumption ==
  /\ MaxMatch \in Nat
  /\ NoOwner \notin Component
  /\ NoRequest \notin Request

LockTables ==
  [owner : [LockName -> Component \cup {NoOwner}],
   listed : SUBSET Component,
   owned : [Component -> SUBSET LockName],
   notify : [LockName -> SUBSET Notification],
   waits : [Component -> SUBSET LockName],
   answered : SUBSET Notification]

TypeOK ==
  /\ ConnTypeOK(Request)
  /\ lockDB \in LockTables
  /\ holding \in [Component -> SUBSET LockName]
  /\ lastMatch \in [Component -> 0..MaxMatch]

Init ==
  /\ ConnInit
  /\ lockDB = [owner |-> [l \in LockName |-> NoOwner],
               listed |-> {},
               owned |-> [c \in Component |-> {}],
               notify |-> [l \in LockName |-> {}],
               waits |-> [c \in Component |-> {}],
               answered |-> {}]
  /\ holding = [c \in Component |-> {}]
  /\ lastMatch = [c \in Component |-> 0]

-----------------------------------------------------------------------------
(* The functions on the tables: each maps the tables before to those after.*)

(* The locks on the lists of the components in D.                          *)
OwnedBy(d, D) == UNION {d.owned[c] : c \in D}

GetLock(d, l, c) ==
  IF d.owner[l] # NoOwner THEN d
  ELSE [d EXCEPT !.owner[l] = c,
                 !.listed = @ \cup {c},
                 !.owned[c] = @ \cup {l}]

(* Mutant: the match of the request is not kept.                           *)
RequestLockNotificationNoMatch(d, l, n) ==
  [d EXCEPT !.notify[l] = @ \cup {[n EXCEPT !.match = 0]},
            !.waits[n.comp] = @ \cup {l}]

(* Mutant: map::insert on a lock that has a list, which does nothing.      *)
RequestLockNotificationInsertOnly(d, l, n) ==
  [d EXCEPT !.notify[l] = IF @ = {} THEN {n} ELSE @,
            !.waits[n.comp] = @ \cup {l}]

RequestLockNotification(d, l, n) ==
  [d EXCEPT !.notify[l] = @ \cup {n},
            !.waits[n.comp] = @ \cup {l}]

(* Everyone on the lists of the locks in S is written to, if connected.    *)
SendLockNotifications(d, S, connected) ==
  [d EXCEPT
    !.notify = [l \in LockName |-> IF l \in S THEN {} ELSE d.notify[l]],
    !.waits = [c \in Component |->
                 d.waits[c] \ {l \in S : \E n \in d.notify[l] : n.comp = c}],
    !.answered = @ \cup {n \in UNION {d.notify[l] : l \in S} :
                           n.comp \in connected}]

(* Mutant: the name stays on the component's list.                         *)
ReleaseLockKeepsName(d, l, c, connected) ==
  IF d.owner[l] # c THEN d
  ELSE SendLockNotifications([d EXCEPT !.owner[l] = NoOwner], {l}, connected)

(* Mutant: anyone may release the lock.                                    *)
ReleaseLockOfAnyone(d, l, c, connected) ==
  SendLockNotifications([d EXCEPT !.owner[l] = NoOwner,
                                  !.owned[c] = @ \ {l}], {l}, connected)

ReleaseLock(d, l, c, connected) ==
  IF d.owner[l] # c THEN d
  ELSE IF c \notin d.listed THEN [d EXCEPT !.owner[l] = NoOwner]
  ELSE SendLockNotifications([d EXCEPT !.owner[l] = NoOwner,
                                       !.owned[c] = @ \ {l}],
                             {l}, connected)

(* Mutant: the owner map is left alone.                                    *)
DropListsOfComponents(d, D, connected) ==
  LET e == SendLockNotifications(d, OwnedBy(d, D), connected)
  IN [e EXCEPT !.listed = @ \ D,
               !.owned = [c \in Component |->
                            IF c \in D THEN {} ELSE d.owned[c]]]

(* Mutant: the locks are released, but nobody is told.                     *)
ReleaseLocksSilently(d, D, connected) ==
  [d EXCEPT !.owner = [l \in LockName |->
                         IF l \in OwnedBy(d, D) THEN NoOwner ELSE d.owner[l]],
            !.listed = @ \ D,
            !.owned = [c \in Component |-> IF c \in D THEN {} ELSE d.owned[c]]]

(* The locks are found by the component's list, whoever the table of       *)
(* owners names.                                                           *)
ReleaseLocksOwnedByComponents(d, D, connected) ==
  LET S == {l \in OwnedBy(d, D) : d.owner[l] # NoOwner}
      e == SendLockNotifications(d, S, connected)
  IN [e EXCEPT !.owner = [l \in LockName |->
                            IF l \in S THEN NoOwner ELSE d.owner[l]],
               !.listed = @ \ D,
               !.owned = [c \in Component |->
                            IF c \in D THEN {} ELSE d.owned[c]]]

(* Mutant: the component keeps its own list.                               *)
RemoveLockNotificationsByLock(d, D) ==
  [d EXCEPT
    !.notify = [l \in LockName |->
                  d.notify[l] \ {n \in d.notify[l] : n.comp \in D}]]

(* The notifications are found by the locks on the component's list.       *)
RemoveLockNotifications(d, D) ==
  [d EXCEPT
    !.notify = [l \in LockName |->
                  d.notify[l] \ {n \in d.notify[l] :
                                   n.comp \in D /\ l \in d.waits[n.comp]}],
    !.waits = [c \in Component |-> IF c \in D THEN {} ELSE d.waits[c]]]

RemoveComponents(d, D, connected) ==
  RemoveLockNotifications(ReleaseLocksOwnedByComponents(d, D, connected), D)

(* Sending a notification walks the list of the lock.  When the write      *)
(* fails, the removal of the recipient erases its own node from that very  *)
(* list, and the walk goes on from the erased node: undefined behaviour.   *)
WalksErasedNode(d, S, connected) ==
  \E l \in S : \E n \in d.notify[l] : n.comp \in connected \cap Broken

-----------------------------------------------------------------------------
(* What every handler ends with: the components in D were lost to failed   *)
(* writes or removed on request, after the handler turned the tables to d. *)
Finish(d, D) ==
  /\ lockDB' = RemoveComponents(d, D, Open \ D)
  /\ Close(D)
  /\ UNCHANGED server

(* The same, ended by a failed write to a component that was being         *)
(* notified of the release of a lock in S.  Nothing is claimed afterwards. *)
Derail(d, S, D) ==
  /\ WalksErasedNode(d, S, Open \ D)
  /\ server' = "undefined"
  /\ UNCHANGED <<link, lockDB>>

LockRequestCallback(c) ==
  /\ Consuming(c, {"lockRequest"})
  /\ LET l == held[c].lock
         d == GetLock(lockDB, l, c)
     IN \E D \in Hangups({c}) :
          \/ /\ Finish(d, D)
             /\ holding' = IF lockDB.owner[l] = NoOwner /\ c \in Open \ D
                           THEN [holding EXCEPT ![c] = @ \cup {l}]
                           ELSE holding
          \/ Derail(d, OwnedBy(d, D), D) /\ UNCHANGED holding
  /\ Consumed(c)
  /\ UNCHANGED <<proc, lastMatch>>

LockReleaseCallback(c) ==
  /\ Consuming(c, {"lockRelease"})
  /\ LET l == held[c].lock
         d == ReleaseLock(lockDB, l, c, Open)
     IN \/ \E D \in Hangups({c}) : Finish(d, D) \/ Derail(d, OwnedBy(d, D), D)
        \/ lockDB.owner[l] = c /\ Derail(lockDB, {l}, {})
  /\ Consumed(c)
  /\ UNCHANGED <<proc, holding, lastMatch>>

(* Mutant: whether the lock is held is not looked up.                      *)
LockNotificationUnchecked(c) ==
  /\ Consuming(c, {"lockNotification"})
  /\ Finish(RequestLockNotification(lockDB, held[c].lock,
              [comp |-> c, match |-> held[c].match]), {})
  /\ Consumed(c)
  /\ UNCHANGED <<proc, holding, lastMatch>>

(* A request for a free lock is echoed at once, one for a held lock is     *)
(* only recorded.                                                          *)
LockNotificationCallback(c) ==
  /\ Consuming(c, {"lockNotification"})
  /\ LET l == held[c].lock
         n == [comp |-> c, match |-> held[c].match]
     IN IF lockDB.owner[l] # NoOwner
        THEN Finish(RequestLockNotification(lockDB, l, n), {})
        ELSE \E D \in Hangups({c}) :
               LET d == [lockDB EXCEPT !.answered = @ \cup ({n} \cap
                           [comp : Open \ D, match : 1..MaxMatch])]
               IN Finish(d, D) \/ Derail(d, OwnedBy(d, D), D)
  /\ Consumed(c)
  /\ UNCHANGED <<proc, holding, lastMatch>>

(* AR_KILL: the target is told to shut down, and removed in any case.      *)
Kill(c) ==
  /\ Consuming(c, {"kill"})
  /\ LET D == {held[c].target} \cap Open
     IN Finish(lockDB, D) \/ Derail(lockDB, OwnedBy(lockDB, D), D)
  /\ Consumed(c)
  /\ UNCHANGED <<proc, holding, lastMatch>>

(* c is removed by its own read thread or by another handler's write.      *)
Disconnect(c) ==
  /\ ReadFails(c) \/ WriteFails(c)
  /\ Finish(lockDB, {c}) \/ Derail(lockDB, OwnedBy(lockDB, {c}), {c})
  /\ UNCHANGED <<proc, held, holding, lastMatch>>

-----------------------------------------------------------------------------
(* The client side (src/phleet/arSZGClient.cpp).  A client counts on a     *)
(* lock from the successful getLock() to the call of releaseLock().        *)
SendRequest(c, r) ==
  /\ Receive(c, r)
  /\ IF r.kind = "lockNotification"
     THEN /\ r.match = lastMatch[c] + 1
          /\ lastMatch' = [lastMatch EXCEPT ![c] = r.match]
     ELSE UNCHANGED lastMatch
  /\ holding' = IF r.kind = "lockRelease"
                THEN [holding EXCEPT ![c] = @ \ {r.lock}] ELSE holding
  /\ UNCHANGED lockDB

ClientStep(c) ==
  \/ \E r \in Request : SendRequest(c, r)
  \/ \E how \in {"down", "lost"} : Leave(c, how) /\ UNCHANGED locksVars
  \/ Accept(c) /\ UNCHANGED locksVars

Handle(c) ==
  \/ LockRequestCallback(c)
  \/ LockReleaseCallback(c)
  \/ LockNotificationCallback(c)
  \/ Kill(c)

Next == \E c \in Component : ClientStep(c) \/ Handle(c) \/ Disconnect(c)

Spec == Init /\ [][Next]_vars

(* A read thread that holds a record gets _lockConsume in the end, and one *)
(* whose client exited finds out.  Clients are free to do nothing, and a   *)
(* crashed host is not noticed unless something is written to it.          *)
FairSpec ==
  /\ Spec
  /\ \A c \in Component :
       /\ WF_vars(Handle(c))
       /\ WF_vars(ReadFails(c) /\ Disconnect(c))

-----------------------------------------------------------------------------
(* The two maps about ownership (lockOwnershipDB and                       *)
(* componentLockOwnershipDB, szgserver.cpp:103-109) say the same thing:    *)
(* releasing by list frees exactly what the owner map charges to a         *)
(* component.  So do the two maps about notifications (:111-117), although *)
(* one is purged by lock and the other by component.                       *)
LockTablesAgree ==
  \A l \in LockName, c \in Component :
    /\ lockDB.owner[l] = c <=> l \in OwnedBy(lockDB, {c})
    /\ (\E n \in lockDB.notify[l] : n.comp = c) <=> l \in lockDB.waits[c]

(* Nobody waits for the release of a free lock: lockNotificationCallback   *)
(* does not register for one (szgserver.cpp:1515), and the release and the *)
(* removal of its owner drop all who wait.                                 *)
OnlyHeldLocksAwaited ==
  \A l \in LockName : lockDB.notify[l] # {} => lockDB.owner[l] # NoOwner

(* A connected client's request for a notification is never lost and never *)
(* answered twice: it is still with the read thread, or it waits on one    *)
(* lock, or it was answered, and only one of these.                        *)
Whereabouts(n) ==
  {<<"held">> : x \in {r \in {held[n.comp]} \ {NoRequest} :
                        r.kind = "lockNotification" /\ r.match = n.match}}
  \cup {<<"waits", l>> : l \in {k \in LockName : n \in lockDB.notify[k]}}
  \cup {<<"answered">> : x \in {n} \cap lockDB.answered}

NotificationsAccounted ==
  server = "running" =>
    \A c \in Open : \A m \in 1..lastMatch[c] :
      \E w \in {Whereabouts([comp |-> c, match |-> m])} :
        \E x \in w : w = {x}

(* What a connected client believes to hold is its own: no lock is granted *)
(* to a second client while the first still counts on it.                  *)
HoldersOwn ==
  \A c \in Open : \A l \in holding[c] : lockDB.owner[l] = c

(* The step that removes a component leaves none of its locks and none of  *)
(* its notification requests behind (szgserver.cpp:107, SZGremoveComponent-*)
(* FromDB).                                                                *)
RemovalReleasesAll ==
  [][\A c \in Component :
       link[c] = "open" /\ link'[c] = "gone" =>
         /\ \A l \in LockName : lockDB.owner'[l] # c
         /\ \A l \in LockName : \A n \in lockDB.notify'[l] : n.comp # c]_vars

(* When the holder of a lock exits, everyone who waits for the lock and is *)
(* still connected is notified in the end.                                 *)
HolderExitAnnounced ==
  \A l \in LockName, n \in Notification :
    (/\ n \in lockDB.notify[l]
     /\ lockDB.owner[l] \in Open
     /\ proc[lockDB.owner[l]] = "down")
    ~> (n \in lockDB.answered \/ link[n.comp] = "gone" \/ server = "undefined")

(* The lock service the tables implement.                                  *)
Promise == INSTANCE LockService WITH
  Client <- Component, Lock <- LockName, NoHolder <- NoOwner,
  Ticket <- Notification, OwnerOf <- LAMBDA n : n.comp,
  holder <- lockDB.owner, waiting <- lockDB.notify,
  notified <- lockDB.answered,
  absent <- {c \in Component : link[c] = "gone"}

ImplementsLockService == Promise!Spec

(* What szgserver.cpp:107 says: "When a connection goes away, release all  *)
(* its locks."  It does not hold: see the README.                          *)
LocksOfConnectedOnly ==
  \A l \in LockName : lockDB.owner[l] \in Open \cup {NoOwner}
=============================================================================
