--------------------------- MODULE SzgLocks_proofs ---------------------------
(***************************************************************************)
(* Proofs about SzgLocks, for any number of components, locks and          *)
(* notification requests.  Every handler is a composition of functions on  *)
(* the tables, so the argument has two layers: each function maps good     *)
(* tables to good tables (the first lemmas), hence each step preserves the *)
(* invariant (LEMMA NextInv), from which the theorems follow.              *)
(***************************************************************************)
EXTENDS SzgLocks, TLAPS

OwnersAgree(d) ==
  \A l \in LockName, c \in Component : d.owner[l] = c <=> l \in d.owned[c]

WaitersAgree(d) ==
  \A l \in LockName, c \in Component :
    (\E n \in d.notify[l] : n.comp = c) <=> l \in d.waits[c]

OwnersListed(d) == \A c \in Component : d.owned[c] # {} => c \in d.listed

(* Tables of the right type, whose maps agree in both directions.          *)
Good(d) ==
  /\ d \in LockTables
  /\ OwnersAgree(d)
  /\ WaitersAgree(d)
  /\ OwnersListed(d)

(* Only held locks are awaited.                                            *)
Awaited(d) == \A l \in LockName : d.notify[l] # {} => d.owner[l] # NoOwner

-----------------------------------------------------------------------------
(* Granting a free lock, or refusing a held one, keeps the tables good.    *)
LEMMA GetLockGood ==
  ASSUME NEW d, Good(d), Awaited(d), NEW l \in LockName, NEW c \in Component
  PROVE  Good(GetLock(d, l, c)) /\ Awaited(GetLock(d, l, c))
<1>1. CASE d.owner[l] # NoOwner
  BY <1>1 DEF GetLock
<1>2. CASE d.owner[l] = NoOwner
  <2> DEFINE e == GetLock(d, l, c)
  <2>1. e \in LockTables
    BY <1>2 DEF GetLock, Good, LockTables
  <2>2. /\ e.owner = [d.owner EXCEPT ![l] = c]
        /\ e.listed = d.listed \cup {c}
        /\ e.owned = [d.owned EXCEPT ![c] = d.owned[c] \cup {l}]
        /\ e.notify = d.notify
        /\ e.waits = d.waits
    BY <1>2 DEF GetLock, Good, LockTables
  <2> HIDE DEF e
  <2>3. OwnersAgree(e)
    BY <1>2, <2>2, LocksAssumption DEF OwnersAgree, Good, LockTables
  <2>4. WaitersAgree(e) /\ OwnersListed(e)
    BY <2>2 DEF WaitersAgree, OwnersListed, Good, LockTables
  <2>5. Awaited(e)
    BY <1>2, <2>2, LocksAssumption DEF Good, Awaited, LockTables
  <2> QED BY <2>1, <2>3, <2>4, <2>5 DEF e, Good
<1> QED BY <1>1, <1>2

(* Registering a notification for a held lock keeps the tables good.       *)
LEMMA RequestLockNotificationGood ==
  ASSUME NEW d, Good(d), Awaited(d), NEW l \in LockName,
         NEW n \in Notification, d.owner[l] # NoOwner
  PROVE  /\ Good(RequestLockNotification(d, l, n))
         /\ Awaited(RequestLockNotification(d, l, n))
         /\ RequestLockNotification(d, l, n).owner = d.owner
<1> DEFINE e == RequestLockNotification(d, l, n)
<1>0. n.comp \in Component
  BY DEF Notification
<1>1. e \in LockTables
  BY <1>0 DEF RequestLockNotification, Good, LockTables
<1>2. /\ e.owner = d.owner
      /\ e.listed = d.listed
      /\ e.owned = d.owned
      /\ e.notify = [d.notify EXCEPT ![l] = d.notify[l] \cup {n}]
      /\ e.waits = [d.waits EXCEPT ![n.comp] = d.waits[n.comp] \cup {l}]
  BY DEF RequestLockNotification, Good, LockTables
<1> HIDE DEF e
<1>3. OwnersAgree(e) /\ OwnersListed(e)
  BY <1>2 DEF OwnersAgree, OwnersListed, Good
<1>4. WaitersAgree(e)
  <2> SUFFICES ASSUME NEW k \in LockName, NEW c \in Component
               PROVE  (\E m \in e.notify[k] : m.comp = c) <=> k \in e.waits[c]
    BY DEF WaitersAgree
  <2>1. (\E m \in d.notify[k] : m.comp = c) <=> k \in d.waits[c]
    BY DEF Good, WaitersAgree
  <2>2. e.notify[k] = d.notify[k] \cup (IF k = l THEN {n} ELSE {})
    BY <1>2 DEF Good, LockTables
  <2>3. e.waits[c] = d.waits[c] \cup (IF n.comp = c THEN {l} ELSE {})
    BY <1>0, <1>2 DEF Good, LockTables
  <2> QED BY <2>1, <2>2, <2>3
<1>5. Awaited(e)
  BY <1>2 DEF Good, Awaited, LockTables
<1> QED BY <1>1, <1>2, <1>3, <1>4, <1>5 DEF e, Good

(* Notifying everyone who waits for the locks in S purges both maps.       *)
LEMMA SendLockNotificationsGood ==
  ASSUME NEW d, Good(d), NEW S \in SUBSET LockName, NEW K
  PROVE  /\ Good(SendLockNotifications(d, S, K))
         /\ SendLockNotifications(d, S, K).owner = d.owner
         /\ SendLockNotifications(d, S, K).listed = d.listed
         /\ SendLockNotifications(d, S, K).owned = d.owned
         /\ SendLockNotifications(d, S, K).notify =
              [l \in LockName |-> IF l \in S THEN {} ELSE d.notify[l]]
<1> DEFINE e == SendLockNotifications(d, S, K)
           A == [l \in LockName |-> IF l \in S THEN {} ELSE d.notify[l]]
           B == [c \in Component |->
                   d.waits[c] \ {l \in S : \E n \in d.notify[l] : n.comp = c}]
           C == d.answered \cup {n \in UNION {d.notify[l] : l \in S} : n.comp \in K}
<1>1. e = [d EXCEPT !.notify = A, !.waits = B, !.answered = C]
  BY DEF SendLockNotifications
<1>2. /\ A \in [LockName -> SUBSET Notification]
      /\ B \in [Component -> SUBSET LockName]
      /\ C \in SUBSET Notification
  BY DEF Good, LockTables
<1>3. \A l \in LockName : A[l] = IF l \in S THEN {} ELSE d.notify[l]
  OBVIOUS
<1>4. \A c \in Component :
        B[c] = d.waits[c] \ {l \in S : \E n \in d.notify[l] : n.comp = c}
  OBVIOUS
<1> HIDE DEF A, B, C, e
<1>5. e \in LockTables
  BY <1>1, <1>2 DEF Good, LockTables
<1>6. /\ e.owner = d.owner
      /\ e.listed = d.listed
      /\ e.owned = d.owned
      /\ e.notify = A
      /\ e.waits = B
  BY <1>1, <1>2 DEF Good, LockTables
<1>7. OwnersAgree(e) /\ OwnersListed(e)
  BY <1>6 DEF OwnersAgree, OwnersListed, Good
<1>8. WaitersAgree(e)
  <2> SUFFICES ASSUME NEW k \in LockName, NEW c \in Component
               PROVE  (\E m \in A[k] : m.comp = c) <=> k \in B[c]
    BY <1>6 DEF WaitersAgree
  <2>1. (\E m \in d.notify[k] : m.comp = c) <=> k \in d.waits[c]
    BY DEF Good, WaitersAgree
  <2> QED BY <1>3, <1>4, <2>1
<1> QED BY <1>5, <1>6, <1>7, <1>8 DEF e, A, Good

(* A release frees the lock if the caller owns it, and else does nothing;  *)
(* the branch for a missing list is never taken.                           *)
LEMMA ReleaseLockGood ==
  ASSUME NEW d, Good(d), Awaited(d), NEW l \in LockName,
         NEW c \in Component, NEW K
  PROVE  /\ Good(ReleaseLock(d, l, c, K))
         /\ Awaited(ReleaseLock(d, l, c, K))
         /\ ReleaseLock(d, l, c, K).owner =
              [d.owner EXCEPT ![l] = IF d.owner[l] = c THEN NoOwner ELSE @]
         /\ ReleaseLock(d, l, c, K).notify =
              [k \in LockName |-> IF k = l /\ d.owner[l] = c THEN {}
                                 ELSE d.notify[k]]
<1>1. CASE d.owner[l] # c
  BY <1>1 DEF ReleaseLock, Good, LockTables
<1>2. CASE d.owner[l] = c
  <2> DEFINE f == [d EXCEPT !.owner[l] = NoOwner, !.owned[c] = @ \ {l}]
             e == SendLockNotifications(f, {l}, K)
  <2>1. ReleaseLock(d, l, c, K) = e
    BY <1>2 DEF ReleaseLock, Good, OwnersAgree, OwnersListed
  <2>2. f \in LockTables
    BY DEF Good, LockTables
  <2>3. /\ f.owner = [d.owner EXCEPT ![l] = NoOwner]
        /\ f.listed = d.listed
        /\ f.owned = [d.owned EXCEPT ![c] = d.owned[c] \ {l}]
        /\ f.notify = d.notify
        /\ f.waits = d.waits
    BY DEF Good, LockTables
  <2> HIDE DEF f
  <2>4. OwnersAgree(f)
    BY <1>2, <2>3, LocksAssumption DEF OwnersAgree, Good, LockTables
  <2>5. WaitersAgree(f) /\ OwnersListed(f)
    BY <2>3 DEF WaitersAgree, OwnersListed, Good, LockTables
  <2>6. Good(f)
    BY <2>2, <2>4, <2>5 DEF Good
  <2>7. /\ Good(e)
        /\ e.owner = f.owner
        /\ e.notify = [k \in LockName |-> IF k \in {l} THEN {} ELSE f.notify[k]]
    BY <2>6, SendLockNotificationsGood
  <2> HIDE DEF e
  <2>8. Awaited(e)
    BY <1>2, <2>3, <2>7 DEF Awaited, Good, LockTables
  <2> QED BY <1>2, <2>1, <2>3, <2>7, <2>8
<1> QED BY <1>1, <1>2

(* Removing the components in D frees exactly the locks they own.          *)
LEMMA ReleaseLocksGood ==
  ASSUME NEW d, Good(d), Awaited(d), NEW D \in SUBSET Component, NEW K
  PROVE  LET e == ReleaseLocksOwnedByComponents(d, D, K)
         IN /\ Good(e)
            /\ Awaited(e)
            /\ e.owner = [l \in LockName |->
                            IF d.owner[l] \in D THEN NoOwner ELSE d.owner[l]]
            /\ e.notify = [l \in LockName |->
                            IF d.owner[l] \in D THEN {} ELSE d.notify[l]]
<1> DEFINE S == {l \in OwnedBy(d, D) : d.owner[l] # NoOwner}
           f == SendLockNotifications(d, S, K)
           A == [l \in LockName |-> IF l \in S THEN NoOwner ELSE d.owner[l]]
           B == [c \in Component |-> IF c \in D THEN {} ELSE d.owned[c]]
           e == [f EXCEPT !.owner = A, !.listed = @ \ D, !.owned = B]
<1>1. ReleaseLocksOwnedByComponents(d, D, K) = e
  BY DEF ReleaseLocksOwnedByComponents
<1>2. S = {l \in LockName : d.owner[l] \in D}
  BY LocksAssumption DEF OwnedBy, Good, LockTables, OwnersAgree
<1>3. S \in SUBSET LockName
  BY <1>2
<1> HIDE DEF S
<1>4. /\ Good(f)
      /\ f.owner = d.owner
      /\ f.listed = d.listed
      /\ f.owned = d.owned
      /\ f.notify = [l \in LockName |-> IF l \in S THEN {} ELSE d.notify[l]]
  BY <1>3, SendLockNotificationsGood
<1>5. /\ A \in [LockName -> Component \cup {NoOwner}]
      /\ B \in [Component -> SUBSET LockName]
  BY DEF Good, LockTables
<1>6. \A l \in LockName : A[l] = IF l \in S THEN NoOwner ELSE d.owner[l]
  OBVIOUS
<1>7. \A c \in Component : B[c] = IF c \in D THEN {} ELSE d.owned[c]
  OBVIOUS
<1>8. A = [l \in LockName |-> IF d.owner[l] \in D THEN NoOwner ELSE d.owner[l]]
  BY <1>2
<1> HIDE DEF f, A, B
<1>9. e \in LockTables
  BY <1>4, <1>5 DEF Good, LockTables
<1>10. /\ e.owner = A
       /\ e.listed = f.listed \ D
       /\ e.owned = B
       /\ e.notify = f.notify
       /\ e.waits = f.waits
  BY <1>4, <1>5 DEF Good, LockTables
<1> HIDE DEF e
<1>11. OwnersAgree(e)
  <2> SUFFICES ASSUME NEW l \in LockName, NEW c \in Component
               PROVE  A[l] = c <=> l \in B[c]
    BY <1>10 DEF OwnersAgree
  <2>1. d.owner[l] = c <=> l \in d.owned[c]
    BY DEF Good, OwnersAgree
  <2> QED BY <1>2, <1>6, <1>7, <2>1, LocksAssumption
<1>12. WaitersAgree(e)
  BY <1>4, <1>10 DEF WaitersAgree, Good
<1>13. OwnersListed(e)
  BY <1>4, <1>7, <1>10 DEF OwnersListed, Good
<1>14. e.notify = [l \in LockName |->
                     IF d.owner[l] \in D THEN {} ELSE d.notify[l]]
  BY <1>2, <1>4, <1>10
<1>15. Awaited(e)
  BY <1>2, <1>6, <1>10, <1>14 DEF Awaited
<1> QED BY <1>1, <1>8, <1>9, <1>10, <1>11, <1>12, <1>13, <1>14, <1>15 DEF Good

(* Purging by component's list leaves none of its notifications behind.    *)
LEMMA RemoveLockNotificationsGood ==
  ASSUME NEW d, Good(d), Awaited(d), NEW D \in SUBSET Component
  PROVE  LET e == RemoveLockNotifications(d, D)
         IN /\ Good(e)
            /\ Awaited(e)
            /\ e.owner = d.owner
            /\ e.answered = d.answered
            /\ e.notify = [l \in LockName |->
                             {n \in d.notify[l] : n.comp \notin D}]
<1> DEFINE A == [l \in LockName |->
                   d.notify[l] \ {n \in d.notify[l] :
                                    n.comp \in D /\ l \in d.waits[n.comp]}]
           B == [c \in Component |-> IF c \in D THEN {} ELSE d.waits[c]]
           e == [d EXCEPT !.notify = A, !.waits = B]
<1>1. RemoveLockNotifications(d, D) = e
  BY DEF RemoveLockNotifications
<1>2. /\ A \in [LockName -> SUBSET Notification]
      /\ B \in [Component -> SUBSET LockName]
  BY DEF Good, LockTables
<1>3. \A c \in Component : B[c] = IF c \in D THEN {} ELSE d.waits[c]
  OBVIOUS
<1>4. A = [l \in LockName |-> {n \in d.notify[l] : n.comp \notin D}]
  BY DEF Good, LockTables, WaitersAgree, Notification
<1>5. \A l \in LockName : A[l] = {n \in d.notify[l] : n.comp \notin D}
  BY <1>4
<1> HIDE DEF A, B
<1>6. e \in LockTables
  BY <1>2 DEF Good, LockTables
<1>7. /\ e.owner = d.owner
      /\ e.listed = d.listed
      /\ e.owned = d.owned
      /\ e.notify = A
      /\ e.waits = B
      /\ e.answered = d.answered
  BY <1>2 DEF Good, LockTables
<1> HIDE DEF e
<1>8. OwnersAgree(e) /\ OwnersListed(e)
  BY <1>7 DEF OwnersAgree, OwnersListed, Good
<1>9. WaitersAgree(e)
  <2> SUFFICES ASSUME NEW l \in LockName, NEW c \in Component
               PROVE  (\E n \in A[l] : n.comp = c) <=> l \in B[c]
    BY <1>7 DEF WaitersAgree
  <2>1. (\E n \in d.notify[l] : n.comp = c) <=> l \in d.waits[c]
    BY DEF Good, WaitersAgree
  <2> QED BY <1>3, <1>5, <2>1
<1>10. Awaited(e)
  BY <1>5, <1>7 DEF Awaited
<1> QED BY <1>1, <1>4, <1>6, <1>7, <1>8, <1>9, <1>10 DEF Good

(* What is left when the components in D are removed.                      *)
LEMMA RemoveComponentsGood ==
  ASSUME NEW d, Good(d), Awaited(d), NEW D \in SUBSET Component, NEW K
  PROVE  LET e == RemoveComponents(d, D, K)
         IN /\ Good(e)
            /\ Awaited(e)
            /\ e.owner = [l \in LockName |->
                            IF d.owner[l] \in D THEN NoOwner ELSE d.owner[l]]
            /\ e.notify = [l \in LockName |->
                             IF d.owner[l] \in D THEN {}
                             ELSE {n \in d.notify[l] : n.comp \notin D}]
<1> DEFINE f == ReleaseLocksOwnedByComponents(d, D, K)
           e == RemoveLockNotifications(f, D)
<1>1. RemoveComponents(d, D, K) = e
  BY DEF RemoveComponents
<1>2. /\ Good(f) /\ Awaited(f)
      /\ f.owner = [l \in LockName |->
                      IF d.owner[l] \in D THEN NoOwner ELSE d.owner[l]]
      /\ f.notify = [l \in LockName |->
                       IF d.owner[l] \in D THEN {} ELSE d.notify[l]]
  BY ReleaseLocksGood
<1> HIDE DEF f
<1>3. /\ Good(e) /\ Awaited(e)
      /\ e.owner = f.owner
      /\ e.notify = [l \in LockName |->
                             {n \in f.notify[l] : n.comp \notin D}]
  BY <1>2, RemoveLockNotificationsGood
<1> HIDE DEF e
<1>4. e.notify = [l \in LockName |->
                   IF d.owner[l] \in D THEN {}
                   ELSE {n \in d.notify[l] : n.comp \notin D}]
  BY <1>2, <1>3
<1> QED BY <1>1, <1>2, <1>3, <1>4

-----------------------------------------------------------------------------
(* A client stops counting on a lock before it asks for its release.       *)
ReleasePending ==
  \A c \in Component :
    (held[c] # NoRequest /\ held[c].kind = "lockRelease")
      => held[c].lock \notin holding[c]

(* Nothing is known of a component before it connects.                     *)
NewUnknown ==
  \A c \in Component : link[c] = "new" =>
    /\ holding[c] = {}
    /\ held[c] = NoRequest
    /\ \A l \in LockName : \A n \in lockDB.notify[l] : n.comp # c

(* The inductive invariant.                                                *)
IInv ==
  /\ ConnTypeOK(Request)
  /\ Good(lockDB)
  /\ Awaited(lockDB)
  /\ holding \in [Component -> SUBSET LockName]
  /\ lastMatch \in [Component -> 0..MaxMatch]
  /\ HoldersOwn
  /\ ReleasePending
  /\ NewUnknown

(* Nobody has connected yet and the tables are empty.                      *)
LEMMA InitIInv == Init => IInv
<1> SUFFICES ASSUME Init PROVE IInv
  OBVIOUS
<1>1. ConnTypeOK(Request)
  BY DEF Init, ConnInit, ConnTypeOK
<1>2. Good(lockDB)
  BY LocksAssumption
  DEF Init, Good, LockTables, OwnersAgree, WaitersAgree, OwnersListed
<1>3. Awaited(lockDB)
  BY DEF Init, Awaited
<1>4. /\ holding \in [Component -> SUBSET LockName]
      /\ lastMatch \in [Component -> 0..MaxMatch]
  BY LocksAssumption DEF Init
<1>5. HoldersOwn /\ ReleasePending /\ NewUnknown
  BY DEF Init, ConnInit, HoldersOwn, ReleasePending, NewUnknown, Open
<1> QED BY <1>1, <1>2, <1>3, <1>4, <1>5 DEF IInv

(* How every handler that does not derail ends.                            *)
LEMMA FinishGood ==
  ASSUME ConnTypeOK(Request), NEW d, Good(d), Awaited(d),
         NEW D \in SUBSET Component, Finish(d, D)
  PROVE  /\ Good(lockDB')
         /\ Awaited(lockDB')
         /\ lockDB'.owner = [l \in LockName |->
              IF d.owner[l] \in D THEN NoOwner ELSE d.owner[l]]
         /\ lockDB'.notify = [l \in LockName |->
              IF d.owner[l] \in D THEN {}
              ELSE {n \in d.notify[l] : n.comp \notin D}]
         /\ link' = [c \in Component |-> IF c \in D THEN "gone" ELSE link[c]]
         /\ link' \in [Component -> {"new", "open", "gone"}]
         /\ server' = server
<1>1. lockDB' = RemoveComponents(d, D, Open \ D)
  BY DEF Finish
<1>2. /\ link' = [c \in Component |-> IF c \in D THEN "gone" ELSE link[c]]
      /\ server' = server
  BY DEF Finish, Close
<1>3. link' \in [Component -> {"new", "open", "gone"}]
  BY <1>2 DEF ConnTypeOK
<1> QED BY <1>1, <1>2, <1>3, RemoveComponentsGood

(* What a record taken from the read thread looks like.                    *)
LEMMA HeldRecord ==
  ASSUME ConnTypeOK(Request), NEW c \in Component, NEW kinds,
         Consuming(c, kinds)
  PROVE  /\ held[c] \in Request
         /\ held[c].kind \in kinds
         /\ link \in [Component -> {"new", "open", "gone"}]
         /\ Consumed(c) => /\ held' \in [Component -> Request \cup {NoRequest}]
                           /\ held' = [held EXCEPT ![c] = NoRequest]
BY DEF ConnTypeOK, Consuming, Consumed

(* The fields of the records a read thread may hold.                       *)
LEMMA RequestFields ==
  ASSUME NEW r \in Request
  PROVE  /\ r.kind \in {"lockRequest", "lockRelease", "lockNotification"}
              => r.lock \in LockName
         /\ r.kind = "lockNotification" => r.match \in 1..MaxMatch
BY DEF Request

(* A handler that ends with the tables d and the loss of D preserves the   *)
(* invariant, if what connected clients count on is theirs in d.           *)
LEMMA HandlerInv ==
  ASSUME IInv, NEW c \in Component, NEW d, Good(d), Awaited(d),
         NEW D \in SUBSET Component, Finish(d, D),
         UNCHANGED <<proc, lastMatch>>,
         held' = held \/ held' = [held EXCEPT ![c] = NoRequest],
         holding' \in [Component -> SUBSET LockName],
         \A b \in Component : \/ holding'[b] = holding[b]
                              \/ held'[b] = NoRequest /\ link[b] # "new",
         \A b \in Open \ D : \A l \in holding'[b] : d.owner[l] = b,
         \A l \in LockName : \A n \in d.notify[l] : link[n.comp] # "new"
  PROVE  IInv'
<1>1. /\ Good(lockDB')
      /\ Awaited(lockDB')
      /\ lockDB'.owner = [l \in LockName |->
           IF d.owner[l] \in D THEN NoOwner ELSE d.owner[l]]
      /\ lockDB'.notify = [l \in LockName |->
           IF d.owner[l] \in D THEN {}
           ELSE {n \in d.notify[l] : n.comp \notin D}]
      /\ link' = [b \in Component |-> IF b \in D THEN "gone" ELSE link[b]]
      /\ link' \in [Component -> {"new", "open", "gone"}]
      /\ server' = server
  BY FinishGood DEF IInv
<1>2. held' \in [Component -> Request \cup {NoRequest}]
  BY DEF IInv, ConnTypeOK
<1>3. ConnTypeOK(Request)'
  BY <1>1, <1>2 DEF IInv, ConnTypeOK, Request, Notification
<1>4. HoldersOwn'
  <2> SUFFICES ASSUME NEW b \in Open', NEW l \in holding'[b]
               PROVE  lockDB'.owner[l] = b
    BY DEF HoldersOwn
  <2>1. b \in Component /\ b \in Open \ D
    BY <1>1 DEF Open
  <2>2. l \in LockName /\ d.owner[l] = b
    BY <2>1
  <2> QED BY <1>1, <2>1, <2>2
<1>5. ReleasePending'
  <2> SUFFICES ASSUME NEW b \in Component, held'[b] # NoRequest,
                      held'[b].kind = "lockRelease"
               PROVE  held'[b].lock \notin holding'[b]
    BY DEF ReleasePending
  <2>1. held'[b] = held[b] /\ holding'[b] = holding[b]
    BY DEF IInv, ConnTypeOK
  <2> QED BY <2>1 DEF IInv, ReleasePending
<1>6. NewUnknown'
  <2> SUFFICES ASSUME NEW b \in Component, link'[b] = "new"
               PROVE  /\ holding'[b] = {}
                      /\ held'[b] = NoRequest
                      /\ \A l \in LockName :
                           \A n \in lockDB'.notify[l] : n.comp # b
    BY DEF NewUnknown
  <2>1. link[b] = "new"
    BY <1>1
  <2>2. held[b] = NoRequest /\ holding[b] = {}
    BY <2>1 DEF IInv, NewUnknown
  <2>3. held'[b] = NoRequest /\ holding'[b] = {}
    BY <2>1, <2>2 DEF IInv, ConnTypeOK
  <2>4. \A l \in LockName : \A n \in lockDB'.notify[l] : n.comp # b
    BY <1>1, <2>1
  <2> QED BY <2>3, <2>4
<1> QED BY <1>1, <1>3, <1>4, <1>5, <1>6 DEF IInv

(* The same for a handler that grants nothing.                             *)
LEMMA QuietHandlerInv ==
  ASSUME IInv, NEW c \in Component, NEW d, Good(d), Awaited(d),
         NEW D \in SUBSET Component, Finish(d, D),
         UNCHANGED <<proc, holding, lastMatch>>,
         held' = held \/ held' = [held EXCEPT ![c] = NoRequest],
         \A b \in Open : \A l \in holding[b] : d.owner[l] = b,
         \A l \in LockName : \A n \in d.notify[l] : link[n.comp] # "new"
  PROVE  IInv'
<1>1. holding' \in [Component -> SUBSET LockName]
  BY DEF IInv
<1>2. \A b \in Component : \/ holding'[b] = holding[b]
                           \/ held'[b] = NoRequest /\ link[b] # "new"
  OBVIOUS
<1>3. \A b \in Open \ D : \A l \in holding'[b] : d.owner[l] = b
  OBVIOUS
<1> QED BY <1>1, <1>2, <1>3, HandlerInv

(* Who waits has connected.                                                *)
LEMMA WaitersKnown ==
  ASSUME IInv, NEW l \in LockName, NEW n \in lockDB.notify[l]
  PROVE  link[n.comp] # "new" /\ n.comp \in Component
BY DEF IInv, NewUnknown, Good, LockTables, Notification

(* Undefined behaviour ends the run: only the read thread's record is gone.*)
LEMMA DerailInv ==
  ASSUME IInv, NEW c \in Component, NEW d, NEW S, NEW D, Derail(d, S, D),
         UNCHANGED <<proc, holding, lastMatch>>,
         held' = held \/ held' = [held EXCEPT ![c] = NoRequest]
  PROVE  IInv'
<1>1. server' = "undefined" /\ UNCHANGED <<link, lockDB>>
  BY DEF Derail
<1>2. held' \in [Component -> Request \cup {NoRequest}]
  BY DEF IInv, ConnTypeOK
<1>3. ConnTypeOK(Request)'
  BY <1>1, <1>2 DEF IInv, ConnTypeOK, Request, Notification
<1>4. HoldersOwn'
  BY <1>1 DEF IInv, HoldersOwn, Open
<1>5. \A b \in Component : held'[b] = held[b] \/ held'[b] = NoRequest
  BY DEF IInv, ConnTypeOK
<1>6. ReleasePending' /\ NewUnknown'
  BY <1>1, <1>5 DEF IInv, ReleasePending, NewUnknown
<1> QED BY <1>1, <1>3, <1>4, <1>6 DEF IInv, Good, LockTables, OwnersAgree,
  WaitersAgree, OwnersListed, Awaited, Notification

(* The steps of the invariance proof, one per action.                      *)
LEMMA ClientStepInv ==
  ASSUME IInv, NEW c \in Component, ClientStep(c)
  PROVE  IInv'
<1>1. CASE \E r \in Request : SendRequest(c, r)
  <2> PICK r \in Request : SendRequest(c, r)
    BY <1>1
  <2>1. /\ link[c] = "open"
        /\ held' = [held EXCEPT ![c] = r]
        /\ UNCHANGED <<link, proc, server, lockDB>>
    BY DEF SendRequest, Receive
  <2>2. held' \in [Component -> Request \cup {NoRequest}]
    BY <2>1 DEF IInv, ConnTypeOK
  <2>3. ConnTypeOK(Request)'
    BY <2>1, <2>2 DEF IInv, ConnTypeOK, Request, Notification
  <2>4. lastMatch' \in [Component -> 0..MaxMatch]
    <3>1. CASE r.kind = "lockNotification"
      BY <3>1, RequestFields, LocksAssumption DEF SendRequest, IInv
    <3>2. CASE r.kind # "lockNotification"
      BY <3>2 DEF SendRequest, IInv
    <3> QED BY <3>1, <3>2
  <2>5. holding' = IF r.kind = "lockRelease"
                   THEN [holding EXCEPT ![c] = holding[c] \ {r.lock}]
                   ELSE holding
    BY DEF SendRequest
  <2>6. /\ holding' \in [Component -> SUBSET LockName]
        /\ \A b \in Component : holding'[b] \in SUBSET holding[b]
    BY <2>5 DEF IInv
  <2>7. HoldersOwn'
    BY <2>1, <2>6 DEF IInv, HoldersOwn, Open
  <2>8. ReleasePending'
    <3> SUFFICES ASSUME NEW b \in Component, held'[b] # NoRequest,
                        held'[b].kind = "lockRelease"
                 PROVE  held'[b].lock \notin holding'[b]
      BY DEF ReleasePending
    <3>1. CASE b = c
      <4>1. held'[b] = r
        BY <2>1, <3>1 DEF IInv, ConnTypeOK
      <4> QED BY <2>5, <3>1, <4>1 DEF IInv
    <3>2. CASE b # c
      <4>1. held'[b] = held[b]
        BY <2>1, <3>2 DEF IInv, ConnTypeOK
      <4> QED BY <2>6, <4>1 DEF IInv, ReleasePending
    <3> QED BY <3>1, <3>2
  <2>9. NewUnknown'
    BY <2>1, <2>6 DEF IInv, NewUnknown, ConnTypeOK
  <2> QED BY <2>1, <2>3, <2>4, <2>6, <2>7, <2>8, <2>9
      DEF IInv, Good, LockTables, OwnersAgree, WaitersAgree, OwnersListed,
          Awaited, Notification
<1>2. CASE \E how \in {"down", "lost"} : Leave(c, how) /\ UNCHANGED locksVars
  <2>1. /\ UNCHANGED <<link, held, server, lockDB, holding, lastMatch>>
        /\ \E how \in {"down", "lost"} : proc' = [proc EXCEPT ![c] = how]
    BY <1>2 DEF Leave, locksVars
  <2>2. ConnTypeOK(Request)'
    BY <2>1 DEF IInv, ConnTypeOK, Request, Notification
  <2> QED BY <2>1, <2>2 DEF IInv, Good, LockTables, OwnersAgree,
      WaitersAgree, OwnersListed, Awaited, Notification, HoldersOwn, Open,
      ReleasePending, NewUnknown
<1>3. CASE Accept(c) /\ UNCHANGED locksVars
  <2>1. /\ UNCHANGED <<proc, held, server, lockDB, holding, lastMatch>>
        /\ link' = [link EXCEPT ![c] = "open"]
        /\ link[c] = "new"
    BY <1>3 DEF Accept, locksVars
  <2>2. ConnTypeOK(Request)'
    BY <2>1 DEF IInv, ConnTypeOK, Request, Notification
  <2>3. HoldersOwn'
    BY <2>1 DEF IInv, HoldersOwn, Open, NewUnknown, ConnTypeOK
  <2>4. ReleasePending' /\ NewUnknown'
    BY <2>1 DEF IInv, ReleasePending, NewUnknown, ConnTypeOK
  <2> QED BY <2>1, <2>2, <2>3, <2>4 DEF IInv, Good, LockTables,
      OwnersAgree, WaitersAgree, OwnersListed, Awaited, Notification
<1> QED BY <1>1, <1>2, <1>3 DEF ClientStep

(* A request grants a free lock, and a refusal changes nothing.            *)
LEMMA LockRequestInv ==
  ASSUME IInv, NEW c \in Component, LockRequestCallback(c)
  PROVE  IInv'
<1> DEFINE l == held[c].lock
           d == GetLock(lockDB, l, c)
<1>1. /\ held[c] \in Request
      /\ held' = [held EXCEPT ![c] = NoRequest]
      /\ held[c].kind = "lockRequest"
      /\ held[c] # NoRequest
      /\ UNCHANGED <<proc, lastMatch>>
  BY HeldRecord DEF LockRequestCallback, IInv, Consuming
<1>2. l \in LockName
  BY <1>1, RequestFields
<1>3. Good(d) /\ Awaited(d)
  BY <1>2, GetLockGood DEF IInv
<1>4. link[c] # "new" /\ held'[c] = NoRequest
  BY <1>1 DEF IInv, NewUnknown, ConnTypeOK
<1>5. /\ d.notify = lockDB.notify
      /\ d.owner = IF lockDB.owner[l] # NoOwner THEN lockDB.owner
                   ELSE [lockDB.owner EXCEPT ![l] = c]
  BY DEF GetLock, IInv, Good, LockTables
<1>6. \A k \in LockName : \A n \in d.notify[k] : link[n.comp] # "new"
  BY <1>5 DEF IInv, NewUnknown, Good, LockTables, Notification
<1>7. PICK D \in Hangups({c}) :
        \/ /\ Finish(d, D)
           /\ holding' = IF lockDB.owner[l] = NoOwner /\ c \in Open \ D
                         THEN [holding EXCEPT ![c] = @ \cup {l}]
                         ELSE holding
        \/ Derail(d, OwnedBy(d, D), D) /\ UNCHANGED holding
  BY DEF LockRequestCallback
<1>8. D \in SUBSET Component
  BY DEF Hangups, Broken, Open
<1> HIDE DEF d, l
<1>9. CASE /\ Finish(d, D)
           /\ holding' = IF lockDB.owner[l] = NoOwner /\ c \in Open \ D
                         THEN [holding EXCEPT ![c] = @ \cup {l}]
                         ELSE holding
  <2>1. /\ holding' \in [Component -> SUBSET LockName]
        /\ \A b \in Component : b # c => holding'[b] = holding[b]
    BY <1>2, <1>9 DEF IInv
  <2>2. \A b \in Open \ D : \A k \in holding'[b] : d.owner[k] = b
    <3> SUFFICES ASSUME NEW b \in Open \ D, NEW k \in holding'[b]
                 PROVE  d.owner[k] = b
      OBVIOUS
    <3>1. b \in Component /\ k \in LockName
      BY <2>1 DEF Open
    <3>2. CASE k \in holding[b]
      <4>1. lockDB.owner[k] = b
        BY <3>2 DEF IInv, HoldersOwn
      <4> QED BY <1>2, <1>5, <3>1, <4>1, LocksAssumption
          DEF IInv, Good, LockTables
    <3>3. CASE k \notin holding[b]
      <4>1. b = c /\ k = l /\ lockDB.owner[l] = NoOwner
        BY <1>9, <3>1, <3>3 DEF IInv
      <4> QED BY <1>2, <1>5, <4>1 DEF IInv, Good, LockTables
    <3> QED BY <3>2, <3>3
  <2>3. \A b \in Component : \/ holding'[b] = holding[b]
                             \/ held'[b] = NoRequest /\ link[b] # "new"
    BY <1>4, <2>1
  <2> QED BY <1>1, <1>3, <1>6, <1>8, <1>9, <2>1, <2>2, <2>3, HandlerInv
<1>10. CASE Derail(d, OwnedBy(d, D), D) /\ UNCHANGED holding
  BY <1>1, <1>10, DerailInv
<1> QED BY <1>7, <1>9, <1>10

(* The lock a client releases is no longer one it counts on.               *)
LEMMA LockReleaseInv ==
  ASSUME IInv, NEW c \in Component, LockReleaseCallback(c)
  PROVE  IInv'
<1> DEFINE l == held[c].lock
           d == ReleaseLock(lockDB, l, c, Open)
<1>1. /\ held[c] \in Request
      /\ held' = [held EXCEPT ![c] = NoRequest]
      /\ held[c].kind = "lockRelease"
      /\ held[c] # NoRequest
      /\ UNCHANGED <<proc, holding, lastMatch>>
  BY HeldRecord DEF LockReleaseCallback, IInv, Consuming
<1>2. l \in LockName
  BY <1>1, RequestFields
<1> HIDE DEF l
<1>3. /\ Good(d) /\ Awaited(d)
      /\ d.owner = [lockDB.owner EXCEPT
                      ![l] = IF lockDB.owner[l] = c THEN NoOwner ELSE @]
      /\ d.notify = [k \in LockName |->
                       IF k = l /\ lockDB.owner[l] = c THEN {}
                       ELSE lockDB.notify[k]]
  BY <1>2, ReleaseLockGood DEF IInv
<1> HIDE DEF d
<1>4. \A k \in LockName : d.notify[k] \in SUBSET lockDB.notify[k]
  BY <1>3
<1>5. \A k \in LockName : \A n \in d.notify[k] : link[n.comp] # "new"
  BY <1>4, WaitersKnown
<1>6. l \notin holding[c]
  BY <1>1 DEF IInv, ReleasePending, l
<1>7. \A b \in Open : \A k \in holding'[b] : d.owner[k] = b
  <2> SUFFICES ASSUME NEW b \in Open, NEW k \in holding[b]
               PROVE  d.owner[k] = b
    BY <1>1
  <2>1. b \in Component /\ k \in LockName
    BY DEF Open, IInv
  <2>2. lockDB.owner[k] = b
    BY DEF IInv, HoldersOwn
  <2>3. lockDB.owner \in [LockName -> Component \cup {NoOwner}]
    BY DEF IInv, Good, LockTables
  <2> QED BY <1>2, <1>3, <1>6, <2>1, <2>2, <2>3
<1>8. \/ \E D \in Hangups({c}) :
           Finish(d, D) \/ Derail(d, OwnedBy(d, D), D)
      \/ Derail(lockDB, {l}, {})
  BY DEF LockReleaseCallback, d, l
<1>9. \A D \in Hangups({c}) : D \in SUBSET Component
  BY DEF Hangups, Broken, Open
<1>10. CASE \E D \in Hangups({c}) : Finish(d, D)
  BY <1>1, <1>3, <1>5, <1>7, <1>9, <1>10, QuietHandlerInv DEF IInv
<1>11. CASE \E D \in Hangups({c}) : Derail(d, OwnedBy(d, D), D)
  BY <1>1, <1>11, DerailInv
<1>12. CASE Derail(lockDB, {l}, {})
  BY <1>1, <1>12, DerailInv
<1> QED BY <1>8, <1>10, <1>11, <1>12

(* A request is recorded only for a lock that is held.                     *)
LEMMA LockNotificationInv ==
  ASSUME IInv, NEW c \in Component, LockNotificationCallback(c)
  PROVE  IInv'
<1> DEFINE l == held[c].lock
           n == [comp |-> c, match |-> held[c].match]
<1>1. /\ held[c] \in Request
      /\ held' = [held EXCEPT ![c] = NoRequest]
      /\ held[c].kind = "lockNotification"
      /\ held[c] # NoRequest
      /\ UNCHANGED <<proc, holding, lastMatch>>
  BY HeldRecord DEF LockNotificationCallback, IInv, Consuming
<1>2. l \in LockName /\ n \in Notification /\ n.comp = c
  BY <1>1, RequestFields DEF Notification
<1>3. link[c] # "new"
  BY <1>1 DEF IInv, NewUnknown
<1>4. \A b \in Open : \A k \in holding[b] : lockDB.owner[k] = b
  BY DEF IInv, HoldersOwn
<1>5. \A k \in LockName : \A m \in lockDB.notify[k] : link[m.comp] # "new"
  BY WaitersKnown
<1>6. CASE lockDB.owner[l] # NoOwner
  <2> DEFINE d == RequestLockNotification(lockDB, l, n)
  <2>1. Finish(d, {})
    BY <1>6 DEF LockNotificationCallback
  <2>2. d.notify = [lockDB.notify EXCEPT ![l] = lockDB.notify[l] \cup {n}]
    BY DEF RequestLockNotification, IInv, Good, LockTables
  <2> HIDE DEF l, n
  <2>3. Good(d) /\ Awaited(d) /\ d.owner = lockDB.owner
    BY <1>2, <1>6, RequestLockNotificationGood DEF IInv
  <2> HIDE DEF d
  <2>4. \A k \in LockName : \A m \in d.notify[k] : link[m.comp] # "new"
    BY <1>2, <1>3, <1>5, <2>2 DEF IInv, Good, LockTables
  <2>5. \A b \in Open : \A k \in holding[b] : d.owner[k] = b
    BY <1>4, <2>3
  <2> QED BY <1>1, <2>1, <2>3, <2>4, <2>5, QuietHandlerInv
<1>7. CASE lockDB.owner[l] = NoOwner
  <2> PICK D \in Hangups({c}) :
        LET d == [lockDB EXCEPT !.answered = @ \cup
                    ({n} \cap [comp : Open \ D, match : 1..MaxMatch])]
        IN Finish(d, D) \/ Derail(d, OwnedBy(d, D), D)
    BY <1>7 DEF LockNotificationCallback
  <2> DEFINE d == [lockDB EXCEPT !.answered = @ \cup
                     ({n} \cap [comp : Open \ D, match : 1..MaxMatch])]
  <2>1. D \in SUBSET Component
    BY DEF Hangups, Broken, Open
  <2>2. d \in LockTables
    BY <1>2 DEF IInv, Good, LockTables
  <2>3. /\ d.owner = lockDB.owner
        /\ d.listed = lockDB.listed
        /\ d.owned = lockDB.owned
        /\ d.notify = lockDB.notify
        /\ d.waits = lockDB.waits
    BY DEF IInv, Good, LockTables
  <2>4. Finish(d, D) \/ Derail(d, OwnedBy(d, D), D)
    OBVIOUS
  <2> HIDE DEF d, l, n
  <2>5. Good(d) /\ Awaited(d)
    BY <2>2, <2>3
    DEF IInv, Good, OwnersAgree, WaitersAgree, OwnersListed, Awaited
  <2>6. CASE Finish(d, D)
    <3>1. \A b \in Open : \A k \in holding[b] : d.owner[k] = b
      BY <1>4, <2>3
    <3>2. \A k \in LockName : \A m \in d.notify[k] : link[m.comp] # "new"
      BY <1>5, <2>3
    <3> QED BY <1>1, <2>1, <2>5, <2>6, <3>1, <3>2, QuietHandlerInv
  <2>7. CASE Derail(d, OwnedBy(d, D), D)
    BY <1>1, <2>7, DerailInv
  <2> QED BY <2>4, <2>6, <2>7
<1> QED BY <1>6, <1>7

(* Removals by request and by failure leave the tables of the others alone.*)
LEMMA RemovalInv ==
  ASSUME IInv, NEW c \in Component, NEW D \in SUBSET Component,
         Finish(lockDB, D) \/ Derail(lockDB, OwnedBy(lockDB, D), D),
         held' = held \/ held' = [held EXCEPT ![c] = NoRequest],
         UNCHANGED <<proc, holding, lastMatch>>
  PROVE  IInv'
<1>1. \A b \in Open : \A k \in holding[b] : lockDB.owner[k] = b
  BY DEF IInv, HoldersOwn
<1>2. \A k \in LockName : \A m \in lockDB.notify[k] : link[m.comp] # "new"
  BY WaitersKnown
<1>3. CASE Finish(lockDB, D)
  BY <1>1, <1>2, <1>3, QuietHandlerInv DEF IInv
<1>4. CASE Derail(lockDB, OwnedBy(lockDB, D), D)
  BY <1>4, DerailInv
<1> QED BY <1>3, <1>4

(* The invariant is inductive.                                             *)
LEMMA NextInv == IInv /\ [Next]_vars => IInv'
<1> SUFFICES ASSUME IInv, [Next]_vars PROVE IInv'
  OBVIOUS
<1>1. CASE UNCHANGED vars
  BY <1>1 DEF vars, IInv, ConnTypeOK, Good, LockTables, OwnersAgree,
     WaitersAgree, OwnersListed, Awaited, HoldersOwn, Open, ReleasePending,
     NewUnknown, Request, Notification
<1>2. CASE \E c \in Component : ClientStep(c) \/ Handle(c) \/ Disconnect(c)
  <2> PICK c \in Component : ClientStep(c) \/ Handle(c) \/ Disconnect(c)
    BY <1>2
  <2>1. CASE ClientStep(c)
    BY <2>1, ClientStepInv
  <2>2. CASE LockRequestCallback(c)
    BY <2>2, LockRequestInv
  <2>3. CASE LockReleaseCallback(c)
    BY <2>3, LockReleaseInv
  <2>4. CASE LockNotificationCallback(c)
    BY <2>4, LockNotificationInv
  <2>5. CASE Kill(c)
    BY <2>5, RemovalInv DEF Kill, Consumed, Open
  <2>6. CASE Disconnect(c)
    BY <2>6, RemovalInv DEF Disconnect
  <2> QED BY <2>1, <2>2, <2>3, <2>4, <2>5, <2>6 DEF Handle
<1> QED BY <1>1, <1>2 DEF Next

(* The inductive invariant holds throughout (see IInv above).              *)
THEOREM Invariance == Spec => []IInv
<1>1. IInv /\ [Next]_vars => IInv'
  BY NextInv
<1> QED BY InitIInv, <1>1, PTL DEF Spec

-----------------------------------------------------------------------------
(* Type correctness.                                                       *)
THEOREM TypeCorrect == Spec => []TypeOK
<1>1. IInv => TypeOK
  BY DEF IInv, Good, TypeOK
<1> QED BY <1>1, Invariance, PTL

(* The two maps about ownership agree, and so do the two about             *)
(* notifications, whatever the order of requests, exits, failed writes and *)
(* stale records.                                                          *)
THEOREM TablesInAgreement == Spec => []LockTablesAgree
<1>1. IInv => LockTablesAgree
  <2> SUFFICES ASSUME IInv, NEW l \in LockName, NEW c \in Component
               PROVE  /\ lockDB.owner[l] = c <=> l \in OwnedBy(lockDB, {c})
                      /\ (\E n \in lockDB.notify[l] : n.comp = c)
                           <=> l \in lockDB.waits[c]
    BY DEF LockTablesAgree
  <2>1. lockDB.owner[l] = c <=> l \in OwnedBy(lockDB, {c})
    BY DEF IInv, Good, OwnersAgree, OwnedBy
  <2>2. (\E n \in lockDB.notify[l] : n.comp = c) <=> l \in lockDB.waits[c]
    BY DEF IInv, Good, WaitersAgree
  <2> QED BY <2>1, <2>2
<1> QED BY <1>1, Invariance, PTL

(* Nobody waits for the release of a free lock.                            *)
THEOREM AwaitedAreHeld == Spec => []OnlyHeldLocksAwaited
<1>1. IInv => OnlyHeldLocksAwaited
  BY DEF IInv, Awaited, OnlyHeldLocksAwaited
<1> QED BY <1>1, Invariance, PTL

(* Mutual exclusion: a lock a connected client counts on is its own.       *)
THEOREM MutualExclusion == Spec => []HoldersOwn
<1>1. IInv => HoldersOwn
  BY DEF IInv
<1> QED BY <1>1, Invariance, PTL

(* A step that removes a component is one that ends with Finish.           *)
LEMMA RemovalIsFinish ==
  ASSUME IInv, [Next]_vars,
         NEW b \in Component, link[b] = "open", link'[b] = "gone"
  PROVE  \E d \in LockTables, D \in SUBSET Component :
           b \in D /\ Good(d) /\ Awaited(d) /\ Finish(d, D)
<1>1. SUFFICES \E d \in LockTables, D \in SUBSET Component :
                 Good(d) /\ Awaited(d) /\ Finish(d, D)
  BY DEF Finish, Close
<1>2. Good(lockDB) /\ Awaited(lockDB) /\ lockDB \in LockTables
  BY DEF IInv, Good
<1>3. PICK c \in Component : ClientStep(c) \/ Handle(c) \/ Disconnect(c)
  BY DEF Next, vars
<1>4. ~ ClientStep(c)
  BY DEF ClientStep, SendRequest, Receive, Leave, Accept, IInv, ConnTypeOK
<1>5. CASE LockRequestCallback(c)
  <2> DEFINE d == GetLock(lockDB, held[c].lock, c)
  <2>1. held[c].lock \in LockName
    BY <1>5, HeldRecord, RequestFields DEF LockRequestCallback, IInv
  <2>2. Good(d) /\ Awaited(d) /\ d \in LockTables
    BY <1>2, <2>1, GetLockGood DEF Good
  <2>3. PICK D \in Hangups({c}) : Finish(d, D)
    BY <1>5 DEF LockRequestCallback, Derail
  <2>4. D \in SUBSET Component
    BY DEF Hangups, Broken, Open
  <2> QED BY <2>2, <2>3, <2>4
<1>6. CASE LockReleaseCallback(c)
  <2> DEFINE d == ReleaseLock(lockDB, held[c].lock, c, Open)
  <2>1. held[c].lock \in LockName
    BY <1>6, HeldRecord, RequestFields DEF LockReleaseCallback, IInv
  <2>2. Good(d) /\ Awaited(d) /\ d \in LockTables
    BY <1>2, <2>1, ReleaseLockGood DEF Good
  <2>3. PICK D \in Hangups({c}) : Finish(d, D)
    BY <1>6 DEF LockReleaseCallback, Derail
  <2>4. D \in SUBSET Component
    BY DEF Hangups, Broken, Open
  <2> QED BY <2>2, <2>3, <2>4
<1>7. CASE LockNotificationCallback(c)
  <2> DEFINE l == held[c].lock
             n == [comp |-> c, match |-> held[c].match]
  <2>1. l \in LockName /\ n \in Notification
    BY <1>7, HeldRecord, RequestFields
    DEF LockNotificationCallback, IInv, Notification
  <2>2. CASE lockDB.owner[l] # NoOwner
    <3> DEFINE d == RequestLockNotification(lockDB, l, n)
    <3>1. Good(d) /\ Awaited(d) /\ d \in LockTables
      BY <1>2, <2>1, <2>2, RequestLockNotificationGood DEF Good
    <3>2. Finish(d, {})
      BY <1>7, <2>2 DEF LockNotificationCallback
    <3> QED BY <3>1, <3>2
  <2>3. CASE lockDB.owner[l] = NoOwner
    <3>1. PICK D \in Hangups({c}) :
            Finish([lockDB EXCEPT !.answered = @ \cup
                      ({n} \cap [comp : Open \ D, match : 1..MaxMatch])], D)
      BY <1>7, <2>3 DEF LockNotificationCallback, Derail
    <3> DEFINE d == [lockDB EXCEPT !.answered = @ \cup
                       ({n} \cap [comp : Open \ D, match : 1..MaxMatch])]
    <3>2. D \in SUBSET Component
      BY DEF Hangups, Broken, Open
    <3>3. d \in LockTables
      BY <1>2, <2>1 DEF LockTables
    <3>4. /\ d.owner = lockDB.owner
          /\ d.listed = lockDB.listed
          /\ d.owned = lockDB.owned
          /\ d.notify = lockDB.notify
          /\ d.waits = lockDB.waits
      BY <1>2 DEF LockTables
    <3>5. Finish(d, D)
      BY <3>1
    <3> HIDE DEF d
    <3>6. Good(d) /\ Awaited(d)
      BY <1>2, <3>3, <3>4
      DEF Good, OwnersAgree, WaitersAgree, OwnersListed, Awaited
    <3> QED BY <3>2, <3>3, <3>5, <3>6
  <2> QED BY <2>2, <2>3
<1>8. CASE Kill(c) \/ Disconnect(c)
  BY <1>2, <1>8 DEF Kill, Disconnect, Derail, Open
<1> QED BY <1>3, <1>4, <1>5, <1>6, <1>7, <1>8 DEF Handle

(* The removal of a component leaves nothing of it behind.                 *)
THEOREM RemovalComplete == Spec => RemovalReleasesAll
<1> DEFINE A == \A c \in Component :
       link[c] = "open" /\ link'[c] = "gone" =>
         /\ \A l \in LockName : lockDB.owner'[l] # c
         /\ \A l \in LockName : \A n \in lockDB.notify'[l] : n.comp # c
<1>1. IInv /\ [Next]_vars => [A]_vars
  <2> SUFFICES ASSUME IInv, [Next]_vars, NEW c \in Component,
                      link[c] = "open", link'[c] = "gone"
               PROVE  /\ \A l \in LockName : lockDB'.owner[l] # c
                      /\ \A l \in LockName :
                           \A n \in lockDB'.notify[l] : n.comp # c
    OBVIOUS
  <2>1. PICK d \in LockTables, D \in SUBSET Component :
          c \in D /\ Good(d) /\ Awaited(d) /\ Finish(d, D)
    BY RemovalIsFinish
  <2>2. /\ lockDB'.owner = [l \in LockName |->
             IF d.owner[l] \in D THEN NoOwner ELSE d.owner[l]]
        /\ lockDB'.notify = [l \in LockName |->
             IF d.owner[l] \in D THEN {}
             ELSE {n \in d.notify[l] : n.comp \notin D}]
    BY <2>1, FinishGood DEF IInv
  <2> QED BY <2>1, <2>2, LocksAssumption
<1> QED BY <1>1, Invariance, PTL DEF Spec, RemovalReleasesAll

-----------------------------------------------------------------------------
(***************************************************************************)
(* The lock tables of the szgserver implement LockService: every handler,  *)
(* with the removals it ends in, is one step of the service.  A handler    *)
(* that grants or frees a lock and loses the client it answers is one      *)
(* departure.                                                              *)
(***************************************************************************)

(* The notifications sent on the release of the locks in S.                *)
LEMMA SendLockNotificationsAnswered ==
  ASSUME NEW d, Good(d), NEW S \in SUBSET LockName, NEW K
  PROVE  SendLockNotifications(d, S, K).answered =
           d.answered \cup {n \in UNION {d.notify[l] : l \in S} : n.comp \in K}
BY DEF SendLockNotifications, Good, LockTables

(* The notifications sent when the components in D are removed.            *)
Told(d, D, K) ==
  {n \in UNION {d.notify[l] : l \in {k \in LockName : d.owner[k] \in D}} :
     n.comp \in K}

(* Who is notified when the components in D are removed.                   *)
LEMMA RemoveComponentsAnswered ==
  ASSUME NEW d, Good(d), Awaited(d), NEW D \in SUBSET Component, NEW K
  PROVE  RemoveComponents(d, D, K).answered = d.answered \cup Told(d, D, K)
<1> DEFINE S == {l \in OwnedBy(d, D) : d.owner[l] # NoOwner}
           f == SendLockNotifications(d, S, K)
           e == ReleaseLocksOwnedByComponents(d, D, K)
<1>1. S = {l \in LockName : d.owner[l] \in D}
  BY LocksAssumption DEF OwnedBy, Good, LockTables, OwnersAgree
<1>2. f.answered = d.answered \cup
        {n \in UNION {d.notify[l] : l \in S} : n.comp \in K}
  <2>1. S \in SUBSET LockName
    BY <1>1
  <2> HIDE DEF S
  <2> QED BY <2>1, SendLockNotificationsAnswered
<1>3. f \in LockTables
  <2>1. S \in SUBSET LockName
    BY <1>1
  <2> HIDE DEF S
  <2> QED BY <2>1, SendLockNotificationsGood DEF Good
<1>4. e = [f EXCEPT
             !.owner = [l \in LockName |->
                          IF l \in S THEN NoOwner ELSE d.owner[l]],
             !.listed = @ \ D,
             !.owned = [c \in Component |->
                          IF c \in D THEN {} ELSE d.owned[c]]]
  BY DEF ReleaseLocksOwnedByComponents
<1> HIDE DEF S, f
<1>5. e.answered = f.answered
  BY <1>3, <1>4 DEF LockTables
<1>6. RemoveLockNotifications(e, D).answered = e.answered
  BY RemoveLockNotificationsGood, ReleaseLocksGood
<1> HIDE DEF e
<1> QED BY <1>1, <1>2, <1>5, <1>6 DEF RemoveComponents, Told, e

-----------------------------------------------------------------------------
Gone == {c \in Component : link[c] = "gone"}

(* Finish(d, D) in terms of the abstract variables.                        *)
LEMMA FinishMaps ==
  ASSUME IInv, NEW d, Good(d), Awaited(d), NEW D \in SUBSET Open, Finish(d, D)
  PROVE  /\ lockDB'.owner = [l \in LockName |->
              IF d.owner[l] \in D THEN NoOwner ELSE d.owner[l]]
         /\ lockDB'.notify = [l \in LockName |->
              IF d.owner[l] \in D THEN {}
              ELSE {n \in d.notify[l] : n.comp \notin D}]
         /\ lockDB'.answered = d.answered \cup Told(d, D, Open \ D)
         /\ Gone' = Gone \cup D
<1>1. D \in SUBSET Component
  BY DEF Open
<1>2. lockDB'.answered = d.answered \cup Told(d, D, Open \ D)
  BY <1>1, RemoveComponentsAnswered DEF Finish
<1>3. Gone' = Gone \cup D
  BY <1>1 DEF Gone, Finish, Close
<1> QED BY <1>1, <1>2, <1>3, FinishGood DEF IInv

(* The promised departure of the clients in D, some of whom may have been  *)
(* called on the way out.                                                  *)
LEMMA DepartMaps ==
  ASSUME IInv, NEW D \in SUBSET Open,
         NEW late \in SUBSET Told(lockDB, D, D),
         lockDB'.owner = [l \in LockName |->
           IF lockDB.owner[l] \in D THEN NoOwner ELSE lockDB.owner[l]],
         lockDB'.notify = [l \in LockName |->
           IF lockDB.owner[l] \in D THEN {}
           ELSE {n \in lockDB.notify[l] : n.comp \notin D}],
         lockDB'.answered = lockDB.answered \cup Told(lockDB, D, Open \ D)
                              \cup late,
         Gone' = Gone \cup D
  PROVE  Promise!Next
<1> DEFINE S == {l \in LockName : lockDB.owner[l] \in D}
<1>1. D \in SUBSET Component
  BY DEF Open
<1>2. Told(lockDB, D, Open \ D) = Promise!Called(S, Gone \cup D)
  <2> SUFFICES ASSUME NEW l \in LockName, NEW n \in lockDB.notify[l]
               PROVE  n.comp \in Open \ D <=> n.comp \notin Gone \cup D
    BY DEF Told, Promise!Called
  <2> QED BY WaitersKnown DEF Open, Gone, IInv, ConnTypeOK
<1>3. late \in SUBSET {n \in Promise!Called(S, {}) : n.comp \in D}
  BY DEF Told, Promise!Called
<1>4. lockDB'.owner = [l \in LockName |->
         IF l \in S THEN NoOwner ELSE lockDB.owner[l]]
  OBVIOUS
<1>5. lockDB'.notify = [l \in LockName |->
         IF l \in S THEN {} ELSE {n \in lockDB.notify[l] : n.comp \notin D}]
  OBVIOUS
<1> QED BY <1>1, <1>2, <1>3, <1>4, <1>5 DEF Promise!Depart, Promise!Next, Gone

(* Every handler that leaves the tables as they are, up to what it looked  *)
(* at, and removes D.                                                      *)
LEMMA SameMaps ==
  ASSUME IInv, NEW d, Good(d), Awaited(d), NEW D \in SUBSET Open, Finish(d, D),
         \A l \in LockName : d.owner[l] \notin D =>
           d.owner[l] = lockDB.owner[l] /\ d.notify[l] = lockDB.notify[l],
         \A l \in LockName : d.owner[l] \in D =>
           \/ lockDB.owner[l] = d.owner[l] /\ d.notify[l] = lockDB.notify[l]
           \/ lockDB.owner[l] = NoOwner /\ d.notify[l] = {},
         d.answered = lockDB.answered
  PROVE  Promise!Next
<1>0. /\ d.owner \in [LockName -> Component \cup {NoOwner}]
      /\ lockDB.owner \in [LockName -> Component \cup {NoOwner}]
      /\ \A l \in LockName : lockDB.notify[l] # {} => lockDB.owner[l] # NoOwner
  BY DEF IInv, Good, LockTables, Awaited
<1>F. /\ lockDB'.owner = [k \in LockName |->
           IF d.owner[k] \in D THEN NoOwner ELSE d.owner[k]]
      /\ lockDB'.notify = [k \in LockName |->
           IF d.owner[k] \in D THEN {}
           ELSE {n \in d.notify[k] : n.comp \notin D}]
      /\ lockDB'.answered = d.answered \cup Told(d, D, Open \ D)
      /\ Gone' = Gone \cup D
  BY FinishMaps
<1>1. NoOwner \notin D
  BY LocksAssumption DEF Open
<1>2. lockDB'.owner = [l \in LockName |->
         IF lockDB.owner[l] \in D THEN NoOwner ELSE lockDB.owner[l]]
  <2>1. \A l \in LockName :
          (IF d.owner[l] \in D THEN NoOwner ELSE d.owner[l])
            = IF lockDB.owner[l] \in D THEN NoOwner ELSE lockDB.owner[l]
    BY <1>1
  <2> QED BY <1>F, <2>1
<1>3. lockDB'.notify = [l \in LockName |->
         IF lockDB.owner[l] \in D THEN {}
         ELSE {n \in lockDB.notify[l] : n.comp \notin D}]
  <2>1. \A l \in LockName :
          (IF d.owner[l] \in D THEN {}
           ELSE {n \in d.notify[l] : n.comp \notin D})
            = IF lockDB.owner[l] \in D THEN {}
              ELSE {n \in lockDB.notify[l] : n.comp \notin D}
    BY <1>0, <1>1
  <2> QED BY <1>F, <2>1
<1>4. Told(d, D, Open \ D) = Told(lockDB, D, Open \ D)
  BY <1>1 DEF Told
<1>5. lockDB'.answered = lockDB.answered \cup Told(lockDB, D, Open \ D) \cup {}
  BY <1>4, <1>F
<1>6. Gone' = Gone \cup D
  BY <1>F
<1> QED BY <1>2, <1>3, <1>5, <1>6, DepartMaps

(* Undefined behaviour changes nothing the service promises.               *)
LEMMA DerailMaps ==
  ASSUME NEW d, NEW S, NEW D, Derail(d, S, D)
  PROVE  UNCHANGED Promise!svars
BY DEF Derail, Promise!svars

(* A granted request acquires, a refused one changes nothing.              *)
LEMMA LockRequestMaps ==
  ASSUME IInv, NEW c \in Component, LockRequestCallback(c)
  PROVE  Promise!Next \/ UNCHANGED Promise!svars
<1> DEFINE l == held[c].lock
           d == GetLock(lockDB, l, c)
<1>1. l \in LockName
  BY HeldRecord, RequestFields DEF LockRequestCallback, IInv
<1>2. PICK D \in Hangups({c}) : Finish(d, D) \/ Derail(d, OwnedBy(d, D), D)
  BY DEF LockRequestCallback
<1>3. D \in SUBSET Open /\ D \in SUBSET {c}
  BY DEF Hangups, Broken
<1> HIDE DEF l
<1>4. Good(d) /\ Awaited(d)
  BY <1>1, GetLockGood DEF IInv
<1>5. /\ d.notify = lockDB.notify
      /\ d.answered = lockDB.answered
      /\ d.owner = IF lockDB.owner[l] # NoOwner THEN lockDB.owner
                   ELSE [lockDB.owner EXCEPT ![l] = c]
      /\ lockDB.owner \in [LockName -> Component \cup {NoOwner}]
  BY DEF GetLock, IInv, Good, LockTables
<1> HIDE DEF d
<1>6. CASE Derail(d, OwnedBy(d, D), D)
  BY <1>6, DerailMaps
<1>7. CASE Finish(d, D) /\ (D = {c} \/ lockDB.owner[l] # NoOwner)
  <2>1. \A k \in LockName : d.owner[k] \notin D =>
          d.owner[k] = lockDB.owner[k] /\ d.notify[k] = lockDB.notify[k]
    BY <1>1, <1>5, <1>7
  <2>2. lockDB.owner[l] = NoOwner => lockDB.notify[l] = {}
    BY <1>1 DEF IInv, Awaited
  <2>3. \A k \in LockName : d.owner[k] \in D =>
          \/ lockDB.owner[k] = d.owner[k] /\ d.notify[k] = lockDB.notify[k]
          \/ lockDB.owner[k] = NoOwner /\ d.notify[k] = {}
    BY <1>1, <1>5, <2>2
  <2> QED BY <1>3, <1>4, <1>5, <1>7, <2>1, <2>3, SameMaps
<1>8. CASE Finish(d, D) /\ D = {} /\ lockDB.owner[l] = NoOwner
  <2>f. Finish(d, D)
    BY <1>8
  <2>0. /\ lockDB'.owner = [k \in LockName |->
             IF d.owner[k] \in D THEN NoOwner ELSE d.owner[k]]
        /\ lockDB'.notify = [k \in LockName |->
             IF d.owner[k] \in D THEN {}
             ELSE {n \in d.notify[k] : n.comp \notin D}]
        /\ lockDB'.answered = d.answered \cup Told(d, D, Open \ D)
        /\ Gone' = Gone \cup D
    BY <1>3, <1>4, <2>f, FinishMaps
  <2>1. /\ lockDB'.owner = [k \in LockName |-> d.owner[k]]
        /\ lockDB'.notify = [k \in LockName |-> d.notify[k]]
        /\ lockDB'.answered = d.answered
        /\ Gone' = Gone
    <3>1. \A k \in LockName : lockDB'.notify[k] = d.notify[k]
      BY <1>8, <2>0
    <3>2. lockDB'.notify = [k \in LockName |-> lockDB'.notify[k]]
      BY <2>0
    <3>3. Told(d, {}, Open) = {}
      BY DEF Told
    <3> QED BY <1>8, <2>0, <3>1, <3>2, <3>3
  <2>2. lockDB'.owner = [lockDB.owner EXCEPT ![l] = c]
    BY <1>5, <1>8, <2>1
  <2>3. lockDB'.notify = lockDB.notify
    BY <1>5, <2>1 DEF IInv, Good, LockTables
  <2>4. Promise!Acquire(c, l)
    BY <1>5, <1>8, <2>1, <2>2, <2>3 DEF Promise!Acquire, Gone
  <2> QED BY <1>1, <2>4 DEF Promise!Next
<1> QED BY <1>2, <1>3, <1>6, <1>7, <1>8

(* A release by the owner releases, any other changes nothing.             *)
LEMMA LockReleaseMaps ==
  ASSUME IInv, NEW c \in Component, LockReleaseCallback(c)
  PROVE  Promise!Next \/ UNCHANGED Promise!svars
<1> DEFINE l == held[c].lock
           d == ReleaseLock(lockDB, l, c, Open)
<1>1. l \in LockName
  BY HeldRecord, RequestFields DEF LockReleaseCallback, IInv
<1>2. \/ \E D \in Hangups({c}) : Finish(d, D)
      \/ \E f, S, D : Derail(f, S, D)
  BY DEF LockReleaseCallback
<1> HIDE DEF l
<1>3. CASE \E f, S, D : Derail(f, S, D)
  BY <1>3, DerailMaps
<1>4. CASE \E D \in Hangups({c}) : Finish(d, D)
  <2> PICK D \in Hangups({c}) : Finish(d, D)
    BY <1>4
  <2>1. D \in SUBSET Open /\ D \in SUBSET {c}
    BY DEF Hangups, Broken
  <2>2. /\ Good(d) /\ Awaited(d)
        /\ d.owner = [lockDB.owner EXCEPT
                        ![l] = IF lockDB.owner[l] = c THEN NoOwner ELSE @]
        /\ d.notify = [k \in LockName |->
                         IF k = l /\ lockDB.owner[l] = c THEN {}
                         ELSE lockDB.notify[k]]
    BY <1>1, ReleaseLockGood DEF IInv
  <2>3. lockDB.owner \in [LockName -> Component \cup {NoOwner}]
    BY DEF IInv, Good, LockTables
  <2>4. CASE lockDB.owner[l] # c
    <3>1. d = lockDB
      BY <2>4 DEF ReleaseLock
    <3> HIDE DEF d
    <3> QED BY <2>1, <2>2, <3>1, SameMaps
  <2>5. CASE lockDB.owner[l] = c
    <3> DEFINE told == {n \in lockDB.notify[l] : n.comp \in Open}
    <3>1. d.answered = lockDB.answered \cup told
      <4> DEFINE f == [lockDB EXCEPT !.owner[l] = NoOwner, !.owned[c] = @ \ {l}]
      <4>1. f.notify = lockDB.notify /\ f.answered = lockDB.answered
            /\ f \in LockTables
        BY DEF IInv, Good, LockTables
      <4>2. c \in lockDB.listed
        BY <1>1, <2>5 DEF IInv, Good, OwnersAgree, OwnersListed
      <4>3. d = SendLockNotifications(f, {l}, Open)
        BY <2>5, <4>2 DEF ReleaseLock
      <4> HIDE DEF d, f
      <4>4. d.answered = f.answered \cup
              {n \in UNION {f.notify[k] : k \in {l}} : n.comp \in Open}
        BY <1>1, <4>1, <4>3 DEF SendLockNotifications, LockTables
      <4> QED BY <4>1, <4>4
    <3> HIDE DEF d
    <3>2. /\ lockDB'.owner = [k \in LockName |->
               IF d.owner[k] \in D THEN NoOwner ELSE d.owner[k]]
          /\ lockDB'.notify = [k \in LockName |->
               IF d.owner[k] \in D THEN {}
               ELSE {n \in d.notify[k] : n.comp \notin D}]
          /\ lockDB'.answered = d.answered \cup Told(d, D, Open \ D)
          /\ Gone' = Gone \cup D
      BY <2>1, <2>2, FinishMaps
    <3>3. CASE D = {}
      <4>1. lockDB'.owner = [lockDB.owner EXCEPT ![l] = NoOwner]
        BY <2>2, <2>3, <2>5, <3>2, <3>3
      <4>2. lockDB'.notify = [lockDB.notify EXCEPT ![l] = {}]
        <5>1. lockDB.notify \in [LockName -> SUBSET Notification]
          BY DEF IInv, Good, LockTables
        <5>2. \A k \in LockName : lockDB'.notify[k] = d.notify[k]
          BY <3>2, <3>3
        <5>3. lockDB'.notify = [k \in LockName |-> lockDB'.notify[k]]
          BY <3>2
        <5> QED BY <2>2, <2>5, <5>1, <5>2, <5>3
      <4>3. told = Promise!Called({l}, Gone)
        BY <1>1, WaitersKnown
        DEF Promise!Called, Open, Gone, IInv, ConnTypeOK
      <4>4. lockDB'.answered = lockDB.answered \cup told
        BY <3>1, <3>2, <3>3 DEF Told
      <4>5. lockDB.owner[l] # NoOwner
        BY <2>5, LocksAssumption
      <4>6. Promise!Release(l)
        BY <3>2, <3>3, <4>1, <4>2, <4>3, <4>4, <4>5
        DEF Promise!Release, Gone
      <4> QED BY <1>1, <4>6 DEF Promise!Next
    <3>4. CASE D = {c}
      <4> DEFINE late == {n \in told : n.comp = c}
      <4>0. NoOwner # c
        BY LocksAssumption
      <4>1. lockDB'.owner = [k \in LockName |->
              IF lockDB.owner[k] \in D THEN NoOwner ELSE lockDB.owner[k]]
        BY <2>2, <2>3, <2>5, <3>2, <3>4, <4>0
      <4>2. lockDB'.notify = [k \in LockName |->
              IF lockDB.owner[k] \in D THEN {}
              ELSE {n \in lockDB.notify[k] : n.comp \notin D}]
        BY <2>2, <2>3, <2>5, <3>2, <3>4, <4>0
      <4>3. late \in SUBSET Told(lockDB, D, D)
        BY <1>1, <2>5, <3>4 DEF Told
      <4>4. Told(lockDB, D, Open \ D)
              = Told(d, D, Open \ D) \cup {n \in told : n.comp # c}
        BY <1>1, <2>2, <2>3, <2>5, <3>4, <4>0 DEF Told
      <4>5. lockDB'.answered
              = lockDB.answered \cup Told(lockDB, D, Open \ D) \cup late
        BY <3>1, <3>2, <4>4
      <4> HIDE DEF late
      <4> QED BY <2>1, <3>2, <4>1, <4>2, <4>3, <4>5, DepartMaps
    <3> QED BY <2>1, <3>3, <3>4
  <2> QED BY <2>4, <2>5
<1> QED BY <1>2, <1>3, <1>4

(* A request is answered at once or awaits the release of a held lock.     *)
LEMMA LockNotificationMaps ==
  ASSUME IInv, NEW c \in Component, LockNotificationCallback(c)
  PROVE  Promise!Next \/ UNCHANGED Promise!svars
<1> DEFINE l == held[c].lock
           n == [comp |-> c, match |-> held[c].match]
<1>1. l \in LockName /\ n \in Notification /\ n.comp = c
  BY HeldRecord, RequestFields
  DEF LockNotificationCallback, IInv, Notification
<1>2. CASE lockDB.owner[l] # NoOwner
  <2> DEFINE d == RequestLockNotification(lockDB, l, n)
  <2>1. Finish(d, {})
    BY <1>2 DEF LockNotificationCallback
  <2> HIDE DEF l, n
  <2>2. Good(d) /\ Awaited(d) /\ d.owner = lockDB.owner
    BY <1>1, <1>2, RequestLockNotificationGood DEF IInv
  <2>3. /\ d.notify = [lockDB.notify EXCEPT ![l] = @ \cup {n}]
        /\ d.answered = lockDB.answered
        /\ d.notify \in [LockName -> SUBSET Notification]
        /\ d.owner \in [LockName -> Component \cup {NoOwner}]
    BY <1>1, <2>2 DEF RequestLockNotification, IInv, Good, LockTables
  <2> HIDE DEF d
  <2>4. /\ lockDB'.owner = [k \in LockName |->
             IF d.owner[k] \in {} THEN NoOwner ELSE d.owner[k]]
        /\ lockDB'.notify = [k \in LockName |->
             IF d.owner[k] \in {} THEN {}
             ELSE {m \in d.notify[k] : m.comp \notin {}}]
        /\ lockDB'.answered = d.answered \cup Told(d, {}, Open \ {})
        /\ Gone' = Gone \cup {}
    BY <2>1, <2>2, FinishMaps
  <2>5. Told(d, {}, Open \ {}) = {}
    BY DEF Told
  <2>6. \A k \in LockName : lockDB'.notify[k] = d.notify[k]
    BY <2>4
  <2>7. lockDB'.notify = [k \in LockName |-> lockDB'.notify[k]]
    BY <2>4
  <2>8. lockDB'.notify = d.notify
    BY <2>3, <2>6, <2>7
  <2>9. lockDB'.owner = lockDB.owner
    BY <2>2, <2>3, <2>4
  <2>10. Promise!Await(l, n)
    BY <1>2, <2>3, <2>4, <2>5, <2>8, <2>9 DEF Promise!Await, Gone
  <2> QED BY <1>1, <2>10 DEF Promise!Next
<1>3. CASE lockDB.owner[l] = NoOwner
  <2>1. PICK D \in Hangups({c}) :
        LET d == [lockDB EXCEPT !.answered = @ \cup
                    ({n} \cap [comp : Open \ D, match : 1..MaxMatch])]
        IN Finish(d, D) \/ Derail(d, OwnedBy(d, D), D)
    BY <1>3 DEF LockNotificationCallback
  <2> DEFINE a == {n} \cap [comp : Open \ D, match : 1..MaxMatch]
             d == [lockDB EXCEPT !.answered = @ \cup a]
  <2>2. D \in SUBSET Open /\ D \in SUBSET {c}
    BY DEF Hangups, Broken
  <2>3. a = IF c \in Open \ D THEN {n} ELSE {}
    BY <1>1 DEF Notification
  <2>4. d \in LockTables
    BY <1>1, <2>3 DEF IInv, Good, LockTables
  <2>5. /\ d.owner = lockDB.owner
        /\ d.listed = lockDB.listed
        /\ d.owned = lockDB.owned
        /\ d.notify = lockDB.notify
        /\ d.waits = lockDB.waits
        /\ d.answered = lockDB.answered \cup a
    BY DEF IInv, Good, LockTables
  <2>6. Finish(d, D) \/ Derail(d, OwnedBy(d, D), D)
    BY <2>1
  <2> HIDE DEF a, d, l, n
  <2>7. Good(d) /\ Awaited(d)
    BY <2>4, <2>5
    DEF IInv, Good, OwnersAgree, WaitersAgree, OwnersListed, Awaited
  <2>8. CASE Derail(d, OwnedBy(d, D), D)
    BY <2>8, DerailMaps
  <2>9. CASE Finish(d, D) /\ c \notin Open \ D
    <3>1. d.answered = lockDB.answered
      BY <2>3, <2>5, <2>9
    <3>2. \A k \in LockName :
            d.owner[k] = lockDB.owner[k] /\ d.notify[k] = lockDB.notify[k]
      BY <2>5
    <3> QED BY <2>2, <2>7, <2>9, <3>1, <3>2, SameMaps
  <2>10. CASE Finish(d, D) /\ c \in Open \ D
    <3>1. D = {}
      BY <2>2, <2>10
    <3>2. /\ lockDB'.owner = [k \in LockName |->
               IF d.owner[k] \in D THEN NoOwner ELSE d.owner[k]]
          /\ lockDB'.notify = [k \in LockName |->
               IF d.owner[k] \in D THEN {}
               ELSE {m \in d.notify[k] : m.comp \notin D}]
          /\ lockDB'.answered = d.answered \cup Told(d, D, Open \ D)
          /\ Gone' = Gone \cup D
      BY <2>2, <2>7, <2>10, FinishMaps
    <3>3. Told(d, D, Open \ D) = {}
      BY <3>1 DEF Told
    <3>4. /\ lockDB.notify \in [LockName -> SUBSET Notification]
          /\ lockDB.owner \in [LockName -> Component \cup {NoOwner}]
      BY DEF IInv, Good, LockTables
    <3>5. \A k \in LockName : lockDB'.notify[k] = lockDB.notify[k]
      BY <2>5, <3>1, <3>2
    <3>6. lockDB'.notify = [k \in LockName |-> lockDB'.notify[k]]
      BY <3>2
    <3>7. lockDB'.notify = lockDB.notify
      BY <3>4, <3>5, <3>6
    <3>8. lockDB'.owner = lockDB.owner
      BY <2>5, <3>1, <3>2, <3>4
    <3>9. c \notin Gone
      BY <2>10 DEF Open, Gone
    <3>10. lockDB'.answered = lockDB.answered \cup {n}
      BY <2>3, <2>5, <2>10, <3>2, <3>3
    <3>11. Promise!CallAtOnce(n)
      BY <1>1, <1>3, <3>1, <3>2, <3>7, <3>8, <3>9, <3>10
      DEF Promise!CallAtOnce, Gone
    <3> QED BY <1>1, <3>11 DEF Promise!Next
  <2> QED BY <2>6, <2>8, <2>9, <2>10
<1> QED BY <1>2, <1>3

(* Removals are departures.                                                *)
LEMMA RemovalMaps ==
  ASSUME IInv, NEW D \in SUBSET Open,
         Finish(lockDB, D) \/ Derail(lockDB, OwnedBy(lockDB, D), D)
  PROVE  Promise!Next \/ UNCHANGED Promise!svars
<1>1. CASE Finish(lockDB, D)
  <2>1. Good(lockDB) /\ Awaited(lockDB)
    BY DEF IInv
  <2> QED BY <1>1, <2>1, SameMaps
<1>2. CASE Derail(lockDB, OwnedBy(lockDB, D), D)
  BY <1>2, DerailMaps
<1> QED BY <1>1, <1>2

(* The tables implement the lock service: every step of the server and of  *)
(* its clients is a step of the service or leaves it alone.                *)
THEOREM Refinement == Spec => ImplementsLockService
<1>1. Init => Promise!Init
  BY DEF Init, ConnInit, Promise!Init
<1>2. IInv /\ [Next]_vars => [Promise!Next]_Promise!svars
  <2> SUFFICES ASSUME IInv, [Next]_vars
               PROVE  Promise!Next \/ UNCHANGED Promise!svars
    OBVIOUS
  <2>1. CASE UNCHANGED vars
    BY <2>1 DEF vars, Promise!svars
  <2>2. CASE \E c \in Component : ClientStep(c) \/ Handle(c) \/ Disconnect(c)
    <3> PICK c \in Component : ClientStep(c) \/ Handle(c) \/ Disconnect(c)
      BY <2>2
    <3>1. CASE ClientStep(c)
      <4>1. lockDB' = lockDB
        BY <3>1 DEF ClientStep, SendRequest, locksVars
      <4>2. Gone' = Gone
        BY <3>1 DEF ClientStep, SendRequest, Receive, Leave, Accept, Gone,
           IInv, ConnTypeOK
      <4> QED BY <4>1, <4>2 DEF Promise!svars, Gone
    <3>2. CASE LockRequestCallback(c)
      BY <3>2, LockRequestMaps
    <3>3. CASE LockReleaseCallback(c)
      BY <3>3, LockReleaseMaps
    <3>4. CASE LockNotificationCallback(c)
      BY <3>4, LockNotificationMaps
    <3>5. CASE Kill(c)
      BY <3>5, RemovalMaps DEF Kill
    <3>6. CASE Disconnect(c)
      <4>1. {c} \in SUBSET Open
        BY <3>6 DEF Disconnect, ReadFails, WriteFails, Broken, Open
      <4> QED BY <3>6, <4>1, RemovalMaps DEF Disconnect
    <3> QED BY <3>1, <3>2, <3>3, <3>4, <3>5, <3>6 DEF Handle
  <2> QED BY <2>1, <2>2 DEF Next
<1> QED BY <1>1, <1>2, Invariance, PTL DEF Spec, ImplementsLockService, Promise!Spec

-----------------------------------------------------------------------------
(***************************************************************************)
(* Every lock-release notification a connected client asked for is in one  *)
(* place: with its read thread, on the list of one lock, or written to it. *)
(* The proof follows one request through the tables: what the handlers,    *)
(* and the removals they end in, do to the lists it may be on.             *)
(***************************************************************************)

(* A request is in one place: with the read thread, which `isHeld' says,   *)
(* on the list of one lock, or answered.                                   *)
InOnePlace(isHeld, d, n) ==
  \/ isHeld /\ n \notin d.answered /\ \A l \in LockName : n \notin d.notify[l]
  \/ ~isHeld /\ n \in d.answered /\ \A l \in LockName : n \notin d.notify[l]
  \/ /\ ~isHeld /\ n \notin d.answered
     /\ \E l \in LockName : /\ n \in d.notify[l]
                            /\ \A k \in LockName : n \in d.notify[k] => k = l

(* It is in none of the tables.                                            *)
Nowhere(d, n) ==
  n \notin d.answered /\ \A l \in LockName : n \notin d.notify[l]

Req(c, m) == [comp |-> c, match |-> m]

(* The read thread of c holds its request with match m.                    *)
HoldsReq(c, m) ==
  held[c] # NoRequest /\ held[c].kind = "lockNotification" /\ held[c].match = m

(* Matches are used once, and only by those who have connected.            *)
Fresh ==
  \A c \in Component :
    /\ link[c] = "new" => lastMatch[c] = 0
    /\ \A m \in 1..MaxMatch : m > lastMatch[c] =>
         ~HoldsReq(c, m) /\ Nowhere(lockDB, Req(c, m))

Placed ==
  server = "running" =>
    \A c \in Open : \A m \in 1..lastMatch[c] :
      InOnePlace(HoldsReq(c, m), lockDB, Req(c, m))

(* What is added to IInv.                                                  *)
Tracked == Fresh /\ Placed

-----------------------------------------------------------------------------
(* One request in the tables.                                              *)

LEMMA ReqParts ==
  ASSUME NEW c \in Component, NEW m \in 1..MaxMatch
  PROVE  Req(c, m) \in Notification /\ Req(c, m).comp = c /\ Req(c, m).match = m
BY DEF Req, Notification

LEMMA OtherRequest ==
  ASSUME NEW b \in Component, NEW c \in Component, NEW k, NEW m,
         Req(b, k) = Req(c, m)
  PROVE  b = c /\ k = m
BY DEF Req

LEMMA InitTracked == Init => Tracked
<1> SUFFICES ASSUME Init PROVE Tracked
  OBVIOUS
<1>1. Fresh
  BY DEF Init, ConnInit, Fresh, HoldsReq, Nowhere
<1>2. Placed
  BY DEF Init, ConnInit, Placed, Open
<1> QED BY <1>1, <1>2 DEF Tracked

(* The removal of D moves the requests of the others from the lists of     *)
(* D's locks to the answered ones.                                         *)
LEMMA FinishMoves ==
  ASSUME IInv, NEW d, Good(d), Awaited(d), NEW D \in SUBSET Open, Finish(d, D)
  PROVE  /\ \A n : \A l \in LockName : n \in lockDB'.notify[l] <=>
              d.owner[l] \notin D /\ n \in d.notify[l] /\ n.comp \notin D
         /\ \A n : n \in lockDB'.answered <=>
              \/ n \in d.answered
              \/ /\ n.comp \in Open \ D
                 /\ \E l \in LockName : d.owner[l] \in D /\ n \in d.notify[l]
<1>1. /\ lockDB'.notify = [l \in LockName |->
           IF d.owner[l] \in D THEN {}
           ELSE {n \in d.notify[l] : n.comp \notin D}]
      /\ lockDB'.answered = d.answered \cup Told(d, D, Open \ D)
  BY FinishMaps
<1>2. \A n : \A l \in LockName : n \in lockDB'.notify[l] <=>
        d.owner[l] \notin D /\ n \in d.notify[l] /\ n.comp \notin D
  BY <1>1
<1>3. \A n : n \in Told(d, D, Open \ D) <=>
        /\ n.comp \in Open \ D
        /\ \E l \in LockName : d.owner[l] \in D /\ n \in d.notify[l]
  BY DEF Told
<1> QED BY <1>1, <1>2, <1>3

(* The handler may end with the tables d and the removal of the others     *)
(* than O: held' says whose request is still with a read thread.           *)
Ready(d, O) ==
  /\ \A c \in Component : \A m \in 1..MaxMatch : m > lastMatch[c] =>
       ~HoldsReq(c, m)' /\ Nowhere(d, Req(c, m))
  /\ \A c \in O : \A m \in 1..lastMatch[c] :
       InOnePlace(HoldsReq(c, m)', d, Req(c, m))

LEMMA FinishTracked ==
  ASSUME IInv, Tracked, NEW d, Good(d), Awaited(d), NEW D \in SUBSET Open,
         Ready(d, Open \ D), Finish(d, D), UNCHANGED lastMatch
  PROVE  Tracked'
<1>1. /\ \A n : \A l \in LockName : n \in lockDB'.notify[l] <=>
           d.owner[l] \notin D /\ n \in d.notify[l] /\ n.comp \notin D
      /\ \A n : n \in lockDB'.answered <=>
           \/ n \in d.answered
           \/ /\ n.comp \in Open \ D
              /\ \E l \in LockName : d.owner[l] \in D /\ n \in d.notify[l]
  BY FinishMoves
<1>2. /\ Open' = Open \ D
      /\ \A c \in Component : link'[c] = "new" => link[c] = "new"
  BY DEF Finish, Close, Open
<1>3. Fresh'
  <2> SUFFICES ASSUME NEW b \in Component
               PROVE  /\ link'[b] = "new" => lastMatch[b] = 0
                      /\ \A m \in 1..MaxMatch : m > lastMatch[b] =>
                           ~HoldsReq(b, m)' /\ Nowhere(lockDB', Req(b, m))
    BY DEF Fresh, Nowhere, Req
  <2>1. ASSUME NEW m \in 1..MaxMatch, m > lastMatch[b]
        PROVE  ~HoldsReq(b, m)' /\ Nowhere(lockDB', Req(b, m))
    <3>1. ~HoldsReq(b, m)' /\ Nowhere(d, Req(b, m))
      BY <2>1 DEF Ready
    <3> QED BY <1>1, <3>1 DEF Nowhere
  <2> QED BY <1>2, <2>1 DEF Tracked, Fresh
<1>4. Placed'
  <2> SUFFICES ASSUME NEW b \in Open \ D, NEW m \in 1..lastMatch[b]
               PROVE  InOnePlace(HoldsReq(b, m)', lockDB', Req(b, m))
    BY <1>2 DEF Placed, InOnePlace, Req
  <2>1. b \in Component /\ m \in 1..MaxMatch
    BY LocksAssumption DEF Open, IInv
  <2>2. InOnePlace(HoldsReq(b, m)', d, Req(b, m))
    BY DEF Ready
  <2>3. Req(b, m).comp = b
    BY <2>1, ReqParts
  <2> DEFINE n == Req(b, m)
             h == HoldsReq(b, m)'
  <2>4. /\ \A l \in LockName :
             n \in lockDB'.notify[l] <=> d.owner[l] \notin D /\ n \in d.notify[l]
        /\ n \in lockDB'.answered <=>
             \/ n \in d.answered
             \/ \E l \in LockName : d.owner[l] \in D /\ n \in d.notify[l]
    BY <1>1, <2>3
  <2>5. InOnePlace(h, d, n) /\ h \in BOOLEAN
    BY <2>2 DEF HoldsReq
  <2> HIDE DEF n, h
  <2>6. InOnePlace(h, lockDB', n)
    BY <2>4, <2>5 DEF InOnePlace
  <2> QED BY <2>6 DEF n, h
<1> QED BY <1>3, <1>4 DEF Tracked

(* Undefined behaviour: nothing is claimed any more of what was placed.    *)
LEMMA DerailTracked ==
  ASSUME IInv, Tracked, NEW d, NEW S, NEW D, Derail(d, S, D),
         UNCHANGED lastMatch,
         \A c \in Component : \A m \in 1..MaxMatch :
            HoldsReq(c, m)' => HoldsReq(c, m)
  PROVE  Tracked'
<1>1. server' = "undefined" /\ UNCHANGED <<link, lockDB>>
  BY DEF Derail
<1>2. Fresh'
  BY <1>1 DEF Tracked, Fresh, Nowhere, Req
<1>3. Placed'
  BY <1>1 DEF Placed
<1> QED BY <1>2, <1>3 DEF Tracked

-----------------------------------------------------------------------------
(* The handlers.                                                           *)

LEMMA MatchUsed ==
  ASSUME IInv, Tracked, NEW c \in Component, NEW m \in 1..MaxMatch,
         HoldsReq(c, m)
  PROVE  m \in 1..lastMatch[c]
<1>1. ~(m > lastMatch[c])
  BY DEF Tracked, Fresh
<1>2. lastMatch[c] \in 0..MaxMatch
  BY DEF IInv
<1> QED BY <1>1, <1>2, LocksAssumption

LEMMA ConsumedHeld ==
  ASSUME IInv, NEW c \in Component, Consumed(c)
  PROVE  \A b \in Component : \A m :
            HoldsReq(b, m)' <=> b # c /\ HoldsReq(b, m)
<1>1. \A b \in Component : held'[b] = IF b = c THEN NoRequest ELSE held[b]
  BY DEF IInv, ConnTypeOK, Consumed
<1> QED BY <1>1 DEF HoldsReq

(* The tables say of a request what they said before.                      *)
SamePlaces(d, n) ==
  /\ n \in d.answered <=> n \in lockDB.answered
  /\ \A l \in LockName : n \in d.notify[l] <=> n \in lockDB.notify[l]

(* A handler that changes nothing but the place of the request it consumes.*)
LEMMA ConsumeReady ==
  ASSUME IInv, Tracked, server = "running", NEW c \in Component, Consumed(c),
         NEW m \in 1..MaxMatch, HoldsReq(c, m), NEW d, NEW D \in SUBSET Open,
         \A n : n # Req(c, m) => SamePlaces(d, n),
         c \in Open \ D => InOnePlace(FALSE, d, Req(c, m))
  PROVE  Ready(d, Open \ D)
<1>1. \A b \in Component : \A k : HoldsReq(b, k)' <=> b # c /\ HoldsReq(b, k)
  BY ConsumedHeld
<1>2. m \in 1..lastMatch[c] /\ lastMatch[c] \in 0..MaxMatch
  BY MatchUsed DEF IInv
<1>3. ASSUME NEW b \in Component, NEW k \in 1..MaxMatch, k > lastMatch[b]
      PROVE  ~HoldsReq(b, k)' /\ Nowhere(d, Req(b, k))
  <2>1. ~HoldsReq(b, k) /\ Nowhere(lockDB, Req(b, k))
    BY <1>3 DEF Tracked, Fresh
  <2>2. b # c \/ k # m
    BY <1>2, <1>3
  <2>3. Req(b, k) # Req(c, m)
    BY <2>2, OtherRequest
  <2>4. Nowhere(d, Req(b, k))
    BY <2>1, <2>3 DEF Nowhere, SamePlaces
  <2> QED BY <1>1, <2>1, <2>4
<1>4. ASSUME NEW b \in Open \ D, NEW k \in 1..lastMatch[b]
      PROVE  InOnePlace(HoldsReq(b, k)', d, Req(b, k))
  <2>0. b \in Component /\ b \in Open
    BY DEF Open
  <2>1. InOnePlace(HoldsReq(b, k), lockDB, Req(b, k))
    BY <2>0 DEF Tracked, Placed
  <2>2. CASE Req(b, k) = Req(c, m)
    <3>1. b = c /\ k = m
      BY <2>0, <2>2, OtherRequest
    <3>2. ~HoldsReq(b, k)' /\ InOnePlace(FALSE, d, Req(b, k))
      BY <1>1, <2>2, <3>1
    <3> QED BY <3>2 DEF InOnePlace
  <2>3. CASE Req(b, k) # Req(c, m)
    <3>1. b # c \/ k # m
      BY <2>3
    <3>2. HoldsReq(b, k)' <=> HoldsReq(b, k)
      BY <1>1, <2>0, <3>1 DEF HoldsReq
    <3>3. SamePlaces(d, Req(b, k))
      BY <2>3
    <3> QED BY <2>1, <3>2, <3>3 DEF InOnePlace, SamePlaces
  <2> QED BY <2>2, <2>3
<1> QED BY <1>3, <1>4 DEF Ready

(* The release of a lock, by a handler that consumes no request: those who *)
(* wait for it are answered, the others are where they were.  With S empty *)
(* nothing moves.                                                          *)
LEMMA ReleaseReady ==
  ASSUME IInv, Tracked, server = "running", NEW D \in SUBSET Open,
         \A b \in Component : \A m : HoldsReq(b, m)' <=> HoldsReq(b, m),
         NEW d, NEW S \in SUBSET LockName,
         \A n : \A l \in LockName : n \in d.notify[l] <=>
           l \notin S /\ n \in lockDB.notify[l],
         \A n : n \in d.answered <=>
           \/ n \in lockDB.answered
           \/ n.comp \in Open /\ \E l \in S : n \in lockDB.notify[l]
  PROVE  Ready(d, Open \ D)
<1>1. ASSUME NEW b \in Component, NEW m \in 1..MaxMatch, m > lastMatch[b]
      PROVE  ~HoldsReq(b, m)' /\ Nowhere(d, Req(b, m))
  <2>1. ~HoldsReq(b, m) /\ Nowhere(lockDB, Req(b, m))
    BY <1>1 DEF Tracked, Fresh
  <2> QED BY <2>1 DEF Nowhere
<1>2. ASSUME NEW b \in Open, NEW m \in 1..lastMatch[b]
      PROVE  InOnePlace(HoldsReq(b, m)', d, Req(b, m))
  <2> DEFINE n == Req(b, m)
             h == HoldsReq(b, m)
  <2>1. n.comp = b /\ b \in Component
    BY DEF Open, Req
  <2>2. InOnePlace(h, lockDB, n)
    BY DEF Tracked, Placed
  <2>3. /\ \A l \in LockName : n \in d.notify[l] <=>
             l \notin S /\ n \in lockDB.notify[l]
        /\ n \in d.answered <=>
             n \in lockDB.answered \/ \E l \in S : n \in lockDB.notify[l]
    BY <2>1
  <2>4. HoldsReq(b, m)' <=> h
    BY <2>1
  <2> HIDE DEF n, h
  <2>5. InOnePlace(HoldsReq(b, m)', d, n)
    BY <2>2, <2>3, <2>4 DEF InOnePlace
  <2> QED BY <2>5 DEF n
<1> QED BY <1>1, <1>2 DEF Ready

(* A handler whose tables have the same lists of requests.                 *)
LEMMA SameReady ==
  ASSUME IInv, Tracked, server = "running", NEW D \in SUBSET Open,
         \A b \in Component : \A m : HoldsReq(b, m)' <=> HoldsReq(b, m),
         NEW d, d.notify = lockDB.notify, d.answered = lockDB.answered
  PROVE  Ready(d, Open \ D)
<1>1. /\ \A n : \A l \in LockName : n \in d.notify[l] <=>
           l \notin {} /\ n \in lockDB.notify[l]
      /\ \A n : n \in d.answered <=>
           \/ n \in lockDB.answered
           \/ n.comp \in Open /\ \E l \in {} : n \in lockDB.notify[l]
      /\ {} \in SUBSET LockName
  OBVIOUS
<1> QED BY <1>1, ReleaseReady

(* A handler of another kind of record takes no request from its thread.   *)
LEMMA OtherKindHeld ==
  ASSUME IInv, NEW c \in Component, Consumed(c),
         held[c].kind # "lockNotification"
  PROVE  \A b \in Component : \A m : HoldsReq(b, m)' <=> HoldsReq(b, m)
BY ConsumedHeld DEF HoldsReq

LEMMA LockRequestTracked ==
  ASSUME IInv, Tracked, NEW c \in Component, LockRequestCallback(c)
  PROVE  Tracked'
<1> DEFINE l == held[c].lock
           d == GetLock(lockDB, l, c)
<1>1. /\ l \in LockName /\ server = "running" /\ Consumed(c)
      /\ held[c].kind # "lockNotification" /\ UNCHANGED lastMatch
  BY HeldRecord, RequestFields DEF LockRequestCallback, IInv, Consuming
<1>2. PICK D \in Hangups({c}) : Finish(d, D) \/ Derail(d, OwnedBy(d, D), D)
  BY DEF LockRequestCallback
<1>3. D \in SUBSET Open
  BY DEF Hangups, Broken
<1> HIDE DEF l
<1>4. Good(d) /\ Awaited(d)
  BY <1>1, GetLockGood DEF IInv
<1>5. d.notify = lockDB.notify /\ d.answered = lockDB.answered
  BY DEF GetLock, IInv, Good, LockTables
<1> HIDE DEF d
<1>6. \A b \in Component : \A m : HoldsReq(b, m)' <=> HoldsReq(b, m)
  BY <1>1, OtherKindHeld
<1>7. Ready(d, Open \ D)
  BY <1>1, <1>3, <1>5, <1>6, SameReady
<1>8. CASE Finish(d, D)
  BY <1>1, <1>3, <1>4, <1>7, <1>8, FinishTracked
<1>9. CASE Derail(d, OwnedBy(d, D), D)
  BY <1>1, <1>6, <1>9, DerailTracked
<1> QED BY <1>2, <1>8, <1>9

LEMMA LockReleaseTracked ==
  ASSUME IInv, Tracked, NEW c \in Component, LockReleaseCallback(c)
  PROVE  Tracked'
<1> DEFINE l == held[c].lock
           d == ReleaseLock(lockDB, l, c, Open)
<1>1. /\ l \in LockName /\ server = "running" /\ Consumed(c)
      /\ held[c].kind # "lockNotification" /\ UNCHANGED lastMatch
  BY HeldRecord, RequestFields DEF LockReleaseCallback, IInv, Consuming
<1>2. \/ \E D \in Hangups({c}) : Finish(d, D)
      \/ \E f, S, D : Derail(f, S, D)
  BY DEF LockReleaseCallback
<1> HIDE DEF l
<1>3. Good(d) /\ Awaited(d)
  BY <1>1, ReleaseLockGood DEF IInv
<1>4. \A b \in Component : \A m : HoldsReq(b, m)' <=> HoldsReq(b, m)
  BY <1>1, OtherKindHeld
<1>5. CASE \E f, S, D : Derail(f, S, D)
  BY <1>1, <1>4, <1>5, DerailTracked
<1>6. ASSUME NEW D \in Hangups({c}), Finish(d, D)
      PROVE  Tracked'
  <2>1. D \in SUBSET Open
    BY DEF Hangups, Broken
  <2>2. Ready(d, Open \ D)
    <3>1. CASE lockDB.owner[l] # c
      <4>1. d = lockDB
        BY <3>1 DEF ReleaseLock
      <4> HIDE DEF d
      <4> QED BY <1>1, <1>4, <2>1, <4>1, SameReady
    <3>2. CASE lockDB.owner[l] = c
      <4> DEFINE f == [lockDB EXCEPT !.owner[l] = NoOwner, !.owned[c] = @ \ {l}]
      <4>1. /\ f.notify = lockDB.notify /\ f.answered = lockDB.answered
            /\ f \in LockTables
        BY DEF IInv, Good, LockTables
      <4>2. c \in lockDB.listed
        BY <1>1, <3>2 DEF IInv, Good, OwnersAgree, OwnersListed
      <4>3. d = SendLockNotifications(f, {l}, Open)
        BY <3>2, <4>2 DEF ReleaseLock
      <4> HIDE DEF d, f
      <4>4. /\ d.notify = [k \in LockName |->
                             IF k \in {l} THEN {} ELSE f.notify[k]]
            /\ d.answered = f.answered \cup
                 {n \in UNION {f.notify[k] : k \in {l}} : n.comp \in Open}
        BY <4>1, <4>3 DEF SendLockNotifications, LockTables
      <4>5. /\ \A n : \A k \in LockName : n \in d.notify[k] <=>
                 k \notin {l} /\ n \in lockDB.notify[k]
            /\ \A n : n \in d.answered <=>
                 \/ n \in lockDB.answered
                 \/ n.comp \in Open /\ \E k \in {l} : n \in lockDB.notify[k]
            /\ {l} \in SUBSET LockName
        BY <1>1, <4>1, <4>4
      <4> QED BY <1>1, <1>4, <2>1, <4>5, ReleaseReady
    <3> QED BY <3>1, <3>2
  <2> HIDE DEF d
  <2> QED BY <1>1, <1>3, <1>6, <2>1, <2>2, FinishTracked
<1> QED BY <1>2, <1>5, <1>6

LEMMA LockNotificationTracked ==
  ASSUME IInv, Tracked, NEW c \in Component, LockNotificationCallback(c)
  PROVE  Tracked'
<1> DEFINE l == held[c].lock
           m == held[c].match
           n == Req(c, m)
<1>1. /\ l \in LockName /\ m \in 1..MaxMatch /\ HoldsReq(c, m)
      /\ server = "running" /\ Consumed(c) /\ UNCHANGED lastMatch
  BY HeldRecord, RequestFields
  DEF LockNotificationCallback, IInv, Consuming, HoldsReq
<1>2. n \in Notification /\ n.comp = c
  BY <1>1, ReqParts
<1>3. c \in Open => n \notin lockDB.answered
                    /\ \A k \in LockName : n \notin lockDB.notify[k]
  BY <1>1, MatchUsed DEF Tracked, Placed, InOnePlace
<1>4. \A b \in Component : \A k \in 1..MaxMatch :
        HoldsReq(b, k)' => HoldsReq(b, k)
  BY <1>1, ConsumedHeld
<1>5. \/ /\ lockDB.owner[l] # NoOwner
         /\ Finish(RequestLockNotification(lockDB, l, n), {})
      \/ \E D \in Hangups({c}) :
           LET d == [lockDB EXCEPT !.answered = @ \cup ({n} \cap
                       [comp : Open \ D, match : 1..MaxMatch])]
           IN Finish(d, D) \/ Derail(d, OwnedBy(d, D), D)
  BY DEF LockNotificationCallback, Req
<1> HIDE DEF l, m, n
<1>6. CASE /\ lockDB.owner[l] # NoOwner
           /\ Finish(RequestLockNotification(lockDB, l, n), {})
  <2> DEFINE d == RequestLockNotification(lockDB, l, n)
  <2>1. Good(d) /\ Awaited(d)
    BY <1>1, <1>2, <1>6, RequestLockNotificationGood DEF IInv
  <2>2. /\ d.notify = [lockDB.notify EXCEPT ![l] = @ \cup {n}]
        /\ d.answered = lockDB.answered
        /\ lockDB.notify \in [LockName -> SUBSET Notification]
    BY <1>1 DEF RequestLockNotification, IInv, Good, LockTables
  <2>3. Finish(d, {})
    BY <1>6
  <2> HIDE DEF d
  <2>4. \A k \in LockName :
          d.notify[k] = lockDB.notify[k] \cup (IF k = l THEN {n} ELSE {})
    BY <2>2
  <2>5. \A x : x # n => SamePlaces(d, x)
    BY <2>2, <2>4 DEF SamePlaces
  <2>6. c \in Open \ {} => InOnePlace(FALSE, d, n)
    BY <1>1, <1>3, <2>2, <2>4 DEF InOnePlace
  <2>7. Ready(d, Open \ {})
    BY <1>1, <2>5, <2>6, ConsumeReady DEF n
  <2> QED BY <1>1, <2>1, <2>3, <2>7, FinishTracked
<1>7. ASSUME NEW D \in Hangups({c}),
             LET d == [lockDB EXCEPT !.answered = @ \cup ({n} \cap
                         [comp : Open \ D, match : 1..MaxMatch])]
             IN Finish(d, D) \/ Derail(d, OwnedBy(d, D), D)
      PROVE  Tracked'
  <2> DEFINE a == {n} \cap [comp : Open \ D, match : 1..MaxMatch]
             d == [lockDB EXCEPT !.answered = @ \cup a]
  <2>1. Finish(d, D) \/ Derail(d, OwnedBy(d, D), D)
    BY <1>7
  <2>2. a = IF c \in Open \ D THEN {n} ELSE {}
    BY <1>2 DEF Notification
  <2>3. d \in LockTables
    BY <1>2, <2>2 DEF IInv, Good, LockTables
  <2>4. /\ d.owner = lockDB.owner
        /\ d.listed = lockDB.listed
        /\ d.owned = lockDB.owned
        /\ d.notify = lockDB.notify
        /\ d.waits = lockDB.waits
        /\ d.answered = lockDB.answered \cup a
    BY DEF IInv, Good, LockTables
  <2> HIDE DEF a, d
  <2>5. Good(d) /\ Awaited(d)
    BY <2>3, <2>4
    DEF IInv, Good, OwnersAgree, WaitersAgree, OwnersListed, Awaited
  <2>6. D \in SUBSET Open
    BY DEF Hangups, Broken
  <2>7. \A x : x # n => SamePlaces(d, x)
    BY <2>2, <2>4 DEF SamePlaces
  <2>8. c \in Open \ D => InOnePlace(FALSE, d, n)
    BY <1>3, <2>2, <2>4 DEF InOnePlace
  <2>9. Ready(d, Open \ D)
    BY <1>1, <2>6, <2>7, <2>8, ConsumeReady DEF n
  <2>10. CASE Finish(d, D)
    BY <1>1, <2>5, <2>6, <2>9, <2>10, FinishTracked
  <2>11. CASE Derail(d, OwnedBy(d, D), D)
    BY <1>1, <1>4, <2>11, DerailTracked
  <2> QED BY <2>1, <2>10, <2>11
<1> QED BY <1>5, <1>6, <1>7

(* The removal of D, by a handler that is not about requests.              *)
LEMMA RemovalTracked ==
  ASSUME IInv, Tracked, server = "running", NEW D \in SUBSET Open,
         Finish(lockDB, D) \/ Derail(lockDB, OwnedBy(lockDB, D), D),
         \A b \in Component : \A m : HoldsReq(b, m)' <=> HoldsReq(b, m),
         UNCHANGED lastMatch
  PROVE  Tracked'
<1>1. Good(lockDB) /\ Awaited(lockDB)
  BY DEF IInv
<1>2. Ready(lockDB, Open \ D)
  BY SameReady
<1>3. CASE Finish(lockDB, D)
  BY <1>1, <1>2, <1>3, FinishTracked
<1>4. CASE Derail(lockDB, OwnedBy(lockDB, D), D)
  BY <1>4, DerailTracked
<1> QED BY <1>3, <1>4

-----------------------------------------------------------------------------
(* The clients.                                                            *)

LEMMA SendRequestTracked ==
  ASSUME IInv, Tracked, NEW c \in Component, NEW r \in Request,
         SendRequest(c, r)
  PROVE  Tracked'
<1>1. /\ held[c] = NoRequest /\ held' = [held EXCEPT ![c] = r]
      /\ UNCHANGED <<link, server, lockDB>> /\ r # NoRequest
      /\ c \in Open
  BY LocksAssumption DEF SendRequest, Receive, Open
<1>2. /\ held \in [Component -> Request \cup {NoRequest}]
      /\ lastMatch \in [Component -> 0..MaxMatch]
  BY DEF IInv, ConnTypeOK
<1>3. \A b \in Component : held'[b] = IF b = c THEN r ELSE held[b]
  BY <1>1, <1>2
<1>4. Open' = Open
  BY <1>1 DEF Open
<1>5. CASE r.kind = "lockNotification"
  <2> DEFINE m == lastMatch[c] + 1
  <2>1. /\ r.match = m /\ lastMatch' = [lastMatch EXCEPT ![c] = m]
        /\ r.match \in 1..MaxMatch
    BY <1>5, RequestFields DEF SendRequest
  <2>2. m \in 1..MaxMatch
    BY <2>1
  <2> HIDE DEF m
  <2>3. \A b \in Component :
          lastMatch'[b] = IF b = c THEN m ELSE lastMatch[b]
    BY <1>2, <2>1
  <2>4. \A b \in Component : \A k :
          HoldsReq(b, k)' <=> HoldsReq(b, k) \/ (b = c /\ k = m)
    BY <1>1, <1>3, <1>5, <2>1 DEF HoldsReq
  <2>5. Fresh'
    <3> SUFFICES ASSUME NEW b \in Component
                 PROVE  /\ link[b] = "new" => lastMatch'[b] = 0
                        /\ \A k \in 1..MaxMatch : k > lastMatch'[b] =>
                             ~HoldsReq(b, k)' /\ Nowhere(lockDB, Req(b, k))
      BY <1>1 DEF Fresh, Nowhere, Req
    <3>1. link[b] = "new" => lastMatch'[b] = 0
      BY <1>1, <2>3 DEF Tracked, Fresh, Open
    <3>2. ASSUME NEW k \in 1..MaxMatch, k > lastMatch'[b]
          PROVE  ~HoldsReq(b, k)' /\ Nowhere(lockDB, Req(b, k))
      <4>1. k > lastMatch[b] /\ ~(b = c /\ k = m)
        BY <1>2, <2>2, <2>3, <3>2, LocksAssumption DEF m
      <4> QED BY <2>4, <4>1 DEF Tracked, Fresh
    <3> QED BY <3>1, <3>2
  <2>6. Placed'
    <3> SUFFICES ASSUME server = "running",
                        NEW b \in Open, NEW k \in 1..lastMatch'[b]
                 PROVE  InOnePlace(HoldsReq(b, k)', lockDB, Req(b, k))
      BY <1>1, <1>4 DEF Placed, InOnePlace, Req
    <3>0. b \in Component
      BY DEF Open
    <3>1. CASE b = c /\ k = m
      <4>1. HoldsReq(b, k)'
        BY <2>4, <3>0, <3>1
      <4>2. m > lastMatch[c]
        BY <1>2 DEF m
      <4>3. Nowhere(lockDB, Req(b, k))
        BY <2>2, <3>0, <3>1, <4>2 DEF Tracked, Fresh
      <4> QED BY <4>1, <4>3 DEF InOnePlace, Nowhere
    <3>2. CASE ~(b = c /\ k = m)
      <4>1. k \in 1..lastMatch[b]
        BY <1>2, <2>3, <3>0, <3>2, LocksAssumption DEF m
      <4>2. InOnePlace(HoldsReq(b, k), lockDB, Req(b, k))
        BY <4>1 DEF Tracked, Placed
      <4>3. HoldsReq(b, k)' <=> HoldsReq(b, k)
        BY <2>4, <3>0, <3>2 DEF HoldsReq
      <4> QED BY <4>2, <4>3 DEF InOnePlace
    <3> QED BY <3>1, <3>2
  <2> QED BY <2>5, <2>6 DEF Tracked
<1>6. CASE r.kind # "lockNotification"
  <2>1. UNCHANGED lastMatch
    BY <1>6 DEF SendRequest
  <2>2. \A b \in Component : \A k : HoldsReq(b, k)' <=> HoldsReq(b, k)
    BY <1>1, <1>3, <1>6 DEF HoldsReq
  <2>3. Fresh'
    BY <1>1, <2>1, <2>2 DEF Tracked, Fresh, Nowhere, Req
  <2>4. Placed'
    <3> SUFFICES ASSUME server = "running",
                        NEW b \in Open, NEW k \in 1..lastMatch[b]
                 PROVE  InOnePlace(HoldsReq(b, k)', lockDB, Req(b, k))
      BY <1>1, <1>4, <2>1 DEF Placed, InOnePlace, Req
    <3>1. InOnePlace(HoldsReq(b, k), lockDB, Req(b, k))
      BY DEF Tracked, Placed
    <3>2. HoldsReq(b, k)' <=> HoldsReq(b, k)
      BY <2>2 DEF Open
    <3> QED BY <3>1, <3>2 DEF InOnePlace
  <2> QED BY <2>3, <2>4 DEF Tracked
<1> QED BY <1>5, <1>6

(* A step that leaves the tables, the requests that are held and the       *)
(* matches alone, and connects only newcomers.                             *)
LEMMA QuietTracked ==
  ASSUME IInv, Tracked, UNCHANGED <<held, server, lockDB, lastMatch>>,
         \A c \in Component : /\ link'[c] = "new" => link[c] = "new"
                              /\ link'[c] = "open" =>
                                   link[c] = "open" \/ link[c] = "new"
  PROVE  Tracked'
<1>1. Fresh'
  BY DEF Tracked, Fresh, HoldsReq, Nowhere, Req
<1>2. Placed'
  <2> SUFFICES ASSUME server' = "running",
                      NEW b \in Open', NEW k \in 1..lastMatch'[b]
               PROVE  InOnePlace(HoldsReq(b, k)', lockDB', Req(b, k))
    BY DEF Placed, Req
  <2>1. /\ server = "running" /\ k \in 1..lastMatch[b] /\ lockDB' = lockDB
        /\ HoldsReq(b, k)' <=> HoldsReq(b, k)
    BY DEF HoldsReq
  <2>2. b \in Component /\ (link[b] = "open" \/ link[b] = "new")
    BY DEF Open
  <2>3. link[b] # "new"
    BY <2>1, <2>2 DEF Tracked, Fresh
  <2>4. b \in Open
    BY <2>2, <2>3 DEF Open
  <2>5. InOnePlace(HoldsReq(b, k), lockDB, Req(b, k))
    BY <2>1, <2>4 DEF Tracked, Placed
  <2> QED BY <2>1, <2>5 DEF InOnePlace
<1> QED BY <1>1, <1>2 DEF Tracked

LEMMA ClientStepTracked ==
  ASSUME IInv, Tracked, NEW c \in Component, ClientStep(c)
  PROVE  Tracked'
<1>1. ASSUME NEW r \in Request, SendRequest(c, r)
      PROVE  Tracked'
  BY <1>1, SendRequestTracked
<1>2. ASSUME NEW how \in {"down", "lost"}, Leave(c, how), UNCHANGED locksVars
      PROVE  Tracked'
  BY <1>2, QuietTracked DEF Leave, locksVars
<1>3. ASSUME Accept(c), UNCHANGED locksVars
      PROVE  Tracked'
  <2>1. /\ UNCHANGED <<held, server, lockDB, lastMatch>>
        /\ link[c] = "new"
        /\ \A b \in Component : link'[b] = IF b = c THEN "open" ELSE link[b]
    BY <1>3 DEF IInv, ConnTypeOK, Accept, locksVars
  <2> QED BY <2>1, QuietTracked
<1> QED BY <1>1, <1>2, <1>3 DEF ClientStep

LEMMA NextTracked == IInv /\ Tracked /\ [Next]_vars => Tracked'
<1> SUFFICES ASSUME IInv, Tracked, [Next]_vars PROVE Tracked'
  OBVIOUS
<1>1. ASSUME NEW c \in Component, ClientStep(c) PROVE Tracked'
  BY <1>1, ClientStepTracked
<1>2. ASSUME NEW c \in Component, Kill(c) PROVE Tracked'
  <2> DEFINE D == {held[c].target} \cap Open
  <2>1. /\ server = "running" /\ Consumed(c)
        /\ held[c].kind # "lockNotification" /\ UNCHANGED lastMatch
        /\ Finish(lockDB, D) \/ Derail(lockDB, OwnedBy(lockDB, D), D)
    BY <1>2 DEF Kill, Consuming
  <2>2. D \in SUBSET Open
    OBVIOUS
  <2> HIDE DEF D
  <2>3. \A b \in Component : \A m : HoldsReq(b, m)' <=> HoldsReq(b, m)
    BY <2>1, OtherKindHeld
  <2> QED BY <2>1, <2>2, <2>3, RemovalTracked
<1>3. ASSUME NEW c \in Component, Disconnect(c) PROVE Tracked'
  <2>1. /\ server = "running" /\ {c} \in SUBSET Open
        /\ UNCHANGED <<held, lastMatch>>
        /\ Finish(lockDB, {c}) \/ Derail(lockDB, OwnedBy(lockDB, {c}), {c})
    BY <1>3 DEF Disconnect, ReadFails, WriteFails, Broken, Open
  <2>2. \A b \in Component : \A m : HoldsReq(b, m)' <=> HoldsReq(b, m)
    BY <2>1 DEF HoldsReq
  <2> QED BY <2>1, <2>2, RemovalTracked
<1>4. ASSUME NEW c \in Component, Handle(c) PROVE Tracked'
  BY <1>2, <1>4, LockRequestTracked, LockReleaseTracked,
     LockNotificationTracked DEF Handle
<1>5. CASE UNCHANGED vars
  BY <1>5, QuietTracked DEF vars
<1> QED BY <1>1, <1>3, <1>4, <1>5 DEF Next

-----------------------------------------------------------------------------
(* The theorems.                                                           *)

(* A match is used once, and while the server runs every request of a      *)
(* connected component is in one place.                                    *)
THEOREM RequestsTracked == Spec => []Tracked
  BY InitTracked, NextTracked, Invariance, PTL DEF Spec

(* Who is in one place is in one of the three sets of Whereabouts.         *)
LEMMA OneWhereabout ==
  ASSUME NEW c \in Component, NEW m,
         InOnePlace(HoldsReq(c, m), lockDB, Req(c, m))
  PROVE  \E x : Whereabouts(Req(c, m)) = {x}
<1> DEFINE n == Req(c, m)
           H == {<<"held">> : x \in {r \in {held[n.comp]} \ {NoRequest} :
                     r.kind = "lockNotification" /\ r.match = n.match}}
           W == {<<"waits", l>> : l \in {k \in LockName :
                                           n \in lockDB.notify[k]}}
           A == {<<"answered">> : x \in {n} \cap lockDB.answered}
<1>1. Whereabouts(n) = H \cup W \cup A
  BY DEF Whereabouts
<1>2. n.comp = c /\ n.match = m
  BY DEF Req
<1>3. /\ HoldsReq(c, m) => H = {<<"held">>}
      /\ ~HoldsReq(c, m) => H = {}
  BY <1>2 DEF HoldsReq
<1>4. /\ n \in lockDB.answered => A = {<<"answered">>}
      /\ n \notin lockDB.answered => A = {}
  OBVIOUS
<1>5. (\A l \in LockName : n \notin lockDB.notify[l]) => W = {}
  OBVIOUS
<1>6. ASSUME NEW l \in LockName, n \in lockDB.notify[l],
             \A k \in LockName : n \in lockDB.notify[k] => k = l
      PROVE  W = {<<"waits", l>>}
  BY <1>6
<1>7. InOnePlace(HoldsReq(c, m), lockDB, n)
  OBVIOUS
<1> HIDE DEF n, H, W, A
<1>8. CASE HoldsReq(c, m)
  <2>1. H = {<<"held">>} /\ W = {} /\ A = {}
    BY <1>3, <1>4, <1>5, <1>7, <1>8 DEF InOnePlace
  <2> QED BY <1>1, <2>1 DEF n
<1>9. CASE ~HoldsReq(c, m) /\ n \in lockDB.answered
  <2>1. H = {} /\ W = {} /\ A = {<<"answered">>}
    BY <1>3, <1>4, <1>5, <1>7, <1>9 DEF InOnePlace
  <2> QED BY <1>1, <2>1 DEF n
<1>10. CASE ~HoldsReq(c, m) /\ n \notin lockDB.answered
  <2>1. PICK l \in LockName :
          /\ n \in lockDB.notify[l]
          /\ \A k \in LockName : n \in lockDB.notify[k] => k = l
    BY <1>7, <1>10 DEF InOnePlace
  <2>2. H = {} /\ W = {<<"waits", l>>} /\ A = {}
    BY <1>3, <1>4, <1>6, <1>10, <2>1
  <2> QED BY <1>1, <2>2 DEF n
<1> QED BY <1>8, <1>9, <1>10

(* No request of a connected component for the release of a lock is lost,  *)
(* and none is answered twice, whoever releases the lock, exits or is      *)
(* killed in between (szgserver.cpp:1515, 317 and 399).                    *)
THEOREM NoNotificationLost == Spec => []NotificationsAccounted
<1>1. Tracked => NotificationsAccounted
  <2> SUFFICES ASSUME Tracked, server = "running",
                      NEW c \in Open, NEW m \in 1..lastMatch[c]
               PROVE  \E w \in {Whereabouts(Req(c, m))} : \E x \in w : w = {x}
    BY DEF NotificationsAccounted, Req
  <2>1. c \in Component
    BY DEF Open
  <2>2. InOnePlace(HoldsReq(c, m), lockDB, Req(c, m))
    BY DEF Tracked, Placed
  <2>3. PICK x : Whereabouts(Req(c, m)) = {x}
    BY <2>1, <2>2, OneWhereabout
  <2> QED BY <2>3
<1> QED BY <1>1, RequestsTracked, PTL
=============================================================================
