--------------------------- MODULE SzgKills_proofs ---------------------------
(***************************************************************************)
(* Theorems about SzgKills, for any number of components and requests: the *)
(* types, the agreement of the two tables, and that every request is in    *)
(* one place.  First what the operators do to the tables, then the steps.  *)
(***************************************************************************)
EXTENDS SzgKills, TLAPS

WatchersAgree(d) ==
  \A x, c \in Component :
    (\E n \in d.watchers[x] : n.comp = c) <=> x \in d.watching[c]

(* Tables of the right type, whose maps agree.                             *)
Good(d) == d \in KillTables /\ WatchersAgree(d)

(* Only components in O are observed.                                      *)
Observed(d, O) == \A x \in Component : d.watchers[x] # {} => x \in O

(* A request is in one place: with the read thread, which `isHeld' says,   *)
(* on the list of one component, or answered.                              *)
InOnePlace(isHeld, d, n) ==
  \/ isHeld /\ n \notin d.answered /\ \A x \in Component : n \notin d.watchers[x]
  \/ ~isHeld /\ n \in d.answered /\ \A x \in Component : n \notin d.watchers[x]
  \/ /\ ~isHeld /\ n \notin d.answered
     /\ \E x \in Component : /\ n \in d.watchers[x]
                             /\ \A y \in Component : n \in d.watchers[y] => y = x

(* It is in none of the tables.                                            *)
Nowhere(d, n) ==
  n \notin d.answered /\ \A x \in Component : n \notin d.watchers[x]

-----------------------------------------------------------------------------
(* The operators on the tables.                                            *)

LEMMA NotificationParts ==
  ASSUME NEW n \in Notification
  PROVE  n.comp \in Component /\ n.match \in 1..MaxMatch
BY DEF Notification

LEMMA TableParts ==
  ASSUME NEW d \in KillTables
  PROVE  /\ d.watchers \in [Component -> SUBSET Notification]
         /\ d.watching \in [Component -> SUBSET Component]
         /\ d.answered \subseteq Notification
BY DEF KillTables

LEMMA RequestGood ==
  ASSUME NEW d, Good(d), NEW x \in Component, NEW n \in Notification
  PROVE  LET e == RequestKillNotification(d, x, n)
         IN  /\ Good(e)
             /\ e.answered = d.answered
             /\ \A y \in Component : e.watchers[y] =
                  IF y = x THEN d.watchers[x] \cup {n} ELSE d.watchers[y]
<1> DEFINE A == [d.watchers EXCEPT ![x] = d.watchers[x] \cup {n}]
           B == [d.watching EXCEPT ![n.comp] = d.watching[n.comp] \cup {x}]
           e == RequestKillNotification(d, x, n)
<1>1. d \in KillTables /\ WatchersAgree(d) /\ n.comp \in Component
  BY NotificationParts DEF Good
<1>2. e = [d EXCEPT !.watchers = A, !.watching = B]
  BY <1>1 DEF RequestKillNotification, KillTables
<1>3. /\ A \in [Component -> SUBSET Notification]
      /\ B \in [Component -> SUBSET Component]
  BY <1>1, TableParts
<1>4. \A y \in Component :
        A[y] = IF y = x THEN d.watchers[x] \cup {n} ELSE d.watchers[y]
  BY <1>1, TableParts
<1>5. \A c \in Component :
        B[c] = d.watching[c] \cup (IF c = n.comp THEN {x} ELSE {})
  BY <1>1, TableParts
<1> HIDE DEF A, B, e
<1>6. /\ e \in KillTables /\ e.answered = d.answered
      /\ e.watchers = A /\ e.watching = B
  BY <1>1, <1>2, <1>3 DEF KillTables
<1>7. WatchersAgree(e)
  <2> SUFFICES ASSUME NEW y \in Component, NEW c \in Component
               PROVE  (\E m \in A[y] : m.comp = c) <=> y \in B[c]
    BY <1>6 DEF WatchersAgree
  <2>1. (\E m \in d.watchers[y] : m.comp = c) <=> y \in d.watching[c]
    BY <1>1 DEF WatchersAgree
  <2>2. A[y] = d.watchers[y] \cup (IF y = x THEN {n} ELSE {})
    BY <1>4
  <2> QED
    BY <1>5, <2>1, <2>2
<1> QED
  BY <1>4, <1>6, <1>7 DEF e, Good

(* Removing c's own requests ...                                           *)
LEMMA RemoveOwnGood ==
  ASSUME NEW d, Good(d), NEW c \in Component
  PROVE  LET e == RemoveComponentKillNotifications(d, c)
         IN  /\ Good(e)
             /\ e.answered = d.answered
             /\ \A x \in Component :
                  e.watchers[x] = {n \in d.watchers[x] : n.comp # c}
<1> DEFINE A == [x \in Component |-> IF x \in d.watching[c]
                                     THEN {n \in d.watchers[x] : n.comp # c}
                                     ELSE d.watchers[x]]
           e == RemoveComponentKillNotifications(d, c)
<1>1. d \in KillTables /\ WatchersAgree(d)
  BY DEF Good
<1>2. e = [d EXCEPT !.watchers = A, !.watching[c] = {}]
  BY DEF RemoveComponentKillNotifications
<1>3. \A x \in Component : A[x] = {n \in d.watchers[x] : n.comp # c}
  BY <1>1, TableParts DEF WatchersAgree
<1>4. A \in [Component -> SUBSET Notification]
  BY <1>1, TableParts
<1> HIDE DEF A, e
<1>5. /\ e \in KillTables /\ e.answered = d.answered /\ e.watchers = A
      /\ e.watching = [d.watching EXCEPT ![c] = {}]
  BY <1>1, <1>2, <1>4 DEF KillTables
<1>6. \A b \in Component : e.watching[b] = IF b = c THEN {} ELSE d.watching[b]
  BY <1>1, <1>5, TableParts
<1>7. WatchersAgree(e)
  BY <1>1, <1>3, <1>5, <1>6 DEF WatchersAgree
<1> QED
  BY <1>3, <1>5, <1>7 DEF e, Good

(* ... and telling those who observe it.                                   *)
LEMMA SendGood ==
  ASSUME NEW d, Good(d), NEW c \in Component, NEW K
  PROVE  LET e == SendKillNotifications(d, c, K)
         IN  /\ Good(e)
             /\ e.answered = d.answered \cup {n \in d.watchers[c] : n.comp \in K}
             /\ \A x \in Component :
                  e.watchers[x] = IF x = c THEN {} ELSE d.watchers[x]
<1> DEFINE B == [b \in Component |->
                   IF \E n \in d.watchers[c] : n.comp = b
                   THEN d.watching[b] \ {c} ELSE d.watching[b]]
           C == d.answered \cup {n \in d.watchers[c] : n.comp \in K}
           e == SendKillNotifications(d, c, K)
<1>1. d \in KillTables /\ WatchersAgree(d)
  BY DEF Good
<1>2. e = [d EXCEPT !.watchers[c] = {}, !.watching = B, !.answered = C]
  BY DEF SendKillNotifications
<1>3. \A b \in Component : B[b] = d.watching[b] \ {c}
  BY <1>1 DEF WatchersAgree
<1>4. B \in [Component -> SUBSET Component] /\ C \in SUBSET Notification
  BY <1>1, TableParts
<1> HIDE DEF B, C, e
<1>5. /\ e \in KillTables /\ e.answered = C /\ e.watching = B
      /\ e.watchers = [d.watchers EXCEPT ![c] = {}]
  BY <1>1, <1>2, <1>4 DEF KillTables
<1>6. \A x \in Component : e.watchers[x] = IF x = c THEN {} ELSE d.watchers[x]
  BY <1>1, <1>5, TableParts
<1>7. WatchersAgree(e)
  BY <1>1, <1>3, <1>5, <1>6 DEF WatchersAgree
<1> QED
  BY <1>5, <1>6, <1>7 DEF e, C, Good

LEMMA RemoveGood ==
  ASSUME NEW d, Good(d), NEW c \in Component, NEW K
  PROVE  /\ Good(RemoveComponent(d, c, K))
         /\ \A k : k \in RemoveComponent(d, c, K).answered <=>
              \/ k \in d.answered
              \/ k \in d.watchers[c] /\ k.comp # c /\ k.comp \in K
         /\ \A x \in Component : \A k :
              k \in RemoveComponent(d, c, K).watchers[x] <=>
                x # c /\ k \in d.watchers[x] /\ k.comp # c
<1> DEFINE a == RemoveComponentKillNotifications(d, c)
           e == RemoveComponent(d, c, K)
<1>1. /\ Good(a) /\ a.answered = d.answered
      /\ \A x \in Component : a.watchers[x] = {n \in d.watchers[x] : n.comp # c}
  BY RemoveOwnGood
<1>2. e = SendKillNotifications(a, c, K)
  BY DEF RemoveComponent
<1> HIDE DEF a, e
<1>3. /\ Good(e)
      /\ e.answered = a.answered \cup {n \in a.watchers[c] : n.comp \in K}
      /\ \A x \in Component : e.watchers[x] = IF x = c THEN {} ELSE a.watchers[x]
  BY <1>1, <1>2, SendGood
<1> QED
  BY <1>1, <1>3 DEF e

(* A request of a connected component stays in one place when others are   *)
(* removed.                                                                *)
LEMMA RemoveKeepsPlace ==
  ASSUME NEW d, Good(d), NEW c \in Component, NEW K, NEW n \in Notification,
         n.comp # c, n.comp \in K, NEW h \in BOOLEAN, InOnePlace(h, d, n)
  PROVE  InOnePlace(h, RemoveComponent(d, c, K), n)
<1> DEFINE e == RemoveComponent(d, c, K)
<1>1. /\ n \in e.answered <=> n \in d.answered \/ n \in d.watchers[c]
      /\ \A x \in Component :
           n \in e.watchers[x] <=> x # c /\ n \in d.watchers[x]
  BY RemoveGood
<1> HIDE DEF e
<1>2. InOnePlace(h, e, n)
  BY <1>1 DEF InOnePlace
<1> QED
  BY <1>2 DEF e

LEMMA RemoveKeepsNowhere ==
  ASSUME NEW d, Good(d), NEW c \in Component, NEW K, NEW n, Nowhere(d, n)
  PROVE  Nowhere(RemoveComponent(d, c, K), n)
<1> DEFINE e == RemoveComponent(d, c, K)
<1>1. /\ n \in e.answered => n \in d.answered \/ n \in d.watchers[c]
      /\ \A x \in Component : n \in e.watchers[x] => n \in d.watchers[x]
  BY RemoveGood
<1> HIDE DEF e
<1>2. Nowhere(e, n)
  BY <1>1 DEF Nowhere
<1> QED
  BY <1>2 DEF e

-----------------------------------------------------------------------------
(* The inductive invariant.                                                *)

Req(c, m) == [comp |-> c, match |-> m]

(* The read thread of c holds its request with match m.                    *)
HoldsReq(c, m) ==
  held[c] # NoRequest /\ held[c].kind = "killNotification" /\ held[c].match = m

(* Matches are used once, and only by those who have connected.            *)
Fresh ==
  \A c \in Component :
    /\ link[c] = "new" => lastMatch[c] = 0
    /\ \A m \in 1..MaxMatch : m > lastMatch[c] =>
         ~HoldsReq(c, m) /\ Nowhere(killDB, Req(c, m))

Placed ==
  server = "running" =>
    \A c \in Open : \A m \in 1..lastMatch[c] :
      InOnePlace(HoldsReq(c, m), killDB, Req(c, m))

IInv ==
  /\ ConnTypeOK(Request)
  /\ lastMatch \in [Component -> 0..MaxMatch]
  /\ Good(killDB)
  /\ Observed(killDB, Open)
  /\ Fresh
  /\ Placed

-----------------------------------------------------------------------------
(* Initial states.                                                         *)

LEMMA ReqParts ==
  ASSUME NEW c \in Component, NEW m \in 1..MaxMatch
  PROVE  Req(c, m) \in Notification /\ Req(c, m).comp = c /\ Req(c, m).match = m
BY DEF Req, Notification

LEMMA InitInv == Init => IInv
<1> SUFFICES ASSUME Init PROVE IInv
  OBVIOUS
<1>1. ConnTypeOK(Request) /\ lastMatch \in [Component -> 0..MaxMatch]
  BY KillsAssumption DEF Init, ConnInit, ConnTypeOK
<1>2. Good(killDB)
  BY DEF Init, Good, KillTables, WatchersAgree
<1>3. Observed(killDB, Open)
  BY DEF Init, Observed
<1>4. Fresh
  BY DEF Init, ConnInit, Fresh, HoldsReq, Nowhere
<1>5. Placed
  BY DEF Init, ConnInit, Placed, Open
<1> QED
  BY <1>1, <1>2, <1>3, <1>4, <1>5 DEF IInv

-----------------------------------------------------------------------------
(* What all handlers have in common: the tables become d, at most one      *)
(* component goes, and its removal is the last thing the handler does.     *)

(* The components that stay connected when those in D are closed.          *)
LEMMA OpenAfter ==
  ASSUME IInv, NEW D \in SUBSET Open, Close(D)
  PROVE  /\ Open' = Open \ D
         /\ link' \in [Component -> {"new", "open", "gone"}]
         /\ \A c \in Component : link'[c] = "new" => link[c] = "new"
BY DEF IInv, ConnTypeOK, Close, Open

(* The tables d are good, and take the place of killDB: held' says whose   *)
(* request is still with a read thread.                                    *)
Ready(d, O) ==
  /\ Good(d) /\ Observed(d, Open)
  /\ \A c \in Component : \A m \in 1..MaxMatch : m > lastMatch[c] =>
       ~HoldsReq(c, m)' /\ Nowhere(d, Req(c, m))
  /\ \A c \in O : \A m \in 1..lastMatch[c] :
       InOnePlace(HoldsReq(c, m)', d, Req(c, m))

LEMMA FinishInv ==
  ASSUME IInv, server = "running", NEW d, NEW D \in SUBSET Open,
         Ready(d, Open \ D), Finish(d, D),
         held' \in [Component -> Request \cup {NoRequest}],
         \A c \in Component : \A m \in 1..MaxMatch :
            HoldsReq(c, m)' => HoldsReq(c, m),
         \A a, b \in D : a = b,
         UNCHANGED <<proc, lastMatch>>
  PROVE  IInv'
<1>1. ASSUME D = {}, killDB' = d, UNCHANGED <<link, server>>
      PROVE  IInv'
  <2>1. ConnTypeOK(Request)' /\ (lastMatch \in [Component -> 0..MaxMatch])'
    BY <1>1 DEF IInv, ConnTypeOK
  <2>2. Open' = Open
    BY <1>1 DEF Open
  <2>3. Good(killDB)' /\ Observed(killDB, Open)'
    BY <1>1, <2>2 DEF Ready, Good, WatchersAgree, Observed, KillTables
  <2>4. Fresh'
    BY <1>1 DEF IInv, Fresh, Ready, Nowhere, Req
  <2>5. Placed'
    BY <1>1, <2>2 DEF Placed, Ready, InOnePlace, Req
  <2> QED
    BY <2>1, <2>3, <2>4, <2>5 DEF IInv
<1>2. ASSUME NEW c \in D, killDB' = RemoveComponent(d, c, Open \ D),
             Close(D), UNCHANGED server
      PROVE  IInv'
  <2> DEFINE e == RemoveComponent(d, c, Open \ D)
  <2>1. D = {c} /\ c \in Component
    BY <1>2 DEF Open
  <2>2. /\ Open' = Open \ D
        /\ link' \in [Component -> {"new", "open", "gone"}]
        /\ \A b \in Component : link'[b] = "new" => link[b] = "new"
    BY <1>2, OpenAfter
  <2>3. ConnTypeOK(Request)' /\ (lastMatch \in [Component -> 0..MaxMatch])'
    BY <1>2, <2>2 DEF IInv, ConnTypeOK
  <2>4. /\ Good(e)
        /\ \A x \in Component : \A k :
             k \in e.watchers[x] => x # c /\ k \in d.watchers[x]
    <3>1. Good(d)
      BY DEF Ready
    <3> QED
      BY <2>1, <3>1, RemoveGood
  <2>5. Observed(e, Open \ D)
    BY <2>1, <2>4 DEF Ready, Observed
  <2>6. Fresh'
    <3> SUFFICES ASSUME NEW b \in Component
                 PROVE  /\ link'[b] = "new" => lastMatch[b] = 0
                        /\ \A m \in 1..MaxMatch : m > lastMatch[b] =>
                             ~HoldsReq(b, m)' /\ Nowhere(e, Req(b, m))
      BY <1>2 DEF Fresh, Nowhere, Req
    <3>1. ASSUME NEW m \in 1..MaxMatch, m > lastMatch[b]
          PROVE  ~HoldsReq(b, m)' /\ Nowhere(e, Req(b, m))
      <4>1. Good(d) /\ ~HoldsReq(b, m)' /\ Nowhere(d, Req(b, m))
        BY <3>1 DEF Ready
      <4> QED
        BY <2>1, <4>1, RemoveKeepsNowhere
    <3> QED
      BY <2>2, <3>1 DEF IInv, Fresh
  <2>7. Placed'
    <3> SUFFICES ASSUME NEW b \in Open \ D, NEW m \in 1..lastMatch[b]
                 PROVE  InOnePlace(HoldsReq(b, m), killDB, Req(b, m))'
      BY <2>2 DEF Placed
    <3>1. b \in Component /\ m \in 1..MaxMatch
      BY KillsAssumption DEF Open, IInv
    <3>2. Good(d) /\ InOnePlace(HoldsReq(b, m)', d, Req(b, m))
      BY DEF Ready
    <3>3. InOnePlace(HoldsReq(b, m)', e, Req(b, m))
      <4>1. HoldsReq(b, m)' \in BOOLEAN
        BY DEF HoldsReq
      <4> QED
        BY <2>1, <3>1, <3>2, <4>1, ReqParts, RemoveKeepsPlace
    <3> QED
      BY <1>2, <3>3 DEF InOnePlace, Req
  <2> HIDE DEF e
  <2>8. Good(killDB)' /\ Observed(killDB, Open)'
    BY <1>2, <2>2, <2>4, <2>5 DEF Good, WatchersAgree, Observed, KillTables, e
  <2> QED
    BY <2>3, <2>6, <2>7, <2>8 DEF IInv
<1>3. ASSUME server' = "undefined", UNCHANGED <<link, killDB>>
      PROVE  IInv'
  <2>1. ConnTypeOK(Request)' /\ (lastMatch \in [Component -> 0..MaxMatch])'
    BY <1>3 DEF IInv, ConnTypeOK
  <2>2. Good(killDB)' /\ Observed(killDB, Open)'
    BY <1>3 DEF IInv, Good, WatchersAgree, Observed, KillTables, Open
  <2>3. Fresh' /\ Placed'
    BY <1>3 DEF IInv, Fresh, Placed, Nowhere, Req
  <2> QED
    BY <2>1, <2>2, <2>3 DEF IInv
<1> QED
  BY <1>1, <1>2, <1>3 DEF Finish

-----------------------------------------------------------------------------
(* The handlers.                                                           *)

LEMMA HeldParts ==
  ASSUME IInv, NEW c \in Component, held[c] # NoRequest
  PROVE  /\ held[c] \in Request /\ held[c].target \in Component
         /\ held[c].kind \in {"killNotification", "kill"}
         /\ held[c].kind = "killNotification" => held[c].match \in 1..MaxMatch
<1>1. held[c] \in Request
  BY DEF IInv, ConnTypeOK
<1> QED
  BY <1>1 DEF Request

LEMMA MatchUsed ==
  ASSUME IInv, NEW c \in Component, NEW m \in 1..MaxMatch, HoldsReq(c, m)
  PROVE  m \in 1..lastMatch[c]
<1>1. ~(m > lastMatch[c])
  BY DEF IInv, Fresh
<1>2. lastMatch[c] \in 0..MaxMatch
  BY DEF IInv
<1> QED
  BY <1>1, <1>2, KillsAssumption

LEMMA OtherRequest ==
  ASSUME NEW b \in Component, NEW c \in Component, NEW k, NEW m,
         Req(b, k) = Req(c, m)
  PROVE  b = c /\ k = m
BY DEF Req

LEMMA ConsumedHeld ==
  ASSUME IInv, NEW c \in Component, Consumed(c)
  PROVE  /\ held' \in [Component -> Request \cup {NoRequest}]
         /\ \A b \in Component : \A m :
              HoldsReq(b, m)' <=> b # c /\ HoldsReq(b, m)
<1>1. /\ held \in [Component -> Request \cup {NoRequest}]
      /\ held' = [held EXCEPT ![c] = NoRequest]
  BY DEF IInv, ConnTypeOK, Consumed
<1>2. held' \in [Component -> Request \cup {NoRequest}]
  BY <1>1
<1>3. \A b \in Component : held'[b] = IF b = c THEN NoRequest ELSE held[b]
  BY <1>1
<1> QED
  BY <1>2, <1>3 DEF HoldsReq

(* A handler that changes nothing but the place of the request it consumes.*)
LEMMA ConsumeReady ==
  ASSUME IInv, server = "running", NEW c \in Component, Consumed(c),
         NEW m \in 1..MaxMatch, HoldsReq(c, m),
         NEW d, Good(d), Observed(d, Open), NEW D \in SUBSET Open,
         \A n : n # Req(c, m) =>
           /\ n \in d.answered <=> n \in killDB.answered
           /\ \A x \in Component : n \in d.watchers[x] <=> n \in killDB.watchers[x],
         c \in Open \ D => InOnePlace(FALSE, d, Req(c, m))
  PROVE  Ready(d, Open \ D)
<1>1. \A b \in Component : \A k : HoldsReq(b, k)' <=> b # c /\ HoldsReq(b, k)
  BY ConsumedHeld
<1>2. m \in 1..lastMatch[c] /\ lastMatch[c] \in 0..MaxMatch
  BY MatchUsed DEF IInv
<1>3. ASSUME NEW b \in Component, NEW k \in 1..MaxMatch, k > lastMatch[b]
      PROVE  ~HoldsReq(b, k)' /\ Nowhere(d, Req(b, k))
  <2>1. ~HoldsReq(b, k) /\ Nowhere(killDB, Req(b, k))
    BY <1>3 DEF IInv, Fresh
  <2>2. b # c \/ k # m
    BY <1>2, <1>3
  <2>3. Req(b, k) # Req(c, m)
    BY <2>2, OtherRequest
  <2>4. Nowhere(d, Req(b, k))
    BY <2>1, <2>3 DEF Nowhere
  <2> QED
    BY <1>1, <2>1, <2>4
<1>4. ASSUME NEW b \in Open \ D, NEW k \in 1..lastMatch[b]
      PROVE  InOnePlace(HoldsReq(b, k)', d, Req(b, k))
  <2>0. b \in Component /\ b \in Open
    BY DEF Open
  <2>1. InOnePlace(HoldsReq(b, k), killDB, Req(b, k))
    BY <2>0 DEF IInv, Placed
  <2>2. CASE Req(b, k) = Req(c, m)
    <3>1. b = c /\ k = m
      BY <2>0, <2>2, OtherRequest
    <3>2. ~HoldsReq(b, k)' /\ InOnePlace(FALSE, d, Req(b, k))
      BY <1>1, <2>2, <3>1
    <3> QED
      BY <3>2 DEF InOnePlace
  <2>3. CASE Req(b, k) # Req(c, m)
    <3>1. b # c \/ k # m
      BY <2>3
    <3>2. HoldsReq(b, k)' <=> HoldsReq(b, k)
      BY <1>1, <2>0, <3>1 DEF HoldsReq
    <3>3. /\ Req(b, k) \in d.answered <=> Req(b, k) \in killDB.answered
          /\ \A x \in Component : Req(b, k) \in d.watchers[x]
                                    <=> Req(b, k) \in killDB.watchers[x]
      BY <2>3
    <3> QED
      BY <2>1, <3>2, <3>3 DEF InOnePlace
  <2> QED
    BY <2>2, <2>3
<1> QED
  BY <1>3, <1>4 DEF Ready

(* A handler that is not about requests.                                   *)
LEMMA SameReady ==
  ASSUME IInv, server = "running", NEW D \in SUBSET Open,
         \A b \in Component : \A m : HoldsReq(b, m)' <=> HoldsReq(b, m)
  PROVE  Ready(killDB, Open \ D)
<1>1. \A b \in Component : \A m \in 1..MaxMatch : m > lastMatch[b] =>
        ~HoldsReq(b, m)' /\ Nowhere(killDB, Req(b, m))
  BY DEF IInv, Fresh
<1>2. \A b \in Open \ D : \A m \in 1..lastMatch[b] :
        InOnePlace(HoldsReq(b, m)', killDB, Req(b, m))
  BY DEF IInv, Placed, InOnePlace, Open
<1> QED
  BY <1>1, <1>2 DEF IInv, Ready

LEMMA KillNotificationCallbackInv ==
  ASSUME IInv, NEW c \in Component, KillNotificationCallback(c)
  PROVE  IInv'
<1> DEFINE x == held[c].target
           m == held[c].match
           n == Req(c, m)
<1>1. /\ server = "running" /\ Consumed(c) /\ held[c] # NoRequest
      /\ held[c].kind = "killNotification" /\ UNCHANGED <<proc, lastMatch>>
  BY DEF KillNotificationCallback, Consuming
<1>2. x \in Component /\ m \in 1..MaxMatch /\ HoldsReq(c, m)
  BY <1>1, HeldParts DEF HoldsReq
<1>3. /\ n \in Notification
      /\ held' \in [Component -> Request \cup {NoRequest}]
      /\ \A b \in Component : \A k :
           HoldsReq(b, k)' <=> b # c /\ HoldsReq(b, k)
  BY <1>1, <1>2, ReqParts, ConsumedHeld
<1>4. Good(killDB) /\ Observed(killDB, Open)
  BY DEF IInv
<1>5. c \in Open => n \notin killDB.answered
                    /\ \A y \in Component : n \notin killDB.watchers[y]
  BY <1>1, <1>2, MatchUsed DEF IInv, Placed, InOnePlace
<1>6. \/ x \in Open /\ Finish(RequestKillNotification(killDB, x, n), {})
      \/ /\ x \notin Open
         /\ \E D \in Hangups({c}) :
              Finish([killDB EXCEPT !.answered =
                        @ \cup {k \in {n} : c \in Open \ D}], D)
  BY DEF KillNotificationCallback, Req
<1> HIDE DEF n, m, x
<1>7. CASE x \in Open /\ Finish(RequestKillNotification(killDB, x, n), {})
  <2> DEFINE d == RequestKillNotification(killDB, x, n)
  <2>1. /\ Good(d) /\ d.answered = killDB.answered
        /\ \A y \in Component : d.watchers[y] =
             IF y = x THEN killDB.watchers[x] \cup {n} ELSE killDB.watchers[y]
    BY <1>2, <1>3, <1>4, RequestGood
  <2> HIDE DEF d
  <2>2. Observed(d, Open)
    BY <1>4, <1>7, <2>1 DEF Observed
  <2>3. c \in Open \ {} => InOnePlace(FALSE, d, n)
    BY <1>2, <1>5, <2>1 DEF InOnePlace
  <2>4. {} \in SUBSET Open /\ Open \ {} = Open
    OBVIOUS
  <2>5. \A k : k # n =>
          /\ k \in d.answered <=> k \in killDB.answered
          /\ \A y \in Component : k \in d.watchers[y] <=> k \in killDB.watchers[y]
    BY <2>1
  <2>6. Ready(d, Open \ {})
    BY <1>1, <1>2, <2>1, <2>2, <2>3, <2>4, <2>5, ConsumeReady DEF n
  <2>7. \A b \in Component : \A k \in 1..MaxMatch :
          HoldsReq(b, k)' => HoldsReq(b, k)
    BY <1>3
  <2>8. Finish(d, {}) /\ \A a, b \in {} : a = b
    BY <1>7 DEF d
  <2> QED
    BY <1>1, <1>3, <2>4, <2>6, <2>7, <2>8, FinishInv
<1>8. ASSUME NEW D \in Hangups({c}),
             Finish([killDB EXCEPT !.answered =
                       @ \cup {k \in {n} : c \in Open \ D}], D)
      PROVE  IInv'
  <2> DEFINE N == {k \in {n} : c \in Open \ D}
             d == [killDB EXCEPT !.answered = @ \cup N]
  <2>1. killDB \in KillTables /\ N \in SUBSET Notification
    BY <1>3, <1>4 DEF Good
  <2>2. /\ \A k : k \in N <=> k = n /\ c \in Open \ D
        /\ Finish(d, D)
    BY <1>8
  <2> HIDE DEF N
  <2>3. /\ d \in KillTables /\ d.answered = killDB.answered \cup N
        /\ d.watchers = killDB.watchers /\ d.watching = killDB.watching
    BY <2>1 DEF KillTables
  <2> HIDE DEF d
  <2>4. Good(d) /\ Observed(d, Open)
    BY <1>4, <2>3 DEF Good, WatchersAgree, Observed
  <2>5. D \in SUBSET Open /\ D \subseteq {c}
    BY DEF Hangups, Broken
  <2>6. c \in Open \ D => InOnePlace(FALSE, d, n)
    BY <1>5, <2>2, <2>3 DEF InOnePlace
  <2>7. \A k : k # n =>
          /\ k \in d.answered <=> k \in killDB.answered
          /\ \A y \in Component : k \in d.watchers[y] <=> k \in killDB.watchers[y]
    BY <2>2, <2>3
  <2>8. Ready(d, Open \ D)
    BY <1>1, <1>2, <2>4, <2>5, <2>6, <2>7, ConsumeReady DEF n
  <2>9. \A b \in Component : \A k \in 1..MaxMatch :
          HoldsReq(b, k)' => HoldsReq(b, k)
    BY <1>3
  <2>10. \A a, b \in D : a = b
    BY <2>5
  <2> QED
    BY <1>1, <1>3, <2>2, <2>5, <2>8, <2>9, <2>10, FinishInv
<1> QED
  BY <1>6, <1>7, <1>8

LEMMA KillInv ==
  ASSUME IInv, NEW c \in Component, Kill(c)
  PROVE  IInv'
<1> DEFINE D == {held[c].target} \cap Open
<1>1. /\ server = "running" /\ Consumed(c) /\ held[c] # NoRequest
      /\ held[c].kind = "kill" /\ UNCHANGED <<proc, lastMatch>>
      /\ Finish(killDB, D)
  BY DEF Kill, Consuming
<1>2. /\ held' \in [Component -> Request \cup {NoRequest}]
      /\ \A b \in Component : \A m :
           HoldsReq(b, m)' <=> b # c /\ HoldsReq(b, m)
  BY <1>1, ConsumedHeld
<1>3. \A b \in Component : \A m : HoldsReq(b, m)' <=> HoldsReq(b, m)
  BY <1>1, <1>2 DEF HoldsReq
<1>4. D \in SUBSET Open /\ \A a, b \in D : a = b
  OBVIOUS
<1> HIDE DEF D
<1>5. Ready(killDB, Open \ D)
  BY <1>1, <1>3, <1>4, SameReady
<1> QED
  BY <1>1, <1>2, <1>3, <1>4, <1>5, FinishInv

LEMMA DisconnectInv ==
  ASSUME IInv, NEW c \in Component, Disconnect(c)
  PROVE  IInv'
<1>1. /\ server = "running" /\ c \in Open /\ UNCHANGED <<proc, held, lastMatch>>
      /\ Finish(killDB, {c})
  BY DEF Disconnect, ReadFails, WriteFails, Broken, Open
<1>2. /\ held' \in [Component -> Request \cup {NoRequest}]
      /\ \A b \in Component : \A m : HoldsReq(b, m)' <=> HoldsReq(b, m)
  BY <1>1 DEF IInv, ConnTypeOK, HoldsReq
<1>3. {c} \in SUBSET Open /\ \A a, b \in {c} : a = b
  BY <1>1
<1>4. Ready(killDB, Open \ {c})
  BY <1>1, <1>2, <1>3, SameReady
<1> QED
  BY <1>1, <1>2, <1>3, <1>4, FinishInv

-----------------------------------------------------------------------------
(* The steps of the clients.                                               *)

LEMMA SendRequestInv ==
  ASSUME IInv, NEW c \in Component, NEW r \in Request, SendRequest(c, r)
  PROVE  IInv'
<1>1. /\ held[c] = NoRequest /\ held' = [held EXCEPT ![c] = r]
      /\ UNCHANGED <<link, proc, server, killDB>> /\ link[c] = "open"
      /\ r # NoRequest
  BY KillsAssumption DEF SendRequest, Receive
<1>2. /\ held \in [Component -> Request \cup {NoRequest}]
      /\ lastMatch \in [Component -> 0..MaxMatch]
  BY DEF IInv, ConnTypeOK
<1>3. /\ held' \in [Component -> Request \cup {NoRequest}]
      /\ \A b \in Component : held'[b] = IF b = c THEN r ELSE held[b]
  BY <1>1, <1>2
<1>4. Open' = Open
  BY <1>1 DEF Open
<1>5. ConnTypeOK(Request)' /\ Good(killDB)' /\ Observed(killDB, Open)'
  BY <1>1, <1>3, <1>4
     DEF IInv, ConnTypeOK, Good, KillTables, WatchersAgree, Observed
<1>6. CASE r.kind = "killNotification"
  <2> DEFINE m == lastMatch[c] + 1
  <2>1. /\ r.match = m /\ lastMatch' = [lastMatch EXCEPT ![c] = m]
        /\ r.match \in 1..MaxMatch
    BY <1>6 DEF SendRequest, Request
  <2>2. m \in 1..MaxMatch /\ m \in 0..MaxMatch
    BY <1>2, <2>1, KillsAssumption
  <2> HIDE DEF m
  <2>3. /\ lastMatch' \in [Component -> 0..MaxMatch]
        /\ \A b \in Component :
             lastMatch'[b] = IF b = c THEN m ELSE lastMatch[b]
    BY <1>2, <2>1, <2>2
  <2>4. \A b \in Component : \A k :
          HoldsReq(b, k)' <=> HoldsReq(b, k) \/ (b = c /\ k = m)
    BY <1>1, <1>3, <1>6, <2>1 DEF HoldsReq
  <2>5. Fresh'
    <3> SUFFICES ASSUME NEW b \in Component
                 PROVE  /\ link[b] = "new" => lastMatch'[b] = 0
                        /\ \A k \in 1..MaxMatch : k > lastMatch'[b] =>
                             ~HoldsReq(b, k)' /\ Nowhere(killDB, Req(b, k))
      BY <1>1 DEF Fresh, Nowhere, Req
    <3>1. link[b] = "new" => lastMatch'[b] = 0
      BY <1>1, <2>3 DEF IInv, Fresh
    <3>2. ASSUME NEW k \in 1..MaxMatch, k > lastMatch'[b]
          PROVE  ~HoldsReq(b, k)' /\ Nowhere(killDB, Req(b, k))
      <4>1. k > lastMatch[b] /\ ~(b = c /\ k = m)
        BY <1>2, <2>2, <2>3, <3>2, KillsAssumption DEF m
      <4> QED
        BY <2>4, <4>1 DEF IInv, Fresh
    <3> QED
      BY <3>1, <3>2
  <2>6. Placed'
    <3> SUFFICES ASSUME server = "running",
                        NEW b \in Open, NEW k \in 1..lastMatch'[b]
                 PROVE  InOnePlace(HoldsReq(b, k)', killDB, Req(b, k))
      BY <1>1, <1>4 DEF Placed, InOnePlace, Req
    <3>0. b \in Component
      BY DEF Open
    <3>1. CASE b = c /\ k = m
      <4>1. HoldsReq(b, k)'
        BY <2>4, <3>0, <3>1
      <4>2. m > lastMatch[c]
        BY <1>2 DEF m
      <4>3. Nowhere(killDB, Req(b, k))
        BY <2>2, <3>0, <3>1, <4>2 DEF IInv, Fresh
      <4> QED
        BY <4>1, <4>3 DEF InOnePlace, Nowhere
    <3>2. CASE ~(b = c /\ k = m)
      <4>1. k \in 1..lastMatch[b]
        BY <1>2, <2>3, <3>0, <3>2, KillsAssumption DEF m
      <4>2. InOnePlace(HoldsReq(b, k), killDB, Req(b, k))
        BY <4>1 DEF IInv, Placed
      <4>3. HoldsReq(b, k)' <=> HoldsReq(b, k)
        BY <2>4, <3>0, <3>2 DEF HoldsReq
      <4> QED
        BY <4>2, <4>3 DEF InOnePlace
    <3> QED
      BY <3>1, <3>2
  <2> QED
    BY <1>5, <2>3, <2>5, <2>6 DEF IInv
<1>7. CASE r.kind # "killNotification"
  <2>1. UNCHANGED lastMatch
    BY <1>7 DEF SendRequest
  <2>2. \A b \in Component : \A k : HoldsReq(b, k)' <=> HoldsReq(b, k)
    BY <1>1, <1>3, <1>7 DEF HoldsReq
  <2>3. Fresh'
    BY <1>1, <2>1, <2>2 DEF IInv, Fresh, Nowhere, Req
  <2>4. Placed'
    <3> SUFFICES ASSUME server = "running",
                        NEW b \in Open, NEW k \in 1..lastMatch[b]
                 PROVE  InOnePlace(HoldsReq(b, k)', killDB, Req(b, k))
      BY <1>1, <1>4, <2>1 DEF Placed, InOnePlace, Req
    <3>1. InOnePlace(HoldsReq(b, k), killDB, Req(b, k))
      BY DEF IInv, Placed
    <3>2. HoldsReq(b, k)' <=> HoldsReq(b, k)
      BY <2>2 DEF Open
    <3> QED
      BY <3>1, <3>2 DEF InOnePlace
  <2>5. lastMatch' \in [Component -> 0..MaxMatch]
    BY <1>2, <2>1
  <2> QED
    BY <1>5, <2>3, <2>4, <2>5 DEF IInv
<1> QED
  BY <1>6, <1>7

(* A step after which the tables, the requests that are held and the       *)
(* matches are the same, and which connects nobody whose matches are used. *)
LEMMA QuietInv ==
  ASSUME IInv, UNCHANGED <<held, server, killDB, lastMatch>>,
         proc' \in [Component -> {"up", "down", "lost"}],
         link' \in [Component -> {"new", "open", "gone"}],
         \A c \in Component : /\ link[c] = "open" => link'[c] = "open"
                              /\ link'[c] = "new" => link[c] = "new"
                              /\ link'[c] = "open" =>
                                   link[c] = "open" \/ link[c] = "new"
  PROVE  IInv'
<1>1. ConnTypeOK(Request)' /\ (lastMatch \in [Component -> 0..MaxMatch])'
  BY DEF IInv, ConnTypeOK
<1>2. Good(killDB)'
  BY DEF IInv, Good, KillTables, WatchersAgree
<1>3. Observed(killDB, Open)'
  BY DEF IInv, Observed, Open
<1>4. Fresh'
  BY DEF IInv, Fresh, HoldsReq, Nowhere, Req
<1>5. Placed'
  <2> SUFFICES ASSUME server' = "running",
                      NEW b \in Open', NEW k \in 1..lastMatch'[b]
               PROVE  InOnePlace(HoldsReq(b, k)', killDB', Req(b, k))
    BY DEF Placed, Req
  <2>0. /\ server = "running" /\ k \in 1..lastMatch[b] /\ killDB' = killDB
        /\ HoldsReq(b, k)' <=> HoldsReq(b, k)
    BY DEF HoldsReq
  <2>1. b \in Component /\ (link[b] = "open" \/ link[b] = "new")
    BY DEF Open
  <2>2. link[b] # "new"
    BY <2>0, <2>1 DEF IInv, Fresh
  <2>3. b \in Open
    BY <2>1, <2>2 DEF Open
  <2>4. InOnePlace(HoldsReq(b, k), killDB, Req(b, k))
    BY <2>0, <2>3 DEF IInv, Placed
  <2> QED
    BY <2>0, <2>4 DEF InOnePlace
<1> QED
  BY <1>1, <1>2, <1>3, <1>4, <1>5 DEF IInv

LEMMA ClientStepInv ==
  ASSUME IInv, NEW c \in Component, ClientStep(c)
  PROVE  IInv'
<1>1. ASSUME NEW r \in Request, SendRequest(c, r)
      PROVE  IInv'
  BY <1>1, SendRequestInv
<1>2. ASSUME NEW how \in {"down", "lost"}, Leave(c, how), UNCHANGED killsVars
      PROVE  IInv'
  <2>1. /\ proc' \in [Component -> {"up", "down", "lost"}]
        /\ link' \in [Component -> {"new", "open", "gone"}]
        /\ UNCHANGED <<link, held, server, killDB, lastMatch>>
    BY <1>2 DEF IInv, ConnTypeOK, Leave, killsVars
  <2> QED
    BY <2>1, QuietInv
<1>3. ASSUME Accept(c), UNCHANGED killsVars
      PROVE  IInv'
  <2>1. /\ link \in [Component -> {"new", "open", "gone"}]
        /\ proc' \in [Component -> {"up", "down", "lost"}]
        /\ UNCHANGED <<held, server, killDB, lastMatch>>
        /\ link[c] = "new" /\ link' = [link EXCEPT ![c] = "open"]
    BY <1>3 DEF IInv, ConnTypeOK, Accept, killsVars
  <2>2. /\ link' \in [Component -> {"new", "open", "gone"}]
        /\ \A b \in Component : link'[b] = IF b = c THEN "open" ELSE link[b]
    BY <2>1
  <2> QED
    BY <2>1, <2>2, QuietInv
<1> QED
  BY <1>1, <1>2, <1>3 DEF ClientStep

LEMMA NextInv == IInv /\ [Next]_vars => IInv'
<1> SUFFICES ASSUME IInv, [Next]_vars PROVE IInv'
  OBVIOUS
<1>1. ASSUME NEW c \in Component, ClientStep(c) PROVE IInv'
  BY <1>1, ClientStepInv
<1>2. ASSUME NEW c \in Component, Handle(c) PROVE IInv'
  BY <1>2, KillNotificationCallbackInv, KillInv DEF Handle
<1>3. ASSUME NEW c \in Component, Disconnect(c) PROVE IInv'
  BY <1>3, DisconnectInv
<1>4. CASE UNCHANGED vars
  <2>1. /\ UNCHANGED <<link, proc, held, server, killDB, lastMatch>>
        /\ proc' \in [Component -> {"up", "down", "lost"}]
        /\ link' \in [Component -> {"new", "open", "gone"}]
    BY <1>4 DEF IInv, ConnTypeOK, vars
  <2> QED
    BY <2>1, QuietInv
<1> QED
  BY <1>1, <1>2, <1>3, <1>4 DEF Next

-----------------------------------------------------------------------------
(* The theorems.                                                           *)

(* The inductive invariant: types, agreement of the tables, nobody observes*)
(* who is not connected, matches are used once, and every request of a     *)
(* connected component is in one place.                                    *)
THEOREM KillsInvariant == Spec => []IInv
  BY InitInv, NextInv, PTL DEF Spec

(* The variables have their types, for any number of components and        *)
(* requests (szgserver.cpp:119-126).                                       *)
THEOREM KillsTypeCorrect == Spec => []TypeOK
<1>1. IInv => TypeOK
  BY DEF IInv, Good, TypeOK
<1> QED
  BY <1>1, KillsInvariant, PTL

(* killNotificationDB and killNotificationOwnershipDB say the same thing,  *)
(* and only connected components are observed, however removals and        *)
(* requests interleave (szgserver.cpp:1429).                               *)
THEOREM WatchersAreWatching == Spec => []WatchTablesAgree
<1>1. IInv => WatchTablesAgree
  BY DEF IInv, Good, WatchersAgree, Observed, Open, WatchTablesAgree
<1> QED
  BY <1>1, KillsInvariant, PTL

(* Who is in one place is in one of the three sets of Whereabouts.         *)
LEMMA OneWhereabout ==
  ASSUME NEW c \in Component, NEW m,
         InOnePlace(HoldsReq(c, m), killDB, Req(c, m))
  PROVE  \E x : Whereabouts(Req(c, m)) = {x}
<1> DEFINE n == Req(c, m)
           H == {<<"held">> : r \in {r \in {held[n.comp]} \ {NoRequest} :
                     r.kind = "killNotification" /\ r.match = n.match}}
           O == {<<"observes", x>> : x \in {y \in Component :
                                              n \in killDB.watchers[y]}}
           A == {<<"answered">> : k \in {n} \cap killDB.answered}
<1>1. Whereabouts(n) = H \cup O \cup A
  BY DEF Whereabouts
<1>2. n.comp = c /\ n.match = m
  BY DEF Req
<1>3. /\ HoldsReq(c, m) => H = {<<"held">>}
      /\ ~HoldsReq(c, m) => H = {}
  BY <1>2 DEF HoldsReq
<1>4. /\ n \in killDB.answered => A = {<<"answered">>}
      /\ n \notin killDB.answered => A = {}
  OBVIOUS
<1>5. (\A x \in Component : n \notin killDB.watchers[x]) => O = {}
  OBVIOUS
<1>6. ASSUME NEW x \in Component, n \in killDB.watchers[x],
             \A y \in Component : n \in killDB.watchers[y] => y = x
      PROVE  O = {<<"observes", x>>}
  BY <1>6
<1>7. InOnePlace(HoldsReq(c, m), killDB, n)
  OBVIOUS
<1> HIDE DEF n, H, O, A
<1>8. CASE HoldsReq(c, m)
  <2>1. H = {<<"held">>} /\ O = {} /\ A = {}
    BY <1>3, <1>4, <1>5, <1>7, <1>8 DEF InOnePlace
  <2> QED
    BY <1>1, <2>1 DEF n
<1>9. CASE ~HoldsReq(c, m) /\ n \in killDB.answered
  <2>1. H = {} /\ O = {} /\ A = {<<"answered">>}
    BY <1>3, <1>4, <1>5, <1>7, <1>9 DEF InOnePlace
  <2> QED
    BY <1>1, <2>1 DEF n
<1>10. CASE ~HoldsReq(c, m) /\ n \notin killDB.answered
  <2>1. PICK x \in Component :
          /\ n \in killDB.watchers[x]
          /\ \A y \in Component : n \in killDB.watchers[y] => y = x
    BY <1>7, <1>10 DEF InOnePlace
  <2>2. H = {} /\ O = {<<"observes", x>>} /\ A = {}
    BY <1>3, <1>4, <1>6, <1>10, <2>1
  <2> QED
    BY <1>1, <2>2 DEF n
<1> QED
  BY <1>8, <1>9, <1>10

(* No request of a connected component is lost, and none is answered twice,*)
(* whoever exits or is killed in between (szgserver.cpp:1429, 1447).       *)
THEOREM NoRequestLost == Spec => []RequestsAccounted
<1>1. IInv => RequestsAccounted
  <2> SUFFICES ASSUME IInv, server = "running",
                      NEW c \in Open, NEW m \in 1..lastMatch[c]
               PROVE  \E x : Whereabouts(Req(c, m)) = {x}
    BY DEF RequestsAccounted, Req
  <2>1. c \in Component
    BY DEF Open
  <2>2. InOnePlace(HoldsReq(c, m), killDB, Req(c, m))
    BY DEF IInv, Placed
  <2> QED
    BY <2>1, <2>2, OneWhereabout
<1> QED
  BY <1>1, KillsInvariant, PTL

=============================================================================
