------------------------------ MODULE SzgKills ------------------------------
(***************************************************************************)
(* Kill notifications: a component asks the szgserver to be told when      *)
(* another one goes away (src/phleet/szgserver.cpp; used by "dkill" and by *)
(* arAppLauncher to wait until the programs they end are gone).            *)
(*                                                                         *)
(* The maps of the code are fields of killDB:                              *)
(*   watchers  killNotificationDB           observed -> list of requests   *)
(*   watching  killNotificationOwnershipDB  component -> list of observed  *)
(* and answered records the notifications written to a connected client.   *)
(* As in SzgLocks an entry with an empty list is no entry.                 *)
(***************************************************************************)
EXTENDS SzgConnections, Naturals

CONSTANTS MaxMatch     \* how many notifications a component may ask for

VARIABLES killDB,     \* the tables above
          lastMatch   \* lastMatch[c]: _match, as far as notifications go

vars == <<link, proc, held, server, killDB, lastMatch>>
killsVars == <<killDB, lastMatch>>

Notification == [comp : Component, match : 1..MaxMatch]

Request ==
       [kind : {"killNotification"}, target : Component, match : 1..MaxMatch]
  \cup [kind : {"kill"}, target : Component]

ASSUME KillsAssumption == MaxMatch \in Nat /\ NoRequest \notin Request

KillTables ==
  [watchers : [Component -> SUBSET Notification],
   watching : [Component -> SUBSET Component],
   answered : SUBSET Notification]

TypeOK ==
  /\ ConnTypeOK(Request)
  /\ killDB \in KillTables
  /\ lastMatch \in [Component -> 0..MaxMatch]

Init ==
  /\ ConnInit
  /\ killDB = [watchers |-> [c \in Component |-> {}],
               watching |-> [c \in Component |-> {}],
               answered |-> {}]
  /\ lastMatch = [c \in Component |-> 0]

-----------------------------------------------------------------------------
(* Mutant: the match of the request is not kept.                           *)
RequestKillNotificationNoMatch(d, x, n) ==
  [d EXCEPT !.watchers[x] = @ \cup {[n EXCEPT !.match = 0]},
            !.watching[n.comp] = @ \cup {x}]

RequestKillNotification(d, x, n) ==
  [d EXCEPT !.watchers[x] = @ \cup {n},
            !.watching[n.comp] = @ \cup {x}]

(* Mutant: the observers keep the departed on their lists.                 *)
SendKillNotificationsHalf(d, x, connected) ==
  [d EXCEPT !.watchers[x] = {},
            !.answered = @ \cup {n \in d.watchers[x] : n.comp \in connected}]

(* Mutant: an observer gets one notification only.                         *)
SendKillNotificationsOnce(d, x, connected) ==
  [d EXCEPT
    !.watchers[x] = {},
    !.watching = [c \in Component |->
                    IF \E n \in d.watchers[x] : n.comp = c THEN @[c] \ {x}
                    ELSE @[c]],
    !.answered = @ \cup {n \in d.watchers[x] :
                           /\ n.comp \in connected
                           /\ \A o \in d.watchers[x] :
                                o.comp = n.comp => n.match <= o.match}]

SendKillNotifications(d, x, connected) ==
  [d EXCEPT
    !.watchers[x] = {},
    !.watching = [c \in Component |->
                    IF \E n \in d.watchers[x] : n.comp = c THEN @[c] \ {x}
                    ELSE @[c]],
    !.answered = @ \cup {n \in d.watchers[x] : n.comp \in connected}]

(* The requests of c are found by the components on its list.              *)
RemoveComponentKillNotifications(d, c) ==
  [d EXCEPT
    !.watchers = [x \in Component |->
                    IF x \in d.watching[c]
                    THEN {n \in @[x] : n.comp # c} ELSE @[x]],
    !.watching[c] = {}]

(* Mutant: the departed are announced only when they are killed politely.  *)
RemoveComponentSilently(d, c, connected) ==
  RemoveComponentKillNotifications(d, c)

RemoveComponent(d, c, connected) ==
  SendKillNotifications(RemoveComponentKillNotifications(d, c), c, connected)

(* The list of x is walked while its members are written to; one whose     *)
(* write fails erases itself from that list: undefined behaviour.          *)
WalksErasedNode(d, c) ==
  \E n \in d.watchers[c] : n.comp # c /\ n.comp \in Broken

-----------------------------------------------------------------------------
(* The handler turned the tables to d and ends with the removal of those   *)
(* in D, at most one.                                                      *)
Finish(d, D) ==
  \/ D = {} /\ killDB' = d /\ UNCHANGED <<link, server>>
  \/ \E c \in D :
       /\ killDB' = RemoveComponent(d, c, Open \ D)
       /\ Close(D)
       /\ UNCHANGED server
  \/ \E c \in D :
       /\ WalksErasedNode(d, c)
       /\ server' = "undefined"
       /\ UNCHANGED <<link, killDB>>

(* Mutant: whether the observed component is there is not looked up.       *)
KillNotificationUnchecked(c) ==
  /\ Consuming(c, {"killNotification"})
  /\ Finish(RequestKillNotification(killDB, held[c].target,
              [comp |-> c, match |-> held[c].match]), {})
  /\ Consumed(c)
  /\ UNCHANGED <<proc, lastMatch>>

(* The request to observe a component that is not there is echoed at once. *)
KillNotificationCallback(c) ==
  /\ Consuming(c, {"killNotification"})
  /\ LET x == held[c].target
         n == [comp |-> c, match |-> held[c].match]
     IN IF x \in Open
        THEN Finish(RequestKillNotification(killDB, x, n), {})
        ELSE \E D \in Hangups({c}) :
               Finish([killDB EXCEPT !.answered =
                         @ \cup {m \in {n} : c \in Open \ D}], D)
  /\ Consumed(c)
  /\ UNCHANGED <<proc, lastMatch>>

(* AR_KILL: the target is told to shut down, and removed in any case.      *)
Kill(c) ==
  /\ Consuming(c, {"kill"})
  /\ Finish(killDB, {held[c].target} \cap Open)
  /\ Consumed(c)
  /\ UNCHANGED <<proc, lastMatch>>

(* c is removed by its own read thread or by another handler's write.      *)
Disconnect(c) ==
  /\ ReadFails(c) \/ WriteFails(c)
  /\ Finish(killDB, {c})
  /\ UNCHANGED <<proc, held, lastMatch>>

-----------------------------------------------------------------------------
(* requestKillNotification (src/phleet/arSZGClient.cpp) and dkill -9.      *)
SendRequest(c, r) ==
  /\ Receive(c, r)
  /\ IF r.kind = "killNotification"
     THEN /\ r.match = lastMatch[c] + 1
          /\ lastMatch' = [lastMatch EXCEPT ![c] = r.match]
     ELSE UNCHANGED lastMatch
  /\ UNCHANGED killDB

ClientStep(c) ==
  \/ \E r \in Request : SendRequest(c, r)
  \/ \E how \in {"down", "lost"} : Leave(c, how) /\ UNCHANGED killsVars
  \/ Accept(c) /\ UNCHANGED killsVars

Handle(c) == KillNotificationCallback(c) \/ Kill(c)

Next == \E c \in Component : ClientStep(c) \/ Handle(c) \/ Disconnect(c)

Spec == Init /\ [][Next]_vars

(* A record that was read is handled in the end, and the exit of a client  *)
(* is noticed.                                                             *)
FairSpec ==
  /\ Spec
  /\ \A c \in Component :
       /\ WF_vars(Handle(c))
       /\ WF_vars(ReadFails(c) /\ Disconnect(c))

-----------------------------------------------------------------------------
(* The two maps (szgserver.cpp:119-126) say the same thing, although one   *)
(* is purged by observed component and the other by observer, and only     *)
(* connected components are observed: the check and the registration in    *)
(* killNotificationCallback are two separate steps that rely on being      *)
(* serialised with every removal (szgserver.cpp:1429).                     *)
WatchTablesAgree ==
  \A x \in Component :
    /\ \A c \in Component :
         (\E n \in killDB.watchers[x] : n.comp = c) <=> x \in killDB.watching[c]
    /\ killDB.watchers[x] # {} => link[x] = "open"

(* A connected client's request is never lost and never answered twice: it *)
(* is with the read thread, or it observes one component, or it was        *)
(* answered, and only one of these.                                        *)
Whereabouts(n) ==
  {<<"held">> : r \in {r \in {held[n.comp]} \ {NoRequest} :
                         r.kind = "killNotification" /\ r.match = n.match}}
  \cup {<<"observes", x>> : x \in {y \in Component : n \in killDB.watchers[y]}}
  \cup {<<"answered">> : m \in {n} \cap killDB.answered}

RequestsAccounted ==
  server = "running" =>
    \A c \in Open : \A m \in 1..lastMatch[c] :
      \E w \in {Whereabouts([comp |-> c, match |-> m])} :
        \E x \in w : w = {x}

(* When a component exits, everyone who observes it and stays connected is *)
(* told in the end.                                                        *)
ExitAnnounced ==
  \A x \in Component, n \in Notification :
    (n \in killDB.watchers[x] /\ proc[x] = "down")
    ~> (n \in killDB.answered \/ link[n.comp] = "gone" \/ server = "undefined")
=============================================================================
