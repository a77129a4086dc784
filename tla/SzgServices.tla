----------------------------- MODULE SzgServices -----------------------------
(***************************************************************************)
(* The connection broker of the szgserver: which component offers which    *)
(* named service on which ports, who waits for a service to appear, and    *)
(* who is to be told when one is released (arPhleetConnectionBroker.cpp    *)
(* and its callers in szgserver.cpp).                                      *)
(*                                                                         *)
(* One computer: the records of several have only the names of services in *)
(* common.  The fields of broker are                                       *)
(*   block, available, hostTemp, hostUsed    arBrokerComputerData          *)
(*   temporary, used                         _temporaryServices and        *)
(*                                           _usedServices                 *)
(*   tempTags, usedTags, releaseTags,        arBrokerComponentData         *)
(*   tempPorts, usedPorts                                                  *)
(*   pending                                 _requestedServices            *)
(* The lists of which only the members matter are sets.  The order of the  *)
(* available ports matters: a port that failed goes to the back.           *)
(*                                                                         *)
(* The rest says what became of the requests of connected clients: served  *)
(* and refused for those that look for a service, released for those that  *)
(* await its release, declined and ignored for those the server neither    *)
(* answers nor records; and leaked holds the ports that a request which    *)
(* could not be met took from the pool.                                    *)
(***************************************************************************)
EXTENDS SzgConnections, Integers, Sequences

CONSTANTS Service,    \* the names of services
          Network,    \* the networks: each component names one
          Block,      \* the blocks of ports, [first, size] records
          Size,       \* how many ports a service may ask for
          MaxMatch,   \* how many requests a component may await at once
          NoOffer     \* no entry in a table of services

VARIABLES broker,     \* the tables above
          assigned,   \* assigned[c]: the services for which c got ports and
                      \* which it has not confirmed
          lastMatch   \* lastMatch[c]: _match, for requests that may wait

vars == <<link, proc, held, server, broker, assigned, lastMatch>>
servicesVars == <<broker, assigned, lastMatch>>

Members(q) == {q[i] : i \in DOMAIN q}
PortsOf(b) == b.first .. b.first + b.size - 1
Port == UNION {PortsOf(b) : b \in Block}
Ticket == [comp : Component, match : 1..MaxMatch]
Waiting == [ticket : Ticket, service : Service, net : Network]

Request ==
       [kind : {"SZG_TRY"}, service : Service, net : Network,
        block : Block, size : Size]
  \cup [kind : {"SZG_RETRY", "SZG_SUCCESS"}, service : Service]
  \cup [kind : {"requestService"}, service : Service, net : Network,
        match : 1..MaxMatch]
  \cup [kind : {"serviceRelease"}, service : Service, match : 1..MaxMatch]
  \cup [kind : {"kill"}, target : Component]

(* A record of a service (arPhleetService): who offers it on which ports,  *)
(* and who is to be told of its release.                                   *)
Offer == [comp : Component, net : Network, ports : Seq(Port),
          notes : SUBSET Ticket]

ASSUME ServicesAssumption ==
  /\ MaxMatch \in Nat
  /\ Block \subseteq [first : Nat, size : Nat]
  /\ Size \subseteq Nat \ {0}
  /\ NoRequest \notin Request
  /\ NoOffer \notin Offer

(* The block before the first request for ports.                           *)
NoBlock == [first |-> 0, size |-> 0]

Offers == {o \in Offer : Len(o.ports) \in Size} \cup {NoOffer}

Tables ==
  [block : Block \cup {NoBlock}, available : Seq(Port),
   hostTemp : SUBSET Port, hostUsed : SUBSET Port,
   temporary : [Service -> Offers], used : [Service -> Offers],
   tempTags : [Component -> SUBSET Service],
   usedTags : [Component -> SUBSET Service],
   releaseTags : [Component -> SUBSET Service],
   tempPorts : [Component -> Seq(Port)],
   usedPorts : [Component -> Seq(Port)],
   pending : SUBSET Waiting, leaked : SUBSET Port,
   served : SUBSET Ticket, refused : SUBSET Ticket,
   released : SUBSET Ticket, declined : SUBSET Ticket,
   ignored : SUBSET Ticket]

TypeOK ==
  /\ ConnTypeOK(Request)
  /\ broker \in Tables
  /\ assigned \in [Component -> SUBSET Service]
  /\ lastMatch \in [Component -> 0..MaxMatch]

Init ==
  /\ ConnInit
  /\ broker = [block |-> NoBlock,
               available |-> <<>>, hostTemp |-> {}, hostUsed |-> {},
               temporary |-> [s \in Service |-> NoOffer],
               used |-> [s \in Service |-> NoOffer],
               tempTags |-> [c \in Component |-> {}],
               usedTags |-> [c \in Component |-> {}],
               releaseTags |-> [c \in Component |-> {}],
               tempPorts |-> [c \in Component |-> <<>>],
               usedPorts |-> [c \in Component |-> <<>>],
               pending |-> {}, leaked |-> {},
               served |-> {}, refused |-> {}, released |-> {},
               declined |-> {}, ignored |-> {}]
  /\ assigned = [c \in Component |-> {}]
  /\ lastMatch = [c \in Component |-> 0]

-----------------------------------------------------------------------------
(* The methods of the broker: each maps the tables before to those after.  *)

(* What is left of q without the elements outside S, in order.             *)
Only(q, S) ==
  LET kept[i \in 0..Len(q)] ==
        IF i = 0 THEN <<>>
        ELSE IF q[i] \in S THEN Append(kept[i - 1], q[i]) ELSE kept[i - 1]
  IN kept[Len(q)]

Without(q, S) == Only(q, Members(q) \ S)
Least(m, n) == IF m < n THEN m ELSE n

(* A port of another block does not go back to the pool.                   *)
PortValid(b, p) == p \in PortsOf(b.block)
Returned(b, q) == Only(q, {p \in Members(q) : PortValid(b, p)})

(* Mutant: the ports that are in use are offered again.                    *)
ResizeComputerPortsAnew(b, k) ==
  IF b.block = k THEN b
  ELSE [b EXCEPT !.block = k,
                 !.available = [i \in 1..k.size |-> k.first + i - 1]]

(* The first port request for the computer, or one by a client configured  *)
(* otherwise, makes a new pool.                                            *)
ResizeComputerPorts(b, k) ==
  IF b.block = k THEN b
  ELSE [b EXCEPT !.block = k,
                 !.available = Without([i \in 1..k.size |-> k.first + i - 1],
                                       b.hostTemp \cup b.hostUsed)]

CheckService(b, s) == b.temporary[s] # NoOffer \/ b.used[s] # NoOffer

(* Mutant: the ports stay in the pool.                                     *)
AssignPortsKeepsAvailable(b, s, c, net, n) ==
  LET ports == SubSeq(b.available, 1, n)
  IN [b EXCEPT !.hostTemp = @ \cup Members(ports),
               !.tempTags[c] = @ \cup {s},
               !.tempPorts[c] = @ \o ports,
               !.temporary[s] = [comp |-> c, net |-> net, ports |-> ports,
                                 notes |-> {}]]

(* The first n ports of the pool, at least as many, go to c.               *)
AssignPorts(b, s, c, net, n) ==
  LET ports == SubSeq(b.available, 1, n)
  IN [b EXCEPT !.available = SubSeq(@, n + 1, Len(@)),
               !.hostTemp = @ \cup Members(ports),
               !.tempTags[c] = @ \cup {s},
               !.tempPorts[c] = @ \o ports,
               !.temporary[s] = [comp |-> c, net |-> net, ports |-> ports,
                                 notes |-> {}]]

(* Too few ports: those there were are taken, and belong to nobody.        *)
ExhaustPorts(b) ==
  [b EXCEPT !.available = <<>>,
            !.hostTemp = @ \cup Members(b.available),
            !.leaked = @ \cup Members(b.available)]

(* Mutant: the ports that failed are offered again at once.                *)
RetryPortsAtFront(b, s) ==
  LET o == b.temporary[s]
      pool == Returned(b, o.ports) \o b.available
      k == Least(Len(o.ports), Len(pool))
      fresh == SubSeq(pool, 1, k)
  IN [b EXCEPT
       !.available = SubSeq(pool, k + 1, Len(pool)),
       !.hostTemp = (@ \ Members(o.ports)) \cup Members(fresh),
       !.tempPorts[o.comp] = Without(@, Members(o.ports)) \o fresh,
       !.temporary[s].ports = fresh \o SubSeq(@, k + 1, Len(@))]

(* The old ports go to the back of the pool, new ones come from the front. *)
(* Should the pool run empty, the last of the old ones stay in the record. *)
RetryPorts(b, s) ==
  LET o == b.temporary[s]
      pool == b.available \o Returned(b, o.ports)
      k == Least(Len(o.ports), Len(pool))
      fresh == SubSeq(pool, 1, k)
  IN [b EXCEPT
       !.available = SubSeq(pool, k + 1, Len(pool)),
       !.hostTemp = (@ \ Members(o.ports)) \cup Members(fresh),
       !.tempPorts[o.comp] = Without(@, Members(o.ports)) \o fresh,
       !.temporary[s].ports = fresh \o SubSeq(@, k + 1, Len(@))]

(* Mutant: the service stays on the list of the component's temporary ones.*)
ConfirmPortsKeepsTag(b, s) ==
  LET o == b.temporary[s]
      P == Members(o.ports)
  IN [b EXCEPT !.temporary[s] = NoOffer,
               !.used[s] = o,
               !.hostTemp = @ \ P,
               !.hostUsed = @ \cup P,
               !.tempPorts[o.comp] = Without(@, P),
               !.usedPorts[o.comp] = @ \o o.ports,
               !.usedTags[o.comp] = @ \cup {s}]

ConfirmPorts(b, s) ==
  LET o == b.temporary[s]
      P == Members(o.ports)
  IN [b EXCEPT !.temporary[s] = NoOffer,
               !.used[s] = o,
               !.hostTemp = @ \ P,
               !.hostUsed = @ \cup P,
               !.tempPorts[o.comp] = Without(@, P),
               !.usedPorts[o.comp] = @ \o o.ports,
               !.tempTags[o.comp] = @ \ {s},
               !.usedTags[o.comp] = @ \cup {s}]

(* Mutant: the match of the request is not kept.                           *)
RegisterReleaseNotificationNoMatch(b, s, t) ==
  [b EXCEPT !.used[s].notes = @ \cup {[t EXCEPT !.match = 0]},
            !.releaseTags[t.comp] = @ \cup {s}]

(* Mutant: the component's own list is forgotten.                          *)
RegisterReleaseNotificationOneWay(b, s, t) ==
  [b EXCEPT !.used[s].notes = @ \cup {t}]

RegisterReleaseNotification(b, s, t) ==
  [b EXCEPT !.used[s].notes = @ \cup {t},
            !.releaseTags[t.comp] = @ \cup {s}]

(* Those on the lists of the services in S.                                *)
Notes(b, S) == UNION {b.used[s].notes : s \in {x \in S : b.used[x] # NoOffer}}

(* Mutant: nobody hears of the release.                                    *)
RemoveServicesSilently(b, S, connected) ==
  [b EXCEPT
    !.temporary = [s \in Service |-> IF s \in S THEN NoOffer ELSE @[s]],
    !.used = [s \in Service |-> IF s \in S THEN NoOffer ELSE @[s]],
    !.releaseTags = [c \in Component |-> @[c] \ S]]

RemoveServices(b, S, connected) ==
  [b EXCEPT
    !.temporary = [s \in Service |-> IF s \in S THEN NoOffer ELSE @[s]],
    !.used = [s \in Service |-> IF s \in S THEN NoOffer ELSE @[s]],
    !.releaseTags = [c \in Component |->
                       @[c] \ {s \in S : b.used[s] # NoOffer /\
                                 \E t \in b.used[s].notes : t.comp = c}],
    !.released = @ \cup {t \in Notes(b, S) : t.comp \in connected}]

(* c's entries on the lists of the services whose release it awaits.       *)
DropReleaseNotes(b, c) ==
  [b EXCEPT
    !.used = [s \in Service |->
                LET o == b.used[s]
                IN IF s \in b.releaseTags[c] /\ o # NoOffer
                   THEN [o EXCEPT !.notes = {t \in o.notes : t.comp # c}]
                   ELSE o],
    !.releaseTags[c] = {}]

(* Mutant: the ports that were confirmed are not returned.                 *)
ReturnTemporaryPortsOnly(b, c) ==
  [b EXCEPT !.available = @ \o Returned(b, b.tempPorts[c]),
            !.hostTemp = @ \ Members(b.tempPorts[c]),
            !.hostUsed = @ \ Members(b.usedPorts[c]),
            !.tempPorts[c] = <<>>, !.usedPorts[c] = <<>>,
            !.tempTags[c] = {}, !.usedTags[c] = {}]

ReturnPorts(b, c) ==
  [b EXCEPT !.available = @ \o Returned(b, b.tempPorts[c] \o b.usedPorts[c]),
            !.hostTemp = @ \ Members(b.tempPorts[c]),
            !.hostUsed = @ \ Members(b.usedPorts[c]),
            !.tempPorts[c] = <<>>, !.usedPorts[c] = <<>>,
            !.tempTags[c] = {}, !.usedTags[c] = {}]

RemoveComponent(b, c, connected) ==
  LET d == [b EXCEPT !.pending = {w \in @ : w.ticket.comp # c}]
      e == RemoveServices(d, d.tempTags[c] \cup d.usedTags[c], connected)
  IN ReturnPorts(DropReleaseNotes(e, c), c)

(* The notes on c's services are walked while their owners are written to; *)
(* one whose write fails is removed and erases its note from the list that *)
(* is being walked (the broker's lock is recursive): undefined behaviour.  *)
WalksErasedNode(b, c) ==
  \E t \in Notes(b, b.usedTags[c]) : t.comp # c /\ t.comp \in Broken

-----------------------------------------------------------------------------
(* What every handler ends with: D holds at most one component, the one to *)
(* which the write of the answer failed or which is removed on request.    *)
Finish(b, D) ==
  \/ D = {} /\ broker' = b /\ UNCHANGED <<link, server>>
  \/ \E c \in D :
       \/ /\ broker' = RemoveComponent(b, c, Open \ D)
          /\ Close(D)
          /\ UNCHANGED server
       \/ /\ WalksErasedNode(b, c)
          /\ server' = "undefined"
          /\ UNCHANGED <<link, broker>>

(* c learns that it may try to listen on the ports for s.                  *)
Granted(c, s, D) ==
  assigned' = IF c \in Open \ D
              THEN [assigned EXCEPT ![c] = @ \cup {s}] ELSE assigned

(* registerServiceCallback, status SZG_TRY: requestPorts                   *)
RegisterTry(c) ==
  /\ Consuming(c, {"SZG_TRY"})
  /\ Consumed(c)
  /\ LET r == held[c]
         b == ResizeComputerPorts(broker, r.block)
         taken == CheckService(broker, r.service)
         enough == Len(b.available) >= r.size
     IN \E D \in Hangups({c}) :
          \/ taken /\ Finish(broker, D) /\ UNCHANGED assigned
          \/ /\ ~ taken /\ ~ enough
             /\ Finish(ExhaustPorts(b), D)
             /\ UNCHANGED assigned
          \/ /\ ~ taken /\ enough
             /\ Finish(AssignPorts(b, r.service, c, r.net, r.size), D)
             /\ Granted(c, r.service, D)
  /\ UNCHANGED <<proc, lastMatch>>

OwnedTemporary(c, s) ==
  broker.temporary[s] # NoOffer /\ broker.temporary[s].comp = c

(* SZG_RETRY: retryPorts                                                   *)
RegisterRetry(c) ==
  /\ Consuming(c, {"SZG_RETRY"})
  /\ Consumed(c)
  /\ LET s == held[c].service
         b == IF OwnedTemporary(c, s) THEN RetryPorts(broker, s) ELSE broker
     IN \E D \in Hangups({c}) : Finish(b, D)
  /\ UNCHANGED <<proc, assigned, lastMatch>>

(* Those who wait for s are answered, whether or not it is offered now: it *)
(* is not when the confirmation was turned down or its sender was lost.    *)
(* A write to one of them that fails shows as a Disconnect of its own.     *)
AnswerPending(b, s, connected) ==
  LET asked == {w \in b.pending : w.service = s}
      heard == {w \in asked : w.ticket.comp \in connected}
      found == {w \in heard : b.used[s] # NoOffer /\ b.used[s].net = w.net}
  IN [b EXCEPT !.pending = @ \ asked,
               !.served = @ \cup {w.ticket : w \in found},
               !.refused = @ \cup {w.ticket : w \in heard \ found}]

(* Mutant: those who wait are not told.                                    *)
RegisterSuccessSilently(c) ==
  /\ Consuming(c, {"SZG_SUCCESS"})
  /\ Consumed(c)
  /\ LET s == held[c].service
     IN Finish(IF OwnedTemporary(c, s) THEN ConfirmPorts(broker, s)
               ELSE broker, {})
  /\ UNCHANGED <<proc, assigned, lastMatch>>

(* SZG_SUCCESS: confirmPorts, then getPendingRequests.  When the answer to *)
(* c cannot be delivered, c is removed before the others are answered.     *)
RegisterSuccess(c) ==
  /\ Consuming(c, {"SZG_SUCCESS"})
  /\ Consumed(c)
  /\ LET s == held[c].service
         b == IF OwnedTemporary(c, s) THEN ConfirmPorts(broker, s) ELSE broker
     IN \/ Finish(AnswerPending(b, s, Open), {})
        \/ \E D \in Hangups({c}) :
             /\ D # {}
             /\ \/ /\ broker' = AnswerPending(RemoveComponent(b, c, Open \ D),
                                              s, Open \ D)
                   /\ Close(D)
                   /\ UNCHANGED server
                \/ /\ WalksErasedNode(b, c)
                   /\ server' = "undefined"
                   /\ UNCHANGED <<link, broker>>
  /\ UNCHANGED <<proc, assigned, lastMatch>>

(* requestServiceCallback, asynchronous: a request for a service that is   *)
(* not offered waits; one for a service on other networks does not, and is *)
(* not answered either.                                                    *)
RequestService(c) ==
  /\ Consuming(c, {"requestService"})
  /\ Consumed(c)
  /\ LET r == held[c]
         t == [comp |-> c, match |-> r.match]
         w == [ticket |-> t, service |-> r.service, net |-> r.net]
         offered == broker.used[r.service] # NoOffer
         reached == offered /\ broker.used[r.service].net = r.net
     IN \/ ~ offered /\ Finish([broker EXCEPT !.pending = @ \cup {w}], {})
        \/ /\ offered /\ ~ reached
           /\ Finish([broker EXCEPT !.declined = @ \cup {t}], {})
        \/ reached /\ \E D \in Hangups({c}) :
             Finish([broker EXCEPT !.served =
                       @ \cup {u \in {t} : c \in Open \ D}], D)
  /\ UNCHANGED <<proc, assigned, lastMatch>>

(* serviceReleaseCallback: a service that is not known is free already;    *)
(* only one that is used has a list.                                       *)
ServiceRelease(c) ==
  /\ Consuming(c, {"serviceRelease"})
  /\ Consumed(c)
  /\ LET s == held[c].service
         t == [comp |-> c, match |-> held[c].match]
         used == broker.used[s] # NoOffer
         free == ~ CheckService(broker, s)
     IN \/ used /\ Finish(RegisterReleaseNotification(broker, s, t), {})
        \/ free /\ \E D \in Hangups({c}) :
             Finish([broker EXCEPT !.released =
                       @ \cup {u \in {t} : c \in Open \ D}], D)
        \/ /\ ~ used /\ ~ free
           /\ Finish([broker EXCEPT !.ignored = @ \cup {t}], {})
  /\ UNCHANGED <<proc, assigned, lastMatch>>

(* AR_KILL                                                                 *)
Kill(c) ==
  /\ Consuming(c, {"kill"})
  /\ Consumed(c)
  /\ Finish(broker, {held[c].target} \cap Open)
  /\ UNCHANGED <<proc, assigned, lastMatch>>

(* c is removed by its own read thread or by another handler's write.      *)
Disconnect(c) ==
  /\ ReadFails(c) \/ WriteFails(c)
  /\ UNCHANGED <<proc, held, assigned, lastMatch>>
  /\ Finish(broker, {c})

-----------------------------------------------------------------------------
(* The client side (src/phleet/arSZGClient.cpp and the callers of          *)
(* registerService): new ports are asked for, and ports confirmed, only    *)
(* for a service for which ports were assigned; the failure to get new     *)
(* ports is mostly ignored.                                                *)
SendRequest(c, r) ==
  /\ Receive(c, r)
  /\ IF r.kind \in {"requestService", "serviceRelease"}
     THEN /\ r.match = lastMatch[c] + 1
          /\ lastMatch' = [lastMatch EXCEPT ![c] = r.match]
     ELSE UNCHANGED lastMatch
  /\ r.kind \in {"SZG_RETRY", "SZG_SUCCESS"} => r.service \in assigned[c]
  /\ assigned' = IF r.kind = "SZG_SUCCESS"
                 THEN [assigned EXCEPT ![c] = @ \ {r.service}] ELSE assigned
  /\ UNCHANGED broker

ClientStep(c) ==
  \/ \E r \in Request : SendRequest(c, r)
  \/ \E how \in {"down", "lost"} : Leave(c, how) /\ UNCHANGED servicesVars
  \/ Accept(c) /\ UNCHANGED servicesVars

Handle(c) ==
  \/ RegisterTry(c)
  \/ RegisterRetry(c)
  \/ RegisterSuccess(c)
  \/ RequestService(c)
  \/ ServiceRelease(c)
  \/ Kill(c)

Next == \E c \in Component : ClientStep(c) \/ Handle(c) \/ Disconnect(c)

Spec == Init /\ [][Next]_vars

(* A record that was read is handled in the end, and the exit of a client  *)
(* is noticed.  Every handler changes held, which is cheaper to compare    *)
(* than vars.                                                              *)
FairSpec ==
  /\ Spec
  /\ \A c \in Component :
       /\ WF_held(Handle(c))
       /\ WF_vars(ReadFails(c) /\ Disconnect(c))

-----------------------------------------------------------------------------
(* The tables of services and the lists of the components agree, so that   *)
(* the removal of a component finds all its services and all its requests  *)
(* (arPhleetConnectionBroker.cpp:604), and no name is offered twice.       *)
ServiceTablesAgree ==
  \A s \in Service :
    /\ broker.temporary[s] = NoOffer \/ broker.used[s] = NoOffer
    /\ \A c \in Component :
         /\ s \in broker.tempTags[c] <=> OwnedTemporary(c, s)
         /\ s \in broker.usedTags[c] <=>
              broker.used[s] # NoOffer /\ broker.used[s].comp = c
         /\ s \in broker.releaseTags[c] <=>
              \E t \in Notes(broker, {s}) : t.comp = c

(* The ports of the offers in both tables, with their services.            *)

AllOffers ==
  {[service |-> s, ports |-> broker.temporary[s].ports] :
     s \in {x \in Service : broker.temporary[x] # NoOffer}}
  \cup {[service |-> s, ports |-> broker.used[s].ports] :
     s \in {x \in Service : broker.used[x] # NoOffer}}

(* A port is offered by one service only, once, and not to others; and no  *)
(* port of the block is lost, but by a request that found too few of them  *)
(* (arPhleetConnectionBroker.cpp:90-96): it is available or on offer.      *)
PortsInOnePlace ==
  /\ \A o, p \in AllOffers :
       Members(o.ports) \cap Members(p.ports) # {} => o = p
  /\ \A o \in AllOffers :
       /\ \A i, j \in DOMAIN o.ports : o.ports[i] = o.ports[j] => i = j
       /\ Members(o.ports) \cap Members(broker.available) = {}
  /\ \A i, j \in DOMAIN broker.available :
       broker.available[i] = broker.available[j] => i = j
  /\ \A p \in PortsOf(broker.block) :
       \/ p \in Members(broker.available) \cup broker.leaked
       \/ \E o \in AllOffers : p \in Members(o.ports)

(* A retry finds as many ports as the service had: it does, unless the     *)
(* block has changed and the old ports are not returned to the new pool    *)
(* (arPhleetConnectionBroker.cpp:165-184).                                 *)
RetriesServed ==
  \A c \in Component :
    (Consuming(c, {"SZG_RETRY"}) /\ OwnedTemporary(c, held[c].service)) =>
       LET q == broker.temporary[held[c].service].ports
       IN  Len(q) <= Len(broker.available) + Len(Returned(broker, q))

(* Whoever asks for new ports for its service, and stays, gets none of the *)
(* old ones as long as there are enough of others: the ports that failed   *)
(* were sent to the back (arPhleetConnectionBroker.cpp:174).               *)
RetryMovesOn ==
  [][\A c \in Component, s \in Service :
       (/\ Consuming(c, {"SZG_RETRY"}) /\ held[c].service = s
        /\ held'[c] = NoRequest
        /\ OwnedTemporary(c, s)
        /\ Len(broker.available) >= Len(broker.temporary[s].ports)
        /\ broker'.temporary[s] # NoOffer /\ server' = "running")
       => Members(broker.temporary[s].ports)
            \cap Members(broker'.temporary[s].ports) = {}]_vars

(* Where a client's request is: with the read thread, on one of the        *)
(* broker's lists, answered in one way, or ignored.                        *)
Whereabouts(t) ==
  {<<"held">> : r \in {r \in {held[t.comp]} \ {NoRequest} :
       /\ r.kind \in {"requestService", "serviceRelease"}
       /\ r.match = t.match}}
  \cup {<<"pending", w>> : w \in {w \in broker.pending : w.ticket = t}}
  \cup {<<"noted", s>> : s \in {s \in Service : t \in Notes(broker, {s})}}
  \cup {<<"served">> : u \in {t} \cap broker.served}
  \cup {<<"refused">> : u \in {t} \cap broker.refused}
  \cup {<<"released">> : u \in {t} \cap broker.released}
  \cup {<<"declined">> : u \in {t} \cap broker.declined}
  \cup {<<"ignored">> : u \in {t} \cap broker.ignored}

(* A connected client's request is in exactly one place, and nobody waits  *)
(* for a service that is offered: whoever asks before it is confirmed is   *)
(* answered by the confirmation (szgserver.cpp:1584), whoever asks         *)
(* afterwards at once.                                                     *)
RequestsAccounted ==
  /\ \A w \in broker.pending : broker.used[w.service] = NoOffer
  /\ server = "running" =>
       \A c \in Open : \A m \in 1..lastMatch[c] :
         \E w \in {Whereabouts([comp |-> c, match |-> m])} :
           \E x \in w : w = {x}

(* When the component that offers a service exits, all who await its       *)
(* release and stay connected are told in the end.                         *)
ReleaseAnnounced ==
  \A s \in Service, t \in Ticket :
    (/\ t \in Notes(broker, {s})
     /\ broker.used[s].comp \in Open
     /\ proc[broker.used[s].comp] = "down")
    ~> (t \in broker.released \/ link[t.comp] = "gone" \/ server = "undefined")
=============================================================================
