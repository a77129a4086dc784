---------------------------- MODULE SzgMessages ----------------------------
(***************************************************************************)
(* Messages between components, the responses to them, and the trades by   *)
(* which a component lets another one respond in its place (szgd has the   *)
(* program it launched answer the "dex" command): src/phleet/szgserver.cpp.*)
(*                                                                         *)
(* The maps of the code are fields of msgDB:                               *)
(*   owned   messageOwnershipDB           the messages by ID               *)
(*   lists   componentMessageOwnershipDB  component -> list of IDs         *)
(*   traded  messageTradingDB             the messages by trading key      *)
(*   keys    componentTradingOwnershipDB  component -> list of keys        *)
(*   nextID  nextMessageID                                                 *)
(* The rest records what was written to clients still connected: final and *)
(* late for the responses, told for completed trades.  A client's request  *)
(* is named by the client and its match, a Ticket.                         *)
(***************************************************************************)
EXTENDS SzgConnections, Naturals, FiniteSets

CONSTANTS Key,         \* the keys on which trades are posted
          MaxMessage,  \* how many messages are given an ID
          MaxMatch     \* how many messages and trades a component may start

ASSUME MessagesAssumption == MaxMessage \in Nat /\ MaxMatch \in Nat

VARIABLES msgDB,      \* the tables above
          accepted,   \* the tickets of messages whose senders got a good ack
          lastMatch   \* lastMatch[c]: _match, for messages and trades

vars == <<link, proc, held, server, msgDB, accepted, lastMatch>>
messagesVars == <<msgDB, accepted, lastMatch>>

MessageID == 1..MaxMessage
Ticket == [comp : Component, match : 1..MaxMatch]

(* arPhleetMsg; ticket stands for idDestination and idMatch, tradingMatch  *)
(* is 0 where the code has -1.                                             *)
Message == [id : MessageID, owner : Component, ticket : Ticket,
            tradingMatch : 0..MaxMatch]

Request ==
       [kind : {"message"}, dest : Component, response : BOOLEAN,
        match : 1..MaxMatch]
  \cup [kind : {"response"}, id : MessageID, status : {"CONTINUE", "SUCCESS"}]
  \cup [kind : {"trade"}, id : MessageID, key : Key, match : 1..MaxMatch]
  \cup [kind : {"request", "revoke"}, key : Key]
  \cup [kind : {"kill"}, target : Component]

MessageTables ==
  [owned : SUBSET Message,
   lists : [Component -> SUBSET MessageID],
   traded : SUBSET [key : Key, msg : Message],
   keys : [Component -> SUBSET Key],
   nextID : 1..(MaxMessage + 1),
   final : SUBSET Ticket,
   late : SUBSET Ticket,
   told : SUBSET Ticket]

TypeOK ==
  /\ ConnTypeOK(Request)
  /\ msgDB \in MessageTables
  /\ accepted \subseteq Ticket
  /\ lastMatch \in [Component -> 0..MaxMatch]

Init ==
  /\ ConnInit
  /\ msgDB = [owned |-> {}, lists |-> [c \in Component |-> {}],
              traded |-> {}, keys |-> [c \in Component |-> {}],
              nextID |-> 1, final |-> {}, late |-> {}, told |-> {}]
  /\ accepted = {}
  /\ lastMatch = [c \in Component |-> 0]

-----------------------------------------------------------------------------
(* The functions on the tables.                                            *)

(* Mutant: the match of the message is not kept.                           *)
AddMessageNoMatch(d, o, t) ==
  [d EXCEPT !.owned = @ \cup {[id |-> d.nextID, owner |-> o,
                               ticket |-> [t EXCEPT !.match = 0],
                               tradingMatch |-> 0]},
            !.lists[o] = @ \cup {d.nextID}]

AddMessage(d, o, t) ==
  [d EXCEPT !.owned = @ \cup {[id |-> d.nextID, owner |-> o, ticket |-> t,
                               tradingMatch |-> 0]},
            !.lists[o] = @ \cup {d.nextID}]

(* Mutant: the owner's list keeps the ID.                                  *)
RemoveMessageKeepsID(d, m) == [d EXCEPT !.owned = @ \ {m}]

RemoveMessage(d, m) ==
  [d EXCEPT !.owned = @ \ {m}, !.lists[m.owner] = @ \ {m.id}]

(* Mutant: the message stays with its owner while it is traded.            *)
AddTradeKeepsOwned(d, k, m, match) ==
  [d EXCEPT !.traded = @ \cup {[key |-> k,
                                msg |-> [m EXCEPT !.tradingMatch = match]]},
            !.keys[m.owner] = @ \cup {k}]

AddTrade(d, k, m, match) ==
  LET e == RemoveMessage(d, m)
  IN [e EXCEPT !.traded = @ \cup {[key |-> k,
                                   msg |-> [m EXCEPT !.tradingMatch = match]]},
               !.keys[m.owner] = @ \cup {k}]

(* Mutant: the key is looked for on the new owner's list.                  *)
RequestTradedSwapped(d, x, c) ==
  [d EXCEPT !.traded = @ \ {x},
            !.keys[c] = @ \ {x.key},
            !.owned = @ \cup {[x.msg EXCEPT !.owner = c]},
            !.lists[c] = @ \cup {x.msg.id}]

(* c gets the message of the trade x.                                      *)
RequestTraded(d, x, c) ==
  [d EXCEPT !.traded = @ \ {x},
            !.keys[x.msg.owner] = @ \ {x.key},
            !.owned = @ \cup {[x.msg EXCEPT !.owner = c]},
            !.lists[c] = @ \cup {x.msg.id}]

RevokeTrade(d, x) == RequestTraded(d, x, x.msg.owner)

(* Responses to the tickets in S were written to their senders.            *)
Respond(d, S, status) ==
  [d EXCEPT !.final = IF status = "CONTINUE" THEN @ ELSE @ \cup S,
            !.late = @ \cup (S \cap d.final)]

(* The messages that await a response.                                     *)
Recorded(d) == d.owned \cup {x.msg : x \in d.traded}

(* What the components in D are responsible for, found by their lists.     *)
OwnedBy(d, D) == {m \in d.owned : \E c \in D : m.id \in d.lists[c]}
TradedBy(d, D) == {x \in d.traded : \E c \in D : x.key \in d.keys[c]}
ChargedTo(d, D) == OwnedBy(d, D) \cup {x.msg : x \in TradedBy(d, D)}

(* Mutant: what is on the lists is removed, and no sender hears of it.     *)
RemoveComponentsSilently(d, D, connected) ==
  [d EXCEPT !.owned = @ \ OwnedBy(d, D),
            !.lists = [c \in Component |-> IF c \in D THEN {} ELSE @[c]],
            !.traded = @ \ TradedBy(d, D),
            !.keys = [c \in Component |-> IF c \in D THEN {} ELSE @[c]]]

RemoveComponents(d, D, connected) ==
  [Respond(d, {t \in {m.ticket : m \in ChargedTo(d, D)} : t.comp \in connected},
           "FAILURE")
   EXCEPT !.owned = @ \ OwnedBy(d, D),
          !.lists = [c \in Component |-> IF c \in D THEN {} ELSE @[c]],
          !.traded = @ \ TradedBy(d, D),
          !.keys = [c \in Component |-> IF c \in D THEN {} ELSE @[c]]]

-----------------------------------------------------------------------------
(* The removal of o writes to the senders of its messages; a failed write  *)
(* removes that sender too, from within the removal of o.                  *)
RemovalReaches(d, o, b) ==
  b \in Broken /\ \E m \in ChargedTo(d, {o}) : m.ticket.comp = b

(* The components that may be lost together when those in T are removed.   *)
Cascades(d, T) ==
  {D \in SUBSET (T \cup Broken) :
     /\ T \subseteq D
     /\ \A S \in SUBSET D :
          T \subseteq S /\ S # D =>
            \E o \in S, b \in D \ S : RemovalReaches(d, o, b)}

(* What every handler ends with.                                           *)
Finish(d, D) ==
  /\ msgDB' = RemoveComponents(d, D, Open \ D)
  /\ Close(D)
  /\ UNCHANGED server

(* The tables are d and the components in T were written to: those writes  *)
(* may fail.                                                               *)
Lose(d, T, D) == \E F \in Hangups(T) : D \in Cascades(d, F)

(* The handler turned the tables to d; its writes to T may have failed.    *)
Answer(d, T) == \E D \in SUBSET Open : Lose(d, T, D) /\ Finish(d, D)

(* A message to a component that is gone is refused, one that cannot be    *)
(* delivered too.  It is on record before it is sent.                      *)
MessageProcessingCallback(c) ==
  /\ Consuming(c, {"message"})
  /\ LET r == held[c]
         t == [comp |-> c, match |-> r.match]
         e == IF r.response THEN AddMessage(msgDB, r.dest, t) ELSE msgDB
         d == [e EXCEPT !.nextID = @ + 1]
     IN IF r.dest \in Open
        THEN \E D \in SUBSET Open :
               /\ Lose(d, {r.dest, c}, D)
               /\ Finish(d, D)
               /\ accepted' = accepted \cup
                    {u \in {t} : r.response /\ D = {} /\ c \in Open}
        ELSE Answer(msgDB, {c}) /\ UNCHANGED accepted
  /\ Consumed(c)
  /\ UNCHANGED <<proc, lastMatch>>

(* Mutant: anyone may respond.                                             *)
ResponseOfAnyone(c) ==
  /\ Consuming(c, {"response"})
  /\ \E m \in {m \in msgDB.owned : m.id = held[c].id} :
       Finish(Respond(RemoveMessage(msgDB, m), {m.ticket}, "SUCCESS"), {})
  /\ Consumed(c)
  /\ UNCHANGED <<proc, accepted, lastMatch>>

(* Mutant: a message is answered and stays on record.                      *)
ResponseKeepsMessage(c) ==
  /\ Consuming(c, {"response"})
  /\ \E m \in {m \in msgDB.owned : m.id = held[c].id /\ m.owner = c} :
       Finish(Respond(msgDB, {m.ticket}, held[c].status), {})
  /\ Consumed(c)
  /\ UNCHANGED <<proc, accepted, lastMatch>>

(* "SZG Response": only the owner's response is forwarded, and a final one *)
(* settles the message even when its sender is gone.                       *)
MessageResponse(c) ==
  /\ Consuming(c, {"response"})
  /\ LET r == held[c]
         mine == {m \in msgDB.owned : m.id = r.id /\ m.owner = c}
     IN \/ mine = {} /\ Answer(msgDB, {c})
        \/ \E m \in mine, D \in SUBSET Open :
             LET e == IF r.status = "CONTINUE" THEN msgDB
                      ELSE RemoveMessage(msgDB, m)
                 heard == {t \in {m.ticket} : t.comp \in Open \ D}
             IN /\ Lose(e, {m.ticket.comp, c}, D)
                /\ Finish(Respond(e, heard, r.status), D)
  /\ Consumed(c)
  /\ UNCHANGED <<proc, accepted, lastMatch>>

(* "SZG Trade Message"                                                     *)
TradeMessage(c) ==
  /\ Consuming(c, {"trade"})
  /\ LET r == held[c]
         free == \A x \in msgDB.traded : x.key # r.key
         mine == {m \in msgDB.owned : m.id = r.id /\ m.owner = c}
     IN \/ (mine = {} \/ ~ free) /\ Answer(msgDB, {c})
        \/ free /\ \E m \in mine :
             Answer(AddTrade(msgDB, r.key, m, r.match), {c})
  /\ Consumed(c)
  /\ UNCHANGED <<proc, accepted, lastMatch>>

(* Mutant: the one who completes the trade is told, not who posted it.     *)
MessageRequestTellsTaker(c) ==
  /\ Consuming(c, {"request"})
  /\ \E x \in {y \in msgDB.traded : y.key = held[c].key} :
       Finish([RequestTraded(msgDB, x, c) EXCEPT !.told =
                 @ \cup {[comp |-> c, match |-> x.msg.tradingMatch]}], {})
  /\ Consumed(c)
  /\ UNCHANGED <<proc, accepted, lastMatch>>

(* "SZG Message Request": the component that posted the trade is told      *)
(* before the one that completes it.                                       *)
MessageRequest(c) ==
  /\ Consuming(c, {"request"})
  /\ LET posted == {x \in msgDB.traded : x.key = held[c].key}
     IN \/ posted = {} /\ Answer(msgDB, {c})
        \/ \E x \in posted, D \in SUBSET Open :
             LET d == RequestTraded(msgDB, x, c)
                 u == [comp |-> x.msg.owner, match |-> x.msg.tradingMatch]
             IN /\ Lose(d, {x.msg.owner, c}, D)
                /\ Finish([d EXCEPT !.told =
                             @ \cup {v \in {u} : v.comp \in Open \ D}], D)
  /\ Consumed(c)
  /\ UNCHANGED <<proc, accepted, lastMatch>>

(* "SZG Revoke Trade": only by the component that posted it.               *)
RevokeMessageTrade(c) ==
  /\ Consuming(c, {"revoke"})
  /\ LET mine == {x \in msgDB.traded : x.key = held[c].key /\ x.msg.owner = c}
     IN \/ mine = {} /\ Answer(msgDB, {c})
        \/ \E x \in mine : Answer(RevokeTrade(msgDB, x), {c})
  /\ Consumed(c)
  /\ UNCHANGED <<proc, accepted, lastMatch>>

(* AR_KILL                                                                 *)
Kill(c) ==
  /\ Consuming(c, {"kill"})
  /\ \E D \in Cascades(msgDB, {held[c].target} \cap Open) : Finish(msgDB, D)
  /\ Consumed(c)
  /\ UNCHANGED <<proc, accepted, lastMatch>>

(* c is removed by its own read thread or by another handler's write.      *)
Disconnect(c) ==
  /\ ReadFails(c) \/ WriteFails(c)
  /\ \E D \in Cascades(msgDB, {c}) : Finish(msgDB, D)
  /\ UNCHANGED <<proc, held, accepted, lastMatch>>

-----------------------------------------------------------------------------
(* The client side (src/phleet/arSZGClient.cpp).  A component may name any *)
(* message that has an ID: szgd answers a message itself when its trade    *)
(* timed out, although it may have been completed in the meantime.  No     *)
(* more messages are under way than there are IDs left (MaxMessage).       *)
UnderWay == {c \in Component : held[c] # NoRequest /\ held[c].kind = "message"}

SendRequest(c, r) ==
  /\ Receive(c, r)
  /\ r.kind \in {"response", "trade"} => r.id < msgDB.nextID
  /\ r.kind = "message" =>
       Cardinality(UnderWay) + msgDB.nextID \in MessageID
  /\ IF r.kind \in {"message", "trade"}
     THEN /\ r.match = lastMatch[c] + 1
          /\ lastMatch' = [lastMatch EXCEPT ![c] = r.match]
     ELSE UNCHANGED lastMatch
  /\ UNCHANGED <<msgDB, accepted>>

ClientStep(c) ==
  \/ \E r \in Request : SendRequest(c, r)
  \/ \E how \in {"down", "lost"} : Leave(c, how) /\ UNCHANGED messagesVars
  \/ Accept(c) /\ UNCHANGED messagesVars

Handle(c) ==
  \/ MessageProcessingCallback(c)
  \/ MessageResponse(c)
  \/ TradeMessage(c)
  \/ MessageRequest(c)
  \/ RevokeMessageTrade(c)
  \/ Kill(c)

Next == \E c \in Component : ClientStep(c) \/ Handle(c) \/ Disconnect(c)

Spec == Init /\ [][Next]_vars

(* As for the locks: a record that was read is handled in the end, and the *)
(* exit of a client is noticed.                                            *)
FairSpec ==
  /\ Spec
  /\ \A c \in Component :
       /\ WF_vars(Handle(c))
       /\ WF_vars(ReadFails(c) /\ Disconnect(c))

-----------------------------------------------------------------------------
(* The two maps about the messages to be answered agree, and so do the two *)
(* about trades: removing a component by its lists finds all it has to     *)
(* answer and all it offered (SZGremoveComponentFromDB, szgserver.cpp:831).*)
TablesAgree ==
  \A c \in Component :
    /\ \A i \in MessageID :
         i \in msgDB.lists[c] <=> \E m \in msgDB.owned : m.id = i /\ m.owner = c
    /\ \A k \in Key :
         k \in msgDB.keys[c] <=>
           \E x \in msgDB.traded : x.key = k /\ x.msg.owner = c

(* A message that is being traded cannot be answered, no key stands for    *)
(* two messages and no message for two keys: each is on record once.       *)
OneCustodian ==
  /\ \A m \in msgDB.owned, x \in msgDB.traded : m.id # x.msg.id
  /\ \A x, y \in msgDB.traded :
       x.key = y.key \/ x.msg.id = y.msg.id => x = y
  /\ \A m, n \in Recorded(msgDB) : m.id = n.id \/ m.ticket = n.ticket => m = n

(* A message whose sender was told it is on its way, and is connected, is  *)
(* on record until the final response to it was sent, and no response is   *)
(* sent after that one.                                                    *)
ResponsesAccounted ==
  /\ msgDB.late = {}
  /\ \A t \in accepted :
       t.comp \in Open =>
         \/ t \in msgDB.final
         \/ \E m \in Recorded(msgDB) : m.ticket = t

(* A trade posted by a component that stays connected ends in one of two   *)
(* ways: another component got the message and the one that posted the     *)
(* trade is told, or it is revoked and the message is back.                *)
TradeSettled ==
  [][\A x \in msgDB.traded \ msgDB'.traded :
       link'[x.msg.owner] = "open" =>
         LET told == [comp |-> x.msg.owner, match |-> x.msg.tradingMatch]
                       \in msgDB'.told
             back == \E m \in msgDB'.owned :
                       m.id = x.msg.id /\ m.owner = x.msg.owner
         IN told \/ back]_vars

(* When the component responsible for a message exits, the sender hears of *)
(* it in the end, unless another took over.                                *)
OwnerExitAnswered ==
  \A m \in Message :
    (/\ \E n \in msgDB.owned : n = m
     /\ m.owner \in Open
     /\ proc[m.owner] = "down")
    ~> (\/ m.ticket \in msgDB.final
        \/ link[m.ticket.comp] = "gone"
        \/ \E n \in Recorded(msgDB) : n.id = m.id /\ n # m)

(* The message service the tables implement.                               *)
Promise == INSTANCE MessageService WITH
  Client <- Component, SenderOf <- LAMBDA t : t.comp,
  pending <- {[ticket |-> m.ticket, client |-> m.owner] :
                m \in Recorded(msgDB)},
  final <- msgDB.final,
  absent <- {c \in Component : link[c] = "gone"}

ImplementsMessageService == Promise!Spec
=============================================================================
