------------------------- MODULE SzgMessages_proofs -------------------------
(***************************************************************************)
(* Theorems about SzgMessages, for any number of components, keys, messages*)
(* and matches: the types, the agreement of the tables, that a message is  *)
(* on record once and is answered once, how a trade ends, and that the     *)
(* tables implement MessageService.  First what the operators do to the    *)
(* tables, then the handlers, then the refinement.                         *)
(***************************************************************************)
EXTENDS SzgMessages, FiniteSetTheorems, TLAPS

(* The two maps about messages agree, and so do the two about trades.      *)
ListsAgree(owned, lists) ==
  \A c \in Component, i \in MessageID :
    i \in lists[c] <=> \E m \in owned : m.id = i /\ m.owner = c

KeysAgree(traded, keys) ==
  \A c \in Component, k \in Key :
    k \in keys[c] <=> \E x \in traded : x.key = k /\ x.msg.owner = c

Agree(d) == ListsAgree(d.owned, d.lists) /\ KeysAgree(d.traded, d.keys)

(* A message is on record once.                                            *)
Once(d) ==
  /\ \A m \in d.owned, x \in d.traded : m.id # x.msg.id
  /\ \A x, y \in d.traded : x.key = y.key \/ x.msg.id = y.msg.id => x = y
  /\ \A m, n \in Recorded(d) : m.id = n.id \/ m.ticket = n.ticket => m = n

(* What is on record was not answered, its ID was given out, and what is   *)
(* traded has the match of its trade.                                      *)
Unanswered(d) ==
  /\ d.late = {}
  /\ \A m \in Recorded(d) : m.ticket \notin d.final /\ m.id < d.nextID
  /\ \A x \in d.traded : x.msg.tradingMatch \in 1..MaxMatch

Good(d) == d \in MessageTables /\ Agree(d) /\ Once(d) /\ Unanswered(d)

(* The read thread of t's component holds the message of t.                *)
Holds(t) ==
  /\ held[t.comp] # NoRequest
  /\ held[t.comp].kind = "message"
  /\ held[t.comp].match = t.match

(* The server has handled the message of t.                                *)
Used(d, acc, t) ==
  t \in acc \/ t \in d.final \/ \E m \in Recorded(d) : m.ticket = t

(* Matches are used once, and only by those who have connected.            *)
Fresh ==
  /\ \A c \in Component : link[c] = "new" => lastMatch[c] = 0
  /\ \A t \in Ticket : Holds(t) => t.match <= lastMatch[t.comp]
  /\ \A t \in Ticket :
       Used(msgDB, accepted, t) => ~Holds(t) /\ t.match <= lastMatch[t.comp]

(* There are IDs for all the messages under way.                           *)
Budget(d) ==
  /\ IsFiniteSet(UnderWay)
  /\ Cardinality(UnderWay) + d.nextID <= MaxMessage + 1

(* An accepted message is on record or answered.                           *)
Accounted(d, acc, O) ==
  \A t \in acc :
    t.comp \in O => t \in d.final \/ \E m \in Recorded(d) : m.ticket = t

IInv ==
  /\ ConnTypeOK(Request)
  /\ lastMatch \in [Component -> 0..MaxMatch]
  /\ accepted \subseteq Ticket
  /\ Good(msgDB)
  /\ Fresh
  /\ Budget(msgDB)
  /\ Accounted(msgDB, accepted, Open)

-----------------------------------------------------------------------------
(* The operators on the tables.                                            *)

LEMMA MessageParts ==
  ASSUME NEW m \in Message
  PROVE  /\ m.id \in MessageID /\ m.owner \in Component /\ m.ticket \in Ticket
         /\ m.ticket.comp \in Component /\ m.ticket.match \in 1..MaxMatch
         /\ m.tradingMatch \in 0..MaxMatch
BY DEF Message, Ticket

LEMMA TableParts ==
  ASSUME NEW d \in MessageTables
  PROVE  /\ d.owned \subseteq Message
         /\ d.lists \in [Component -> SUBSET MessageID]
         /\ d.traded \subseteq [key : Key, msg : Message]
         /\ d.keys \in [Component -> SUBSET Key]
         /\ d.nextID \in 1..(MaxMessage + 1)
         /\ d.final \subseteq Ticket
         /\ d.late \subseteq Ticket
         /\ d.told \subseteq Ticket
BY DEF MessageTables

LEMMA InRecord ==
  ASSUME NEW d, NEW m
  PROVE  m \in Recorded(d) <=> m \in d.owned \/ \E x \in d.traded : x.msg = m
BY DEF Recorded

LEMMA RecordedMessages ==
  ASSUME NEW d \in MessageTables, NEW m \in Recorded(d)
  PROVE  m \in Message
BY InRecord, TableParts

(* A message gets the next ID, and whoever is to respond has it on its     *)
(* list.                                                                   *)
Posted(d, o, t, e) ==
  /\ Good(e)
  /\ e.nextID = d.nextID + 1 /\ e.final = d.final /\ e.traded = d.traded
  /\ \E m \in Message :
       /\ m.ticket = t /\ m.owner = o
       /\ \A n : n \in Recorded(e) <=> n = m \/ n \in Recorded(d)

LEMMA AddMessageGood ==
  ASSUME NEW d, Good(d), NEW o \in Component, NEW t \in Ticket,
         d.nextID \in MessageID, ~Used(d, {}, t)
  PROVE  Posted(d, o, t, [AddMessage(d, o, t) EXCEPT !.nextID = @ + 1])
<1> DEFINE e == [AddMessage(d, o, t) EXCEPT !.nextID = @ + 1]
           m == [id |-> d.nextID, owner |-> o, ticket |-> t, tradingMatch |-> 0]
           X == d.owned \cup {m}
           L == [d.lists EXCEPT ![o] = @ \cup {d.nextID}]
<1>1. d \in MessageTables /\ Agree(d) /\ Once(d) /\ Unanswered(d)
  BY DEF Good
<1>2. m \in Message /\ m.id = d.nextID /\ m.owner = o /\ m.ticket = t
  BY MessagesAssumption DEF Message
<1>3. e = [d EXCEPT !.owned = X, !.lists = L, !.nextID = d.nextID + 1]
  BY <1>1 DEF AddMessage, MessageTables
<1>4. /\ X \in SUBSET Message
      /\ L \in [Component -> SUBSET MessageID]
      /\ \A c \in Component :
           L[c] = d.lists[c] \cup (IF c = o THEN {d.nextID} ELSE {})
  BY <1>1, <1>2, TableParts
<1>5. d.nextID + 1 \in 1..(MaxMessage + 1)
  BY MessagesAssumption DEF MessageID
<1>6. \A n : n \in X <=> n \in d.owned \/ n = m
  OBVIOUS
<1> HIDE DEF m, X, L, e
<1>7. /\ e \in MessageTables /\ e.owned = X /\ e.lists = L
      /\ e.traded = d.traded /\ e.keys = d.keys /\ e.nextID = d.nextID + 1
      /\ e.final = d.final /\ e.late = d.late
  BY <1>1, <1>3, <1>4, <1>5 DEF MessageTables
<1>8. \A n : n \in Recorded(e) <=> n = m \/ n \in Recorded(d)
  <2> SUFFICES ASSUME NEW n
               PROVE  n \in Recorded(e) <=> n = m \/ n \in Recorded(d)
    OBVIOUS
  <2>1. n \in Recorded(e) <=> n \in X \/ \E x \in d.traded : x.msg = n
    BY <1>7 DEF Recorded
  <2>2. n \in Recorded(d) <=> n \in d.owned \/ \E x \in d.traded : x.msg = n
    BY DEF Recorded
  <2> QED
    BY <1>6, <2>1, <2>2
<1>9. \A n \in Recorded(d) : /\ n \in Message /\ n.id \in Int
                             /\ n.id < d.nextID /\ n.ticket # t
                             /\ n.ticket \notin d.final
  <2> SUFFICES ASSUME NEW n \in Recorded(d)
               PROVE  /\ n \in Message /\ n.id \in Int
                      /\ n.id < d.nextID /\ n.ticket # t
                      /\ n.ticket \notin d.final
    OBVIOUS
  <2>1. n \in Message
    BY <1>1, RecordedMessages
  <2> QED
    BY <1>1, <2>1, MessageParts, MessagesAssumption DEF Used, Unanswered, MessageID
<1>10. d.nextID \in Int /\ t \notin d.final
  BY DEF MessageID, Used
<1>11. Agree(e)
  <2>1. ListsAgree(d.owned, d.lists) /\ KeysAgree(d.traded, d.keys)
    BY <1>1 DEF Agree
  <2>2. ListsAgree(X, L)
    BY <1>2, <1>4, <1>6, <2>1 DEF ListsAgree
  <2> QED
    BY <1>7, <2>1, <2>2 DEF Agree
<1>12. Once(e)
  <2>1. \A n \in X, x \in d.traded : n.id # x.msg.id
    BY <1>1, <1>2, <1>6, <1>9, <1>10, InRecord DEF Once
  <2>2. \A x, y \in d.traded : x.key = y.key \/ x.msg.id = y.msg.id => x = y
    BY <1>1 DEF Once
  <2>3. \A a, b \in Recorded(d) : a.id = b.id \/ a.ticket = b.ticket => a = b
    BY <1>1 DEF Once
  <2>4. \A a, b \in Recorded(e) : a.id = b.id \/ a.ticket = b.ticket => a = b
    BY <1>2, <1>8, <1>9, <1>10, <2>3
  <2> QED
    BY <1>7, <2>1, <2>2, <2>4 DEF Once
<1>13. Unanswered(e)
  BY <1>1, <1>2, <1>7, <1>8, <1>9, <1>10 DEF Unanswered
<1> QED
  BY <1>2, <1>7, <1>8, <1>11, <1>12, <1>13 DEF Good, Posted, e

(* A message that asks for no response gets an ID and is forgotten.        *)
LEMMA SkipIDGood ==
  ASSUME NEW d, Good(d), d.nextID \in MessageID,
         NEW e, e = [d EXCEPT !.nextID = @ + 1]
  PROVE  /\ Good(e) /\ e.nextID = d.nextID + 1 /\ e.final = d.final
         /\ Recorded(e) = Recorded(d) /\ e.traded = d.traded
<1>1. d \in MessageTables /\ Agree(d) /\ Once(d) /\ Unanswered(d)
  BY DEF Good
<1>2. d.nextID + 1 \in 1..(MaxMessage + 1) /\ d.nextID \in Int
  BY MessagesAssumption DEF MessageID
<1>3. /\ e \in MessageTables /\ e.owned = d.owned /\ e.lists = d.lists
      /\ e.traded = d.traded /\ e.keys = d.keys /\ e.nextID = d.nextID + 1
      /\ e.final = d.final /\ e.late = d.late
  BY <1>1, <1>2 DEF MessageTables
<1>4. Recorded(e) = Recorded(d)
  BY <1>3 DEF Recorded
<1>5. Agree(e) /\ Once(e)
  BY <1>1, <1>3, <1>4 DEF Agree, Once
<1>6. Unanswered(e)
  <2>1. \A n \in Recorded(d) : n.id \in Int
    BY <1>1, RecordedMessages, MessageParts, MessagesAssumption DEF MessageID
  <2> QED
    BY <1>1, <1>2, <1>3, <1>4, <2>1 DEF Unanswered
<1> QED
  BY <1>3, <1>4, <1>5, <1>6 DEF Good

LEMMA RemoveMessageParts ==
  ASSUME NEW d \in MessageTables, NEW m \in Message,
         NEW e, e = RemoveMessage(d, m)
  PROVE  /\ e \in MessageTables /\ e.owned = d.owned \ {m}
         /\ \A c \in Component :
              e.lists[c] = d.lists[c] \ (IF c = m.owner THEN {m.id} ELSE {})
         /\ e.traded = d.traded /\ e.keys = d.keys /\ e.nextID = d.nextID
         /\ e.final = d.final /\ e.late = d.late /\ e.told = d.told
<1> DEFINE X == d.owned \ {m}
           L == [d.lists EXCEPT ![m.owner] = @ \ {m.id}]
<1>1. e = [d EXCEPT !.owned = X, !.lists = L]
  BY DEF RemoveMessage, MessageTables
<1>2. m.owner \in Component
  BY MessageParts
<1>3. /\ X \in SUBSET Message
      /\ L \in [Component -> SUBSET MessageID]
      /\ \A c \in Component :
           L[c] = d.lists[c] \ (IF c = m.owner THEN {m.id} ELSE {})
  BY <1>2, TableParts
<1> HIDE DEF L, X
<1>4. /\ e \in MessageTables /\ e.owned = X /\ e.lists = L
      /\ e.traded = d.traded /\ e.keys = d.keys /\ e.nextID = d.nextID
      /\ e.final = d.final /\ e.late = d.late /\ e.told = d.told
  BY <1>1, <1>3 DEF MessageTables
<1> QED
  BY <1>3, <1>4 DEF X

(* A message taken off the record leaves nothing of it behind.             *)
LEMMA RemoveMessageGood ==
  ASSUME NEW d, Good(d), NEW m \in d.owned, NEW e, e = RemoveMessage(d, m)
  PROVE  /\ Good(e) /\ e.nextID = d.nextID /\ e.final = d.final
         /\ \A n : n \in Recorded(e) <=> n # m /\ n \in Recorded(d)
<1>1. d \in MessageTables /\ Agree(d) /\ Once(d) /\ Unanswered(d)
  BY DEF Good
<1>2. m \in Message /\ m \in Recorded(d)
  BY <1>1, TableParts, InRecord
<1>3. /\ e \in MessageTables /\ e.owned = d.owned \ {m}
      /\ \A c \in Component :
           e.lists[c] = d.lists[c] \ (IF c = m.owner THEN {m.id} ELSE {})
      /\ e.traded = d.traded /\ e.keys = d.keys /\ e.nextID = d.nextID
      /\ e.final = d.final /\ e.late = d.late
  BY <1>1, <1>2, RemoveMessageParts
<1>4. \A x \in d.traded : x.msg # m
  BY <1>1 DEF Once
<1>5. \A n : n \in Recorded(e) <=> n # m /\ n \in Recorded(d)
  BY <1>3, <1>4, InRecord
<1>6. \A n \in d.owned : n.id = m.id => n = m
  BY <1>1, <1>2, InRecord DEF Once
<1>7. Agree(e)
  <2>1. ListsAgree(d.owned, d.lists) /\ KeysAgree(d.traded, d.keys)
    BY <1>1 DEF Agree
  <2>2. ListsAgree(e.owned, e.lists)
    BY <1>3, <1>6, <2>1 DEF ListsAgree
  <2> QED
    BY <1>3, <2>1, <2>2 DEF Agree
<1>8. Once(e)
  <2>1. \A a, b \in Recorded(e) : a.id = b.id \/ a.ticket = b.ticket => a = b
    BY <1>1, <1>5 DEF Once
  <2> QED
    BY <1>1, <1>3, <2>1 DEF Once
<1>9. Unanswered(e)
  BY <1>1, <1>3, <1>5 DEF Unanswered
<1> QED
  BY <1>3, <1>5, <1>7, <1>8, <1>9 DEF Good

(* Offering a message under a free key: the same message, with another     *)
(* match, is on record among the trades.                                   *)
LEMMA AddTradeGood ==
  ASSUME NEW d, Good(d), NEW m \in d.owned, NEW k \in Key,
         NEW j \in 1..MaxMatch, \A x \in d.traded : x.key # k,
         NEW e, e = AddTrade(d, k, m, j)
  PROVE  /\ Good(e) /\ e.nextID = d.nextID /\ e.final = d.final
         /\ \A x \in d.traded : x \in e.traded
         /\ \E w \in Message :
              /\ w.ticket = m.ticket /\ w.owner = m.owner
              /\ \A n : n \in Recorded(e) <=>
                          n = w \/ (n # m /\ n \in Recorded(d))
<1> DEFINE a == RemoveMessage(d, m)
           w == [m EXCEPT !.tradingMatch = j]
           z == [key |-> k, msg |-> w]
           X == a.traded \cup {z}
           K == [a.keys EXCEPT ![m.owner] = @ \cup {k}]
<1>1. d \in MessageTables /\ Agree(d) /\ Once(d) /\ Unanswered(d)
  BY DEF Good
<1>2. m \in Message /\ m \in Recorded(d)
  BY <1>1, TableParts, InRecord
<1>3. /\ Good(a) /\ a.nextID = d.nextID /\ a.final = d.final
      /\ \A n : n \in Recorded(a) <=> n # m /\ n \in Recorded(d)
      /\ a.traded = d.traded /\ a.owned = d.owned \ {m}
  BY <1>1, <1>2, RemoveMessageGood, RemoveMessageParts
<1>4. /\ w \in Message /\ w.id = m.id /\ w.owner = m.owner
      /\ w.ticket = m.ticket /\ w.tradingMatch \in 1..MaxMatch
  BY <1>2, MessagesAssumption DEF Message
<1>5. e = [a EXCEPT !.traded = X, !.keys = K]
  BY <1>3 DEF AddTrade, Good, MessageTables
<1> HIDE DEF a, w
<1>6. a \in MessageTables /\ Agree(a) /\ Once(a) /\ Unanswered(a)
  BY <1>3 DEF Good
<1>7. m.owner \in Component
  BY <1>2, MessageParts
<1>8. /\ X \in SUBSET [key : Key, msg : Message]
      /\ K \in [Component -> SUBSET Key]
      /\ \A c \in Component :
           K[c] = a.keys[c] \cup (IF c = m.owner THEN {k} ELSE {})
  BY <1>4, <1>6, <1>7, TableParts
<1>9. /\ \A x : x \in X <=> x \in a.traded \/ x = z
      /\ z.key = k /\ z.msg = w
  OBVIOUS
<1> HIDE DEF X, K, z
<1>10. /\ e \in MessageTables /\ e.owned = a.owned /\ e.lists = a.lists
       /\ e.traded = X /\ e.keys = K /\ e.nextID = a.nextID
       /\ e.final = a.final /\ e.late = a.late
  BY <1>5, <1>6, <1>8 DEF MessageTables
<1>11. \A n : n \in Recorded(e) <=> n = w \/ n \in Recorded(a)
  BY <1>9, <1>10, InRecord
<1>12. \A n \in Recorded(a) : n.id # m.id /\ n.ticket # m.ticket
  BY <1>1, <1>2, <1>3 DEF Once
<1>13. Agree(e)
  <2>1. ListsAgree(a.owned, a.lists) /\ KeysAgree(a.traded, a.keys)
    BY <1>6 DEF Agree
  <2>2. KeysAgree(X, K)
    BY <1>4, <1>8, <1>9, <2>1 DEF KeysAgree
  <2> QED
    BY <1>10, <2>1, <2>2 DEF Agree
<1>14. Once(e)
  <2>1. \A n \in a.owned, x \in X : n.id # x.msg.id
    BY <1>4, <1>6, <1>9, <1>12, InRecord DEF Once
  <2>2. \A x, y \in X : x.key = y.key \/ x.msg.id = y.msg.id => x = y
    <3>1. \A x \in a.traded : x.key # k /\ x.msg.id # m.id
      BY <1>3, <1>12, InRecord
    <3>2. \A x, y \in a.traded : x.key = y.key \/ x.msg.id = y.msg.id => x = y
      BY <1>6 DEF Once
    <3> QED
      BY <1>4, <1>9, <3>1, <3>2
  <2>3. \A n, l \in Recorded(a) : n.id = l.id \/ n.ticket = l.ticket => n = l
    BY <1>6 DEF Once
  <2>4. \A n, l \in Recorded(e) : n.id = l.id \/ n.ticket = l.ticket => n = l
    BY <1>4, <1>11, <1>12, <2>3
  <2> QED
    BY <1>10, <2>1, <2>2, <2>4 DEF Once
<1>15. Unanswered(e)
  <2>1. m.ticket \notin d.final /\ m.id < d.nextID
    BY <1>1, <1>2 DEF Unanswered
  <2> QED
    BY <1>3, <1>4, <1>6, <1>9, <1>10, <1>11, <2>1 DEF Unanswered
<1> QED
  BY <1>3, <1>4, <1>9, <1>10, <1>11, <1>13, <1>14, <1>15 DEF Good

(* The message of a trade passes to c.                                     *)
PassedOn(d, x, c, e) ==
  /\ Good(e) /\ e.nextID = d.nextID /\ e.final = d.final
  /\ \A y : y \in e.traded <=> y # x /\ y \in d.traded
  /\ \E w \in e.owned :
       /\ w \in Message /\ w.id = x.msg.id
       /\ w.ticket = x.msg.ticket /\ w.owner = c
       /\ \A n : n \in Recorded(e) <=>
                   n = w \/ (n # x.msg /\ n \in Recorded(d))

LEMMA RequestTradedGood ==
  ASSUME NEW d, Good(d), NEW x \in d.traded, NEW c \in Component
  PROVE  PassedOn(d, x, c, RequestTraded(d, x, c))
<1> DEFINE e == RequestTraded(d, x, c)
           m == x.msg
           w == [m EXCEPT !.owner = c]
           X == d.traded \ {x}
           K == [d.keys EXCEPT ![m.owner] = @ \ {x.key}]
           O == d.owned \cup {w}
           L == [d.lists EXCEPT ![c] = @ \cup {m.id}]
<1>1. d \in MessageTables /\ Agree(d) /\ Once(d) /\ Unanswered(d)
  BY DEF Good
<1>2. m \in Message /\ x.key \in Key /\ m \in Recorded(d)
  BY <1>1, TableParts, InRecord
<1>3. m.id \in MessageID /\ m.owner \in Component
  BY <1>2, MessageParts
<1>4. /\ w \in Message /\ w.id = m.id /\ w.owner = c /\ w.ticket = m.ticket
  BY <1>2 DEF Message
<1>5. e = [d EXCEPT !.traded = X, !.keys = K, !.owned = O, !.lists = L]
  BY <1>1 DEF RequestTraded, MessageTables
<1>6. /\ X \in SUBSET [key : Key, msg : Message]
      /\ O \in SUBSET Message
      /\ K \in [Component -> SUBSET Key]
      /\ L \in [Component -> SUBSET MessageID]
      /\ \A b \in Component :
           K[b] = d.keys[b] \ (IF b = m.owner THEN {x.key} ELSE {})
      /\ \A b \in Component :
           L[b] = d.lists[b] \cup (IF b = c THEN {m.id} ELSE {})
  BY <1>1, <1>3, <1>4, TableParts
<1>7. /\ \A y : y \in X <=> y \in d.traded /\ y # x
      /\ \A n : n \in O <=> n \in d.owned \/ n = w
  OBVIOUS
<1> HIDE DEF m, w, X, K, O, L, e
<1>8. /\ e \in MessageTables /\ e.owned = O /\ e.lists = L
      /\ e.traded = X /\ e.keys = K /\ e.nextID = d.nextID
      /\ e.final = d.final /\ e.late = d.late
  BY <1>1, <1>5, <1>6 DEF MessageTables
<1>9. /\ \A y \in d.traded : y # x => y.key # x.key /\ y.msg # m /\ y.msg.id # m.id
      /\ \A n \in d.owned : n.id # m.id
      /\ \A y, z \in d.traded : y.key = z.key \/ y.msg.id = z.msg.id => y = z
      /\ \A n \in d.owned, y \in d.traded : n.id # y.msg.id
  BY <1>1 DEF Once, m
<1>10. \A n : n \in Recorded(e) <=> n = w \/ (n # m /\ n \in Recorded(d))
  BY <1>7, <1>8, <1>9, InRecord DEF m
<1>11. \A n \in Recorded(d) : n # m => n.id # m.id /\ n.ticket # m.ticket
  BY <1>1, <1>2 DEF Once
<1>12. Agree(e)
  <2>1. ListsAgree(d.owned, d.lists) /\ KeysAgree(d.traded, d.keys)
    BY <1>1 DEF Agree
  <2>2. ListsAgree(O, L)
    BY <1>4, <1>6, <1>7, <2>1 DEF ListsAgree
  <2>3. KeysAgree(X, K)
    BY <1>6, <1>7, <1>9, <2>1 DEF KeysAgree, m
  <2> QED
    BY <1>8, <2>2, <2>3 DEF Agree
<1>13. Once(e)
  <2>1. \A n \in O, y \in X : n.id # y.msg.id
    BY <1>4, <1>7, <1>9
  <2>2. \A y, z \in X : y.key = z.key \/ y.msg.id = z.msg.id => y = z
    BY <1>7, <1>9
  <2>3. \A n, l \in Recorded(d) : n.id = l.id \/ n.ticket = l.ticket => n = l
    BY <1>1 DEF Once
  <2>4. \A n, l \in Recorded(e) : n.id = l.id \/ n.ticket = l.ticket => n = l
    BY <1>4, <1>10, <1>11, <2>3
  <2> QED
    BY <1>8, <2>1, <2>2, <2>4 DEF Once
<1>14. Unanswered(e)
  <2>1. m.ticket \notin d.final /\ m.id < d.nextID
    BY <1>1, <1>2 DEF Unanswered
  <2> QED
    BY <1>1, <1>4, <1>7, <1>8, <1>10, <2>1 DEF Unanswered
<1> QED
  BY <1>4, <1>7, <1>8, <1>10, <1>12, <1>13, <1>14 DEF Good, PassedOn, m, e

(* Responses to a message that was taken off the record, or stays on it.   *)
Responded(d, S, s, e) ==
  /\ Good(e) /\ e.nextID = d.nextID
  /\ e.final = IF s = "CONTINUE" THEN d.final ELSE d.final \cup S
  /\ Recorded(e) = Recorded(d)
  /\ e.owned = d.owned /\ e.traded = d.traded /\ e.told = d.told

LEMMA RespondGood ==
  ASSUME NEW d, Good(d), NEW S \in SUBSET Ticket, NEW s, S \cap d.final = {},
         s = "CONTINUE" \/ \A m \in Recorded(d) : m.ticket \notin S
  PROVE  Responded(d, S, s, Respond(d, S, s))
<1> DEFINE e == Respond(d, S, s)
           F == IF s = "CONTINUE" THEN d.final ELSE d.final \cup S
           T == d.late \cup (S \cap d.final)
<1>1. d \in MessageTables /\ Agree(d) /\ Once(d) /\ Unanswered(d)
  BY DEF Good
<1>2. e = [d EXCEPT !.final = F, !.late = T]
  BY <1>1 DEF Respond, MessageTables
<1>3. F \in SUBSET Ticket /\ T = {} /\ T \in SUBSET Ticket
  BY <1>1, TableParts DEF Unanswered
<1>4. \A m \in Recorded(d) : m.ticket \notin F
  BY <1>1 DEF Unanswered
<1>5. F = IF s = "CONTINUE" THEN d.final ELSE d.final \cup S
  OBVIOUS
<1> HIDE DEF F, T, e
<1>6. /\ e \in MessageTables /\ e.owned = d.owned /\ e.lists = d.lists
      /\ e.traded = d.traded /\ e.keys = d.keys /\ e.nextID = d.nextID
      /\ e.final = F /\ e.late = T /\ e.told = d.told
  BY <1>1, <1>2, <1>3 DEF MessageTables
<1>7. Recorded(e) = Recorded(d)
  BY <1>6 DEF Recorded
<1>8. Agree(e) /\ Once(e)
  BY <1>1, <1>6, <1>7 DEF Agree, Once
<1>9. Unanswered(e)
  BY <1>1, <1>3, <1>4, <1>6, <1>7 DEF Unanswered
<1> QED
  BY <1>5, <1>6, <1>7, <1>8, <1>9 DEF Good, Responded, e

(* Recording who was told of a trade changes nothing else.                 *)
Notified(d, S, e) ==
  /\ Good(e) /\ e.nextID = d.nextID /\ e.final = d.final
  /\ Recorded(e) = Recorded(d)
  /\ e.owned = d.owned /\ e.traded = d.traded
  /\ e.told = d.told \cup S

LEMMA ToldGood ==
  ASSUME NEW d, Good(d), NEW S \in SUBSET Ticket
  PROVE  Notified(d, S, [d EXCEPT !.told = @ \cup S])
<1> DEFINE e == [d EXCEPT !.told = @ \cup S]
<1>1. d \in MessageTables /\ Agree(d) /\ Once(d) /\ Unanswered(d)
  BY DEF Good
<1>2. d.told \cup S \in SUBSET Ticket
  BY <1>1, TableParts
<1>3. /\ e \in MessageTables /\ e.owned = d.owned /\ e.lists = d.lists
      /\ e.traded = d.traded /\ e.keys = d.keys /\ e.nextID = d.nextID
      /\ e.final = d.final /\ e.late = d.late /\ e.told = d.told \cup S
  BY <1>1, <1>2 DEF MessageTables
<1> HIDE DEF e
<1>4. Recorded(e) = Recorded(d)
  BY <1>3 DEF Recorded
<1>5. Agree(e)
  BY <1>1, <1>3 DEF Agree
<1>6. Once(e)
  <2>1. Once(d) /\ e.owned = d.owned /\ e.traded = d.traded
    BY <1>1, <1>3
  <2> QED
    BY <1>4, <2>1 DEF Once
<1>7. Unanswered(e)
  BY <1>1, <1>3, <1>4 DEF Unanswered
<1> QED
  BY <1>3, <1>4, <1>5, <1>6, <1>7 DEF Good, Notified, e

(* The lists of those in D name all they are responsible for and all they  *)
(* offered.                                                                *)
LEMMA ListedAreOwned ==
  ASSUME NEW d, Good(d), NEW D \in SUBSET Component
  PROVE  /\ \A m : m \in OwnedBy(d, D) <=> m \in d.owned /\ m.owner \in D
         /\ \A x : x \in TradedBy(d, D) <=> x \in d.traded /\ x.msg.owner \in D
         /\ \A m : m \in ChargedTo(d, D) <=> m \in Recorded(d) /\ m.owner \in D
<1>1. d \in MessageTables /\ Agree(d) /\ Once(d)
  BY DEF Good
<1>2. ListsAgree(d.owned, d.lists) /\ KeysAgree(d.traded, d.keys)
  BY <1>1 DEF Agree
<1>3. ASSUME NEW m \in d.owned
      PROVE  (\E c \in D : m.id \in d.lists[c]) <=> m.owner \in D
  <2>1. m \in Message /\ m.id \in MessageID /\ m.owner \in Component
    BY <1>1, TableParts, MessageParts
  <2>2. \A n \in d.owned : n.id = m.id => n = m
    BY <1>1, InRecord DEF Once
  <2>3. ASSUME NEW c \in Component
        PROVE  m.id \in d.lists[c] <=> c = m.owner
    <3>1. m.id \in d.lists[c] <=> \E n \in d.owned : n.id = m.id /\ n.owner = c
      BY <1>2, <2>1 DEF ListsAgree
    <3> QED
      BY <2>2, <3>1
  <2> QED
    BY <2>1, <2>3
<1>4. ASSUME NEW x \in d.traded
      PROVE  (\E c \in D : x.key \in d.keys[c]) <=> x.msg.owner \in D
  <2>1. x.msg \in Message /\ x.key \in Key /\ x.msg.owner \in Component
    BY <1>1, TableParts, MessageParts
  <2>2. \A y \in d.traded : y.key = x.key => y = x
    BY <1>1 DEF Once
  <2>3. ASSUME NEW c \in Component
        PROVE  x.key \in d.keys[c] <=> c = x.msg.owner
    <3>1. x.key \in d.keys[c] <=>
            \E y \in d.traded : y.key = x.key /\ y.msg.owner = c
      BY <1>2, <2>1 DEF KeysAgree
    <3> QED
      BY <2>2, <3>1
  <2> QED
    BY <2>1, <2>3
<1>5. \A m : m \in OwnedBy(d, D) <=> m \in d.owned /\ m.owner \in D
  BY <1>3 DEF OwnedBy
<1>6. \A x : x \in TradedBy(d, D) <=> x \in d.traded /\ x.msg.owner \in D
  BY <1>4 DEF TradedBy
<1>7. ASSUME NEW m
      PROVE  m \in ChargedTo(d, D) <=> m \in Recorded(d) /\ m.owner \in D
  <2>1. m \in ChargedTo(d, D) <=>
          m \in OwnedBy(d, D) \/ \E x \in TradedBy(d, D) : x.msg = m
    BY DEF ChargedTo
  <2> QED
    BY <1>5, <1>6, <2>1, InRecord
<1> QED
  BY <1>5, <1>6, <1>7

(* Removing those in D takes off the record exactly what they are          *)
(* responsible for, and answers for it where the sender is in K.           *)
Removed(d, D, K, e) ==
  /\ Good(e) /\ e.nextID = d.nextID /\ e.told = d.told
  /\ \A m : m \in e.owned <=> m \in d.owned /\ m.owner \notin D
  /\ \A x : x \in e.traded <=> x \in d.traded /\ x.msg.owner \notin D
  /\ \A m : m \in Recorded(e) <=> m \in Recorded(d) /\ m.owner \notin D
  /\ \A t : t \in e.final <=>
       \/ t \in d.final
       \/ t.comp \in K /\ \E m \in Recorded(d) : m.owner \in D /\ m.ticket = t

LEMMA RemoveGood ==
  ASSUME NEW d, Good(d), NEW D \in SUBSET Component, NEW K
  PROVE  Removed(d, D, K, RemoveComponents(d, D, K))
<1> DEFINE S == {t \in {m.ticket : m \in ChargedTo(d, D)} : t.comp \in K}
           F == d.final \cup S
           T == d.late \cup (S \cap d.final)
           O == d.owned \ OwnedBy(d, D)
           L == [c \in Component |-> IF c \in D THEN {} ELSE d.lists[c]]
           X == d.traded \ TradedBy(d, D)
           Y == [c \in Component |-> IF c \in D THEN {} ELSE d.keys[c]]
           e == RemoveComponents(d, D, K)
<1>1. d \in MessageTables /\ Agree(d) /\ Once(d) /\ Unanswered(d)
  BY DEF Good
<1>2. /\ \A m : m \in OwnedBy(d, D) <=> m \in d.owned /\ m.owner \in D
      /\ \A x : x \in TradedBy(d, D) <=> x \in d.traded /\ x.msg.owner \in D
      /\ \A m : m \in ChargedTo(d, D) <=> m \in Recorded(d) /\ m.owner \in D
  BY ListedAreOwned
<1>3. \A t : t \in S <=> t.comp \in K /\ \E m \in Recorded(d) :
                                           m.owner \in D /\ m.ticket = t
  <2>1. \A t : t \in S <=> t.comp \in K /\ \E m \in ChargedTo(d, D) : t = m.ticket
    OBVIOUS
  <2> HIDE DEF S
  <2> QED
    BY <1>2, <2>1
<1>4. Respond(d, S, "FAILURE") = [d EXCEPT !.final = F, !.late = T]
  BY <1>1 DEF Respond, MessageTables
<1>5. e = [Respond(d, S, "FAILURE") EXCEPT !.owned = O, !.lists = L,
                                           !.traded = X, !.keys = Y]
  BY <1>1, <1>4 DEF RemoveComponents, MessageTables
<1>6. /\ \A m : m \in O <=> m \in d.owned /\ m.owner \notin D
      /\ \A x : x \in X <=> x \in d.traded /\ x.msg.owner \notin D
  BY <1>2
<1>7. /\ O \in SUBSET Message /\ X \in SUBSET [key : Key, msg : Message]
      /\ L \in [Component -> SUBSET MessageID]
      /\ Y \in [Component -> SUBSET Key]
      /\ \A c \in Component : L[c] = IF c \in D THEN {} ELSE d.lists[c]
      /\ \A c \in Component : Y[c] = IF c \in D THEN {} ELSE d.keys[c]
  BY <1>1, TableParts
<1> HIDE DEF S, O, X, L, Y, e
<1>8. /\ \A t \in S : t \in Ticket /\ t \notin d.final
      /\ T = {} /\ F \in SUBSET Ticket
  <2>1. \A t \in S : t \in Ticket /\ t \notin d.final
    BY <1>1, <1>3, RecordedMessages, MessageParts DEF Unanswered
  <2> QED
    BY <1>1, <2>1, TableParts DEF Unanswered
<1>9. \A t : t \in F <=> t \in d.final \/ t \in S
  OBVIOUS
<1> HIDE DEF F, T
<1>10. /\ e \in MessageTables /\ e.owned = O /\ e.lists = L
       /\ e.traded = X /\ e.keys = Y /\ e.nextID = d.nextID
       /\ e.final = F /\ e.late = T /\ e.told = d.told
  <2> DEFINE a == Respond(d, S, "FAILURE")
  <2>1. /\ a \in MessageTables /\ a.nextID = d.nextID
        /\ a.final = F /\ a.late = T /\ a.told = d.told
    BY <1>1, <1>4, <1>8 DEF MessageTables
  <2>2. e = [a EXCEPT !.owned = O, !.lists = L, !.traded = X, !.keys = Y]
    BY <1>5
  <2> HIDE DEF a
  <2> QED
    BY <1>7, <2>1, <2>2 DEF MessageTables
<1>11. ASSUME NEW m
       PROVE  m \in Recorded(e) <=> m \in Recorded(d) /\ m.owner \notin D
  <2>1. m \in Recorded(e) <=> m \in O \/ \E x \in X : x.msg = m
    BY <1>10 DEF Recorded
  <2>2. m \in Recorded(d) <=> m \in d.owned \/ \E x \in d.traded : x.msg = m
    BY DEF Recorded
  <2> QED
    BY <1>6, <2>1, <2>2
<1>12. Agree(e)
  <2>1. ListsAgree(d.owned, d.lists) /\ KeysAgree(d.traded, d.keys)
    BY <1>1 DEF Agree
  <2>2. ListsAgree(O, L)
    BY <1>6, <1>7, <2>1 DEF ListsAgree
  <2>3. KeysAgree(X, Y)
    BY <1>6, <1>7, <2>1 DEF KeysAgree
  <2> QED
    BY <1>10, <2>2, <2>3 DEF Agree
<1>13. Once(e)
  BY <1>1, <1>6, <1>10, <1>11 DEF Once
<1>14. Unanswered(e)
  <2> SUFFICES ASSUME NEW m \in Recorded(e)
               PROVE  m.ticket \notin F /\ m.id < d.nextID
    BY <1>1, <1>6, <1>8, <1>10 DEF Unanswered
  <2>1. m \in Recorded(d) /\ m.owner \notin D
    BY <1>11
  <2>2. \A n \in Recorded(d) : n.ticket = m.ticket => n = m
    BY <1>1, <2>1 DEF Once
  <2>3. m.ticket \notin S
    BY <1>3, <2>1, <2>2
  <2> QED
    BY <1>1, <1>9, <2>1, <2>3 DEF Unanswered
<1>15. \A t : t \in e.final <=>
              \/ t \in d.final
              \/ t.comp \in K /\ \E m \in Recorded(d) :
                                   m.owner \in D /\ m.ticket = t
  BY <1>3, <1>9, <1>10
<1>16. /\ Good(e) /\ e.nextID = d.nextID /\ e.told = d.told
       /\ \A m : m \in e.owned <=> m \in d.owned /\ m.owner \notin D
       /\ \A x : x \in e.traded <=> x \in d.traded /\ x.msg.owner \notin D
  BY <1>6, <1>10, <1>12, <1>13, <1>14 DEF Good
<1> QED
  BY <1>11, <1>15, <1>16 DEF Removed, e

-----------------------------------------------------------------------------
(* Initial states.                                                         *)

LEMMA InitInv == Init => IInv
<1> SUFFICES ASSUME Init PROVE IInv
  OBVIOUS
<1>1. /\ ConnTypeOK(Request) /\ lastMatch \in [Component -> 0..MaxMatch]
      /\ accepted \subseteq Ticket
  BY MessagesAssumption DEF Init, ConnInit, ConnTypeOK
<1>2. /\ msgDB \in MessageTables /\ Recorded(msgDB) = {}
      /\ msgDB.owned = {} /\ msgDB.traded = {} /\ msgDB.nextID = 1
      /\ msgDB.final = {} /\ msgDB.late = {} /\ accepted = {}
      /\ \A c \in Component : msgDB.lists[c] = {} /\ msgDB.keys[c] = {}
  <2>1. 1 \in 1..(MaxMessage + 1)
    BY MessagesAssumption
  <2> QED
    BY <2>1 DEF Init, MessageTables, Recorded
<1>3. Good(msgDB)
  <2>1. Agree(msgDB)
    BY <1>2 DEF Agree, ListsAgree, KeysAgree
  <2> QED
    BY <1>2, <2>1 DEF Good, Once, Unanswered
<1>4. \A c \in Component : held[c] = NoRequest /\ lastMatch[c] = 0
  BY DEF Init, ConnInit
<1>5. Fresh
  BY <1>2, <1>4 DEF Fresh, Holds, Used, Ticket
<1>6. Budget(msgDB)
  <2>1. UnderWay = {}
    BY <1>4 DEF UnderWay
  <2> QED
    BY <1>2, <2>1, FS_EmptySet, MessagesAssumption DEF Budget
<1>7. Accounted(msgDB, accepted, Open)
  BY <1>2 DEF Accounted
<1> QED
  BY <1>1, <1>3, <1>5, <1>6, <1>7 DEF IInv

-----------------------------------------------------------------------------
(* What the handlers have in common.                                       *)

(* The components that stay connected when those in D are closed.          *)
LEMMA OpenAfter ==
  ASSUME IInv, NEW D \in SUBSET Open, Close(D)
  PROVE  /\ Open' = Open \ D
         /\ link' \in [Component -> {"new", "open", "gone"}]
         /\ \A c \in Component : link'[c] = "new" <=> link[c] = "new"
         /\ \A c \in Component :
              link'[c] = "gone" <=> link[c] = "gone" \/ c \in D
BY DEF IInv, ConnTypeOK, Close, Open

(* The tables d and the accepted tickets acc may take the place of msgDB   *)
(* and accepted, when those in O stay connected.                           *)
Ready(d, acc, O) ==
  /\ Good(d)
  /\ acc \subseteq Ticket
  /\ Budget(d)'
  /\ \A t \in Ticket :
       Used(d, acc, t) => ~Holds(t)' /\ t.match <= lastMatch[t.comp]
  /\ Accounted(d, acc, O)

(* A handler that turns the tables to such d, and then loses the           *)
(* components in D.                                                        *)
LEMMA FinishInv ==
  ASSUME IInv, NEW d, NEW D \in SUBSET Open,
         Ready(d, accepted', Open \ D), Finish(d, D),
         held' \in [Component -> Request \cup {NoRequest}],
         \A t \in Ticket : Holds(t)' => Holds(t),
         UNCHANGED <<proc, lastMatch>>
  PROVE  IInv'
<1> DEFINE e == RemoveComponents(d, D, Open \ D)
<1>1. msgDB' = e /\ Close(D) /\ UNCHANGED server
  BY DEF Finish
<1>2. Good(d) /\ D \in SUBSET Component
  BY DEF Ready, Open
<1>3. /\ Good(e) /\ e.nextID = d.nextID
      /\ \A m : m \in Recorded(e) <=> m \in Recorded(d) /\ m.owner \notin D
      /\ \A t : t \in e.final <=>
           \/ t \in d.final
           \/ t.comp \in Open \ D /\ \E m \in Recorded(d) :
                                       m.owner \in D /\ m.ticket = t
  <2>1. Removed(d, D, Open \ D, e)
    BY <1>2, RemoveGood
  <2> HIDE DEF e
  <2> QED
    BY <2>1 DEF Removed
<1> HIDE DEF e
<1>4. /\ Open' = Open \ D
      /\ link' \in [Component -> {"new", "open", "gone"}]
      /\ \A c \in Component : link'[c] = "new" <=> link[c] = "new"
  BY <1>1, OpenAfter
<1>5. /\ ConnTypeOK(Request)'
      /\ (lastMatch \in [Component -> 0..MaxMatch])'
      /\ (accepted \subseteq Ticket)'
  BY <1>1, <1>4 DEF IInv, ConnTypeOK, Ready
<1>6. \A t : Used(e, accepted', t) => Used(d, accepted', t)
  BY <1>3 DEF Used
<1>7. Fresh'
  <2>1. \A c \in Component : link'[c] = "new" => lastMatch[c] = 0
    BY <1>4 DEF IInv, Fresh
  <2>2. \A t \in Ticket : Holds(t)' => t.match <= lastMatch[t.comp]
    BY DEF IInv, Fresh
  <2>3. \A t \in Ticket : Used(e, accepted', t) =>
          ~Holds(t)' /\ t.match <= lastMatch[t.comp]
    BY <1>6 DEF Ready
  <2>4. \A t : Used(msgDB, accepted, t)' <=> Used(e, accepted', t)
    BY <1>1 DEF Used, Recorded
  <2> QED
    BY <2>1, <2>2, <2>3, <2>4 DEF Fresh
<1>8. Budget(msgDB)'
  BY <1>1, <1>3 DEF Ready, Budget
<1>9. Accounted(msgDB, accepted, Open)'
  <2> SUFFICES ASSUME NEW t \in accepted', t.comp \in Open \ D
               PROVE  t \in e.final \/ \E m \in Recorded(e) : m.ticket = t
    BY <1>1, <1>4 DEF Accounted, Recorded
  <2>1. t \in d.final \/ \E m \in Recorded(d) : m.ticket = t
    BY DEF Ready, Accounted
  <2> QED
    BY <1>3, <2>1
<1>10. Good(msgDB)'
  BY <1>1, <1>3 DEF Good, MessageTables, Agree, ListsAgree, KeysAgree, Once,
                    Unanswered, Recorded
<1> QED
  BY <1>5, <1>7, <1>8, <1>9, <1>10 DEF IInv

(* Only connected components are lost.                                     *)
LEMMA LostAreOpen ==
  ASSUME NEW d, NEW T \in SUBSET Open, NEW D \in Cascades(d, T)
  PROVE  D \in SUBSET Open /\ T \subseteq D
BY DEF Cascades, Broken, Open

LEMMA AnswerLoses ==
  ASSUME NEW d, NEW T, NEW D \in SUBSET Open, Lose(d, T, D)
  PROVE  D \subseteq Broken
<1>1. PICK F \in Hangups(T) : D \in Cascades(d, F)
  BY DEF Lose
<1> QED
  BY <1>1 DEF Hangups, Cascades

LEMMA ConsumedHeld ==
  ASSUME IInv, NEW c \in Component, Consumed(c)
  PROVE  /\ held' \in [Component -> Request \cup {NoRequest}]
         /\ \A b \in Component :
              held'[b] = IF b = c THEN NoRequest ELSE held[b]
         /\ \A t \in Ticket : Holds(t)' <=> t.comp # c /\ Holds(t)
         /\ UnderWay' = UnderWay \ {c}
<1>1. /\ held \in [Component -> Request \cup {NoRequest}]
      /\ held' = [held EXCEPT ![c] = NoRequest]
  BY DEF IInv, ConnTypeOK, Consumed
<1>2. /\ held' \in [Component -> Request \cup {NoRequest}]
      /\ \A b \in Component : held'[b] = IF b = c THEN NoRequest ELSE held[b]
  BY <1>1
<1>3. \A t \in Ticket : Holds(t)' <=> t.comp # c /\ Holds(t)
  BY <1>2 DEF Holds, Ticket
<1>4. UnderWay' = UnderWay \ {c}
  BY <1>2 DEF UnderWay
<1> QED
  BY <1>2, <1>3, <1>4

LEMMA HeldParts ==
  ASSUME IInv, NEW c \in Component, held[c] # NoRequest
  PROVE  /\ held[c].kind = "message" =>
              /\ held[c].dest \in Component /\ held[c].match \in 1..MaxMatch
              /\ held[c].response \in BOOLEAN
         /\ held[c].kind = "response" =>
              /\ held[c].id \in MessageID
              /\ held[c].status \in {"CONTINUE", "SUCCESS"}
         /\ held[c].kind = "trade" =>
              /\ held[c].id \in MessageID /\ held[c].key \in Key
              /\ held[c].match \in 1..MaxMatch
         /\ held[c].kind \in {"request", "revoke"} => held[c].key \in Key
<1>1. held[c] \in Request
  BY DEF IInv, ConnTypeOK
<1> QED
  BY <1>1 DEF Request

(* A step that takes nothing from the messages under way but c's, and      *)
(* gives out no ID, leaves enough IDs.                                     *)
LEMMA BudgetKept ==
  ASSUME IInv, NEW c, UnderWay' = UnderWay \ {c} \/ UnderWay' = UnderWay,
         NEW d, d.nextID = msgDB.nextID
  PROVE  Budget(d)'
<1>1. /\ IsFiniteSet(UnderWay)
      /\ Cardinality(UnderWay) + msgDB.nextID <= MaxMessage + 1
  BY DEF IInv, Budget
<1>2. /\ IsFiniteSet(UnderWay \ {c})
      /\ Cardinality(UnderWay \ {c}) <= Cardinality(UnderWay)
  BY <1>1, FS_Subset
<1>3. msgDB.nextID \in Int
  BY TableParts, MessagesAssumption DEF IInv, Good
<1>4. Cardinality(UnderWay) \in Nat /\ Cardinality(UnderWay \ {c}) \in Nat
  BY <1>1, <1>2, FS_CardinalityType
<1>5. CASE UnderWay' = UnderWay \ {c}
  BY <1>1, <1>2, <1>3, <1>4, <1>5, MessagesAssumption DEF Budget
<1>6. CASE UnderWay' = UnderWay
  BY <1>1, <1>6 DEF Budget
<1> QED
  BY <1>5, <1>6

(* A message that is handled gets an ID, and there is one.                 *)
LEMMA BudgetSpent ==
  ASSUME IInv, NEW c \in UnderWay, UnderWay' = UnderWay \ {c}
  PROVE  /\ msgDB.nextID \in MessageID
         /\ \A d : d.nextID = msgDB.nextID + 1 => Budget(d)'
<1>1. /\ IsFiniteSet(UnderWay)
      /\ Cardinality(UnderWay) + msgDB.nextID <= MaxMessage + 1
  BY DEF IInv, Budget
<1>2. /\ IsFiniteSet(UnderWay \ {c})
      /\ Cardinality(UnderWay \ {c}) = Cardinality(UnderWay) - 1
  BY <1>1, FS_RemoveElement
<1>3. msgDB.nextID \in Int /\ msgDB.nextID >= 1
  BY TableParts, MessagesAssumption DEF IInv, Good
<1>4. Cardinality(UnderWay) \in Nat /\ Cardinality(UnderWay \ {c}) \in Nat
  BY <1>1, <1>2, FS_CardinalityType
<1>5. msgDB.nextID \in MessageID
  BY <1>1, <1>2, <1>3, <1>4, MessagesAssumption DEF MessageID
<1>6. ASSUME NEW d, d.nextID = msgDB.nextID + 1
      PROVE  Budget(d)'
  <2>1. /\ IsFiniteSet(UnderWay')
        /\ Cardinality(UnderWay') + d.nextID <= MaxMessage + 1
    BY <1>1, <1>2, <1>3, <1>4, <1>6, MessagesAssumption
  <2> QED
    BY <2>1 DEF Budget
<1> QED
  BY <1>5, <1>6

-----------------------------------------------------------------------------
(* What a handler does to the record, as the abstract service sees it: the *)
(* pairs of a ticket and the component that has to respond to it.          *)

Pair(m) == [ticket |-> m.ticket, client |-> m.owner]

Pending(d) == {Pair(m) : m \in Recorded(d)}

Keeps(d) == Pending(d) = Pending(msgDB) /\ d.final = msgDB.final

Posts(d, t, o) ==
  /\ ~Used(msgDB, {}, t)
  /\ Pending(d) = Pending(msgDB) \cup {[ticket |-> t, client |-> o]}
  /\ d.final = msgDB.final

Answers(d, D, p) ==
  /\ p \in Pending(msgDB)
  /\ Pending(d) = Pending(msgDB) \ {p}
  /\ \A t : t \in d.final <=>
       t \in msgDB.final \/ (t = p.ticket /\ t.comp \in Open \ D)

HandsOver(d, p, c) ==
  /\ p \in Pending(msgDB)
  /\ Pending(d) = (Pending(msgDB) \ {p})
                    \cup {[ticket |-> p.ticket, client |-> c]}
  /\ d.final = msgDB.final

Moves(d, D) ==
  \/ Keeps(d)
  \/ \E p \in Pending(msgDB) : Answers(d, D, p)
  \/ \E p \in Pending(msgDB), c \in Component : HandsOver(d, p, c)

(* A trade that ends without a removal was completed, and its owner told,  *)
(* or was revoked.                                                         *)
Settled(d, x) ==
  \/ [comp |-> x.msg.owner, match |-> x.msg.tradingMatch] \in d.told
  \/ \E m \in d.owned : m.id = x.msg.id /\ m.owner = x.msg.owner

SettlesTrades(d, D) ==
  \A x \in msgDB.traded : x.msg.owner \in Open \ D => x \in d.traded \/ Settled(d, x)

(* What every handler does: it turns the tables to d and loses D.          *)
Serves(d, D) ==
  /\ D \in SUBSET Open
  /\ Ready(d, accepted', Open \ D)
  /\ Moves(d, D) \/ \E t \in Ticket, o \in Component : Posts(d, t, o)
  /\ SettlesTrades(d, D)
  /\ Finish(d, D)
  /\ held' \in [Component -> Request \cup {NoRequest}]
  /\ \A t \in Ticket : Holds(t)' => Holds(t)
  /\ UNCHANGED <<proc, lastMatch>>

LEMMA InPending ==
  ASSUME NEW d, NEW m \in Recorded(d)
  PROVE  Pair(m) \in Pending(d) /\ Pair(m).ticket = m.ticket
BY DEF Pending, Pair

LEMMA PendingTickets ==
  ASSUME NEW d, NEW t
  PROVE  (\E m \in Recorded(d) : m.ticket = t) <=> \E p \in Pending(d) : p.ticket = t
<1>1. ASSUME NEW m \in Recorded(d), m.ticket = t
      PROVE  \E p \in Pending(d) : p.ticket = t
  BY <1>1, InPending
<1>2. ASSUME NEW p \in Pending(d), p.ticket = t
      PROVE  \E m \in Recorded(d) : m.ticket = t
  <2>1. PICK m \in Recorded(d) : p = Pair(m)
    BY DEF Pending
  <2> QED
    BY <1>2, <2>1, InPending
<1> QED
  BY <1>1, <1>2

LEMMA UsedPending ==
  ASSUME NEW d, NEW acc, NEW t
  PROVE  Used(d, acc, t) <=>
           t \in acc \/ t \in d.final \/ \E p \in Pending(d) : p.ticket = t
BY PendingTickets DEF Used

(* One message on record becomes another one, or none.                     *)
LEMMA PendingReplaced ==
  ASSUME NEW d, Good(d), NEW e, NEW m \in Recorded(d), NEW w,
         w.ticket = m.ticket,
         \A n : n \in Recorded(e) <=> n = w \/ (n # m /\ n \in Recorded(d))
  PROVE  Pending(e) = (Pending(d) \ {Pair(m)}) \cup {Pair(w)}
<1>1. \A n \in Recorded(d) : n.ticket = m.ticket => n = m
  BY DEF Good, Once
<1>2. \A n \in Recorded(d) : n # m => Pair(n) # Pair(m)
  BY <1>1 DEF Pair
<1> QED
  BY <1>2 DEF Pending

LEMMA PendingRemoved ==
  ASSUME NEW d, Good(d), NEW e, NEW m \in Recorded(d),
         \A n : n \in Recorded(e) <=> n # m /\ n \in Recorded(d)
  PROVE  Pending(e) = Pending(d) \ {Pair(m)}
<1>1. \A n \in Recorded(d) : n.ticket = m.ticket => n = m
  BY DEF Good, Once
<1>2. \A n \in Recorded(d) : n # m => Pair(n) # Pair(m)
  BY <1>1 DEF Pair
<1> QED
  BY <1>2 DEF Pending

(* A handler that posts no message.                                        *)
LEMMA HandlerServes ==
  ASSUME IInv, NEW c \in Component,
         Consumed(c) \/ UNCHANGED held, UNCHANGED <<proc, accepted, lastMatch>>,
         NEW d, Good(d), d.nextID = msgDB.nextID,
         NEW D \in SUBSET Open, Finish(d, D), Moves(d, D), SettlesTrades(d, D)
  PROVE  Serves(d, D)
<1>1. /\ held' \in [Component -> Request \cup {NoRequest}]
      /\ \A t \in Ticket : Holds(t)' => Holds(t)
      /\ UnderWay' = UnderWay \ {c} \/ UnderWay' = UnderWay
  <2>1. CASE Consumed(c)
    BY <2>1, ConsumedHeld
  <2>2. CASE UNCHANGED held
    BY <2>2 DEF IInv, ConnTypeOK, Holds, UnderWay
  <2> QED
    BY <2>1, <2>2
<1>2. Budget(d)'
  BY <1>1, BudgetKept
<1>3. ASSUME NEW t, Used(d, accepted, t)
      PROVE  Used(msgDB, accepted, t)
  <2>1. t \in accepted \/ t \in d.final \/ \E p \in Pending(d) : p.ticket = t
    BY <1>3, UsedPending
  <2>2. t \in accepted \/ t \in msgDB.final \/ \E p \in Pending(msgDB) : p.ticket = t
    BY <2>1 DEF Moves, Keeps, Answers, HandsOver
  <2> QED
    BY <2>2, UsedPending
<1>4. ASSUME NEW t \in accepted, t.comp \in Open \ D
      PROVE  t \in d.final \/ \E m \in Recorded(d) : m.ticket = t
  <2>1. t \in msgDB.final \/ \E p \in Pending(msgDB) : p.ticket = t
    BY <1>4, PendingTickets DEF IInv, Accounted
  <2>2. t \in d.final \/ \E p \in Pending(d) : p.ticket = t
    <3>1. CASE Keeps(d)
      BY <2>1, <3>1 DEF Keeps
    <3>2. ASSUME NEW p, Answers(d, D, p)
          PROVE  t \in d.final \/ \E q \in Pending(d) : q.ticket = t
      <4>1. /\ Pending(d) = Pending(msgDB) \ {p}
            /\ t \in d.final <=>
                 t \in msgDB.final \/ (t = p.ticket /\ t.comp \in Open \ D)
        BY <3>2 DEF Answers
      <4> QED
        BY <1>4, <2>1, <4>1
    <3>3. ASSUME NEW p, NEW b, HandsOver(d, p, b)
          PROVE  t \in d.final \/ \E q \in Pending(d) : q.ticket = t
      <4> DEFINE z == [ticket |-> p.ticket, client |-> b]
      <4>1. /\ Pending(d) = (Pending(msgDB) \ {p}) \cup {z}
            /\ d.final = msgDB.final /\ z.ticket = p.ticket
        BY <3>3 DEF HandsOver
      <4> HIDE DEF z
      <4> QED
        BY <2>1, <4>1
    <3> QED
      BY <3>1, <3>2, <3>3 DEF Moves
  <2> QED
    BY <2>2, PendingTickets
<1>5. Ready(d, accepted', Open \ D)
  <2>1. \A t \in Ticket : Used(msgDB, accepted, t) =>
          ~Holds(t)' /\ t.match <= lastMatch[t.comp]
    BY <1>1 DEF IInv, Fresh
  <2>2. Accounted(d, accepted, Open \ D)
    BY <1>4 DEF Accounted
  <2>3. accepted \subseteq Ticket /\ accepted' = accepted
    BY DEF IInv
  <2> QED
    BY <1>2, <1>3, <2>1, <2>2, <2>3 DEF Ready
<1> QED
  BY <1>1, <1>5 DEF Serves

LEMMA SameMoves ==
  ASSUME IInv, NEW D
  PROVE  /\ Good(msgDB) /\ Moves(msgDB, D) /\ SettlesTrades(msgDB, D)
BY DEF IInv, Moves, Keeps, SettlesTrades

-----------------------------------------------------------------------------
(* The handlers.                                                           *)

(* A request that is refused.                                              *)
LEMMA RefusalServes ==
  ASSUME IInv, NEW c \in Component, Consumed(c),
         UNCHANGED <<proc, accepted, lastMatch>>,
         Answer(msgDB, {c})
  PROVE  \E d : \E D : Serves(d, D)
<1>1. PICK D \in SUBSET Open : Finish(msgDB, D)
  BY DEF Answer
<1>2. Serves(msgDB, D)
  BY <1>1, SameMoves, HandlerServes
<1> QED
  BY <1>2

LEMMA KillServes ==
  ASSUME IInv, NEW c \in Component, Kill(c)
  PROVE  \E d : \E D : Serves(d, D)
<1>1. PICK D \in Cascades(msgDB, {held[c].target} \cap Open) : Finish(msgDB, D)
  BY DEF Kill
<1>2. D \in SUBSET Open
  BY <1>1, LostAreOpen
<1>3. Consumed(c) /\ UNCHANGED <<proc, accepted, lastMatch>>
  BY DEF Kill
<1>4. Serves(msgDB, D)
  BY <1>1, <1>2, <1>3, SameMoves, HandlerServes
<1> QED
  BY <1>4

LEMMA DisconnectServes ==
  ASSUME IInv, NEW c \in Component, Disconnect(c)
  PROVE  \E d : \E D : Serves(d, D)
<1>1. PICK D \in Cascades(msgDB, {c}) : Finish(msgDB, D)
  BY DEF Disconnect
<1>2. {c} \in SUBSET Open
  BY DEF Disconnect, ReadFails, WriteFails, Broken, Open
<1>3. D \in SUBSET Open
  BY <1>1, <1>2, LostAreOpen
<1>4. UNCHANGED <<proc, held, accepted, lastMatch>>
  BY DEF Disconnect
<1>5. Serves(msgDB, D)
  BY <1>1, <1>3, <1>4, SameMoves, HandlerServes
<1> QED
  BY <1>5

LEMMA MessageResponseServes ==
  ASSUME IInv, NEW c \in Component, MessageResponse(c)
  PROVE  \E d : \E D : Serves(d, D)
<1> DEFINE r == held[c]
           mine == {m \in msgDB.owned : m.id = r.id /\ m.owner = c}
           E(m) == IF r.status = "CONTINUE" THEN msgDB ELSE RemoveMessage(msgDB, m)
           Heard(m, D) == {t \in {m.ticket} : t.comp \in Open \ D}
<1>1. /\ Consumed(c) /\ UNCHANGED <<proc, accepted, lastMatch>>
      /\ held[c] # NoRequest /\ held[c].kind = "response"
  BY DEF MessageResponse, Consuming
<1>2. CASE Answer(msgDB, {c})
  BY <1>1, <1>2, RefusalServes
<1>3. ASSUME NEW m \in mine, NEW D \in SUBSET Open,
             Finish(Respond(E(m), Heard(m, D), r.status), D)
      PROVE  \E d : \E F : Serves(d, F)
  <2> DEFINE e == E(m)
             S == Heard(m, D)
             s == r.status
             d == Respond(e, S, s)
  <2>1. m \in msgDB.owned /\ Good(msgDB) /\ m \in Recorded(msgDB)
    BY InRecord DEF IInv
  <2>2. m.ticket \in Ticket /\ m.ticket \notin msgDB.final
    BY <2>1, RecordedMessages, MessageParts DEF Good, Unanswered
  <2>3. /\ S \in SUBSET Ticket /\ \A t : t \in S <=> t = m.ticket /\ t.comp \in Open \ D
        /\ S \cap msgDB.final = {}
    BY <2>2
  <2>4. /\ Good(e) /\ e.nextID = msgDB.nextID /\ e.final = msgDB.final
        /\ e.traded = msgDB.traded
        /\ s = "CONTINUE" => e = msgDB
        /\ s # "CONTINUE" =>
             \A n : n \in Recorded(e) <=> n # m /\ n \in Recorded(msgDB)
    <3>1. CASE s = "CONTINUE"
      BY <2>1, <3>1
    <3>2. CASE s # "CONTINUE"
      <4>1. e = RemoveMessage(msgDB, m)
        BY <3>2
      <4>2. e.traded = msgDB.traded
        BY <2>1, <4>1, RemoveMessageParts, TableParts DEF Good
      <4> HIDE DEF e
      <4>3. /\ Good(e) /\ e.nextID = msgDB.nextID /\ e.final = msgDB.final
            /\ \A n : n \in Recorded(e) <=> n # m /\ n \in Recorded(msgDB)
        BY <2>1, <4>1, RemoveMessageGood
      <4> QED
        BY <3>2, <4>2, <4>3
    <3> QED
      BY <3>1, <3>2
  <2> HIDE DEF e, S, s
  <2>5. s = "CONTINUE" \/ \A n \in Recorded(e) : n.ticket \notin S
    BY <2>1, <2>3, <2>4 DEF Good, Once
  <2>a. Responded(e, S, s, d)
    BY <2>3, <2>4, <2>5, RespondGood
  <2>7. Finish(d, D)
    BY <1>3 DEF e, S, s
  <2> HIDE DEF d
  <2>6. /\ Good(d) /\ d.nextID = e.nextID
        /\ d.final = IF s = "CONTINUE" THEN e.final ELSE e.final \cup S
        /\ Recorded(d) = Recorded(e)
        /\ d.owned = e.owned /\ d.traded = e.traded /\ d.told = e.told
    BY <2>a DEF Responded
  <2>8. Moves(d, D)
    <3>1. CASE s = "CONTINUE"
      <4>1. Keeps(d)
        BY <2>4, <2>6, <3>1 DEF Keeps, Pending
      <4> QED
        BY <4>1 DEF Moves
    <3>2. CASE s # "CONTINUE"
      <4>1. \A n : n \in Recorded(d) <=> n # m /\ n \in Recorded(msgDB)
        BY <2>4, <2>6, <3>2
      <4>2. Pending(d) = Pending(msgDB) \ {Pair(m)}
        BY <2>1, <4>1, PendingRemoved
      <4>3. Pair(m) \in Pending(msgDB) /\ Pair(m).ticket = m.ticket
        BY <2>1, InPending
      <4>4. \A t : t \in d.final <=>
              t \in msgDB.final \/ (t = m.ticket /\ t.comp \in Open \ D)
        BY <2>3, <2>4, <2>6, <3>2
      <4>5. Answers(d, D, Pair(m))
        BY <4>2, <4>3, <4>4 DEF Answers
      <4> QED
        BY <4>3, <4>5 DEF Moves
    <3> QED
      BY <3>1, <3>2
  <2>9. SettlesTrades(d, D)
    BY <2>4, <2>6 DEF SettlesTrades
  <2>10. Serves(d, D)
    BY <1>1, <2>4, <2>6, <2>7, <2>8, <2>9, HandlerServes
  <2> QED
    BY <2>10
<1> QED
  BY <1>2, <1>3 DEF MessageResponse

LEMMA TradeMessageServes ==
  ASSUME IInv, NEW c \in Component, TradeMessage(c)
  PROVE  \E d : \E D : Serves(d, D)
<1> DEFINE r == held[c]
           free == \A x \in msgDB.traded : x.key # r.key
           mine == {m \in msgDB.owned : m.id = r.id /\ m.owner = c}
<1>1. /\ Consumed(c) /\ UNCHANGED <<proc, accepted, lastMatch>>
      /\ held[c] # NoRequest /\ held[c].kind = "trade"
  BY DEF TradeMessage, Consuming
<1>2. CASE Answer(msgDB, {c})
  BY <1>1, <1>2, RefusalServes
<1>3. ASSUME free, NEW m \in mine, Answer(AddTrade(msgDB, r.key, m, r.match), {c})
      PROVE  \E d : \E D : Serves(d, D)
  <2> DEFINE k == r.key
             j == r.match
             d == AddTrade(msgDB, k, m, j)
  <2>1. PICK D \in SUBSET Open : Finish(d, D)
    BY <1>3 DEF Answer
  <2>2. k \in Key /\ j \in 1..MaxMatch
    BY <1>1, HeldParts
  <2>4. m \in msgDB.owned /\ Good(msgDB) /\ m \in Recorded(msgDB)
    BY InRecord DEF IInv
  <2>5. \A x \in msgDB.traded : x.key # k
    BY <1>3
  <2> HIDE DEF k, j
  <2>6. /\ Good(d) /\ d.nextID = msgDB.nextID /\ d.final = msgDB.final
        /\ \A x \in msgDB.traded : x \in d.traded
        /\ \E w \in Message :
             /\ w.ticket = m.ticket /\ w.owner = m.owner
             /\ \A n : n \in Recorded(d) <=>
                         n = w \/ (n # m /\ n \in Recorded(msgDB))
    BY <2>2, <2>4, <2>5, AddTradeGood
  <2> HIDE DEF d
  <2>7. PICK w \in Message :
          /\ w.ticket = m.ticket /\ w.owner = m.owner
          /\ \A n : n \in Recorded(d) <=>
                      n = w \/ (n # m /\ n \in Recorded(msgDB))
    BY <2>6
  <2>8. Pending(d) = Pending(msgDB)
    <3>1. Pending(d) = (Pending(msgDB) \ {Pair(m)}) \cup {Pair(w)}
      BY <2>4, <2>7, PendingReplaced
    <3>2. Pair(w) = Pair(m) /\ Pair(m) \in Pending(msgDB)
      BY <2>4, <2>7, InPending DEF Pair
    <3> QED
      BY <3>1, <3>2
  <2>9. Moves(d, D) /\ SettlesTrades(d, D)
    BY <2>6, <2>8 DEF Moves, Keeps, SettlesTrades
  <2>10. Serves(d, D)
    BY <1>1, <2>1, <2>6, <2>9, HandlerServes
  <2> QED
    BY <2>10
<1> QED
  BY <1>2, <1>3 DEF TradeMessage

(* A message that passes to c.                                             *)
LEMMA PassedOnMoves ==
  ASSUME IInv, NEW c \in Component, NEW D, NEW d, NEW m \in Recorded(msgDB),
         NEW w, w.ticket = m.ticket, w.owner = c, d.final = msgDB.final,
         \A n : n \in Recorded(d) <=> n = w \/ (n # m /\ n \in Recorded(msgDB))
  PROVE  Moves(d, D)
<1>1. Pending(d) = (Pending(msgDB) \ {Pair(m)}) \cup {Pair(w)}
  BY PendingReplaced DEF IInv
<1>2. Pair(m) \in Pending(msgDB) /\ Pair(m).ticket = m.ticket
  BY InPending
<1>3. Pair(w) = [ticket |-> Pair(m).ticket, client |-> c]
  BY <1>2 DEF Pair
<1>4. HandsOver(d, Pair(m), c)
  BY <1>1, <1>2, <1>3 DEF HandsOver
<1> QED
  BY <1>2, <1>4 DEF Moves

LEMMA MessageRequestServes ==
  ASSUME IInv, NEW c \in Component, MessageRequest(c)
  PROVE  \E d : \E D : Serves(d, D)
<1> DEFINE U(x) == [comp |-> x.msg.owner, match |-> x.msg.tradingMatch]
           T(x, D) == {v \in {U(x)} : v.comp \in Open \ D}
           E(x) == RequestTraded(msgDB, x, c)
<1>1. Consumed(c) /\ UNCHANGED <<proc, accepted, lastMatch>>
  BY DEF MessageRequest
<1>2. CASE Answer(msgDB, {c})
  BY <1>1, <1>2, RefusalServes
<1>3. ASSUME NEW x \in msgDB.traded, NEW D \in SUBSET Open,
             Finish([E(x) EXCEPT !.told = @ \cup T(x, D)], D)
      PROVE  \E d : \E F : Serves(d, F)
  <2> DEFINE e == E(x)
             S == T(x, D)
             u == U(x)
             m == x.msg
             d == [e EXCEPT !.told = @ \cup S]
  <2>1. Good(msgDB) /\ m \in Recorded(msgDB) /\ m \in Message
    BY InRecord, TableParts DEF IInv, Good
  <2>2. PassedOn(msgDB, x, c, e)
    BY <2>1, RequestTradedGood
  <2>3. /\ \A v : v \in S <=> v = u /\ v.comp \in Open \ D
        /\ u.comp = m.owner /\ u.match = m.tradingMatch
    OBVIOUS
  <2>4. S \in SUBSET Ticket
    <3>1. m.owner \in Component /\ m.tradingMatch \in 1..MaxMatch
      BY <2>1, MessageParts DEF Good, Unanswered
    <3> QED
      BY <3>1 DEF Ticket
  <2>5. Finish(d, D)
    BY <1>3
  <2>6. Settled(d, x) <=> \/ u \in d.told
                          \/ \E n \in d.owned : n.id = m.id /\ n.owner = m.owner
    BY DEF Settled
  <2> HIDE DEF e, S, u
  <2>7. PICK w \in e.owned :
             /\ w \in Message /\ w.id = m.id
             /\ w.ticket = m.ticket /\ w.owner = c
             /\ \A n : n \in Recorded(e) <=>
                         n = w \/ (n # m /\ n \in Recorded(msgDB))
    BY <2>2 DEF PassedOn
  <2>8. /\ Good(e) /\ e.nextID = msgDB.nextID /\ e.final = msgDB.final
        /\ \A y : y \in e.traded <=> y # x /\ y \in msgDB.traded
    BY <2>2 DEF PassedOn
  <2>9. Notified(e, S, d)
    BY <2>4, <2>8, ToldGood
  <2> HIDE DEF d, m
  <2>10. /\ Good(d) /\ d.nextID = e.nextID /\ d.final = e.final
         /\ Recorded(d) = Recorded(e)
         /\ d.owned = e.owned /\ d.traded = e.traded
         /\ d.told = e.told \cup S
    BY <2>9 DEF Notified
  <2>11. Moves(d, D)
    BY <2>1, <2>7, <2>8, <2>10, PassedOnMoves
  <2>12. SettlesTrades(d, D)
    <3> SUFFICES ASSUME m.owner \in Open \ D
                 PROVE  Settled(d, x)
      BY <2>8, <2>10 DEF SettlesTrades, m
    <3> QED
      BY <2>3, <2>6, <2>10
  <2>13. Serves(d, D)
    BY <1>1, <2>5, <2>8, <2>10, <2>11, <2>12, HandlerServes
  <2> QED
    BY <2>13
<1> QED
  BY <1>2, <1>3 DEF MessageRequest

LEMMA RevokeMessageTradeServes ==
  ASSUME IInv, NEW c \in Component, RevokeMessageTrade(c)
  PROVE  \E d : \E D : Serves(d, D)
<1>1. Consumed(c) /\ UNCHANGED <<proc, accepted, lastMatch>>
  BY DEF RevokeMessageTrade
<1>2. CASE Answer(msgDB, {c})
  BY <1>1, <1>2, RefusalServes
<1>3. ASSUME NEW x \in msgDB.traded, x.msg.owner = c,
             Answer(RevokeTrade(msgDB, x), {c})
      PROVE  \E d : \E F : Serves(d, F)
  <2> DEFINE d == RequestTraded(msgDB, x, c)
             m == x.msg
  <2>1. Good(msgDB) /\ m \in Recorded(msgDB) /\ m \in Message
    BY InRecord, TableParts DEF IInv, Good
  <2>2. PassedOn(msgDB, x, c, d)
    BY <2>1, RequestTradedGood
  <2>3. PICK D \in SUBSET Open : Finish(d, D)
    BY <1>3 DEF Answer, RevokeTrade
  <2> HIDE DEF d
  <2>4. PICK w \in d.owned :
             /\ w \in Message /\ w.id = m.id
             /\ w.ticket = m.ticket /\ w.owner = c
             /\ \A n : n \in Recorded(d) <=>
                         n = w \/ (n # m /\ n \in Recorded(msgDB))
    BY <2>2 DEF PassedOn
  <2>5. /\ Good(d) /\ d.nextID = msgDB.nextID /\ d.final = msgDB.final
        /\ \A y : y \in d.traded <=> y # x /\ y \in msgDB.traded
    BY <2>2 DEF PassedOn
  <2>6. Settled(d, x)
    BY <1>3, <2>4 DEF Settled
  <2> HIDE DEF m
  <2>7. Moves(d, D)
    BY <2>1, <2>4, <2>5, PassedOnMoves
  <2>8. SettlesTrades(d, D)
    BY <2>5, <2>6 DEF SettlesTrades
  <2>9. Serves(d, D)
    BY <1>1, <2>3, <2>5, <2>7, <2>8, HandlerServes
  <2> QED
    BY <2>9
<1> QED
  BY <1>2, <1>3 DEF RevokeMessageTrade

(* A message: it is on record before it is sent, if it asks for a response.*)
LEMMA MessageServes ==
  ASSUME IInv, NEW c \in Component, MessageProcessingCallback(c)
  PROVE  \E d : \E D : Serves(d, D)
<1> DEFINE r == held[c]
           t == [comp |-> c, match |-> r.match]
           a == [AddMessage(msgDB, r.dest, t) EXCEPT !.nextID = @ + 1]
           b == [msgDB EXCEPT !.nextID = @ + 1]
           A(D) == accepted \cup {u \in {t} : r.response /\ D = {} /\ c \in Open}
<1>1. /\ Consumed(c) /\ UNCHANGED <<proc, lastMatch>>
      /\ held[c] # NoRequest /\ held[c].kind = "message"
  BY DEF MessageProcessingCallback, Consuming
<1>2. /\ r.dest \in Component /\ r.match \in 1..MaxMatch
      /\ r.response \in BOOLEAN
  BY <1>1, HeldParts
<1>3. t \in Ticket /\ t.comp = c /\ Holds(t)
  BY <1>1, <1>2 DEF Ticket, Holds
<1>4. CASE Answer(msgDB, {c}) /\ UNCHANGED accepted
  BY <1>1, <1>4, RefusalServes
<1>5. ASSUME NEW D \in SUBSET Open, accepted' = A(D),
             NEW d, Finish(d, D), d = IF r.response THEN a ELSE b
      PROVE  \E e : \E F : Serves(e, F)
  <2>1. Good(msgDB) /\ accepted \subseteq Ticket
    BY DEF IInv
  <2>2. /\ ~Used(msgDB, accepted, t)
        /\ t.match <= lastMatch[c]
    BY <1>3 DEF IInv, Fresh
  <2>3. ~Used(msgDB, {}, t)
    BY <2>2 DEF Used
  <2>4. c \in UnderWay
    BY <1>1 DEF UnderWay
  <2>5. /\ held' \in [Component -> Request \cup {NoRequest}]
        /\ \A u \in Ticket : Holds(u)' <=> u.comp # c /\ Holds(u)
        /\ UnderWay' = UnderWay \ {c}
    BY <1>1, ConsumedHeld
  <2>6. /\ msgDB.nextID \in MessageID
        /\ d.nextID = msgDB.nextID + 1 => Budget(d)'
    BY <2>4, <2>5, BudgetSpent
  <2>7. r.response => Posted(msgDB, r.dest, t, d)
    <3>1. Posted(msgDB, r.dest, t, a)
      BY <1>2, <1>3, <2>1, <2>3, <2>6, AddMessageGood
    <3> HIDE DEF a, t, r
    <3> QED
      BY <1>5, <3>1
  <2>8. ASSUME ~r.response
        PROVE  /\ Good(d) /\ d.nextID = msgDB.nextID + 1
               /\ d.final = msgDB.final /\ d.traded = msgDB.traded
               /\ Recorded(d) = Recorded(msgDB)
    <3>1. d = b
      BY <1>5, <2>8
    <3> QED
      BY <2>1, <2>6, <3>1, SkipIDGood
  <2> HIDE DEF a, b
  <2>9. \A u : u \in accepted' <=>
                 u \in accepted \/ (u = t /\ r.response /\ D = {} /\ c \in Open)
    BY <1>5
  <2> HIDE DEF t, r, A
  <2>10. r.response => Posts(d, t, r.dest)
    <3> SUFFICES ASSUME r.response
                 PROVE  Posts(d, t, r.dest)
      OBVIOUS
    <3>1. PICK m \in Message :
            /\ m.ticket = t /\ m.owner = r.dest
            /\ \A n : n \in Recorded(d) <=> n = m \/ n \in Recorded(msgDB)
      BY <2>7 DEF Posted
    <3>2. Pending(d) = Pending(msgDB) \cup {Pair(m)}
      BY <3>1 DEF Pending
    <3>3. Pair(m) = [ticket |-> t, client |-> r.dest]
      BY <3>1 DEF Pair
    <3>4. d.final = msgDB.final
      BY <2>7 DEF Posted
    <3> QED
      BY <2>3, <3>2, <3>3, <3>4 DEF Posts
  <2>11. ~r.response => Keeps(d)
    BY <2>8 DEF Keeps, Pending
  <2>12. /\ Good(d) /\ d.nextID = msgDB.nextID + 1
         /\ d.final = msgDB.final /\ d.traded = msgDB.traded
    BY <2>7, <2>8 DEF Posted
  <2>13. \A u : /\ (\E m \in Recorded(msgDB) : m.ticket = u) =>
                     \E m \in Recorded(d) : m.ticket = u
                /\ (\E m \in Recorded(d) : m.ticket = u) =>
                     u = t \/ \E m \in Recorded(msgDB) : m.ticket = u
                /\ r.response => \E m \in Recorded(d) : m.ticket = t
    <3>1. CASE r.response
      BY <2>7, <3>1 DEF Posted
    <3>2. CASE ~r.response
      BY <2>8, <3>2
    <3> QED
      BY <3>1, <3>2
  <2>14. \A u \in Ticket : Used(d, accepted', u) =>
                             ~Holds(u)' /\ u.match <= lastMatch[u.comp]
    <3> SUFFICES ASSUME NEW u \in Ticket, Used(d, accepted', u)
                 PROVE  ~Holds(u)' /\ u.match <= lastMatch[u.comp]
      OBVIOUS
    <3>1. u = t \/ Used(msgDB, accepted, u)
      BY <2>9, <2>12, <2>13 DEF Used
    <3>2. CASE u = t
      BY <1>3, <2>2, <2>5, <3>2
    <3>3. CASE Used(msgDB, accepted, u)
      BY <2>5, <3>3 DEF IInv, Fresh
    <3> QED
      BY <3>1, <3>2, <3>3
  <2>15. Accounted(d, accepted', Open \ D)
    <3> SUFFICES ASSUME NEW u \in accepted', u.comp \in Open \ D
                 PROVE  u \in d.final \/ \E m \in Recorded(d) : m.ticket = u
      BY DEF Accounted
    <3>1. CASE u \in accepted
      BY <2>12, <2>13, <3>1 DEF IInv, Accounted
    <3>2. CASE u = t /\ r.response
      BY <2>13, <3>2
    <3> QED
      BY <2>9, <3>1, <3>2
  <2>16. accepted' \subseteq Ticket
    BY <1>3, <2>1, <2>9
  <2>17. Ready(d, accepted', Open \ D)
    BY <2>6, <2>12, <2>14, <2>15, <2>16 DEF Ready
  <2>18. SettlesTrades(d, D)
    BY <2>12 DEF SettlesTrades
  <2>19. Moves(d, D) \/ \E v \in Ticket, o \in Component : Posts(d, v, o)
    BY <1>2, <1>3, <2>10, <2>11 DEF Moves
  <2>20. Serves(d, D)
    BY <1>1, <1>5, <2>5, <2>17, <2>18, <2>19 DEF Serves
  <2> QED
    BY <2>20
<1>6. CASE r.dest \in Open
  <2> DEFINE x == IF r.response THEN AddMessage(msgDB, r.dest, t) ELSE msgDB
             d == [x EXCEPT !.nextID = @ + 1]
  <2>1. PICK D \in SUBSET Open : Finish(d, D) /\ accepted' = A(D)
    BY <1>6 DEF MessageProcessingCallback
  <2>2. d = IF r.response THEN a ELSE b
    BY <1>2
  <2> HIDE DEF d, a, b, A
  <2> QED
    BY <1>5, <2>1, <2>2
<1>7. CASE r.dest \notin Open
  BY <1>4, <1>7 DEF MessageProcessingCallback
<1> QED
  BY <1>6, <1>7

LEMMA HandleServes ==
  ASSUME IInv, NEW c \in Component, Handle(c) \/ Disconnect(c)
  PROVE  \E d : \E D : Serves(d, D)
<1>1. CASE MessageProcessingCallback(c)
  BY <1>1, MessageServes
<1>2. CASE MessageResponse(c)
  BY <1>2, MessageResponseServes
<1>3. CASE TradeMessage(c)
  BY <1>3, TradeMessageServes
<1>4. CASE MessageRequest(c)
  BY <1>4, MessageRequestServes
<1>5. CASE RevokeMessageTrade(c)
  BY <1>5, RevokeMessageTradeServes
<1>6. CASE Kill(c)
  BY <1>6, KillServes
<1>7. CASE Disconnect(c)
  BY <1>7, DisconnectServes
<1> QED
  BY <1>1, <1>2, <1>3, <1>4, <1>5, <1>6, <1>7 DEF Handle

-----------------------------------------------------------------------------
(* The client side.                                                        *)

LEMMA SendRequestInv ==
  ASSUME IInv, NEW c \in Component, NEW r \in Request, SendRequest(c, r)
  PROVE  IInv'
<1>1. /\ held[c] = NoRequest /\ link[c] = "open"
      /\ held' = [held EXCEPT ![c] = r]
      /\ UNCHANGED <<link, proc, server, msgDB, accepted>>
  BY DEF SendRequest, Receive
<1>2. /\ held \in [Component -> Request \cup {NoRequest}]
      /\ lastMatch \in [Component -> 0..MaxMatch]
  BY DEF IInv, ConnTypeOK
<1>3. /\ held' \in [Component -> Request \cup {NoRequest}]
      /\ \A b \in Component : held'[b] = IF b = c THEN r ELSE held[b]
  BY <1>1, <1>2
<1>4. r.kind \in {"message", "trade"} => r.match \in 1..MaxMatch
  BY DEF Request
<1>5. /\ lastMatch' \in [Component -> 0..MaxMatch]
      /\ \A b \in Component : b # c => lastMatch'[b] = lastMatch[b]
      /\ lastMatch[c] <= lastMatch'[c]
      /\ r.kind = "message" =>
           r.match = lastMatch[c] + 1 /\ lastMatch'[c] = r.match
  <2>1. CASE r.kind \in {"message", "trade"}
    <3>1. r.match = lastMatch[c] + 1 /\ lastMatch' = [lastMatch EXCEPT ![c] = r.match]
      BY <2>1 DEF SendRequest
    <3> QED
      BY <1>2, <1>4, <2>1, <3>1, MessagesAssumption
  <2>2. CASE r.kind \notin {"message", "trade"}
    <3>1. lastMatch' = lastMatch
      BY <2>2 DEF SendRequest
    <3> QED
      BY <1>2, <2>2, <3>1, MessagesAssumption
  <2> QED
    BY <2>1, <2>2
<1>6. /\ ConnTypeOK(Request)' /\ Open' = Open /\ (accepted \subseteq Ticket)'
  BY <1>1, <1>3 DEF IInv, ConnTypeOK, Open
<1>7. Good(msgDB)' /\ Accounted(msgDB, accepted, Open)'
  BY <1>1, <1>6 DEF IInv, Accounted, Recorded, Good, MessageTables, Agree,
                    ListsAgree, KeysAgree, Once, Unanswered
<1>8. \A t \in Ticket : Holds(t)' =>
        IF t.comp = c THEN r.kind = "message" /\ t.match = r.match ELSE Holds(t)
  BY <1>3 DEF Holds, Ticket
<1>9. \A t \in Ticket : /\ t.comp \in Component /\ t.match \in Int
                        /\ lastMatch[t.comp] \in Int /\ lastMatch'[t.comp] \in Int
                        /\ lastMatch[t.comp] <= lastMatch'[t.comp]
  BY <1>2, <1>5, MessagesAssumption DEF Ticket
<1>10. Fresh'
  <2>1. \A b \in Component : link'[b] = "new" => lastMatch'[b] = 0
    BY <1>1, <1>5 DEF IInv, Fresh
  <2>2. \A t \in Ticket : Holds(t)' => t.match <= lastMatch'[t.comp]
    BY <1>5, <1>8, <1>9 DEF IInv, Fresh
  <2>3. ASSUME NEW t \in Ticket, Used(msgDB, accepted, t)'
        PROVE  ~Holds(t)' /\ t.match <= lastMatch'[t.comp]
    <3>1. Used(msgDB, accepted, t)
      BY <1>1, <2>3 DEF Used, Recorded
    <3>2. ~Holds(t) /\ t.match <= lastMatch[t.comp]
      BY <3>1 DEF IInv, Fresh
    <3> QED
      BY <1>5, <1>8, <1>9, <3>2
  <2> QED
    BY <2>1, <2>2, <2>3 DEF Fresh
<1>11. Budget(msgDB)'
  <2>1. /\ IsFiniteSet(UnderWay)
        /\ Cardinality(UnderWay) + msgDB.nextID <= MaxMessage + 1
    BY DEF IInv, Budget
  <2>2. c \notin UnderWay
    BY <1>1 DEF UnderWay
  <2>3. CASE r.kind = "message"
    <3>1. /\ IsFiniteSet(UnderWay \cup {c})
          /\ Cardinality(UnderWay \cup {c}) = Cardinality(UnderWay) + 1
      BY <2>1, <2>2, FS_AddElement
    <3>2. UnderWay' \subseteq UnderWay \cup {c}
      BY <1>3 DEF UnderWay
    <3>3. /\ IsFiniteSet(UnderWay')
          /\ Cardinality(UnderWay') <= Cardinality(UnderWay \cup {c})
      BY <3>1, <3>2, FS_Subset
    <3>4. Cardinality(UnderWay) + msgDB.nextID \in MessageID
      BY <2>3 DEF SendRequest
    <3>5. /\ Cardinality(UnderWay') \in Nat /\ Cardinality(UnderWay) \in Nat
          /\ msgDB.nextID \in Int
      BY <2>1, <3>3, FS_CardinalityType, TableParts, MessagesAssumption
         DEF IInv, Good
    <3> QED
      BY <1>1, <3>1, <3>3, <3>4, <3>5, MessagesAssumption DEF Budget, MessageID
  <2>4. CASE r.kind # "message"
    <3>1. UnderWay' = UnderWay
      BY <1>3, <2>2, <2>4 DEF UnderWay
    <3> QED
      BY <1>1, <2>1, <3>1 DEF Budget
  <2> QED
    BY <2>3, <2>4
<1> QED
  BY <1>5, <1>6, <1>7, <1>10, <1>11 DEF IInv

(* A connection that opens, a client that exits, a step of something else. *)
LEMMA QuietInv ==
  ASSUME IInv, UNCHANGED <<held, server, msgDB, accepted, lastMatch>>,
         link' = link \/ \E c \in Component : Accept(c),
         proc' \in [Component -> {"up", "down", "lost"}]
  PROVE  IInv'
<1>1. /\ link' \in [Component -> {"new", "open", "gone"}]
      /\ \A c \in Component : link'[c] = "new" => link[c] = "new"
      /\ \A c \in Component : c \in Open' => c \in Open \/ link[c] = "new"
  <2>1. CASE link' = link
    BY <2>1 DEF IInv, ConnTypeOK, Open
  <2>2. ASSUME NEW c \in Component, Accept(c)
        PROVE  /\ link' \in [Component -> {"new", "open", "gone"}]
               /\ \A b \in Component : link'[b] = "new" => link[b] = "new"
               /\ \A b \in Component : b \in Open' => b \in Open \/ link[b] = "new"
    BY <2>2 DEF IInv, ConnTypeOK, Open, Accept
  <2> QED
    BY <2>1, <2>2
<1>2. \A t \in accepted : t.comp \in Component /\ link[t.comp] # "new"
  <2> SUFFICES ASSUME NEW t \in accepted
               PROVE  t.comp \in Component /\ link[t.comp] # "new"
    OBVIOUS
  <2>1. t \in Ticket /\ t.match <= lastMatch[t.comp]
    BY DEF IInv, Fresh, Used
  <2>2. t.comp \in Component /\ t.match \in 1..MaxMatch
    BY <2>1 DEF Ticket
  <2> QED
    BY <2>1, <2>2, MessagesAssumption DEF IInv, Fresh
<1>3. ConnTypeOK(Request)'
  BY <1>1 DEF IInv, ConnTypeOK
<1>4. Good(msgDB)'
  BY DEF IInv, Good, MessageTables, Agree, ListsAgree, KeysAgree, Once,
         Unanswered, Recorded
<1>5. Fresh'
  BY <1>1 DEF IInv, Fresh, Holds, Used, Recorded
<1>6. Budget(msgDB)'
  BY DEF IInv, Budget, UnderWay
<1>7. Accounted(msgDB, accepted, Open)'
  <2> SUFFICES ASSUME NEW t \in accepted, t.comp \in Open'
               PROVE  t \in msgDB.final \/ \E m \in Recorded(msgDB) : m.ticket = t
    BY DEF Accounted, Recorded
  <2>1. t.comp \in Open
    BY <1>1, <1>2
  <2> QED
    BY <2>1 DEF IInv, Accounted
<1> QED
  BY <1>3, <1>4, <1>5, <1>6, <1>7 DEF IInv

(* A client's step, a step of something else: the tables are left alone.   *)
LEMMA ClientInv ==
  ASSUME IInv, (\E c \in Component : ClientStep(c)) \/ UNCHANGED vars
  PROVE  IInv' /\ UNCHANGED msgDB
<1>1. ASSUME NEW c \in Component, NEW r \in Request, SendRequest(c, r)
      PROVE  IInv' /\ UNCHANGED msgDB
  <2>1. UNCHANGED msgDB
    BY <1>1 DEF SendRequest
  <2> QED
    BY <1>1, <2>1, SendRequestInv
<1>2. ASSUME NEW c \in Component, NEW how \in {"down", "lost"},
             Leave(c, how), UNCHANGED messagesVars
      PROVE  IInv' /\ UNCHANGED msgDB
  <2>1. /\ UNCHANGED <<link, held, server, msgDB, accepted, lastMatch>>
        /\ proc' \in [Component -> {"up", "down", "lost"}]
    BY <1>2 DEF Leave, messagesVars, IInv, ConnTypeOK
  <2> QED
    BY <2>1, QuietInv
<1>3. ASSUME NEW c \in Component, Accept(c), UNCHANGED messagesVars
      PROVE  IInv' /\ UNCHANGED msgDB
  <2>1. /\ UNCHANGED <<held, server, msgDB, accepted, lastMatch>>
        /\ proc' \in [Component -> {"up", "down", "lost"}]
    BY <1>3 DEF Accept, messagesVars, IInv, ConnTypeOK
  <2> QED
    BY <1>3, <2>1, QuietInv
<1>4. CASE UNCHANGED vars
  <2>1. /\ UNCHANGED <<link, held, server, msgDB, accepted, lastMatch>>
        /\ proc' \in [Component -> {"up", "down", "lost"}]
    BY <1>4 DEF vars, IInv, ConnTypeOK
  <2> QED
    BY <2>1, QuietInv
<1> QED
  BY <1>1, <1>2, <1>3, <1>4 DEF ClientStep

LEMMA NextInv == IInv /\ [Next]_vars => IInv'
<1> SUFFICES ASSUME IInv, [Next]_vars PROVE IInv'
  OBVIOUS
<1>1. CASE (\E c \in Component : ClientStep(c)) \/ UNCHANGED vars
  BY <1>1, ClientInv
<1>2. ASSUME NEW c \in Component, Handle(c) \/ Disconnect(c)
      PROVE  IInv'
  <2>1. PICK d : \E D : Serves(d, D)
    BY <1>2, HandleServes
  <2>2. PICK D : Serves(d, D)
    BY <2>1
  <2> QED
    BY <2>2, FinishInv DEF Serves
<1> QED
  BY <1>1, <1>2 DEF Next

-----------------------------------------------------------------------------
(* The theorems.                                                           *)

(* The inductive invariant holds in every behaviour.                       *)
THEOREM MessagesInvariant == Spec => []IInv
BY InitInv, NextInv, PTL DEF Spec

(* Every variable keeps its type: among them, no list of a component names *)
(* an ID that was not given out (szgserver.cpp:161).                       *)
THEOREM MessagesTypeOK == Spec => []TypeOK
<1>1. IInv => TypeOK
  BY DEF IInv, TypeOK, Good
<1> QED
  BY <1>1, MessagesInvariant, PTL

(* The two maps about messages agree at all times, and so do the two about *)
(* trades: removing a component finds all it has to answer and all it      *)
(* offered (SZGremoveComponentFromDB, szgserver.cpp:831).                  *)
THEOREM MessageTablesAgree == Spec => []TablesAgree
<1>1. IInv => TablesAgree
  BY DEF IInv, Good, Agree, ListsAgree, KeysAgree, TablesAgree
<1> QED
  BY <1>1, MessagesInvariant, PTL

(* A message is on record once: with one owner, or in one trade            *)
(* (SZGaddMessageTradeToDB, szgserver.cpp:245).                            *)
THEOREM MessageHasOneCustodian == Spec => []OneCustodian
<1>1. IInv => OneCustodian
  BY DEF IInv, Good, Once, OneCustodian
<1> QED
  BY <1>1, MessagesInvariant, PTL

(* An accepted message of a connected sender is on record until its final  *)
(* response was sent, and nothing is sent after that one                   *)
(* (szgserver.cpp:1268).                                                   *)
THEOREM MessagesAreAccounted == Spec => []ResponsesAccounted
<1>1. IInv => ResponsesAccounted
  BY DEF IInv, Good, Unanswered, Accounted, ResponsesAccounted
<1> QED
  BY <1>1, MessagesInvariant, PTL

(* What a handler leaves: the tables d without those in D.                 *)
LEMMA ServedTables ==
  ASSUME IInv, NEW d, NEW D, Serves(d, D)
  PROVE  Removed(d, D, Open \ D, msgDB')
<1>1. Good(d) /\ D \in SUBSET Component /\ Finish(d, D)
  BY DEF Serves, Ready, Open
<1>2. Removed(d, D, Open \ D, RemoveComponents(d, D, Open \ D))
  BY <1>1, RemoveGood
<1> QED
  BY <1>1, <1>2 DEF Finish

(* A trade that ends while its owner stays connected was completed, and    *)
(* the owner told, or was revoked, and the message is the owner's again    *)
(* (szgserver.cpp:1316, 1351).                                             *)
THEOREM TradesAreSettled == Spec => TradeSettled
<1> DEFINE T(x) ==
      link'[x.msg.owner] = "open" =>
        \/ [comp |-> x.msg.owner, match |-> x.msg.tradingMatch] \in msgDB'.told
        \/ \E m \in msgDB'.owned : m.id = x.msg.id /\ m.owner = x.msg.owner
<1>1. ASSUME IInv, [Next]_vars, NEW x \in msgDB.traded \ msgDB'.traded
      PROVE  T(x)
  <2>1. CASE (\E c \in Component : ClientStep(c)) \/ UNCHANGED vars
    BY <1>1, <2>1, ClientInv
  <2>2. ASSUME NEW c \in Component, Handle(c) \/ Disconnect(c)
        PROVE  T(x)
    <3>1. PICK d : \E D : Serves(d, D)
      BY <1>1, <2>2, HandleServes
    <3>2. PICK D : Serves(d, D)
      BY <3>1
    <3>3. D \in SUBSET Open /\ Close(D) /\ SettlesTrades(d, D)
      BY <3>2 DEF Serves, Finish
    <3>4. Removed(d, D, Open \ D, msgDB')
      BY <1>1, <3>2, ServedTables
    <3>5. x.msg.owner \in Component
      BY <1>1, TableParts, MessageParts DEF IInv, Good
    <3> SUFFICES ASSUME link'[x.msg.owner] = "open"
                 PROVE  \/ [comp |-> x.msg.owner, match |-> x.msg.tradingMatch]
                             \in msgDB'.told
                        \/ \E m \in msgDB'.owned :
                             m.id = x.msg.id /\ m.owner = x.msg.owner
      OBVIOUS
    <3>6. x.msg.owner \in Open \ D
      BY <3>3, <3>5 DEF Close, Open
    <3>7. x \notin d.traded
      BY <1>1, <3>4, <3>6 DEF Removed
    <3>8. Settled(d, x)
      BY <1>1, <3>3, <3>6, <3>7 DEF SettlesTrades
    <3> QED
      BY <3>4, <3>6, <3>8 DEF Removed, Settled
  <2> QED
    BY <1>1, <2>1, <2>2 DEF Next
<1>2. IInv /\ [Next]_vars => [\A x \in msgDB.traded \ msgDB'.traded : T(x)]_vars
  BY <1>1
<1>3. (\A x \in msgDB.traded \ msgDB'.traded : T(x)) <=>
      \A x \in msgDB.traded \ msgDB'.traded :
        link'[x.msg.owner] = "open" =>
          LET told == [comp |-> x.msg.owner, match |-> x.msg.tradingMatch]
                        \in msgDB'.told
              back == \E m \in msgDB'.owned :
                        m.id = x.msg.id /\ m.owner = x.msg.owner
          IN told \/ back
  OBVIOUS
<1> HIDE DEF T
<1> QED
  BY <1>2, <1>3, MessagesInvariant, PTL DEF Spec, TradeSettled

-----------------------------------------------------------------------------
(* The message service.                                                    *)

Gone == {c \in Component : link[c] = "gone"}

LEMMA AbstractState ==
  {[ticket |-> m.ticket, client |-> m.owner] : m \in Recorded(msgDB)}
     = Pending(msgDB)
BY DEF Pending, Pair

(* The sender of a message the server has handled is connected, or gone.   *)
LEMMA SendersKnown ==
  ASSUME IInv, NEW D \in SUBSET Open, NEW t \in Ticket,
         t.match <= lastMatch[t.comp]
  PROVE  t.comp \in Open \ D <=> t.comp \notin Gone \cup D
<1>1. t.comp \in Component /\ t.match \in 1..MaxMatch
  BY DEF Ticket
<1>2. link[t.comp] # "new"
  BY <1>1, MessagesAssumption DEF IInv, Fresh
<1> QED
  BY <1>1, <1>2 DEF IInv, ConnTypeOK, Open, Gone

(* A handler that leaves d and sends the final responses to S is a step of *)
(* the service.                                                            *)
LEMMA ServesPromise ==
  ASSUME IInv, NEW d, NEW D, Serves(d, D), NEW S,
         \A t \in S : t \in Ticket /\ t.match <= lastMatch[t.comp],
         \A t : t \in d.final <=>
           t \in msgDB.final \/ (t \in S /\ t.comp \in Open \ D)
  PROVE  Promise!Serve(Pending(d), S, D)
<1> DEFINE failed == {p.ticket : p \in {q \in Pending(d) : q.client \in D}}
<1>1. Removed(d, D, Open \ D, msgDB')
  BY ServedTables
<1>2. D \in SUBSET Open /\ Close(D) /\ Ready(d, accepted', Open \ D)
  BY DEF Serves, Finish
<1>3. \A t : t \in failed <=> \E m \in Recorded(d) : m.owner \in D /\ m.ticket = t
  <2>1. \A t : t \in failed <=> \E p \in Pending(d) : p.client \in D /\ p.ticket = t
    OBVIOUS
  <2>2. \A p : p \in Pending(d) <=> \E m \in Recorded(d) : p = Pair(m)
    BY DEF Pending
  <2>3. \A m : Pair(m).ticket = m.ticket /\ Pair(m).client = m.owner
    BY DEF Pair
  <2> HIDE DEF failed
  <2> QED
    BY <2>1, <2>2, <2>3
<1> HIDE DEF failed
<1>4. Gone' = Gone \cup D
  BY <1>2, OpenAfter DEF Gone, Open
<1>5. Pending(msgDB)' = {p \in Pending(d) : p.client \notin D}
  <2>1. \A p : p \in Pending(d) <=> \E m \in Recorded(d) : p = Pair(m)
    BY DEF Pending
  <2>2. \A p : p \in Pending(msgDB)' <=> \E m \in Recorded(msgDB') : p = Pair(m)
    BY DEF Pending, Recorded, Pair
  <2>3. \A m : m \in Recorded(msgDB') <=> m \in Recorded(d) /\ m.owner \notin D
    BY <1>1 DEF Removed
  <2>4. \A m : Pair(m).client = m.owner
    BY DEF Pair
  <2> QED
    BY <2>1, <2>2, <2>3, <2>4
<1>6. \A t \in failed : t \in Ticket /\ t.match <= lastMatch[t.comp]
  <2> SUFFICES ASSUME NEW m \in Recorded(d)
               PROVE  m.ticket \in Ticket /\ m.ticket.match <= lastMatch[m.ticket.comp]
    BY <1>3
  <2>1. m.ticket \in Ticket
    BY <1>2, RecordedMessages, MessageParts DEF Ready, Good
  <2>2. Used(d, accepted', m.ticket)
    BY DEF Used
  <2> QED
    BY <1>2, <2>1, <2>2 DEF Ready
<1>7. \A t : t \in msgDB'.final <=>
        \/ t \in msgDB.final
        \/ t \in S \cup failed /\ t.comp \notin Gone \cup D
  <2>1. \A t : t \in msgDB'.final <=>
          t \in d.final \/ (t.comp \in Open \ D /\ t \in failed)
    BY <1>1, <1>3 DEF Removed
  <2>2. \A t \in S \cup failed : t.comp \in Open \ D <=> t.comp \notin Gone \cup D
    BY <1>2, <1>6, SendersKnown
  <2> QED
    BY <2>1, <2>2
<1>8. msgDB'.final = msgDB.final \cup {t \in S \cup failed : t.comp \notin Gone \cup D}
  BY <1>7
<1> QED
  BY <1>4, <1>5, <1>8, AbstractState DEF Promise!Serve, Gone, failed, Pending, Pair

LEMMA ServesNext ==
  ASSUME IInv, NEW d, NEW D, Serves(d, D)
  PROVE  Promise!Next
<1>1. D \in SUBSET Component
  BY DEF Serves, Open
<1>2. \A p \in Pending(msgDB) : /\ p.ticket \in Ticket
                                /\ p.ticket.match <= lastMatch[p.ticket.comp]
  <2> SUFFICES ASSUME NEW m \in Recorded(msgDB)
               PROVE  /\ m.ticket \in Ticket
                      /\ m.ticket.match <= lastMatch[m.ticket.comp]
    BY DEF Pending, Pair
  <2>1. m.ticket \in Ticket
    BY RecordedMessages, MessageParts DEF IInv, Good
  <2>2. Used(msgDB, accepted, m.ticket)
    BY DEF Used
  <2> QED
    BY <2>1, <2>2 DEF IInv, Fresh
<1>3. CASE Keeps(d)
  <2>1. Promise!Serve(Pending(msgDB), {}, D)
    BY <1>3, ServesPromise DEF Keeps
  <2>2. Promise!Depart(D)
    BY <2>1 DEF Promise!Depart, Pending, Pair
  <2> QED
    BY <1>1, <2>2 DEF Promise!Next
<1>4. ASSUME NEW p \in Pending(msgDB), Answers(d, D, p)
      PROVE  Promise!Next
  <2>1. /\ Pending(d) = Pending(msgDB) \ {p}
        /\ \A t : t \in d.final <=>
             t \in msgDB.final \/ (t \in {p.ticket} /\ t.comp \in Open \ D)
    BY <1>4 DEF Answers
  <2>2. Promise!Serve(Pending(msgDB) \ {p}, {p.ticket}, D)
    BY <1>2, <2>1, ServesPromise
  <2>3. Promise!Respond(p, D)
    BY <2>2 DEF Promise!Respond, Pending, Pair
  <2> QED
    BY <1>1, <2>3, AbstractState DEF Promise!Next
<1>5. ASSUME NEW p \in Pending(msgDB), NEW c \in Component, HandsOver(d, p, c)
      PROVE  Promise!Next
  <2>1. /\ Pending(d) = (Pending(msgDB) \ {p})
                          \cup {[ticket |-> p.ticket, client |-> c]}
        /\ d.final = msgDB.final
    BY <1>5 DEF HandsOver
  <2>2. Promise!Serve((Pending(msgDB) \ {p})
                        \cup {[ticket |-> p.ticket, client |-> c]}, {}, D)
    BY <2>1, ServesPromise
  <2>3. Promise!HandOver(p, c, D)
    BY <2>2, AbstractState DEF Promise!HandOver
  <2> QED
    BY <1>1, <2>3, AbstractState DEF Promise!Next
<1>6. ASSUME NEW t \in Ticket, NEW o \in Component, Posts(d, t, o)
      PROVE  Promise!Next
  <2>1. /\ Pending(d) = Pending(msgDB) \cup {[ticket |-> t, client |-> o]}
        /\ d.final = msgDB.final
        /\ t \notin msgDB.final
        /\ \A p \in Pending(msgDB) : p.ticket # t
    BY <1>6, UsedPending DEF Posts
  <2>2. Promise!Serve(Pending(msgDB) \cup {[ticket |-> t, client |-> o]}, {}, D)
    BY <2>1, ServesPromise
  <2>3. Promise!Post(t, o, D)
    BY <2>1, <2>2, AbstractState DEF Promise!Post
  <2> QED
    BY <1>1, <2>3, AbstractState DEF Promise!Next
<1> QED
  BY <1>3, <1>4, <1>5, <1>6 DEF Serves, Moves

(* The tables implement the message service: one component at a time has   *)
(* to respond, and the sender of a message gets one final response, from   *)
(* that component or from the server when that component departs.          *)
THEOREM Refinement == Spec => ImplementsMessageService
<1>1. Init => Promise!Init
  BY DEF Init, ConnInit, Promise!Init, Recorded
<1>2. IInv /\ [Next]_vars => [Promise!Next]_(Promise!svars)
  <2> SUFFICES ASSUME IInv, [Next]_vars
               PROVE  Promise!Next \/ UNCHANGED Promise!svars
    OBVIOUS
  <2>1. CASE \E c \in Component : Handle(c) \/ Disconnect(c)
    <3>1. PICK d : \E D : Serves(d, D)
      BY <2>1, HandleServes
    <3> QED
      BY <3>1, ServesNext
  <2>2. CASE (\E c \in Component : ClientStep(c)) \/ UNCHANGED vars
    <3>1. UNCHANGED msgDB
      BY <2>2, ClientInv
    <3>2. UNCHANGED Gone
      <4>1. CASE UNCHANGED link
        BY <4>1 DEF Gone
      <4>2. ASSUME NEW c \in Component, Accept(c)
            PROVE  UNCHANGED Gone
        BY <4>2 DEF Gone, Accept, IInv, ConnTypeOK
      <4>3. UNCHANGED link \/ \E c \in Component : Accept(c)
        BY <2>2 DEF ClientStep, SendRequest, Receive, Leave, vars
      <4> QED
        BY <4>1, <4>2, <4>3
    <3> QED
      BY <3>1, <3>2 DEF Promise!svars, Gone, Recorded
  <2> QED
    BY <2>1, <2>2 DEF Next
<1> QED
  BY <1>1, <1>2, MessagesInvariant, PTL
     DEF Spec, ImplementsMessageService, Promise!Spec
=============================================================================
