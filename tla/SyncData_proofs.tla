-------------------------- MODULE SyncData_proofs --------------------------
(***************************************************************************)
(* Proofs about SyncData.  A restart of the server is assumed to find that *)
(* every client has noticed that it was gone: otherwise a client may ask   *)
(* the new server to activate the socket that it had with the old one.     *)
(***************************************************************************)
EXTENDS SyncData, SequenceTheorems, TLAPS

(* Whenever the server comes back, its old connections have been found     *)
(* closed, by the barrier clients and by the read threads.                 *)
RestartsNoticed == [][Restart => Noticed']_vars

-----------------------------------------------------------------------------
(* Types.  A queue holds up to two buffers, which are sequences of records. *)

Records == Seq(Nat)
Buffers == {s \in Seq(Records) : Len(s) <= 2}

ClientRecord ==
  [conn : {"barrier", "dial", "up", "skip", "null"},
   read : {"idle", "activating", "reading", "first", "syncing", "synced",
           "swap", "lost"},
   draw : {"top", "null", "wait", "take", "drawn", "sync", "post"},
   connected : BOOLEAN, peer : [life : Nat, id : Nat],
   inbox : Buffers, hand : Records, stack : Buffers, replica : Records,
   first : BOOLEAN, swapReady : BOOLEAN, available : {0, 1, 2}, null : {0, 1, 2},
   bar : Nat, activated : BOOLEAN, response : BOOLEAN, release : BOOLEAN]

ActivationRequest == [client : Client, id : Nat]
Requests == Seq(ActivationRequest)

ServerRecord ==
  [up : BOOLEAN, life : 1..MaxLife,
   pc : {"top", "activate", "await", "dump", "send", "enter", "local"},
   signal : BOOLEAN, released : BOOLEAN, full : BOOLEAN, pump : BOOLEAN,
   requests : Requests, todo : Requests,
   fresh : SUBSET Client, old : SUBSET Client, answer : BOOLEAN]

Types ==
  /\ mode \in {"auto", "manual"}
  /\ server \in ServerRecord
  /\ data \in [sockets : Seq(Client), active : SUBSET Client]
  /\ producer \in {"idle", "full", "swapping"}
  /\ history \in Records
  /\ queue \in [front : Records, back : Records]
  /\ member \in SUBSET (Client \cup {"local"})
  /\ waiting \in SUBSET member
  /\ client \in [Client -> ClientRecord]

-----------------------------------------------------------------------------
(* The invariant: what holds of a client's threads among themselves ...    *)

Empty(x) == x.stack = <<>> /\ x.hand = <<>> /\ x.inbox = <<>>

Held(x) == x.read \in {"first", "syncing", "synced", "swap"}

Own(x) ==
  /\ x.connected => x.conn = "up"
  /\ ~x.connected => x.read = "idle" /\ x.available # 1
  /\ ~x.connected \/ x.read = "lost" => Empty(x) /\ x.first /\ x.swapReady
  /\ x.conn \in {"barrier", "dial"} \/ x.null = 2 =>
       x.replica = <<>> /\ x.draw \in {"top", "null"}
  /\ x.null # 0 => x.conn = "null"
  /\ ~Held(x) => x.hand = <<>>
  /\ x.read \in {"first", "syncing", "synced"} => x.first
  /\ x.read = "swap" => ~x.first
  /\ x.read # "lost" /\ x.connected =>
       IF x.swapReady
       THEN /\ x.stack = <<>> /\ x.available # 1
            /\ x.draw \in {"top", "null", "wait"}
       ELSE /\ ~x.first
            /\ \/ /\ x.available = 1 /\ Len(x.stack) = 1
                  /\ x.draw \in {"top", "null", "wait"}
               \/ x.available # 1 /\ Len(x.stack) = 1 /\ x.draw = "take"
               \/ /\ x.available # 1 /\ x.stack = <<>>
                  /\ x.draw \in {"drawn", "sync", "post"}

(* ... of the server's activation of sockets and its barrier ...           *)

Clients(q) == {q[i].client : i \in DOMAIN q}
Distinct(q) == \A i, j \in DOMAIN q : q[i].client = q[j].client => i = j

Applied == Clients(server.requests)
Invited == Clients(server.todo)

Schedule ==
  /\ "local" \in member
  /\ "local" \in waiting => server.pc = "local"
  /\ data.active = ActiveClients
  /\ server.pc \in {"activate", "await"} <=> server.todo # <<>>
  /\ IF QueueLocked
     THEN /\ queue.back = <<>>
          /\ server.old \cap server.fresh = {}
          /\ Invited \subseteq server.fresh
          /\ data.active = server.old \cup (server.fresh \ Invited)
     ELSE server.fresh = {} /\ server.old = {}
  /\ Distinct(server.requests) /\ Distinct(server.todo)
  /\ Applied \cap Invited = {}
  /\ (Applied \cup Invited) \cap data.active = {}

(* ... of the two sides of a client's connections ...                      *)

Connected(c, x) ==
  /\ x.bar \in {0, server.life}
  /\ x.connected =>
       /\ x.read # "lost"
       /\ x.peer.life = server.life
       /\ x.peer.id \in DOMAIN data.sockets
       /\ data.sockets[x.peer.id] = c

OnOffer(c) == server.pc = "await" /\ c = Head(server.todo).client

Asks(q, c, id) == \A i \in DOMAIN q : q[i].client = c => q[i].id = id

Requesting(c, x) ==
  /\ x.connected /\ x.read = "activating" => c \in Applied \cup Invited
  /\ c \in Applied \cup Invited =>
       /\ x.connected /\ x.bar = server.life
       /\ Asks(server.requests, c, x.peer.id) /\ Asks(server.todo, c, x.peer.id)
       /\ IF OnOffer(c) /\ server.answer
          THEN x.activated /\ x.read = "reading" /\ ~x.release
          ELSE /\ x.read = "activating" /\ ~x.activated
               /\ x.response => OnOffer(c)

(* ... and of the buffers between them.  In a round a buffer is sent to    *)
(* each active client, and each takes one to the screen, its first excepted. *)

One(b) == IF b THEN 1 ELSE 0

Outstanding(x) ==
  Len(x.inbox) + One(Held(x)) + Len(x.stack) + One(x.draw = "drawn")

FirstDone(x) == ~x.first \/ x.read \in {"syncing", "synced"}

Sent == server.pc \in {"enter", "local"}

Pipeline(c, x) ==
  c \in data.active =>
    /\ x.connected /\ x.activated /\ x.bar = server.life
    /\ x.read # "activating"
    /\ Outstanding(x) + One(c \in waiting) = One(FirstDone(x)) + One(Sent)
    /\ IF x.read = "syncing" \/ x.draw = "sync"
       THEN c \in waiting <=> ~x.release
       ELSE c \notin waiting /\ ~x.release

Contents(x) ==
  x.replica \o FlattenSeq(x.stack) \o x.hand \o FlattenSeq(x.inbox)

Clean(x) ==
  Empty(x) /\ x.replica = <<>> /\ x.first /\ x.swapReady /\ ~Held(x)

Follows(c, x) ==
  IF c \in data.active \ server.fresh THEN Contents(x) \o Unsent = history
  ELSE x.connected => Clean(x)

(* The last buffer that was sent is the front buffer.                      *)
Latest(c, x) ==
  Sent /\ c \in data.active /\ (x.first => Len(x.inbox) + One(Held(x)) = 2) =>
    /\ x.inbox # <<>> => x.inbox[Len(x.inbox)] = queue.front
    /\ x.inbox = <<>> /\ Held(x) => x.hand = queue.front

Side(c, x) ==
  /\ Connected(c, x) /\ Requesting(c, x) /\ Pipeline(c, x)
  /\ Follows(c, x) /\ Latest(c, x)

(* A server that is gone has left nothing.                                 *)
Down ==
  /\ data.active = {} /\ member = {"local"} /\ waiting = {}
  /\ history = <<>> /\ queue.back = <<>>

IInv ==
  /\ Types
  /\ \A c \in Client : Own(client[c]) /\ client[c].peer.life <= server.life
  /\ IF server.up THEN Schedule /\ \A c \in Client : Side(c, client[c])
     ELSE Down

-----------------------------------------------------------------------------
(* Buffers: sequences of records, and the queues of up to two of them.     *)

LEMMA ConcatRecords ==
  \A a, b \in Records : a \o b \in Records
BY DEF Records

LEMMA ConcatEmpty ==
  \A a \in Records : a \o <<>> = a /\ <<>> \o a = a
BY DEF Records

LEMMA ConcatAssoc ==
  \A a, b, c \in Records : (a \o b) \o c = a \o (b \o c)
BY DEF Records

LEMMA EmptyRecords == <<>> \in Records
BY DEF Records

LEMMA FlattenNone == FlattenSeq(<<>>) = <<>>
BY DEF FlattenSeq

LEMMA FlattenOne ==
  ASSUME NEW s \in Seq(Records), Len(s) = 1
  PROVE  FlattenSeq(s) = s[1]
<1> DEFINE F(f) == f = [i \in 1..Len(s) |-> IF i = 1 THEN s[i]
                                            ELSE f[i - 1] \o s[i]]
           flatten == CHOOSE f : F(f)
<1>1. FlattenSeq(s) = flatten[Len(s)]
  BY DEF FlattenSeq
<1>2. F([i \in 1..1 |-> s[1]])
  OBVIOUS
<1>3. F(flatten)
  BY <1>2
<1> HIDE DEF flatten
<1>4. flatten[1] = s[1]
  BY <1>3
<1> QED BY <1>1, <1>4

LEMMA FlattenTwo ==
  ASSUME NEW s \in Seq(Records), Len(s) = 2
  PROVE  FlattenSeq(s) = s[1] \o s[2]
<1> DEFINE F(f) == f = [i \in 1..Len(s) |-> IF i = 1 THEN s[i]
                                            ELSE f[i - 1] \o s[i]]
           flatten == CHOOSE f : F(f)
           g == [i \in 1..2 |-> IF i = 1 THEN s[1] ELSE s[1] \o s[2]]
<1>1. FlattenSeq(s) = flatten[Len(s)]
  BY DEF FlattenSeq
<1>2. F(g)
  <2>1. \A i \in 1..2 : g[i] = IF i = 1 THEN s[i] ELSE g[i - 1] \o s[i]
    OBVIOUS
  <2> QED BY <2>1
<1>3. F(flatten)
  BY <1>2
<1> HIDE DEF flatten
<1>4. flatten[1] = s[1] /\ flatten[2] = flatten[1] \o s[2]
  BY <1>3
<1> QED BY <1>1, <1>4

LEMMA Queues ==
  ASSUME NEW s \in Buffers
  PROVE  /\ s \in Seq(Records)
         /\ \/ s = <<>> /\ Len(s) = 0
            \/ Len(s) = 1 /\ s[1] \in Records /\ s # <<>>
            \/ Len(s) = 2 /\ s[1] \in Records /\ s[2] \in Records /\ s # <<>>
<1>1. s \in Seq(Records) /\ Len(s) <= 2
  BY DEF Buffers
<1>2. Len(s) \in Nat /\ (s # <<>> => Len(s) \in Nat \ {0})
  BY <1>1, LenProperties, EmptySeq
<1>3. Len(<<>>) = 0
  BY EmptySeq
<1>4. \A i \in 1..Len(s) : s[i] \in Records
  BY <1>1, ElementOfSeq
<1>5. CASE Len(s) = 0
  BY <1>1, <1>2, <1>5
<1>6. CASE Len(s) = 1
  <2>1. 1 \in 1..Len(s)
    BY <1>6
  <2> QED BY <1>1, <1>3, <1>4, <1>6, <2>1
<1>7. CASE Len(s) = 2
  <2>1. 1 \in 1..Len(s) /\ 2 \in 1..Len(s)
    BY <1>7
  <2> QED BY <1>1, <1>3, <1>4, <1>7, <2>1
<1> QED BY <1>1, <1>2, <1>5, <1>6, <1>7

LEMMA FlattenRecords ==
  ASSUME NEW s \in Buffers
  PROVE  FlattenSeq(s) \in Records
<1>1. s \in Seq(Records)
  BY Queues
<1>2. CASE s = <<>>
  BY <1>2, FlattenNone, EmptyRecords
<1>3. CASE Len(s) = 1 /\ s[1] \in Records
  BY <1>1, <1>3, FlattenOne
<1>4. CASE Len(s) = 2 /\ s[1] \in Records /\ s[2] \in Records
  <2>1. FlattenSeq(s) = s[1] \o s[2]
    BY <1>1, <1>4, FlattenTwo
  <2> QED BY <1>4, <2>1, ConcatRecords
<1> QED BY <1>2, <1>3, <1>4, Queues

(* A buffer is sent ...                                                    *)
LEMMA FlattenAppend ==
  ASSUME NEW s \in Buffers, NEW b \in Records, Len(s) <= 1
  PROVE  /\ Append(s, b) \in Buffers
         /\ Len(Append(s, b)) = Len(s) + 1
         /\ Append(s, b)[Len(s) + 1] = b
         /\ FlattenSeq(Append(s, b)) = FlattenSeq(s) \o b
<1> DEFINE t == Append(s, b)
<1>1. /\ s \in Seq(Records)
      /\ \/ s = <<>> /\ Len(s) = 0
         \/ Len(s) = 1 /\ s[1] \in Records
  BY Queues
<1>2. /\ t \in Seq(Records) /\ Len(t) = Len(s) + 1 /\ t[Len(s) + 1] = b
      /\ \A i \in 1..Len(s) : t[i] = s[i]
  BY <1>1, AppendProperties
<1>3. t \in Buffers
  BY <1>1, <1>2 DEF Buffers
<1> HIDE DEF t
<1>4. FlattenSeq(t) = FlattenSeq(s) \o b
  <2>1. CASE s = <<>> /\ Len(s) = 0
    <3>1. Len(t) = 1 /\ t[1] = b
      BY <1>2, <2>1
    <3>2. FlattenSeq(t) = b
      BY <1>2, <3>1, FlattenOne
    <3> QED BY <2>1, <3>2, FlattenNone, ConcatEmpty
  <2>2. CASE Len(s) = 1 /\ s[1] \in Records
    <3>1. Len(t) = 2 /\ t[1] = s[1] /\ t[2] = b
      BY <1>2, <2>2
    <3> QED BY <1>1, <1>2, <2>2, <3>1, FlattenOne, FlattenTwo
  <2> QED BY <1>1, <2>1, <2>2
<1> QED BY <1>2, <1>3, <1>4 DEF t

(* ... and received.                                                       *)
LEMMA FlattenHead ==
  ASSUME NEW s \in Buffers, s # <<>>
  PROVE  /\ Head(s) = s[1] /\ s[1] \in Records
         /\ Tail(s) \in Buffers
         /\ Len(Tail(s)) = Len(s) - 1
         /\ Len(s) = 1 => Tail(s) = <<>>
         /\ Len(s) = 2 => Tail(s)[1] = s[2]
         /\ FlattenSeq(s) = Head(s) \o FlattenSeq(Tail(s))
<1> DEFINE t == Tail(s)
<1>1. /\ s \in Seq(Records)
      /\ \/ Len(s) = 1 /\ s[1] \in Records
         \/ Len(s) = 2 /\ s[1] \in Records /\ s[2] \in Records
  BY Queues
<1>2. /\ t \in Seq(Records) /\ Len(t) = Len(s) - 1
      /\ \A i \in 1..Len(t) : t[i] = s[i + 1]
  BY <1>1, HeadTailProperties
<1>3. Head(s) = s[1]
  BY <1>1
<1>4. t \in Buffers
  BY <1>1, <1>2 DEF Buffers
<1> HIDE DEF t
<1>5. CASE Len(s) = 1
  <2>1. t = <<>>
    BY <1>2, <1>5, EmptySeq
  <2>2. FlattenSeq(s) = s[1] \o FlattenSeq(t)
    BY <1>1, <1>5, <2>1, FlattenOne, FlattenNone, ConcatEmpty
  <2>3. Len(s) # 2 /\ s[1] \in Records
    BY <1>1, <1>5
  <2> QED BY <1>2, <1>3, <1>4, <2>1, <2>2, <2>3 DEF t
<1>6. CASE Len(s) = 2
  <2>1. Len(t) = 1 /\ 1 \in 1..Len(t) /\ Len(s) # 1 /\ s[1] \in Records
    BY <1>1, <1>2, <1>6
  <2>2. t[1] = s[2]
    BY <1>2, <2>1
  <2>3. FlattenSeq(s) = s[1] \o s[2]
    BY <1>1, <1>6, FlattenTwo
  <2>4. FlattenSeq(t) = t[1]
    BY <1>2, <2>1, FlattenOne
  <2>5. FlattenSeq(s) = s[1] \o FlattenSeq(t)
    BY <2>2, <2>3, <2>4
  <2> QED BY <1>2, <1>3, <1>4, <2>1, <2>2, <2>5 DEF t
<1> QED BY <1>1, <1>5, <1>6
-----------------------------------------------------------------------------
(* What a client has received, as buffers go from hand to hand.            *)

LEMMA ContentsRecords ==
  ASSUME NEW x \in ClientRecord
  PROVE  Contents(x) \in Records
<1>1. /\ x.replica \in Records /\ x.hand \in Records
      /\ FlattenSeq(x.stack) \in Records /\ FlattenSeq(x.inbox) \in Records
  BY FlattenRecords DEF ClientRecord
<1>2. x.replica \o FlattenSeq(x.stack) \in Records
  BY <1>1, ConcatRecords
<1>3. x.replica \o FlattenSeq(x.stack) \o x.hand \in Records
  BY <1>1, <1>2, ConcatRecords
<1> QED BY <1>1, <1>3, ConcatRecords DEF Contents

LEMMA ContentsEmpty ==
  ASSUME NEW x \in ClientRecord, Empty(x)
  PROVE  Contents(x) = x.replica
<1>1. x.replica \in Records
  BY DEF ClientRecord
<1> QED BY <1>1, FlattenNone, ConcatEmpty DEF Contents, Empty

LEMMA ContentsSent ==
  ASSUME NEW x \in ClientRecord, NEW y \in ClientRecord, NEW b \in Records,
         Len(x.inbox) <= 1, y.inbox = Append(x.inbox, b),
         y.replica = x.replica, y.stack = x.stack, y.hand = x.hand
  PROVE  Contents(y) = Contents(x) \o b
<1> DEFINE l == x.replica \o FlattenSeq(x.stack) \o x.hand
<1>1. /\ x.replica \in Records /\ x.hand \in Records
      /\ FlattenSeq(x.stack) \in Records
      /\ x.inbox \in Buffers
  BY FlattenRecords DEF ClientRecord
<1>2. l \in Records
  BY <1>1, ConcatRecords
<1>3. FlattenSeq(y.inbox) = FlattenSeq(x.inbox) \o b
  BY <1>1, FlattenAppend
<1>4. FlattenSeq(x.inbox) \in Records
  BY <1>1, FlattenRecords
<1>5. Contents(x) = l \o FlattenSeq(x.inbox) /\ Contents(y) = l \o FlattenSeq(y.inbox)
  BY DEF Contents
<1> HIDE DEF l
<1> QED BY <1>2, <1>3, <1>4, <1>5, ConcatAssoc

LEMMA ContentsRead ==
  ASSUME NEW x \in ClientRecord, NEW y \in ClientRecord,
         x.inbox # <<>>, x.hand = <<>>,
         y.hand = Head(x.inbox), y.inbox = Tail(x.inbox),
         y.replica = x.replica, y.stack = x.stack
  PROVE  Contents(y) = Contents(x)
<1> DEFINE l == x.replica \o FlattenSeq(x.stack)
<1>1. /\ x.replica \in Records /\ FlattenSeq(x.stack) \in Records
      /\ x.inbox \in Buffers /\ y.inbox \in Buffers
      /\ y.hand \in Records
  BY FlattenRecords DEF ClientRecord
<1>2. l \in Records
  BY <1>1, ConcatRecords
<1>3. FlattenSeq(x.inbox) = y.hand \o FlattenSeq(y.inbox)
  BY <1>1, FlattenHead
<1>4. FlattenSeq(y.inbox) \in Records
  BY <1>1, FlattenRecords
<1>5. /\ Contents(x) = (l \o <<>>) \o FlattenSeq(x.inbox)
      /\ Contents(y) = (l \o y.hand) \o FlattenSeq(y.inbox)
  BY DEF Contents
<1> HIDE DEF l
<1>6. l \o <<>> = l
  BY <1>2, ConcatEmpty
<1>7. (l \o y.hand) \o FlattenSeq(y.inbox) = l \o (y.hand \o FlattenSeq(y.inbox))
  BY <1>1, <1>2, <1>4, ConcatAssoc
<1>8. Contents(y) = l \o FlattenSeq(x.inbox)
  BY <1>3, <1>5, <1>7
<1> QED BY <1>5, <1>6, <1>8

LEMMA ContentsPushed ==
  ASSUME NEW x \in ClientRecord, NEW y \in ClientRecord,
         x.stack = <<>>, y.stack = Append(x.stack, x.hand), y.hand = <<>>,
         y.replica = x.replica, y.inbox = x.inbox
  PROVE  Contents(y) = Contents(x) /\ Len(y.stack) = 1
<1>1. x.replica \in Records /\ x.hand \in Records /\ x.stack \in Buffers
  BY DEF ClientRecord
<1>2. Len(x.stack) = 0 /\ Len(x.stack) <= 1
  OBVIOUS
<1>3. FlattenSeq(Append(x.stack, x.hand)) = FlattenSeq(x.stack) \o x.hand
  BY <1>1, <1>2, FlattenAppend
<1>6. Len(y.stack) = 1
  BY <1>1, <1>2, FlattenAppend
<1>4. FlattenSeq(y.stack) = x.hand
  BY <1>1, <1>3, FlattenNone, ConcatEmpty
<1>5. /\ x.replica \o FlattenSeq(x.stack) = x.replica
      /\ (x.replica \o x.hand) \o <<>> = x.replica \o x.hand
  BY <1>1, FlattenNone, ConcatEmpty, ConcatRecords
<1> QED BY <1>4, <1>5, <1>6 DEF Contents

LEMMA ContentsDrawn ==
  ASSUME NEW x \in ClientRecord, NEW y \in ClientRecord,
         Len(x.stack) = 1, y.stack = Tail(x.stack),
         y.replica = x.replica \o Head(x.stack),
         y.hand = x.hand, y.inbox = x.inbox
  PROVE  Contents(y) = Contents(x) /\ y.stack = <<>>
<1>1. /\ x.replica \in Records /\ y.replica \in Records /\ x.stack \in Buffers
  BY DEF ClientRecord
<1>0. x.stack # <<>>
  OBVIOUS
<1>2. y.stack = <<>> /\ Head(x.stack) = x.stack[1] /\ x.stack \in Seq(Records)
  BY <1>0, <1>1, FlattenHead DEF Buffers
<1>3. FlattenSeq(x.stack) = Head(x.stack)
  BY <1>2, FlattenOne
<1>4. y.replica \o FlattenSeq(y.stack) = x.replica \o FlattenSeq(x.stack)
  BY <1>1, <1>2, <1>3, FlattenNone, ConcatEmpty
<1> QED BY <1>2, <1>4 DEF Contents

-----------------------------------------------------------------------------
(* A step of one client that changes nothing else.                         *)

LEMMA OneClient ==
  ASSUME IInv, NEW c \in Client, NEW y \in ClientRecord,
         Changes(c, y), Alone,
         Own(y), y.peer.life <= server.life,
         server.up => Side(c, y)
  PROVE  IInv'
<1>1. /\ client' \in [Client -> ClientRecord]
      /\ \A d \in Client : client'[d] = IF d = c THEN y ELSE client[d]
  BY DEF IInv, Types, Changes
<1>2. UNCHANGED <<mode, server, data, producer, history, queue, member, waiting>>
  BY DEF Changes, Alone
<1>3. Types'
  BY <1>1, <1>2 DEF IInv, Types
<1>4. \A d \in Client : Own(client'[d]) /\ client'[d].peer.life <= server'.life
  BY <1>1, <1>2 DEF IInv
<1>5. ASSUME server.up PROVE (Schedule /\ \A d \in Client : Side(d, client[d]))'
  <2>1. Schedule'
    BY <1>2, <1>5 DEF IInv, Schedule, ActiveClients, QueueLocked, Invited, Applied
  <2>2. ASSUME NEW d \in Client PROVE Side(d, client[d])'
    <3> DEFINE z == client'[d]
    <3>1. Side(d, z)
      BY <1>1, <1>5 DEF IInv
    <3>2. Connected(d, client[d])'
      BY <1>2, <3>1 DEF Side, Connected
    <3>3. Requesting(d, client[d])'
      BY <1>2, <3>1 DEF Side, Requesting, OnOffer, Applied, Invited
    <3>4. Pipeline(d, client[d])'
      BY <1>2, <3>1 DEF Side, Pipeline, One, Sent
    <3>5. Follows(d, client[d])'
      BY <1>2, <3>1 DEF Side, Follows, Unsent
    <3>6. Latest(d, client[d])'
      BY <1>2, <3>1 DEF Side, Latest, Sent, One
    <3> QED BY <3>2, <3>3, <3>4, <3>5, <3>6 DEF Side
  <2> QED BY <2>1, <2>2
<1>6. ASSUME ~server.up PROVE Down'
  BY <1>2, <1>6 DEF IInv, Down
<1> QED BY <1>2, <1>3, <1>4, <1>5, <1>6 DEF IInv

-----------------------------------------------------------------------------
(* Queues of requests.                                                     *)

LEMMA RequestsEmpty ==
  /\ <<>> \in Requests /\ Clients(<<>>) = {} /\ Distinct(<<>>)
  /\ \A d, id : Asks(<<>>, d, id)
BY DEF Requests, Clients, Distinct, Asks

LEMMA RequestsAppend ==
  ASSUME NEW q \in Requests, NEW r \in ActivationRequest
  PROVE  /\ Append(q, r) \in Requests
         /\ Clients(Append(q, r)) = Clients(q) \cup {r.client}
         /\ Distinct(q) /\ r.client \notin Clients(q) => Distinct(Append(q, r))
         /\ \A d, id : Asks(Append(q, r), d, id) <=>
                         Asks(q, d, id) /\ (r.client = d => r.id = id)
<1> DEFINE t == Append(q, r)
<1>1. /\ t \in Requests /\ Len(t) = Len(q) + 1 /\ Len(q) \in Nat
      /\ \A i \in 1..Len(q) : t[i] = q[i]
      /\ t[Len(q) + 1] = r
      /\ DOMAIN t = 1..Len(q) + 1 /\ DOMAIN q = 1..Len(q)
  BY AppendProperties, LenProperties DEF Requests
<1> HIDE DEF t
<1>2. Clients(t) = Clients(q) \cup {r.client}
  <2>1. Clients(t) \subseteq Clients(q) \cup {r.client}
    BY <1>1 DEF Clients
  <2>2. Len(q) + 1 \in DOMAIN t /\ \A i \in DOMAIN q : i \in DOMAIN t
    BY <1>1
  <2>3. Clients(q) \subseteq Clients(t) /\ r.client \in Clients(t)
    BY <1>1, <2>2 DEF Clients
  <2> QED BY <2>1, <2>3
<1>3. ASSUME Distinct(q), r.client \notin Clients(q) PROVE Distinct(t)
  <2>1. \A i \in DOMAIN q : q[i].client # r.client
    BY <1>3 DEF Clients
  <2>2. \A i \in DOMAIN t : \/ i \in DOMAIN q /\ t[i] = q[i]
                            \/ i = Len(q) + 1 /\ t[i] = r
    BY <1>1
  <2> QED BY <1>3, <2>1, <2>2 DEF Distinct
<1>4. ASSUME NEW d, NEW id
      PROVE  Asks(t, d, id) <=> Asks(q, d, id) /\ (r.client = d => r.id = id)
  <2>1. \A i \in DOMAIN t : \/ i \in DOMAIN q /\ t[i] = q[i]
                            \/ i = Len(q) + 1 /\ t[i] = r
    BY <1>1
  <2>2. Len(q) + 1 \in DOMAIN t /\ t[Len(q) + 1] = r
        /\ \A i \in DOMAIN q : i \in DOMAIN t /\ t[i] = q[i]
    BY <1>1
  <2> QED BY <2>1, <2>2 DEF Asks
<1> QED BY <1>1, <1>2, <1>3, <1>4 DEF t

LEMMA RequestsTail ==
  ASSUME NEW q \in Requests, q # <<>>
  PROVE  /\ Head(q) \in ActivationRequest /\ Head(q).client \in Clients(q)
         /\ \A id : Asks(q, Head(q).client, id) => Head(q).id = id
         /\ Tail(q) \in Requests
         /\ Tail(q) = <<>> <=> Len(q) = 1
         /\ Distinct(q) => /\ Clients(Tail(q)) = Clients(q) \ {Head(q).client}
                           /\ Distinct(Tail(q))
         /\ \A d, id : Asks(q, d, id) => Asks(Tail(q), d, id)
<1> DEFINE t == Tail(q)
<1>1. /\ t \in Requests /\ Len(t) = Len(q) - 1
      /\ \A i \in 1..Len(t) : t[i] = q[i + 1]
      /\ DOMAIN t = 1..Len(t) /\ DOMAIN q = 1..Len(q)
      /\ Len(q) \in Nat \ {0}
  BY HeadTailProperties, LenProperties, EmptySeq DEF Requests
<1>2. Head(q) = q[1] /\ Head(q) \in ActivationRequest
  BY HeadTailProperties DEF Requests
<1>3. 1 \in DOMAIN q
  BY <1>1
<1>4. Head(q).client \in Clients(q)
  BY <1>2, <1>3 DEF Clients
<1>5. \A id : Asks(q, Head(q).client, id) => Head(q).id = id
  BY <1>2, <1>3 DEF Asks
<1>6. t = <<>> <=> Len(q) = 1
  <2>1. t # <<>> => Len(t) \in Nat \ {0}
    BY <1>1, EmptySeq DEF Requests
  <2>2. Len(<<>>) = 0
    OBVIOUS
  <2> HIDE DEF t
  <2>3. ASSUME t = <<>> PROVE Len(q) = 1
    BY <1>1, <2>2, <2>3
  <2>4. ASSUME Len(q) = 1 PROVE t = <<>>
    BY <1>1, <2>1, <2>4
  <2> QED BY <2>3, <2>4
<1> HIDE DEF t
<1>7. /\ \A i \in DOMAIN t : i + 1 \in DOMAIN q /\ t[i] = q[i + 1] /\ i + 1 # 1
      /\ \A j \in DOMAIN q : j # 1 => j - 1 \in DOMAIN t /\ t[j - 1] = q[j]
  BY <1>1
<1>8. ASSUME Distinct(q)
      PROVE  Clients(t) = Clients(q) \ {Head(q).client} /\ Distinct(t)
  <2>1. \A d \in Clients(t) : d \in Clients(q) /\ d # Head(q).client
    <3> SUFFICES ASSUME NEW i \in DOMAIN t
                 PROVE  t[i].client \in Clients(q) /\ t[i].client # Head(q).client
      BY DEF Clients
    <3>1. i + 1 \in DOMAIN q /\ t[i] = q[i + 1] /\ i + 1 # 1
      BY <1>7
    <3> QED BY <1>2, <1>3, <1>8, <3>1 DEF Clients, Distinct
  <2>2. \A d \in Clients(q) : d # Head(q).client => d \in Clients(t)
    <3> SUFFICES ASSUME NEW j \in DOMAIN q, q[j].client # Head(q).client
                 PROVE  q[j].client \in Clients(t)
      BY DEF Clients
    <3>1. j - 1 \in DOMAIN t /\ t[j - 1] = q[j]
      BY <1>2, <1>7
    <3> QED BY <3>1 DEF Clients
  <2>3. Distinct(t)
    <3> SUFFICES ASSUME NEW i \in DOMAIN t, NEW j \in DOMAIN t,
                        t[i].client = t[j].client
                 PROVE  i = j
      BY DEF Distinct
    <3>1. i + 1 = j + 1
      BY <1>7, <1>8 DEF Distinct
    <3> QED BY <1>1, <3>1
  <2> QED BY <2>1, <2>2, <2>3
<1>9. \A d, id : Asks(q, d, id) => Asks(t, d, id)
  BY <1>7 DEF Asks
<1> QED BY <1>1, <1>2, <1>4, <1>5, <1>6, <1>8, <1>9 DEF t

(* Most steps of the connection thread and the consumer leave alone what    *)
(* the server's part of the invariant speaks about.                        *)

Aside(x, y) ==
  /\ y.connected = x.connected /\ y.peer = x.peer /\ y.bar = x.bar
  /\ y.activated = x.activated /\ y.response = x.response
  /\ y.release = x.release /\ y.read = x.read /\ y.inbox = x.inbox
  /\ y.stack = x.stack /\ y.hand = x.hand /\ y.first = x.first
  /\ x.connected => y.replica = x.replica /\ (x.swapReady => y.swapReady)
  /\ y.draw = "drawn" <=> x.draw = "drawn"
  /\ y.draw = "sync" <=> x.draw = "sync"

LEMMA AsideSide ==
  ASSUME NEW c \in Client, NEW x \in ClientRecord, NEW y \in ClientRecord,
         Side(c, x), Aside(x, y)
  PROVE  Side(c, y)
<1>1. Connected(c, y)
  BY DEF Side, Connected, Aside
<1>2. Requesting(c, y)
  BY DEF Side, Requesting, Aside
<1>3. Held(y) <=> Held(x)
  BY DEF Held, Aside
<1>4. Outstanding(y) = Outstanding(x) /\ (FirstDone(y) <=> FirstDone(x))
  BY <1>3 DEF Outstanding, FirstDone, Aside, One
<1>5. Pipeline(c, y)
  BY <1>4 DEF Side, Pipeline, Aside, One
<1>6. x.connected => Contents(y) = Contents(x) /\ (Clean(x) => Clean(y))
  BY <1>3 DEF Contents, Clean, Empty, Aside
<1>7. Follows(c, y)
  BY <1>6 DEF Side, Follows, Pipeline, Aside
<1>8. Latest(c, y)
  BY <1>3 DEF Side, Latest, Aside, One
<1> QED BY <1>1, <1>2, <1>5, <1>7, <1>8 DEF Side

LEMMA AsideStep ==
  ASSUME IInv, NEW c \in Client, NEW y \in ClientRecord,
         Changes(c, y), Alone, Own(y), Aside(client[c], y)
  PROVE  IInv'
<1>1. client[c] \in ClientRecord /\ client[c].peer.life <= server.life
  BY DEF IInv, Types
<1>2. server.up => Side(c, y)
  BY <1>1, AsideSide DEF IInv
<1>3. y.peer.life <= server.life
  BY <1>1 DEF Aside
<1> QED BY <1>2, <1>3, OneClient

-----------------------------------------------------------------------------
(* The barrier client.                                                     *)

LEMMA ConnectBarrierStep ==
  ASSUME IInv, NEW c \in Client, ConnectBarrier(c)
  PROVE  IInv'
<1> DEFINE x == client[c]
           y == [x EXCEPT !.bar = server.life]
<1>1. x \in ClientRecord /\ Own(x) /\ x.peer.life <= server.life
  BY DEF IInv, Types
<1>2. server.up /\ x.bar = 0 /\ Changes(c, y) /\ Alone
  BY DEF ConnectBarrier
<1>3. server.life \in Nat /\ server.life # 0 /\ Side(c, x)
  BY <1>2 DEF IInv, Types, ServerRecord
<1>4. y \in ClientRecord
  BY <1>1, <1>3 DEF ClientRecord
<1>5. Own(y)
  BY <1>1 DEF Own, Empty, Held, ClientRecord
<1>6. Side(c, y)
  <2>1. Connected(c, y)
    BY <1>1, <1>3 DEF Side, Connected, ClientRecord
  <2>2. Requesting(c, y)
    BY <1>1, <1>2, <1>3 DEF Side, Requesting, ClientRecord
  <2>3. Pipeline(c, y)
    BY <1>1, <1>2, <1>3 DEF Side, Pipeline, Outstanding, FirstDone, Held,
                            ClientRecord
  <2>4. Follows(c, y)
    BY <1>1, <1>3 DEF Side, Follows, Contents, Clean, Empty, Held, ClientRecord
  <2>5. Latest(c, y)
    BY <1>1, <1>3 DEF Side, Latest, Held, ClientRecord
  <2> QED BY <2>1, <2>2, <2>3, <2>4, <2>5 DEF Side
<1>7. y.peer.life <= server.life
  BY <1>1 DEF ClientRecord
<1> QED BY <1>2, <1>4, <1>5, <1>6, <1>7, OneClient

LEMMA LoseBarrierStep ==
  ASSUME IInv, NEW c \in Client, LoseBarrier(c)
  PROVE  IInv'
<1> DEFINE x == client[c]
           y == [x EXCEPT !.bar = 0, !.activated = FALSE, !.release = TRUE]
<1>1. x \in ClientRecord /\ Own(x) /\ x.peer.life <= server.life
  BY DEF IInv, Types
<1>2. x.bar # 0 /\ ~Current(x.bar) /\ Changes(c, y) /\ Alone
  BY DEF LoseBarrier
<1>3. ~server.up
  BY <1>2 DEF IInv, Side, Connected, Current
<1>4. y \in ClientRecord
  BY <1>1 DEF ClientRecord
<1>5. Own(y)
  BY <1>1 DEF Own, Empty, Held, ClientRecord
<1>7. y.peer.life <= server.life
  BY <1>1 DEF ClientRecord
<1> QED BY <1>2, <1>3, <1>4, <1>5, <1>7, OneClient

-----------------------------------------------------------------------------
(* The connection thread.                                                  *)

LEMMA CheckBarrierStep ==
  ASSUME IInv, NEW c \in Client, CheckBarrier(c)
  PROVE  IInv'
<1> DEFINE x == client[c]
           y == [x EXCEPT !.conn = "dial"]
<1>1. x \in ClientRecord /\ Own(x)
  BY DEF IInv, Types
<1>2. x.conn = "barrier" /\ Changes(c, y) /\ Alone
  BY DEF CheckBarrier
<1>3. y \in ClientRecord
  BY <1>1 DEF ClientRecord
<1>5. Aside(x, y)
  BY <1>1 DEF ClientRecord, Aside
<1>4. Own(y)
  BY <1>1, <1>2 DEF Own, Empty, Held, ClientRecord
<1> QED BY <1>2, <1>3, <1>4, <1>5, AsideStep

LEMMA SkipConsumptionStep ==
  ASSUME IInv, NEW c \in Client, SkipConsumption(c)
  PROVE  IInv'
<1> DEFINE x == client[c]
           y == [x EXCEPT !.conn = "skip", !.available = 2]
<1>1. x \in ClientRecord /\ Own(x)
  BY DEF IInv, Types
<1>2. x.conn = "up" /\ ~x.connected /\ Changes(c, y) /\ Alone
  BY DEF SkipConsumption
<1>3. y \in ClientRecord
  BY <1>1 DEF ClientRecord
<1>5. Aside(x, y)
  BY <1>1 DEF ClientRecord, Aside
<1>4. Own(y)
  BY <1>1, <1>2 DEF Own, Empty, Held, ClientRecord
<1> QED BY <1>2, <1>3, <1>4, <1>5, AsideStep

LEMMA AskNullStep ==
  ASSUME IInv, NEW c \in Client, AskNull(c)
  PROVE  IInv'
<1> DEFINE x == client[c]
           y == [x EXCEPT !.conn = "null", !.null = 1]
<1>1. x \in ClientRecord /\ Own(x)
  BY DEF IInv, Types
<1>2. x.conn = "skip" /\ Changes(c, y) /\ Alone
  BY DEF AskNull
<1>3. y \in ClientRecord
  BY <1>1 DEF ClientRecord
<1>5. Aside(x, y)
  BY <1>1 DEF ClientRecord, Aside
<1>4. Own(y)
  BY <1>1, <1>2 DEF Own, Empty, Held, ClientRecord
<1> QED BY <1>2, <1>3, <1>4, <1>5, AsideStep

LEMMA EndNullStep ==
  ASSUME IInv, NEW c \in Client, EndNull(c)
  PROVE  IInv'
<1> DEFINE x == client[c]
           y == [x EXCEPT !.conn = "barrier", !.null = 0]
<1>1. x \in ClientRecord /\ Own(x)
  BY DEF IInv, Types
<1>2. x.conn = "null" /\ x.null = 2 /\ Changes(c, y) /\ Alone
  BY DEF EndNull
<1>3. y \in ClientRecord
  BY <1>1 DEF ClientRecord
<1>5. Aside(x, y)
  BY <1>1 DEF ClientRecord, Aside
<1>4. Own(y)
  BY <1>1, <1>2 DEF Own, Empty, Held, ClientRecord
<1> QED BY <1>2, <1>3, <1>4, <1>5, AsideStep

-----------------------------------------------------------------------------
(* The consumer.                                                           *)

LEMMA BeginFrameStep ==
  ASSUME IInv, NEW c \in Client, BeginFrame(c)
  PROVE  IInv'
<1> DEFINE x == client[c]
           y == [x EXCEPT !.draw = IF x.connected THEN "wait" ELSE "null"]
<1>1. x \in ClientRecord /\ Own(x)
  BY DEF IInv, Types
<1>2. x.draw = "top" /\ Changes(c, y) /\ Alone
  BY DEF BeginFrame
<1>3. y \in ClientRecord
  BY <1>1 DEF ClientRecord
<1>4. Own(y)
  BY <1>1, <1>2 DEF Own, Empty, Held, ClientRecord
<1>5. Aside(x, y)
  BY <1>1, <1>2 DEF ClientRecord, Aside
<1> QED BY <1>2, <1>3, <1>4, <1>5, AsideStep

LEMMA NullFrameStep ==
  ASSUME IInv, NEW c \in Client, NullFrame(c)
  PROVE  IInv'
<1> DEFINE x == client[c]
<1>1. x \in ClientRecord /\ Own(x)
  BY DEF IInv, Types
<1>2. x.draw = "null" /\ Alone
  BY DEF NullFrame
<1>3. CASE x.null = 1
  <2> DEFINE y == [x EXCEPT !.draw = "top", !.replica = <<>>, !.null = 2]
  <2>1. Changes(c, y)
    BY <1>3 DEF NullFrame
  <2>2. y \in ClientRecord
    BY <1>1, EmptyRecords DEF ClientRecord
  <2>3. Own(y)
    BY <1>1, <1>2, <1>3 DEF Own, Empty, Held, ClientRecord
  <2>4. ~x.connected
    BY <1>1, <1>3 DEF Own
  <2>5. Aside(x, y)
    BY <1>1, <1>2, <2>4 DEF ClientRecord, Aside
  <2> QED BY <1>2, <2>1, <2>2, <2>3, <2>5, AsideStep
<1>4. CASE x.null # 1
  <2> DEFINE y == [x EXCEPT !.draw = "top"]
  <2>1. Changes(c, y)
    BY <1>4 DEF NullFrame
  <2>2. y \in ClientRecord
    BY <1>1 DEF ClientRecord
  <2>3. Own(y)
    BY <1>1, <1>2 DEF Own, Empty, Held, ClientRecord
  <2>4. Aside(x, y)
    BY <1>1, <1>2 DEF ClientRecord, Aside
  <2> QED BY <1>2, <2>1, <2>2, <2>3, <2>4, AsideStep
<1> QED BY <1>3, <1>4

LEMMA EndWaitStep ==
  ASSUME IInv, NEW c \in Client, EndWait(c)
  PROVE  IInv'
<1> DEFINE x == client[c]
           y == [x EXCEPT !.draw = IF x.available = 2 THEN "top" ELSE "take",
                          !.available = 0]
<1>1. x \in ClientRecord /\ Own(x)
  BY DEF IInv, Types
<1>2. x.draw = "wait" /\ x.available # 0 /\ Changes(c, y) /\ Alone
  BY DEF EndWait
<1>3. y \in ClientRecord
  BY <1>1 DEF ClientRecord
<1>4. Own(y)
  BY <1>1, <1>2 DEF Own, Empty, Held, ClientRecord
<1>5. Aside(x, y)
  BY <1>1, <1>2 DEF ClientRecord, Aside
<1> QED BY <1>2, <1>3, <1>4, <1>5, AsideStep

LEMMA EndFrameStep ==
  ASSUME IInv, NEW c \in Client, EndFrame(c)
  PROVE  IInv'
<1> DEFINE x == client[c]
           y == [x EXCEPT !.draw = "top", !.swapReady = TRUE]
<1>1. x \in ClientRecord /\ Own(x)
  BY DEF IInv, Types
<1>2. x.draw = "post" /\ Changes(c, y) /\ Alone
  BY DEF EndFrame
<1>3. y \in ClientRecord
  BY <1>1 DEF ClientRecord
<1>4. Own(y)
  BY <1>1, <1>2 DEF Own, Empty, Held, ClientRecord
<1>5. Aside(x, y)
  BY <1>1, <1>2 DEF ClientRecord, Aside
<1> QED BY <1>2, <1>3, <1>4, <1>5, AsideStep

(* The buffer goes from the stack to the replica.                          *)
LEMMA DrawFrameStep ==
  ASSUME IInv, NEW c \in Client, DrawFrame(c)
  PROVE  IInv'
<1> DEFINE x == client[c]
<1>1. x \in ClientRecord /\ Own(x) /\ x.peer.life <= server.life
      /\ (server.up => Side(c, x))
  BY DEF IInv, Types
<1>2. x.draw = "take" /\ Alone
  BY DEF DrawFrame
<1>3. CASE x.stack = <<>>
  <2> DEFINE y == [x EXCEPT !.draw = "drawn"]
  <2>1. Changes(c, y)
    BY <1>3 DEF DrawFrame
  <2>2. y \in ClientRecord
    BY <1>1 DEF ClientRecord
  <2>3. Len(<<>>) # 1
    OBVIOUS
  <2>4. ~x.connected \/ x.read = "lost"
    BY <1>1, <1>2, <1>3, <2>3 DEF Own
  <2>5. Own(y)
    BY <1>1, <1>2, <2>4 DEF Own, Empty, Held, ClientRecord
  <2>6. server.up => Side(c, y)
    BY <1>1, <2>2, <2>4 DEF Side, Connected, Requesting, Pipeline, Follows,
                            Latest, ClientRecord
  <2>7. y.peer.life <= server.life
    BY <1>1 DEF ClientRecord
  <2> QED BY <1>2, <2>1, <2>2, <2>5, <2>6, <2>7, OneClient
<1>4. CASE x.stack # <<>>
  <2> DEFINE y == [x EXCEPT !.draw = "drawn", !.stack = Tail(x.stack),
                            !.replica = x.replica \o Head(x.stack)]
  <2>1. Changes(c, y)
    BY <1>4 DEF DrawFrame
  <2>2. x.connected /\ x.read # "lost"
    BY <1>1, <1>4 DEF Own, Empty
  <2>3. Len(x.stack) = 1 /\ ~x.swapReady /\ x.available # 1
    BY <1>1, <1>2, <2>2 DEF Own
  <2>4. x.stack \in Buffers /\ Head(x.stack) \in Records
        /\ Tail(x.stack) \in Buffers
    BY <1>1, <1>4, FlattenHead DEF ClientRecord
  <2>5. x.replica \o Head(x.stack) \in Records
    BY <1>1, <2>4, ConcatRecords DEF ClientRecord
  <2>6. y \in ClientRecord
    BY <1>1, <2>4, <2>5 DEF ClientRecord
  <2>7. Contents(y) = Contents(x) /\ y.stack = <<>>
    <3>1. /\ y.stack = Tail(x.stack) /\ y.replica = x.replica \o Head(x.stack)
          /\ y.hand = x.hand /\ y.inbox = x.inbox
      BY <1>1 DEF ClientRecord
    <3> HIDE DEF y
    <3> QED BY <1>1, <2>3, <2>6, <3>1, ContentsDrawn
  <2>8. Own(y)
    BY <1>1, <1>2, <2>2, <2>3, <2>7 DEF Own, Empty, Held, ClientRecord
  <2>9. ASSUME server.up PROVE Side(c, y)
    <3>1. Side(c, x)
      BY <1>1, <2>9
    <3>2. Connected(c, y)
      BY <1>1, <3>1 DEF Side, Connected, ClientRecord
    <3>3. Requesting(c, y)
      BY <1>1, <3>1 DEF Side, Requesting, ClientRecord
    <3>4. Outstanding(y) = Outstanding(x)
      <4>1. Len(<<>>) = 0
        OBVIOUS
      <4>2. y.inbox = x.inbox /\ y.read = x.read /\ y.draw = "drawn"
        BY <1>1 DEF ClientRecord
      <4> HIDE DEF y
      <4>3. Len(x.inbox) \in Nat
        BY <1>1, LenProperties DEF ClientRecord, Buffers
      <4> QED BY <1>2, <2>3, <2>7, <4>1, <4>2, <4>3 DEF Outstanding, One, Held
    <3>5. Pipeline(c, y)
      BY <1>1, <1>2, <3>1, <3>4 DEF Side, Pipeline, FirstDone, ClientRecord, One
    <3>6. c \in data.active \ server.fresh
      BY <2>2, <2>3, <3>1 DEF Side, Follows, Clean
    <3>7. Follows(c, y)
      BY <2>7, <3>1, <3>6 DEF Side, Follows
    <3>8. Latest(c, y)
      BY <1>1, <3>1 DEF Side, Latest, Held, One, ClientRecord
    <3> QED BY <3>2, <3>3, <3>5, <3>7, <3>8 DEF Side
  <2>10. y.peer.life <= server.life
    BY <1>1 DEF ClientRecord
  <2> QED BY <1>2, <2>1, <2>6, <2>8, <2>9, <2>10, OneClient
<1> QED BY <1>3, <1>4

LEMMA EndFrameSyncStep ==
  ASSUME IInv, NEW c \in Client, EndFrameSync(c)
  PROVE  IInv'
<1> DEFINE x == client[c]
           y == [x EXCEPT !.draw = "post", !.release = FALSE]
<1>1. x \in ClientRecord /\ Own(x) /\ x.peer.life <= server.life
      /\ (server.up => Side(c, x))
  BY DEF IInv, Types
<1>2. x.draw = "sync" /\ x.release /\ Changes(c, y) /\ Alone
  BY DEF EndFrameSync
<1>3. y \in ClientRecord
  BY <1>1 DEF ClientRecord
<1>4. Own(y)
  BY <1>1, <1>2 DEF Own, Empty, Held, ClientRecord
<1>5. ASSUME server.up PROVE Side(c, y)
  <2>1. Side(c, x)
    BY <1>1, <1>5
  <2>2. Connected(c, y)
    BY <1>1, <2>1 DEF Side, Connected, ClientRecord
  <2>3. Requesting(c, y)
    BY <1>1, <1>2, <2>1 DEF Side, Requesting, ClientRecord
  <2>4. Outstanding(y) = Outstanding(x)
    BY <1>1, <1>2 DEF Outstanding, One, Held, ClientRecord
  <2>5. Pipeline(c, y)
    <3>1. c \in data.active => x.read # "syncing"
      BY <1>1, <1>2, <2>1 DEF Side, Pipeline, Connected, Own
    <3> QED BY <1>1, <1>2, <2>1, <2>4, <3>1
            DEF Side, Pipeline, FirstDone, ClientRecord, One
  <2>6. Follows(c, y)
    <3>1. Contents(y) = Contents(x) /\ (Clean(x) => Clean(y))
      BY <1>1 DEF Contents, Clean, Empty, Held, ClientRecord
    <3>2. y.connected = x.connected
      BY <1>1 DEF ClientRecord
    <3> HIDE DEF y
    <3> QED BY <2>1, <3>1, <3>2 DEF Side, Follows
  <2>7. Latest(c, y)
    BY <1>1, <2>1 DEF Side, Latest, Held, One, ClientRecord
  <2> QED BY <2>2, <2>3, <2>5, <2>6, <2>7 DEF Side
<1>6. y.peer.life <= server.life
  BY <1>1 DEF ClientRecord
<1> QED BY <1>2, <1>3, <1>4, <1>5, <1>6, OneClient

-----------------------------------------------------------------------------
(* The read thread.                                                        *)

LEMMA GetBufferStep ==
  ASSUME IInv, NEW c \in Client, GetBuffer(c)
  PROVE  IInv'
<1> DEFINE x == client[c]
           y == [x EXCEPT !.hand = Head(x.inbox), !.inbox = Tail(x.inbox),
                          !.read = IF x.first THEN "first" ELSE "swap"]
<1>1. x \in ClientRecord /\ Own(x) /\ x.peer.life <= server.life
      /\ (server.up => Side(c, x))
  BY DEF IInv, Types
<1>2. x.read = "reading" /\ x.inbox # <<>> /\ Changes(c, y) /\ Alone
  BY DEF GetBuffer
<1>3. /\ x.inbox \in Buffers /\ Head(x.inbox) = x.inbox[1]
      /\ Head(x.inbox) \in Records
      /\ Tail(x.inbox) \in Buffers /\ Len(Tail(x.inbox)) = Len(x.inbox) - 1
      /\ Len(x.inbox) = 1 => Tail(x.inbox) = <<>>
      /\ Len(x.inbox) = 2 => Tail(x.inbox)[1] = x.inbox[2]
  BY <1>1, <1>2, FlattenHead DEF ClientRecord
<1>4. y \in ClientRecord
  BY <1>1, <1>3 DEF ClientRecord
<1>5. x.hand = <<>> /\ x.connected
  BY <1>1, <1>2 DEF Own, Held
<1>6. Own(y)
  BY <1>1, <1>2, <1>5 DEF Own, Empty, Held, ClientRecord
<1>7. /\ y.hand = Head(x.inbox) /\ y.inbox = Tail(x.inbox)
      /\ y.read = IF x.first THEN "first" ELSE "swap"
      /\ y.connected = x.connected /\ y.peer = x.peer /\ y.bar = x.bar
      /\ y.activated = x.activated /\ y.response = x.response
      /\ y.release = x.release /\ y.stack = x.stack /\ y.first = x.first
      /\ y.replica = x.replica /\ y.draw = x.draw
  BY <1>1 DEF ClientRecord
<1> HIDE DEF y
<1>8. Contents(y) = Contents(x)
  BY <1>1, <1>2, <1>4, <1>5, <1>7, ContentsRead
<1>9. ASSUME server.up PROVE Side(c, y)
  <2>1. Side(c, x)
    BY <1>1, <1>9
  <2>2. Connected(c, y)
    BY <1>7, <2>1 DEF Side, Connected
  <2>3. c \in data.active \ server.fresh
    BY <1>2, <1>5, <2>1 DEF Side, Follows, Clean, Empty
  <2>4. c \notin Applied \cup Invited
    BY <1>9, <2>3 DEF IInv, Schedule
  <2>5. Requesting(c, y)
    BY <1>7, <2>4 DEF Requesting
  <2>6. Len(x.inbox) \in Nat /\ Len(x.stack) \in Nat
    BY <1>1, LenProperties DEF ClientRecord, Buffers
  <2>7. Outstanding(y) = Outstanding(x)
    <3>1. Held(y) /\ ~Held(x) /\ Len(y.inbox) = Len(x.inbox) - 1
      BY <1>2, <1>3, <1>7 DEF Held
    <3>4. Len(y.inbox) + One(Held(y)) = Len(x.inbox) + One(Held(x))
      BY <2>6, <3>1 DEF One
    <3>5. y.stack = x.stack
      BY <1>7
    <3> QED BY <1>7, <3>4, <3>5 DEF Outstanding
  <2>8. FirstDone(y) <=> FirstDone(x)
    BY <1>2, <1>7 DEF FirstDone
  <2>9. Pipeline(c, y)
    BY <1>2, <1>7, <2>1, <2>7, <2>8 DEF Side, Pipeline, One
  <2>10. Follows(c, y)
    BY <1>8, <2>1, <2>3 DEF Side, Follows
  <2>11. Latest(c, y)
    <3>1. Len(<<>>) = 0
      OBVIOUS
    <3>2. Len(x.inbox) = 1 \/ Len(x.inbox) = 2
      BY <1>2, <1>3, Queues
    <3>3. Held(y) /\ ~Held(x)
      BY <1>2, <1>7 DEF Held
    <3>4. Len(y.inbox) + One(Held(y)) = Len(x.inbox) + One(Held(x))
      BY <1>3, <1>7, <2>6, <3>3 DEF One
    <3>5. x.inbox # <<>> /\ (Sent /\ c \in data.active
             /\ (y.first => Len(y.inbox) + One(Held(y)) = 2) =>
             x.inbox[Len(x.inbox)] = queue.front)
      BY <1>2, <1>7, <2>1, <3>4 DEF Side, Latest
    <3>6. CASE Len(x.inbox) = 1
      BY <1>3, <1>7, <3>5, <3>6 DEF Latest
    <3>7. CASE Len(x.inbox) = 2
      <4>1. Len(y.inbox) = 1
        BY <1>3, <1>7, <3>7
      <4>2. y.inbox[1] = x.inbox[2]
        BY <1>3, <1>7, <3>7
      <4>3. y.inbox # <<>>
        BY <3>1, <4>1
      <4> QED BY <3>5, <3>7, <4>1, <4>2, <4>3 DEF Latest
    <3> QED BY <3>2, <3>6, <3>7
  <2> QED BY <2>2, <2>5, <2>9, <2>10, <2>11 DEF Side
<1>10. y.peer.life <= server.life
  BY <1>1, <1>7
<1> QED BY <1>2, <1>4, <1>6, <1>9, <1>10, OneClient

LEMMA EndFirstSyncStep ==
  ASSUME IInv, NEW c \in Client, EndFirstSync(c)
  PROVE  IInv'
<1> DEFINE x == client[c]
           y == [x EXCEPT !.read = "synced", !.release = FALSE]
<1>1. x \in ClientRecord /\ Own(x) /\ x.peer.life <= server.life
      /\ (server.up => Side(c, x))
  BY DEF IInv, Types
<1>2. x.read = "syncing" /\ x.release /\ Changes(c, y) /\ Alone
  BY DEF EndFirstSync
<1>3. y \in ClientRecord
  BY <1>1 DEF ClientRecord
<1>4. Own(y)
  BY <1>1, <1>2 DEF Own, Empty, Held, ClientRecord
<1>5. ASSUME server.up PROVE Side(c, y)
  <2>1. Side(c, x)
    BY <1>1, <1>5
  <2>2. Connected(c, y)
    BY <1>1, <2>1 DEF Side, Connected, ClientRecord
  <2>3. Requesting(c, y)
    BY <1>1, <1>2, <2>1 DEF Side, Requesting, ClientRecord
  <2>4. Outstanding(y) = Outstanding(x) /\ FirstDone(y) /\ FirstDone(x)
    BY <1>1, <1>2 DEF Outstanding, FirstDone, One, Held, ClientRecord
  <2>5. Pipeline(c, y)
    <3>1. x.draw # "sync"
      BY <1>1, <1>2, <2>1 DEF Side, Connected, Own
    <3> QED BY <1>1, <1>2, <2>1, <2>4, <3>1 DEF Side, Pipeline, ClientRecord, One
  <2>6. Follows(c, y)
    <3>1. Contents(y) = Contents(x) /\ ~Clean(x)
      BY <1>1, <1>2 DEF Contents, Clean, Held, ClientRecord
    <3>2. x.connected
      BY <1>1, <1>2 DEF Own
    <3> HIDE DEF y
    <3> QED BY <2>1, <3>1, <3>2 DEF Side, Follows
  <2>7. Latest(c, y)
    BY <1>1, <1>2, <2>1 DEF Side, Latest, Held, One, ClientRecord
  <2> QED BY <2>2, <2>3, <2>5, <2>6, <2>7 DEF Side
<1>6. y.peer.life <= server.life
  BY <1>1 DEF ClientRecord
<1> QED BY <1>2, <1>3, <1>4, <1>5, <1>6, OneClient

LEMMA PushBufferStep ==
  ASSUME IInv, NEW c \in Client, PushBuffer(c)
  PROVE  IInv'
<1> DEFINE x == client[c]
           y == [x EXCEPT !.read = "idle", !.first = FALSE, !.swapReady = FALSE,
                          !.stack = Append(x.stack, x.hand), !.hand = <<>>,
                          !.available = 1]
<1>1. x \in ClientRecord /\ Own(x) /\ x.peer.life <= server.life
      /\ (server.up => Side(c, x))
  BY DEF IInv, Types
<1>2. /\ x.read \in {"synced", "swap"} /\ x.swapReady
      /\ Changes(c, y) /\ Alone
  BY DEF PushBuffer
<1>3. /\ x.connected /\ x.stack = <<>> /\ x.conn = "up" /\ x.null # 2
      /\ x.draw \in {"top", "null", "wait"}
  BY <1>1, <1>2 DEF Own
<1>4. Len(x.stack) = 0 /\ Len(x.stack) <= 1
  BY <1>3
<1>5. y \in ClientRecord
  <2>1. Append(x.stack, x.hand) \in Buffers /\ <<>> \in Records
    BY <1>1, <1>4, FlattenAppend, EmptyRecords DEF ClientRecord
  <2> QED BY <1>1, <2>1 DEF ClientRecord
<1>6. /\ y.read = "idle" /\ ~y.first /\ ~y.swapReady /\ y.available = 1
      /\ y.stack = Append(x.stack, x.hand) /\ y.hand = <<>>
      /\ y.inbox = x.inbox /\ y.conn = x.conn /\ y.null = x.null
      /\ y.connected = x.connected /\ y.peer = x.peer /\ y.bar = x.bar
      /\ y.activated = x.activated /\ y.response = x.response
      /\ y.release = x.release
      /\ y.replica = x.replica /\ y.draw = x.draw
  BY <1>1 DEF ClientRecord
<1> HIDE DEF y
<1>7. Contents(y) = Contents(x) /\ Len(y.stack) = 1
  BY <1>1, <1>3, <1>5, <1>6, ContentsPushed
<1>8. Own(y)
  BY <1>1, <1>3, <1>6, <1>7 DEF Own, Held
<1>9. ASSUME server.up PROVE Side(c, y)
  <2>1. Side(c, x)
    BY <1>1, <1>9
  <2>2. Connected(c, y)
    BY <1>6, <2>1 DEF Side, Connected
  <2>3. c \in data.active \ server.fresh
    BY <1>2, <1>3, <2>1 DEF Side, Follows, Clean, Held
  <2>4. c \notin Applied \cup Invited
    BY <1>9, <2>3 DEF IInv, Schedule
  <2>5. Requesting(c, y)
    BY <1>6, <2>4 DEF Requesting
  <2>6. Len(x.inbox) \in Nat
    BY <1>1, LenProperties DEF ClientRecord, Buffers
  <2>7. Outstanding(y) = Outstanding(x)
    <3>1. Held(x) /\ ~Held(y)
      BY <1>2, <1>6 DEF Held
    <3> QED BY <1>4, <1>6, <1>7, <2>6, <3>1 DEF Outstanding, One
  <2>8. FirstDone(y) /\ FirstDone(x)
    BY <1>1, <1>2, <1>6 DEF FirstDone, Own
  <2>9. Pipeline(c, y)
    BY <1>2, <1>3, <1>6, <2>1, <2>7, <2>8 DEF Side, Pipeline, One
  <2>10. Follows(c, y)
    BY <1>7, <2>1, <2>3 DEF Side, Follows
  <2>11. Latest(c, y)
    <3>1. Held(x) /\ ~Held(y) /\ x.draw # "drawn" /\ c \notin waiting
      BY <1>2, <1>3, <1>6, <2>1, <2>3 DEF Held, Side, Pipeline
    <3>2. Sent => Len(x.inbox) + One(Held(x)) = 2
      BY <1>4, <2>1, <2>3, <2>6, <2>8, <3>1 DEF Side, Pipeline, Outstanding, One
    <3> QED BY <1>6, <2>1, <3>1, <3>2 DEF Side, Latest
  <2> QED BY <2>2, <2>5, <2>9, <2>10, <2>11 DEF Side
<1>10. y.peer.life <= server.life
  BY <1>1, <1>6
<1> QED BY <1>2, <1>5, <1>8, <1>9, <1>10, OneClient

LEMMA LoseDataStep ==
  ASSUME IInv, NEW c \in Client, LoseData(c)
  PROVE  IInv'
<1> DEFINE x == client[c]
           y == [x EXCEPT !.read = "lost", !.first = TRUE, !.swapReady = TRUE,
                          !.stack = <<>>]
<1>1. x \in ClientRecord /\ Own(x) /\ x.peer.life <= server.life
  BY DEF IInv, Types
<1>2. /\ x.read = "reading" /\ x.inbox = <<>> /\ ~Current(x.peer.life)
      /\ Changes(c, y) /\ Alone
  BY DEF LoseData
<1>3. x.connected /\ x.hand = <<>>
  BY <1>1, <1>2 DEF Own, Held
<1>4. ~server.up
  BY <1>2, <1>3 DEF IInv, Side, Connected, Current
<1>5. <<>> \in Buffers
  BY EmptySeq DEF Buffers
<1>6. y \in ClientRecord
  BY <1>1, <1>5 DEF ClientRecord
<1>7. Own(y)
  BY <1>1, <1>2, <1>3 DEF Own, Empty, Held, ClientRecord
<1>8. y.peer.life <= server.life
  BY <1>1 DEF ClientRecord
<1> QED BY <1>2, <1>4, <1>6, <1>7, <1>8, OneClient

LEMMA ReportLossStep ==
  ASSUME IInv, NEW c \in Client, ReportLoss(c)
  PROVE  IInv'
<1> DEFINE x == client[c]
           y == [x EXCEPT !.read = "idle", !.available = 0, !.connected = FALSE]
<1>1. x \in ClientRecord /\ Own(x) /\ x.peer.life <= server.life
  BY DEF IInv, Types
<1>2. x.read = "lost" /\ Changes(c, y) /\ Alone
  BY DEF ReportLoss
<1>3. x.connected
  BY <1>1, <1>2 DEF Own
<1>4. ~server.up
  BY <1>2, <1>3 DEF IInv, Side, Connected
<1>5. y \in ClientRecord
  BY <1>1 DEF ClientRecord
<1>6. Own(y)
  BY <1>1, <1>2 DEF Own, Empty, Held, ClientRecord
<1>7. y.peer.life <= server.life
  BY <1>1 DEF ClientRecord
<1> QED BY <1>2, <1>4, <1>5, <1>6, <1>7, OneClient

-----------------------------------------------------------------------------
(* Steps of a client that the server sees.                                 *)

LEMMA DialStep ==
  ASSUME IInv, NEW c \in Client, Dial(c)
  PROVE  IInv'
<1> DEFINE x == client[c]
           n == Len(data.sockets) + 1
           y == [x EXCEPT !.conn = "up", !.connected = TRUE,
                          !.peer = [life |-> server.life, id |-> n]]
<1>1. x \in ClientRecord /\ Own(x) /\ Types
  BY DEF IInv, Types
<1>2. /\ x.conn = "dial" /\ server.up
      /\ data' = [data EXCEPT !.sockets = Append(@, c)]
      /\ client' = [client EXCEPT ![c] = y]
      /\ UNCHANGED <<mode, server, producer, history, queue, member, waiting>>
  BY DEF Dial, barrierVars
<1>3. /\ Schedule /\ \A d \in Client : Side(d, client[d])
      /\ \A d \in Client : Own(client[d]) /\ client[d].peer.life <= server.life
  BY <1>2 DEF IInv
<1>4. /\ data.sockets \in Seq(Client)
      /\ data'.sockets = Append(data.sockets, c)
      /\ data'.active = data.active /\ data.active \in SUBSET Client
  BY <1>1, <1>2 DEF Types
<1>5. /\ data'.sockets \in Seq(Client) /\ n \in Nat
      /\ DOMAIN data.sockets = 1..Len(data.sockets)
      /\ DOMAIN data'.sockets = 1..n
      /\ \A i \in DOMAIN data.sockets : i \in DOMAIN data'.sockets
                                        /\ data'.sockets[i] = data.sockets[i]
      /\ n \in DOMAIN data'.sockets /\ data'.sockets[n] = c
  BY <1>4, AppendProperties, LenProperties
<1>6. server.life \in Nat /\ server.life <= server.life
  BY <1>1 DEF Types, ServerRecord
<1>7. ~x.connected
  BY <1>1, <1>2 DEF Own
<1>8. y \in ClientRecord
  BY <1>1, <1>5, <1>6 DEF ClientRecord
<1>9. Own(y) /\ y.peer.life <= server.life
  BY <1>1, <1>2, <1>6, <1>7 DEF Own, Empty, Held, ClientRecord
<1>10. \A d \in Client : client'[d] = IF d = c THEN y ELSE client[d]
  BY <1>1, <1>2 DEF Types
<1>11. Types'
  <2>1. data' \in [sockets : Seq(Client), active : SUBSET Client]
    BY <1>1, <1>2, <1>4, <1>5 DEF Types
  <2>2. client' \in [Client -> ClientRecord]
    BY <1>1, <1>2, <1>8 DEF Types
  <2> QED BY <1>1, <1>2, <2>1, <2>2 DEF Types
<1>12. Schedule'
  BY <1>2, <1>3, <1>4 DEF Schedule, ActiveClients, QueueLocked, Invited, Applied
<1>13. c \notin data.active /\ c \notin Applied \cup Invited
  BY <1>3, <1>7 DEF Side, Pipeline, Requesting
<1>14. ASSUME NEW d \in Client, d # c PROVE Side(d, client[d])'
  <2> DEFINE z == client[d]
  <2>1. Side(d, z) /\ client'[d] = z
    BY <1>3, <1>10, <1>14
  <2>2. Connected(d, client[d])'
    BY <1>2, <1>5, <2>1 DEF Side, Connected
  <2>3. Requesting(d, client[d])'
    BY <1>2, <2>1 DEF Side, Requesting, OnOffer, Applied, Invited
  <2>4. Pipeline(d, client[d])'
    BY <1>2, <1>4, <2>1 DEF Side, Pipeline, One, Sent
  <2>5. Follows(d, client[d])'
    BY <1>2, <1>4, <2>1 DEF Side, Follows, Unsent
  <2>6. Latest(d, client[d])'
    BY <1>2, <1>4, <2>1 DEF Side, Latest, Sent, One
  <2> QED BY <2>2, <2>3, <2>4, <2>5, <2>6 DEF Side
<1>15. Side(c, client[c])'
  <2>1. /\ y.connected /\ y.read = x.read /\ y.bar = x.bar
        /\ y.peer.life = server.life /\ y.peer.id = n
    BY <1>1 DEF ClientRecord
  <2>2. client'[c] = y
    BY <1>10
  <2>3. x.read = "idle"
    BY <1>1, <1>7 DEF Own
  <2>4. Clean(y)
    BY <1>1, <1>2, <1>7 DEF Own, Clean, Empty, Held, ClientRecord
  <2> HIDE DEF y
  <2>5. Connected(c, client[c])'
    BY <1>2, <1>3, <1>5, <2>1, <2>2, <2>3 DEF Side, Connected
  <2>6. Requesting(c, client[c])'
    BY <1>2, <1>13, <2>1, <2>2, <2>3 DEF Requesting, Applied, Invited
  <2>7. Pipeline(c, client[c])' /\ Latest(c, client[c])'
    BY <1>4, <1>13 DEF Pipeline, Latest
  <2>8. Follows(c, client[c])'
    BY <1>4, <1>13, <2>2, <2>4 DEF Follows
  <2> QED BY <2>5, <2>6, <2>7, <2>8 DEF Side
<1>16. \A d \in Client : Own(client'[d]) /\ client'[d].peer.life <= server'.life
  BY <1>2, <1>3, <1>9, <1>10
<1>17. \A d \in Client : Side(d, client[d])'
  BY <1>14, <1>15
<1> QED BY <1>2, <1>11, <1>12, <1>16, <1>17 DEF IInv

(* A client asks to be activated: it is not asked for yet.                 *)
LEMMA RequestActivation ==
  ASSUME IInv, NEW c \in Client, server.up,
         client[c].read = "idle", client[c].connected, ~client[c].activated,
         client[c].bar = server.life,
         Changes(c, [client[c] EXCEPT !.read = "activating", !.response = FALSE]),
         UNCHANGED waiting,
         server' = [server EXCEPT
           !.requests = Append(@, [client |-> c, id |-> client[c].peer.id]),
           !.signal = @ \/ (server.pump /\ ActiveClients = {}),
           !.pump = @ /\ ActiveClients # {}]
  PROVE  IInv'
<1> DEFINE x == client[c]
           r == [client |-> c, id |-> x.peer.id]
           y == [x EXCEPT !.read = "activating", !.response = FALSE]
<1>1. x \in ClientRecord /\ Own(x) /\ Types /\ x.peer.life <= server.life
  BY DEF IInv, Types
<1>2. /\ client' = [client EXCEPT ![c] = y]
      /\ UNCHANGED <<mode, data, producer, history, queue, member, waiting>>
  BY DEF Changes
<1>3. /\ Schedule /\ \A d \in Client : Side(d, client[d])
      /\ \A d \in Client : Own(client[d]) /\ client[d].peer.life <= server.life
  BY DEF IInv
<1>4. server \in ServerRecord
  BY <1>1 DEF Types
<1>5. /\ server'.requests = Append(server.requests, r)
      /\ server'.up = server.up /\ server'.life = server.life
      /\ server'.pc = server.pc /\ server'.todo = server.todo
      /\ server'.fresh = server.fresh /\ server'.old = server.old
      /\ server'.answer = server.answer
  BY <1>4 DEF ServerRecord
<1>6. r \in ActivationRequest /\ r.client = c /\ r.id = x.peer.id
      /\ server.requests \in Requests
  BY <1>1, <1>4 DEF ClientRecord, ActivationRequest, ServerRecord
<1>7. /\ c \notin Applied \cup Invited
      /\ c \notin data.active
  BY <1>3 DEF Side, Requesting, Pipeline
<1> HIDE DEF r
<1>8. /\ Append(server.requests, r) \in Requests
      /\ Applied' = Applied \cup {c} /\ Distinct(server'.requests)
      /\ \A d, id : Asks(server'.requests, d, id) <=>
                      Asks(server.requests, d, id) /\ (c = d => x.peer.id = id)
  BY <1>3, <1>5, <1>6, <1>7, RequestsAppend DEF Applied, Schedule
<1>9. Types'
  <2>1. y \in ClientRecord
    BY <1>1 DEF ClientRecord
  <2>2. server' \in ServerRecord
    BY <1>4, <1>6, <1>8 DEF ServerRecord, r
  <2> QED BY <1>1, <1>2, <2>1, <2>2 DEF Types
<1>10. Schedule'
  <2>1. Invited' = Invited /\ (QueueLocked' <=> QueueLocked)
    BY <1>5 DEF Invited, QueueLocked
  <2>2. ActiveClients' = ActiveClients
    BY <1>2 DEF ActiveClients
  <2>3. Distinct(server'.todo)
    BY <1>3, <1>5 DEF Schedule
  <2>4. Applied' \cap Invited' = {} /\ (Applied' \cup Invited') \cap data.active = {}
    BY <1>3, <1>7, <1>8, <2>1 DEF Schedule
  <2> QED BY <1>2, <1>3, <1>5, <1>8, <2>1, <2>2, <2>3, <2>4 DEF Schedule
<1>11. \A d \in Client : client'[d] = IF d = c THEN y ELSE client[d]
  BY <1>1, <1>2 DEF Types
<1>12. Own(y) /\ y.peer.life <= server.life
  BY <1>1 DEF Own, Empty, Held, ClientRecord
<1>13. ASSUME NEW d \in Client, d # c PROVE Side(d, client[d])'
  <2> DEFINE z == client[d]
  <2>1. Side(d, z) /\ client'[d] = z
    BY <1>3, <1>11, <1>13
  <2>2. Connected(d, client[d])'
    BY <1>2, <1>5, <2>1 DEF Side, Connected
  <2>3. Requesting(d, client[d])'
    <3>1. d \in Applied' <=> d \in Applied
      BY <1>8, <1>13
    <3>2. Invited' = Invited /\ (OnOffer(d)' <=> OnOffer(d))
      BY <1>5 DEF Invited, OnOffer
    <3>3. Asks(server'.requests, d, z.peer.id) <=> Asks(server.requests, d, z.peer.id)
      BY <1>8, <1>13
    <3> QED BY <1>5, <2>1, <3>1, <3>2, <3>3 DEF Side, Requesting
  <2>4. Pipeline(d, client[d])'
    BY <1>2, <1>5, <2>1 DEF Side, Pipeline, One, Sent
  <2>5. Follows(d, client[d])'
    BY <1>2, <1>5, <2>1 DEF Side, Follows, Unsent
  <2>6. Latest(d, client[d])'
    BY <1>2, <1>5, <2>1 DEF Side, Latest, Sent, One
  <2> QED BY <2>2, <2>3, <2>4, <2>5, <2>6 DEF Side
<1>14. Side(c, client[c])'
  <2>1. /\ y.connected /\ y.read = "activating" /\ y.bar = x.bar
        /\ ~y.activated /\ ~y.response /\ y.peer = x.peer
    BY <1>1 DEF ClientRecord
  <2>2. client'[c] = y
    BY <1>11
  <2>3. Clean(y)
    <3>1. Clean(x)
      BY <1>3, <1>7 DEF Side, Follows
    <3> QED BY <1>1, <3>1 DEF Clean, Empty, Held, ClientRecord
  <2> HIDE DEF y
  <2>4. Connected(c, client[c])'
    BY <1>2, <1>3, <1>5, <2>1, <2>2 DEF Side, Connected
  <2>5. Requesting(c, client[c])'
    <3>1. c \in Applied' /\ Invited' = Invited /\ c \notin Invited
      BY <1>5, <1>7, <1>8 DEF Invited
    <3>2. ~OnOffer(c)'
      <4>1. server.pc = "await" => server.todo # <<>>
        BY <1>3 DEF Schedule
      <4>2. server.pc = "await" => Head(server.todo).client \in Invited
        BY <1>4, <4>1, RequestsTail DEF Invited, ServerRecord
      <4> QED BY <1>5, <1>7, <4>2 DEF OnOffer
    <3>3. Asks(server'.requests, c, y.peer.id)
      <4>1. Asks(server.requests, c, x.peer.id)
        BY <1>7 DEF Applied, Clients, Asks
      <4> QED BY <1>8, <2>1, <4>1
    <3>4. Asks(server'.todo, c, y.peer.id)
      BY <1>5, <1>7 DEF Invited, Clients, Asks
    <3> QED BY <1>5, <2>1, <2>2, <3>1, <3>2, <3>3, <3>4 DEF Requesting
  <2>6. Pipeline(c, client[c])' /\ Latest(c, client[c])'
    BY <1>2, <1>7 DEF Pipeline, Latest
  <2>7. Follows(c, client[c])'
    BY <1>2, <1>7, <2>2, <2>3 DEF Follows
  <2> QED BY <2>4, <2>5, <2>6, <2>7 DEF Side
<1>15. \A d \in Client : Own(client'[d]) /\ client'[d].peer.life <= server'.life
  BY <1>3, <1>5, <1>11, <1>12
<1>16. \A d \in Client : Side(d, client[d])'
  BY <1>13, <1>14
<1> QED BY <1>5, <1>9, <1>10, <1>15, <1>16 DEF IInv

LEMMA StartReadStep ==
  ASSUME IInv, NEW c \in Client, StartRead(c)
  PROVE  IInv'
<1> DEFINE x == client[c]
           asks == ~x.activated /\ x.bar # 0
           y == [x EXCEPT !.read = "reading"]
           z == [x EXCEPT !.read = "activating", !.response = FALSE]
<1>1. x \in ClientRecord /\ Own(x) /\ x.peer.life <= server.life
      /\ (server.up => Side(c, x))
  BY DEF IInv, Types
<1>2. x.read = "idle" /\ x.connected /\ UNCHANGED waiting
  BY DEF StartRead
<1>3. x.conn = "up"
  BY <1>1, <1>2 DEF Own
<1>4. /\ y \in ClientRecord /\ y.peer.life <= server.life
      /\ z \in ClientRecord /\ z.peer.life <= server.life
  BY <1>1 DEF ClientRecord
<1>5. Own(y)
  BY <1>1, <1>2 DEF Own, Empty, Held, ClientRecord
<1>6. Own(z)
  BY <1>1, <1>2 DEF Own, Empty, Held, ClientRecord
<1>7. CASE ~asks
  <2>1. Changes(c, y) /\ Alone
    BY <1>2, <1>7 DEF StartRead, Alone
  <2>2. ASSUME server.up PROVE Side(c, y)
    <3>1. Side(c, x)
      BY <1>1, <2>2
    <3>2. Connected(c, y)
      BY <1>1, <3>1 DEF Side, Connected, ClientRecord
    <3>3. Requesting(c, y)
      BY <1>1, <1>2, <3>1 DEF Side, Requesting, ClientRecord
    <3>4. Outstanding(y) = Outstanding(x) /\ (FirstDone(y) <=> FirstDone(x))
      BY <1>1, <1>2 DEF Outstanding, FirstDone, One, Held, ClientRecord
    <3>5. Pipeline(c, y)
      BY <1>1, <1>2, <3>1, <3>4 DEF Side, Pipeline, ClientRecord, One
    <3>6. Follows(c, y)
      <4>1. Contents(y) = Contents(x) /\ (Clean(x) => Clean(y))
        BY <1>1 DEF Contents, Clean, Empty, Held, ClientRecord
      <4> HIDE DEF y
      <4> QED BY <1>2, <3>1, <4>1 DEF Side, Follows
    <3>7. Latest(c, y)
      BY <1>1, <1>2, <3>1 DEF Side, Latest, Held, One, ClientRecord
    <3> QED BY <3>2, <3>3, <3>5, <3>6, <3>7 DEF Side
  <2> QED BY <1>4, <1>5, <2>1, <2>2, OneClient
<1>8. CASE asks /\ ~Current(x.bar)
  <2>1. ~server.up
    BY <1>1, <1>8 DEF Side, Connected, Current
  <2>2. Alone
    BY <1>2, <1>8 DEF StartRead, Alone
  <2>3. Changes(c, y) \/ Changes(c, z)
    BY <1>8 DEF StartRead
  <2> HIDE DEF y, z, x
  <2> QED BY <1>4, <1>5, <1>6, <2>1, <2>2, <2>3, OneClient DEF x
<1>9. CASE asks /\ Current(x.bar)
  <2>1. server.up /\ x.bar = server.life
    BY <1>9 DEF Current
  <2>2. /\ Changes(c, z)
        /\ server' = [server EXCEPT
             !.requests = Append(@, [client |-> c, id |-> x.peer.id]),
             !.signal = @ \/ (server.pump /\ ActiveClients = {}),
             !.pump = @ /\ ActiveClients # {}]
    BY <1>9 DEF StartRead
  <2> QED BY <1>2, <1>9, <2>1, <2>2, RequestActivation
<1> QED BY <1>7, <1>8, <1>9

(* Only the client whose socket is being activated gets a response.        *)
LEMMA AnswerActivationStep ==
  ASSUME IInv, NEW c \in Client, AnswerActivation(c)
  PROVE  IInv'
<1> DEFINE x == client[c]
           y == [x EXCEPT !.read = "reading", !.activated = TRUE,
                          !.release = FALSE]
<1>1. x \in ClientRecord /\ Own(x) /\ Types /\ x.peer.life <= server.life
  BY DEF IInv, Types
<1>2. /\ x.read = "activating" /\ x.response
      /\ Changes(c, y) /\ UNCHANGED waiting
      /\ server' = IF Current(x.bar) THEN [server EXCEPT !.answer = TRUE]
                                     ELSE server
  BY DEF AnswerActivation
<1>3. y \in ClientRecord
  BY <1>1 DEF ClientRecord
<1>4. Own(y) /\ y.peer.life <= server.life /\ x.connected
  BY <1>1, <1>2 DEF Own, Empty, Held, ClientRecord
<1>5. CASE ~server.up
  <2>1. Alone
    BY <1>2, <1>5 DEF Current, Alone
  <2> QED BY <1>2, <1>3, <1>4, <1>5, <2>1, OneClient
<1>6. CASE server.up
  <2>1. /\ Schedule /\ \A d \in Client : Side(d, client[d])
        /\ \A d \in Client : Own(client[d]) /\ client[d].peer.life <= server.life
    BY <1>6 DEF IInv
  <2>2. /\ c \in Applied \cup Invited /\ x.bar = server.life
        /\ c \notin data.active
        /\ OnOffer(c)
    BY <1>2, <1>4, <2>1 DEF Side, Requesting, Schedule
  <2>3. server \in ServerRecord /\ server' = [server EXCEPT !.answer = TRUE]
    BY <1>1, <1>2, <1>6, <2>2 DEF Current, Types
  <2>4. /\ server'.requests = server.requests /\ server'.todo = server.todo
        /\ server'.up = server.up /\ server'.life = server.life
        /\ server'.pc = server.pc /\ server'.answer
        /\ server'.fresh = server.fresh /\ server'.old = server.old
    BY <2>3 DEF ServerRecord
  <2>5. /\ client' = [client EXCEPT ![c] = y]
        /\ UNCHANGED <<mode, data, producer, history, queue, member, waiting>>
    BY <1>2 DEF Changes
  <2>6. \A d \in Client : client'[d] = IF d = c THEN y ELSE client[d]
    BY <1>1, <2>5 DEF Types
  <2>7. Types'
    <3>1. server' \in ServerRecord
      BY <2>3 DEF ServerRecord
    <3> QED BY <1>1, <1>3, <2>5, <3>1 DEF Types
  <2>8. Schedule'
    BY <2>1, <2>4, <2>5 DEF Schedule, ActiveClients, QueueLocked, Invited, Applied
  <2>9. ASSUME NEW d \in Client, d # c PROVE Side(d, client[d])'
    <3> DEFINE z == client[d]
    <3>1. Side(d, z) /\ client'[d] = z
      BY <2>1, <2>6, <2>9
    <3>2. ~OnOffer(d)
      BY <2>2, <2>9 DEF OnOffer
    <3>3. Connected(d, client[d])'
      BY <2>4, <2>5, <3>1 DEF Side, Connected
    <3>4. Requesting(d, client[d])'
      BY <2>4, <2>5, <3>1, <3>2 DEF Side, Requesting, OnOffer, Applied, Invited
    <3>5. Pipeline(d, client[d])'
      BY <2>4, <2>5, <3>1 DEF Side, Pipeline, One, Sent
    <3>6. Follows(d, client[d])'
      BY <2>4, <2>5, <3>1 DEF Side, Follows, Unsent
    <3>7. Latest(d, client[d])'
      BY <2>4, <2>5, <3>1 DEF Side, Latest, Sent, One
    <3> QED BY <3>3, <3>4, <3>5, <3>6, <3>7 DEF Side
  <2>10. Side(c, client[c])'
    <3>1. /\ y.connected /\ y.read = "reading" /\ y.bar = x.bar
          /\ y.activated /\ ~y.release /\ y.peer = x.peer
      BY <1>1, <1>4 DEF ClientRecord
    <3>2. client'[c] = y
      BY <2>6
    <3>3. Clean(y)
      <4>1. Clean(x)
        BY <1>4, <2>1, <2>2 DEF Side, Follows
      <4> QED BY <1>1, <4>1 DEF Clean, Empty, Held, ClientRecord
    <3> HIDE DEF y
    <3>4. Connected(c, client[c])'
      BY <1>4, <2>1, <2>4, <2>5, <3>1, <3>2 DEF Side, Connected
    <3>5. Requesting(c, client[c])'
      <4>1. Asks(server.requests, c, x.peer.id) /\ Asks(server.todo, c, x.peer.id)
        BY <2>1, <2>2 DEF Side, Requesting
      <4>2. OnOffer(c)' <=> OnOffer(c)
        BY <2>4 DEF OnOffer
      <4> QED BY <2>2, <2>4, <3>1, <3>2, <4>1, <4>2 DEF Requesting
    <3>6. Pipeline(c, client[c])' /\ Latest(c, client[c])'
      BY <2>2, <2>5 DEF Pipeline, Latest
    <3>7. Follows(c, client[c])'
      BY <2>2, <2>5, <3>2, <3>3 DEF Follows
    <3> QED BY <3>4, <3>5, <3>6, <3>7 DEF Side
  <2>11. \A d \in Client : Own(client'[d]) /\ client'[d].peer.life <= server'.life
    BY <1>4, <2>1, <2>4, <2>6
  <2>12. \A d \in Client : Side(d, client[d])'
    BY <2>9, <2>10
  <2> QED BY <1>6, <2>4, <2>7, <2>8, <2>11, <2>12 DEF IInv
<1> QED BY <1>5, <1>6

-----------------------------------------------------------------------------
(* A client enters the barrier: of the others' part nothing changes.       *)

LEMMA EnterStep ==
  ASSUME IInv, NEW c \in Client, NEW y \in ClientRecord, server.up,
         B!Enter(c), Changes(c, y), UNCHANGED server,
         Own(y), y.peer.life <= server.life, Side(c, client[c])'
  PROVE  IInv'
<1>1. /\ Types /\ Schedule /\ \A d \in Client : Side(d, client[d])
      /\ \A d \in Client : Own(client[d]) /\ client[d].peer.life <= server.life
  BY DEF IInv
<1>2. /\ client' = [client EXCEPT ![c] = y]
      /\ UNCHANGED <<mode, server, data, producer, history, queue, member>>
      /\ waiting' = waiting \cup {c} /\ c \in member
  BY DEF Changes, B!Enter
<1>3. \A d \in Client : client'[d] = IF d = c THEN y ELSE client[d]
  BY <1>1, <1>2 DEF Types
<1>4. Types'
  BY <1>1, <1>2 DEF Types
<1>5. Schedule'
  <2>1. "local" # c
    BY SyncDataAssumption
  <2> QED BY <1>1, <1>2, <2>1 DEF Schedule, ActiveClients, QueueLocked, Invited,
                                  Applied
<1>6. ASSUME NEW d \in Client, d # c PROVE Side(d, client[d])'
  <2> DEFINE z == client[d]
  <2>1. Side(d, z) /\ client'[d] = z /\ (d \in waiting' <=> d \in waiting)
    BY <1>1, <1>2, <1>3, <1>6
  <2>2. Connected(d, client[d])'
    BY <1>2, <2>1 DEF Side, Connected
  <2>3. Requesting(d, client[d])'
    BY <1>2, <2>1 DEF Side, Requesting, OnOffer, Applied, Invited
  <2>4. Pipeline(d, client[d])'
    BY <1>2, <2>1 DEF Side, Pipeline, One, Sent
  <2>5. Follows(d, client[d])'
    BY <1>2, <2>1 DEF Side, Follows, Unsent
  <2>6. Latest(d, client[d])'
    BY <1>2, <2>1 DEF Side, Latest, Sent, One
  <2> QED BY <2>2, <2>3, <2>4, <2>5, <2>6 DEF Side
<1>7. \A d \in Client : Own(client'[d]) /\ client'[d].peer.life <= server'.life
  BY <1>1, <1>2, <1>3
<1>8. \A d \in Client : Side(d, client[d])'
  BY <1>6
<1> QED BY <1>2, <1>4, <1>5, <1>7, <1>8 DEF IInv

LEMMA OutstandingNat ==
  ASSUME NEW x \in ClientRecord
  PROVE  /\ Len(x.inbox) \in Nat /\ Len(x.stack) \in Nat
         /\ Outstanding(x) \in Nat /\ Len(x.inbox) <= Outstanding(x)
         /\ Outstanding(x) = Len(x.inbox) + One(Held(x)) + Len(x.stack)
                               + One(x.draw = "drawn")
<1>1. Len(x.inbox) \in Nat /\ Len(x.stack) \in Nat
  BY LenProperties DEF ClientRecord, Buffers
<1> DEFINE h == IF Held(x) THEN 1 ELSE 0
           e == IF x.draw = "drawn" THEN 1 ELSE 0
<1>2. h \in Nat /\ e \in Nat
  OBVIOUS
<1>3. Outstanding(x) = Len(x.inbox) + h + Len(x.stack) + e
  BY DEF Outstanding, One
<1> HIDE DEF h, e
<1>5. \A i, j, k, l \in Nat : i + j + k + l \in Nat /\ i <= i + j + k + l
  OBVIOUS
<1>6. /\ Len(x.inbox) + h + Len(x.stack) + e \in Nat
      /\ Len(x.inbox) <= Len(x.inbox) + h + Len(x.stack) + e
  BY <1>1, <1>2, <1>5, Zenon
<1>4. Outstanding(x) \in Nat /\ Len(x.inbox) <= Outstanding(x)
  BY <1>3, <1>6, Zenon
<1> QED BY <1>1, <1>4 DEF Outstanding

LEMMA FirstSyncStep ==
  ASSUME IInv, NEW c \in Client, FirstSync(c)
  PROVE  IInv'
<1> DEFINE x == client[c]
           y == [x EXCEPT !.read = "syncing"]
           z == [x EXCEPT !.read = "synced"]
<1>1. x \in ClientRecord /\ Own(x) /\ x.peer.life <= server.life /\ Types
      /\ (server.up => Side(c, x))
  BY DEF IInv, Types
<1>2. /\ x.read = "first"
      /\ Sync(c, y, z)
  BY DEF FirstSync
<1>3. x.first /\ x.connected
  BY <1>1, <1>2 DEF Own
<1>4. /\ y \in ClientRecord /\ y.peer.life <= server.life
      /\ z \in ClientRecord /\ z.peer.life <= server.life
  BY <1>1 DEF ClientRecord
<1>5. Own(y)
  BY <1>1, <1>2, <1>3 DEF Own, Empty, Held, ClientRecord
<1>6. Own(z)
  BY <1>1, <1>2, <1>3 DEF Own, Empty, Held, ClientRecord
<1>7. CASE ~server.up
  <2>1. Changes(c, y) \/ Changes(c, z)
    BY <1>2 DEF Sync
  <2>2. Alone
    BY <1>2, <1>7 DEF Sync, Current, Alone, barrierVars
  <2> HIDE DEF y, z
  <2> QED BY <1>4, <1>5, <1>6, <1>7, <2>1, <2>2, OneClient
<1>8. CASE server.up
  <2>1. Side(c, x)
    BY <1>1, <1>8
  <2>2. c \in data.active \ server.fresh
    BY <1>2, <1>3, <2>1 DEF Side, Follows, Clean, Held
  <2>3. x.activated /\ x.bar = server.life
    BY <2>1, <2>2 DEF Side, Pipeline
  <2>4. B!Enter(c) /\ Changes(c, y) /\ UNCHANGED server
    BY <1>2, <1>8, <2>3 DEF Sync, Current
  <2>5. /\ c \notin waiting /\ waiting' = waiting \cup {c}
        /\ UNCHANGED <<mode, server, data, producer, history, queue, member>>
        /\ client'[c] = y
    BY <1>1, <2>4 DEF Changes, B!Enter, Types
  <2>6. /\ y.read = "syncing" /\ y.connected = x.connected
        /\ y.peer = x.peer /\ y.bar = x.bar /\ y.activated = x.activated
        /\ y.release = x.release /\ y.inbox = x.inbox /\ y.hand = x.hand
        /\ y.stack = x.stack /\ y.draw = x.draw /\ y.first = x.first
        /\ y.replica = x.replica
    BY <1>1 DEF ClientRecord
  <2> HIDE DEF y
  <2>7. Connected(c, client[c])'
    BY <2>1, <2>5, <2>6 DEF Side, Connected
  <2>8. Requesting(c, client[c])'
    <3>1. c \notin Applied \cup Invited
      BY <1>8, <2>2 DEF IInv, Schedule
    <3> QED BY <2>5, <2>6, <3>1 DEF Requesting, Applied, Invited
  <2>9. Pipeline(c, client[c])'
    <3>1. x.draw # "sync"
      BY <1>1, <1>2, <1>3 DEF Own
    <3>2. ~x.release /\ Outstanding(x) = One(Sent)
      <4>1. /\ Outstanding(x) + One(c \in waiting) = One(FirstDone(x)) + One(Sent)
            /\ ~x.release
        BY <1>2, <2>1, <2>2, <3>1 DEF Side, Pipeline
      <4>2. ~FirstDone(x) /\ Outstanding(x) \in Nat
        BY <1>1, <1>2, <1>3, OutstandingNat DEF FirstDone
      <4> QED BY <2>5, <4>1, <4>2 DEF One
    <3>3. Outstanding(y) = Outstanding(x)
      BY <1>2, <2>6 DEF Outstanding, Held, One
    <3>4. FirstDone(y) /\ y.activated /\ y.connected /\ y.bar = server.life
      BY <1>3, <2>3, <2>6 DEF FirstDone
    <3>5. c \in waiting'
      BY <2>5
    <3> QED BY <2>5, <2>6, <3>2, <3>3, <3>4, <3>5 DEF Pipeline, One, Sent
  <2>10. Follows(c, client[c])'
    <3>1. Contents(y) = Contents(x)
      BY <2>6 DEF Contents
    <3> QED BY <2>1, <2>2, <2>5, <3>1 DEF Side, Follows, Unsent
  <2>11. Latest(c, client[c])'
    <3>1. Held(x) /\ Held(y)
      BY <1>2, <2>6 DEF Held
    <3> QED BY <2>1, <2>5, <2>6, <3>1 DEF Side, Latest, Sent, One
  <2>12. Side(c, client[c])'
    BY <2>7, <2>8, <2>9, <2>10, <2>11 DEF Side
  <2> QED BY <1>4, <1>5, <1>8, <2>4, <2>12, EnterStep
<1> QED BY <1>7, <1>8

LEMMA FrameSyncStep ==
  ASSUME IInv, NEW c \in Client, FrameSync(c)
  PROVE  IInv'
<1> DEFINE x == client[c]
           y == [x EXCEPT !.draw = "sync"]
           z == [x EXCEPT !.draw = "post"]
<1>1. x \in ClientRecord /\ Own(x) /\ x.peer.life <= server.life /\ Types
      /\ (server.up => Side(c, x))
  BY DEF IInv, Types
<1>2. /\ x.draw = "drawn"
      /\ IF x.connected THEN Sync(c, y, z) ELSE Changes(c, z) /\ Alone
  BY DEF FrameSync
<1>3. /\ y \in ClientRecord /\ y.peer.life <= server.life
      /\ z \in ClientRecord /\ z.peer.life <= server.life
  BY <1>1 DEF ClientRecord
<1>4. Own(y)
  BY <1>1, <1>2 DEF Own, Empty, Held, ClientRecord
<1>5. Own(z)
  BY <1>1, <1>2 DEF Own, Empty, Held, ClientRecord
<1>6. CASE ~server.up
  <2>1. Changes(c, y) \/ Changes(c, z)
    BY <1>2 DEF Sync
  <2>2. Alone
    BY <1>2, <1>6 DEF Sync, Current, Alone, barrierVars
  <2> HIDE DEF y, z
  <2> QED BY <1>3, <1>4, <1>5, <1>6, <2>1, <2>2, OneClient
<1>7. CASE server.up /\ ~x.connected
  <2>1. Changes(c, z) /\ Alone
    BY <1>2, <1>7
  <2>2. Side(c, z)
    BY <1>1, <1>7 DEF Side, Connected, Requesting, Pipeline, Follows, Latest,
                      ClientRecord
  <2> QED BY <1>3, <1>5, <2>1, <2>2, OneClient
<1>8. CASE server.up /\ x.connected
  <2>1. Side(c, x)
    BY <1>1, <1>8
  <2>2. ~x.swapReady /\ ~x.first /\ x.read # "syncing"
    BY <1>1, <1>2, <1>8, <2>1 DEF Own, Side, Connected
  <2>3. c \in data.active \ server.fresh
    BY <1>8, <2>1, <2>2 DEF Side, Follows, Clean
  <2>4. x.activated /\ x.bar = server.life
    BY <2>1, <2>3 DEF Side, Pipeline
  <2>5. B!Enter(c) /\ Changes(c, y) /\ UNCHANGED server
    BY <1>2, <1>8, <2>4 DEF Sync, Current
  <2>6. /\ c \notin waiting /\ waiting' = waiting \cup {c}
        /\ UNCHANGED <<mode, server, data, producer, history, queue, member>>
        /\ client'[c] = y
    BY <1>1, <2>5 DEF Changes, B!Enter, Types
  <2>7. /\ y.draw = "sync" /\ y.connected = x.connected
        /\ y.peer = x.peer /\ y.bar = x.bar /\ y.activated = x.activated
        /\ y.release = x.release /\ y.inbox = x.inbox /\ y.hand = x.hand
        /\ y.stack = x.stack /\ y.read = x.read /\ y.first = x.first
        /\ y.replica = x.replica
    BY <1>1 DEF ClientRecord
  <2> HIDE DEF y
  <2>8. Connected(c, client[c])'
    BY <2>1, <2>6, <2>7 DEF Side, Connected
  <2>9. Requesting(c, client[c])'
    <3>1. c \notin Applied \cup Invited
      BY <1>8, <2>3 DEF IInv, Schedule
    <3>2. x.read # "activating"
      BY <2>1, <2>3 DEF Side, Pipeline
    <3> QED BY <2>6, <2>7, <3>1, <3>2 DEF Requesting, Applied, Invited
  <2>10. Pipeline(c, client[c])'
    <3>1. ~x.release /\ Outstanding(x) = 1 + One(Sent) /\ x.read # "activating"
      <4>1. /\ Outstanding(x) + One(c \in waiting) = One(FirstDone(x)) + One(Sent)
            /\ ~x.release /\ x.read # "activating"
        BY <1>2, <2>1, <2>2, <2>3, <2>6 DEF Side, Pipeline
      <4>2. FirstDone(x) /\ Outstanding(x) \in Nat
        BY <1>1, <2>2, OutstandingNat DEF FirstDone
      <4> QED BY <2>6, <4>1, <4>2 DEF One
    <3>2. Outstanding(x) = Outstanding(y) + 1
      <4>1. Len(x.inbox) \in Nat /\ Len(x.stack) \in Nat
        BY <1>1, OutstandingNat
      <4>2. Held(y) <=> Held(x)
        BY <2>7 DEF Held
      <4> DEFINE h == IF Held(x) THEN 1 ELSE 0
      <4>3. /\ h \in Nat
            /\ Outstanding(x) = Len(x.inbox) + h + Len(x.stack) + 1
            /\ Outstanding(y) = Len(x.inbox) + h + Len(x.stack) + 0
        BY <1>2, <2>7, <4>2 DEF Outstanding, One
      <4> HIDE DEF h
      <4> QED BY <4>1, <4>3
    <3>3. FirstDone(y) /\ y.activated /\ y.connected /\ y.bar = server.life
      BY <1>8, <2>2, <2>4, <2>7 DEF FirstDone
    <3>4. c \in waiting'
      BY <2>6
    <3>5. Outstanding(y) \in Nat
      BY <1>3, OutstandingNat
    <3> QED BY <2>6, <2>7, <3>1, <3>2, <3>3, <3>4, <3>5 DEF Pipeline, One, Sent
  <2>11. Follows(c, client[c])'
    <3>1. Contents(y) = Contents(x)
      BY <2>7 DEF Contents
    <3> QED BY <2>1, <2>3, <2>6, <3>1 DEF Side, Follows, Unsent
  <2>12. Latest(c, client[c])'
    <3>1. Held(y) <=> Held(x)
      BY <2>7 DEF Held
    <3> QED BY <2>1, <2>6, <2>7, <3>1 DEF Side, Latest, Sent, One
  <2>13. Side(c, client[c])'
    BY <2>8, <2>9, <2>10, <2>11, <2>12 DEF Side
  <2> QED BY <1>3, <1>4, <1>8, <2>5, <2>13, EnterStep
<1> QED BY <1>6, <1>7, <1>8

-----------------------------------------------------------------------------
(* The producer.                                                           *)

LEMMA FlagStep ==
  ASSUME IInv, server.up, server' \in ServerRecord,
         server'.up, server'.life = server.life, server'.pc = server.pc,
         server'.requests = server.requests, server'.todo = server.todo,
         server'.fresh = server.fresh, server'.old = server.old,
         server'.answer = server.answer,
         producer' \in {"idle", "full", "swapping"},
         UNCHANGED <<mode, data, history, queue, member, waiting, client>>
  PROVE  IInv'
<1>1. /\ Types /\ Schedule /\ \A d \in Client : Side(d, client[d])
      /\ \A d \in Client : Own(client[d]) /\ client[d].peer.life <= server.life
  BY DEF IInv
<1>2. Types'
  BY <1>1 DEF Types
<1>3. Schedule'
  BY <1>1 DEF Schedule, ActiveClients, QueueLocked, Invited, Applied
<1>4. ASSUME NEW d \in Client PROVE Side(d, client[d])'
  <2> DEFINE z == client[d]
  <2>1. Side(d, z) /\ client'[d] = z
    BY <1>1
  <2>2. Connected(d, client[d])'
    BY <2>1 DEF Side, Connected
  <2>3. Requesting(d, client[d])'
    BY <2>1 DEF Side, Requesting, OnOffer, Applied, Invited
  <2>4. Pipeline(d, client[d])'
    BY <2>1 DEF Side, Pipeline, One, Sent
  <2>5. Follows(d, client[d])'
    BY <2>1 DEF Side, Follows, Unsent
  <2>6. Latest(d, client[d])'
    BY <2>1 DEF Side, Latest, Sent, One
  <2> QED BY <2>2, <2>3, <2>4, <2>5, <2>6 DEF Side
<1>5. \A d \in Client : Own(client'[d]) /\ client'[d].peer.life <= server'.life
  BY <1>1
<1> QED BY <1>2, <1>3, <1>4, <1>5 DEF IInv

(* A record goes to the database and, for the active clients, to the back  *)
(* buffer.                                                                 *)
LEMMA ApplyStep ==
  ASSUME IInv, server.up, ~QueueLocked, Apply,
         producer' \in {"idle", "full", "swapping"},
         UNCHANGED <<mode, server, data, member, waiting, client>>
  PROVE  IInv'
<1> DEFINE r == Len(history) + 1
<1>1. /\ Types /\ Schedule /\ \A d \in Client : Side(d, client[d])
      /\ \A d \in Client : Own(client[d]) /\ client[d].peer.life <= server.life
  BY DEF IInv
<1>2. /\ history \in Records /\ queue.front \in Records /\ queue.back \in Records
      /\ queue \in [front : Records, back : Records]
  BY <1>1 DEF Types
<1>3. /\ r \in Nat /\ history' = Append(history, r)
      /\ queue' = IF ActiveClients = {} THEN queue
                  ELSE [queue EXCEPT !.back = Append(@, r)]
  BY <1>2, LenProperties DEF Apply, Records
<1> HIDE DEF r
<1>4. \A q \in Records : Append(q, r) \in Records /\ Append(q, r) = q \o <<r>>
  BY <1>3, AppendProperties, AppendIsConcat DEF Records
<1>5. /\ queue' \in [front : Records, back : Records]
      /\ queue'.front = queue.front
      /\ ActiveClients # {} => queue'.back = queue.back \o <<r>>
  BY <1>2, <1>3, <1>4
<1>6. Types'
  BY <1>1, <1>2, <1>3, <1>4, <1>5 DEF Types
<1>7. Schedule'
  BY <1>1 DEF Schedule, ActiveClients, QueueLocked, Invited, Applied
<1>8. ASSUME NEW d \in Client PROVE Side(d, client[d])'
  <2> DEFINE z == client[d]
  <2>1. Side(d, z) /\ client'[d] = z /\ z \in ClientRecord
    BY <1>1 DEF Types
  <2>2. Connected(d, client[d])'
    BY <2>1 DEF Side, Connected
  <2>3. Requesting(d, client[d])'
    BY <2>1 DEF Side, Requesting, OnOffer, Applied, Invited
  <2>4. Pipeline(d, client[d])'
    BY <2>1 DEF Side, Pipeline, One, Sent
  <2>5. Follows(d, client[d])'
    <3>1. CASE d \in data.active \ server.fresh
      <4>1. ActiveClients # {}
        BY <1>1, <3>1 DEF Schedule
      <4> DEFINE u == IF server.pc \in {"activate", "await", "dump", "send"}
                      THEN queue.front ELSE <<>>
      <4>2. /\ u \in Records /\ Unsent = u \o queue.back
            /\ Unsent' = u \o (queue.back \o <<r>>)
        BY <1>2, <1>5, <4>1, EmptyRecords DEF Unsent
      <4> HIDE DEF u
      <4>3. <<r>> \in Records /\ Unsent \in Records /\ Contents(z) \in Records
        BY <1>2, <1>3, <2>1, <4>2, ConcatRecords, ContentsRecords DEF Records
      <4>4. Unsent' = Unsent \o <<r>>
        BY <1>2, <4>2, <4>3, ConcatAssoc
      <4>5. Contents(z) \o Unsent = history
        BY <2>1, <3>1 DEF Side, Follows
      <4>6. history' = history \o <<r>>
        BY <1>2, <1>3, <1>4
      <4>7. Contents(z) \o Unsent' = (Contents(z) \o Unsent) \o <<r>>
        BY <4>3, <4>4, ConcatAssoc
      <4> QED BY <2>1, <3>1, <4>5, <4>6, <4>7 DEF Follows
    <3>2. CASE d \notin data.active \ server.fresh
      BY <2>1, <3>2 DEF Side, Follows
    <3> QED BY <3>1, <3>2
  <2>6. Latest(d, client[d])'
    BY <1>5, <2>1 DEF Side, Latest, Sent, One
  <2> QED BY <2>2, <2>3, <2>4, <2>5, <2>6 DEF Side
<1>9. \A d \in Client : Own(client'[d]) /\ client'[d].peer.life <= server'.life
  BY <1>1
<1> QED BY <1>6, <1>7, <1>8, <1>9 DEF IInv

LEMMA ProducerStep ==
  ASSUME IInv, Alter \/ Resume \/ RequestSwap \/ EndSwap
  PROVE  IInv'
<1>1. server \in ServerRecord
  BY DEF IInv, Types
<1>2. CASE Alter
  <2>1. CASE mode = "auto" /\ Len(queue.back) > SendLimit /\ ActiveClients # {}
    <3>1. /\ server' = [server EXCEPT !.full = TRUE] /\ server.up
          /\ producer' = "full"
          /\ UNCHANGED <<mode, data, history, queue, member, waiting, client>>
      BY <1>2, <2>1 DEF Alter, barrierVars
    <3>2. server' \in ServerRecord
      BY <1>1, <3>1 DEF ServerRecord
    <3>3. /\ server'.up = server.up /\ server'.life = server.life
          /\ server'.pc = server.pc /\ server'.requests = server.requests
          /\ server'.todo = server.todo /\ server'.fresh = server.fresh
          /\ server'.old = server.old /\ server'.answer = server.answer
      BY <1>1, <3>1 DEF ServerRecord
    <3> QED BY <3>1, <3>2, <3>3, FlagStep
  <2>2. CASE ~(mode = "auto" /\ Len(queue.back) > SendLimit /\ ActiveClients # {})
    <3>1. /\ Apply /\ server.up /\ ~QueueLocked
          /\ producer' = "idle"
          /\ UNCHANGED <<mode, server, data, member, waiting, client>>
      BY <1>2, <2>2 DEF Alter, barrierVars
    <3> QED BY <3>1, ApplyStep
  <2> QED BY <2>1, <2>2
<1>3. CASE Resume
  <2>1. /\ Apply /\ server.up /\ ~QueueLocked
        /\ producer' = "idle"
        /\ UNCHANGED <<mode, server, data, member, waiting, client>>
    BY <1>3 DEF Resume, barrierVars
  <2> QED BY <2>1, ApplyStep
<1>4. CASE RequestSwap
  <2>1. /\ server' = [server EXCEPT !.signal = TRUE] /\ server.up
        /\ producer' = "swapping"
        /\ UNCHANGED <<mode, data, history, queue, member, waiting, client>>
    BY <1>4 DEF RequestSwap, barrierVars
  <2>2. server' \in ServerRecord
    BY <1>1, <2>1 DEF ServerRecord
  <2>3. /\ server'.up = server.up /\ server'.life = server.life
        /\ server'.pc = server.pc /\ server'.requests = server.requests
        /\ server'.todo = server.todo /\ server'.fresh = server.fresh
        /\ server'.old = server.old /\ server'.answer = server.answer
    BY <1>1, <2>1 DEF ServerRecord
  <2> QED BY <2>1, <2>2, <2>3, FlagStep
<1>5. CASE EndSwap
  <2>1. /\ server' = [server EXCEPT !.released = FALSE] /\ server.up
        /\ producer' = "idle"
        /\ UNCHANGED <<mode, data, history, queue, member, waiting, client>>
    BY <1>5 DEF EndSwap, barrierVars
  <2>2. server' \in ServerRecord
    BY <1>1, <2>1 DEF ServerRecord
  <2>3. /\ server'.up = server.up /\ server'.life = server.life
        /\ server'.pc = server.pc /\ server'.requests = server.requests
        /\ server'.todo = server.todo /\ server'.fresh = server.fresh
        /\ server'.old = server.old /\ server'.answer = server.answer
    BY <1>1, <2>1 DEF ServerRecord
  <2> QED BY <2>1, <2>2, <2>3, FlagStep
<1> QED BY <1>2, <1>3, <1>4, <1>5

-----------------------------------------------------------------------------
(* The server process.                                                     *)

LEMMA KillStep ==
  ASSUME IInv, Kill
  PROVE  IInv'
<1>1. Types /\ \A d \in Client : Own(client[d]) /\ client[d].peer.life <= server.life
  BY DEF IInv
<1>2. /\ server' = [NewServer(server.life) EXCEPT !.up = FALSE]
      /\ Vacant /\ UNCHANGED <<mode, client>>
  BY DEF Kill
<1>3. server.life \in 1..MaxLife
  BY <1>1 DEF Types, ServerRecord
<1>4. server' \in ServerRecord /\ ~server'.up /\ server'.life = server.life
  BY <1>2, <1>3, RequestsEmpty DEF NewServer, ServerRecord
<1>5. <<>> \in Seq(Client)
  OBVIOUS
<1>6. Types'
  BY <1>1, <1>2, <1>4, <1>5, EmptyRecords DEF Types, Vacant
<1>7. Down'
  BY <1>2 DEF Down, Vacant
<1> QED BY <1>1, <1>2, <1>4, <1>6, <1>7 DEF IInv

(* No client is connected to the server that is back.                      *)
LEMMA RestartStep ==
  ASSUME IInv, Restart, Noticed'
  PROVE  IInv'
<1>1. /\ Types /\ ~server.up /\ Down
      /\ \A d \in Client : Own(client[d]) /\ client[d].peer.life <= server.life
  BY DEF IInv, Restart
<1>2. /\ server' = NewServer(server.life + 1) /\ server.life < MaxLife
      /\ UNCHANGED <<mode, data, producer, history, queue, member, waiting, client>>
  BY DEF Restart, barrierVars
<1>3. server.life \in 1..MaxLife /\ MaxLife \in Nat
  BY <1>1, SyncDataAssumption DEF Types, ServerRecord
<1>4. server.life + 1 \in 1..MaxLife /\ ~(server.life + 1 <= server.life)
  BY <1>2, <1>3
<1>5. /\ server' \in ServerRecord /\ server'.up /\ server'.life = server.life + 1
      /\ server'.pc = "top" /\ server'.requests = <<>> /\ server'.todo = <<>>
      /\ server'.fresh = {} /\ server'.old = {}
  BY <1>2, <1>4, RequestsEmpty DEF NewServer, ServerRecord
<1>6. Types'
  BY <1>1, <1>2, <1>5 DEF Types
<1>7. Applied' = {} /\ Invited' = {} /\ ~QueueLocked'
  BY <1>5, RequestsEmpty DEF Applied, Invited, QueueLocked
<1>8. Schedule'
  <2>1. "local" \in member' /\ waiting' = {} /\ data'.active = {}
    BY <1>1, <1>2 DEF Down
  <2>2. ActiveClients' = {}
    BY <1>1, <1>2, SyncDataAssumption DEF Down, ActiveClients
  <2>3. Distinct(server'.requests) /\ Distinct(server'.todo)
    BY <1>5, RequestsEmpty
  <2> QED BY <1>5, <1>7, <2>1, <2>2, <2>3 DEF Schedule
<1>9. ASSUME NEW d \in Client PROVE Side(d, client[d])'
  <2>1. /\ client'[d].bar \in {0, server'.life}
        /\ client'[d].connected => client'[d].peer.life = server'.life
    BY <1>5 DEF Noticed
  <2>2. ~client'[d].connected
    BY <1>1, <1>2, <1>4, <1>5, <2>1
  <2>3. d \notin data'.active
    BY <1>1, <1>2 DEF Down
  <2> QED BY <1>7, <2>1, <2>2, <2>3
          DEF Side, Connected, Requesting, Pipeline, Follows, Latest
<1>10. \A d \in Client : client[d].peer.life <= server.life + 1
  <2> SUFFICES ASSUME NEW d \in Client PROVE client[d].peer.life <= server.life + 1
    OBVIOUS
  <2>1. client[d].peer.life \in Nat
    BY <1>1 DEF Types, ClientRecord
  <2> QED BY <1>1, <1>3, <2>1
<1> QED BY <1>1, <1>2, <1>5, <1>6, <1>8, <1>9, <1>10 DEF IInv

-----------------------------------------------------------------------------
(* The send thread.                                                        *)

(* The sockets of those who have asked are theirs.                         *)
LEMMA FreshSockets ==
  ASSUME IInv, server.up
  PROVE  Sockets({server.requests[i].id : i \in DOMAIN server.requests})
           = Applied
<1> DEFINE q == server.requests
<1>1. \A i \in DOMAIN q : /\ q[i].id \in DOMAIN data.sockets
                          /\ data.sockets[q[i].id] = q[i].client
  <2> SUFFICES ASSUME NEW i \in DOMAIN q
               PROVE  /\ q[i].id \in DOMAIN data.sockets
                      /\ data.sockets[q[i].id] = q[i].client
    OBVIOUS
  <2> DEFINE c == q[i].client
  <2>1. q \in Requests
    BY DEF IInv, Types, ServerRecord
  <2>2. i \in 1..Len(q) /\ q[i] \in ActivationRequest
    BY <2>1, LenProperties, ElementOfSeq DEF Requests
  <2>3. c \in Client /\ c \in Applied
    BY <2>2 DEF ActivationRequest, Applied, Clients
  <2>4. Side(c, client[c])
    BY <2>3 DEF IInv
  <2>5. client[c].connected /\ Asks(q, c, client[c].peer.id)
    BY <2>3, <2>4 DEF Side, Requesting
  <2>6. q[i].id = client[c].peer.id
    BY <2>5 DEF Asks
  <2> QED BY <2>4, <2>5, <2>6 DEF Side, Connected
<1>2. Sockets({q[i].id : i \in DOMAIN q}) \subseteq Applied
  BY <1>1 DEF Sockets, Applied, Clients
<1>3. Applied \subseteq Sockets({q[i].id : i \in DOMAIN q})
  BY <1>1 DEF Sockets, Applied, Clients
<1> QED BY <1>2, <1>3

LEMMA SwapBuffersStep ==
  ASSUME IInv, SwapBuffers
  PROVE  IInv'
<1>1. /\ server.up /\ server.pc = "top"
      /\ queue' = [front |-> queue.back, back |-> <<>>]
      /\ UNCHANGED <<mode, data, producer, history, member, waiting, client>>
  BY DEF SwapBuffers, barrierVars
<1>2. /\ Types /\ Schedule /\ \A d \in Client : Side(d, client[d])
      /\ \A d \in Client : Own(client[d]) /\ client[d].peer.life <= server.life
  BY <1>1 DEF IInv
<1>3. server \in ServerRecord /\ queue.back \in Records /\ server.requests \in Requests
  BY <1>2 DEF Types, ServerRecord
<1>4. /\ server.todo = <<>> /\ Invited = {} /\ ~QueueLocked
      /\ server.fresh = {} /\ server.old = {}
  <2>1. server.todo = <<>> /\ ~QueueLocked
    BY <1>1, <1>2 DEF Schedule, QueueLocked
  <2> QED BY <1>2, <2>1, RequestsEmpty DEF Schedule, Invited
<1>5. /\ server'.up /\ server'.life = server.life /\ server' \in ServerRecord
      /\ server'.requests = <<>> /\ server'.todo = server.requests
      /\ IF server.requests = <<>> THEN server'.pc = "send"
                                   ELSE server'.pc = "activate"
      /\ server'.fresh = Applied
      /\ IF server.requests = <<>> THEN server'.old = {}
                                   ELSE server'.old = data.active
  <2>1. CASE server.requests = <<>>
    <3>1. server' = [server EXCEPT !.pc = "send", !.signal = FALSE, !.full = FALSE]
      BY <2>1 DEF SwapBuffers
    <3>2. Applied = {}
      BY <2>1, RequestsEmpty DEF Applied
    <3> QED BY <1>1, <1>3, <1>4, <2>1, <3>1, <3>2 DEF ServerRecord
  <2>2. CASE server.requests # <<>>
    <3>1. server' = [server EXCEPT !.pc = "activate", !.signal = FALSE, !.full = FALSE,
               !.requests = <<>>, !.todo = server.requests, !.old = data.active,
               !.fresh = Applied]
      BY <1>1, <2>2, FreshSockets DEF SwapBuffers
    <3>2. Applied \in SUBSET Client /\ data.active \in SUBSET Client
      <4>1. \A i \in DOMAIN server.requests : server.requests[i] \in ActivationRequest
        BY <1>3, LenProperties, ElementOfSeq DEF Requests
      <4> QED BY <1>2, <4>1 DEF Applied, Clients, ActivationRequest, Types
    <3> QED BY <1>1, <1>3, <2>2, <3>1, <3>2, RequestsEmpty DEF ServerRecord
  <2> QED BY <2>1, <2>2
<1>6. Types'
  BY <1>1, <1>2, <1>3, <1>5, EmptyRecords DEF Types
<1>7. Applied' = {} /\ Invited' = Applied /\ (QueueLocked' <=> server.requests # <<>>)
  BY <1>5, RequestsEmpty DEF Applied, Invited, QueueLocked
<1>8. server.requests = <<>> => Applied = {}
  BY RequestsEmpty DEF Applied
<1>9. Schedule'
  <2>1. ActiveClients' = ActiveClients
    BY <1>1 DEF ActiveClients
  <2>2. "local" \notin waiting /\ "local" \in member
    BY <1>1, <1>2 DEF Schedule
  <2>3. Distinct(server'.requests) /\ Distinct(server'.todo)
    BY <1>2, <1>5, RequestsEmpty DEF Schedule
  <2>4. Applied \cap data.active = {} /\ data.active = ActiveClients
    BY <1>2 DEF Schedule
  <2> QED BY <1>1, <1>5, <1>7, <1>8, <2>1, <2>2, <2>3, <2>4 DEF Schedule
<1>10. ASSUME NEW d \in Client PROVE Side(d, client[d])'
  <2> DEFINE z == client[d]
  <2>1. Side(d, z) /\ client'[d] = z /\ z \in ClientRecord
    BY <1>1, <1>2 DEF Types
  <2>2. Connected(d, client[d])'
    BY <1>1, <1>5, <2>1 DEF Side, Connected
  <2>3. Requesting(d, client[d])'
    <3>1. Asks(server'.requests, d, z.peer.id)
      BY <1>5, RequestsEmpty
    <3>2. ~OnOffer(d) /\ ~OnOffer(d)'
      BY <1>1, <1>5 DEF OnOffer
    <3> QED BY <1>4, <1>5, <1>7, <2>1, <3>1, <3>2 DEF Side, Requesting
  <2>4. ~Sent /\ ~Sent'
    BY <1>1, <1>5 DEF Sent
  <2>5. Pipeline(d, client[d])'
    BY <1>1, <1>5, <2>1, <2>4 DEF Side, Pipeline, One
  <2>6. Follows(d, client[d])'
    <3>1. Unsent = queue.back
      BY <1>1, <1>3, ConcatEmpty DEF Unsent
    <3>2. Unsent' = queue.back
      <4>1. queue'.front = queue.back /\ queue'.back = <<>>
        BY <1>1
      <4>2. server'.pc \in {"activate", "await", "dump", "send"}
        BY <1>5
      <4> QED BY <1>3, <4>1, <4>2, ConcatEmpty DEF Unsent
    <3>3. data.active \ server.fresh = data'.active \ server'.fresh
      BY <1>1, <1>2, <1>4, <1>5 DEF Schedule
    <3> QED BY <1>1, <2>1, <3>1, <3>2, <3>3 DEF Side, Follows
  <2>7. Latest(d, client[d])'
    BY <2>4 DEF Latest
  <2> QED BY <2>2, <2>3, <2>5, <2>6, <2>7 DEF Side
<1>11. \A d \in Client : Own(client'[d]) /\ client'[d].peer.life <= server'.life
  BY <1>1, <1>2, <1>5
<1> QED BY <1>5, <1>6, <1>9, <1>10, <1>11 DEF IInv

LEMMA OfferActivationStep ==
  ASSUME IInv, OfferActivation
  PROVE  IInv'
<1>1. /\ server.up /\ server.pc = "activate"
      /\ server' = [server EXCEPT !.pc = "await", !.answer = FALSE]
      /\ client' = [client EXCEPT ![Head(server.todo).client].response = TRUE]
      /\ UNCHANGED <<mode, data, producer, history, queue, member, waiting>>
  BY DEF OfferActivation, barrierVars
<1>2. /\ Types /\ Schedule /\ \A d \in Client : Side(d, client[d])
      /\ \A d \in Client : Own(client[d]) /\ client[d].peer.life <= server.life
  BY <1>1 DEF IInv
<1>3. server \in ServerRecord
  BY <1>2 DEF Types
<1>4. /\ server' \in ServerRecord /\ server'.up /\ server'.life = server.life
      /\ server'.pc = "await" /\ ~server'.answer
      /\ server'.requests = server.requests /\ server'.todo = server.todo
      /\ server'.fresh = server.fresh /\ server'.old = server.old
  BY <1>1, <1>3 DEF ServerRecord
<1>5. PICK c \in Client : c = Head(server.todo).client /\ c \in Invited
  <2>1. server.todo \in Requests /\ server.todo # <<>>
    BY <1>1, <1>2, <1>3 DEF ServerRecord, Schedule
  <2> QED BY <2>1, RequestsTail DEF ActivationRequest, Invited
<1> DEFINE y == [client[c] EXCEPT !.response = TRUE]
<1>6. client[c] \in ClientRecord
  BY <1>2, <1>5 DEF Types
<1>7. /\ y \in ClientRecord
      /\ \A d \in Client : client'[d] = IF d = c THEN y ELSE client[d]
      /\ client' \in [Client -> ClientRecord]
  BY <1>1, <1>2, <1>5, <1>6 DEF Types, ClientRecord
<1>8. Types'
  BY <1>1, <1>2, <1>4, <1>7 DEF Types
<1>9. Schedule'
  <2>1. QueueLocked' /\ QueueLocked
    BY <1>1, <1>4 DEF QueueLocked
  <2> QED BY <1>1, <1>2, <1>4, <2>1 DEF Schedule, ActiveClients, Invited, Applied
<1>10. ~Sent /\ ~Sent' /\ Unsent' = Unsent
  BY <1>1, <1>4 DEF Sent, Unsent
<1>11. \A d : ~OnOffer(d) /\ (OnOffer(d)' <=> d = c)
  BY <1>1, <1>4, <1>5 DEF OnOffer
<1>12. ASSUME NEW d \in Client, d # c PROVE Side(d, client[d])'
  <2> DEFINE z == client[d]
  <2>1. Side(d, z) /\ client'[d] = z
    BY <1>2, <1>7, <1>12
  <2>2. Connected(d, client[d])'
    BY <1>1, <1>4, <2>1 DEF Side, Connected
  <2>3. Requesting(d, client[d])'
    BY <1>1, <1>4, <1>11, <1>12, <2>1 DEF Side, Requesting, Applied, Invited
  <2>4. Pipeline(d, client[d])'
    BY <1>1, <1>4, <1>10, <2>1 DEF Side, Pipeline, One
  <2>5. Follows(d, client[d])'
    BY <1>1, <1>4, <1>10, <2>1 DEF Side, Follows
  <2>6. Latest(d, client[d])'
    BY <1>10 DEF Latest
  <2> QED BY <2>2, <2>3, <2>4, <2>5, <2>6 DEF Side
<1>13. Side(c, client[c])'
  <2> DEFINE z == client[c]
  <2>1. Side(c, z) /\ client'[c] = y /\ c \notin data.active
    BY <1>2, <1>5, <1>7 DEF Schedule
  <2>2. /\ y.response /\ y.read = z.read /\ y.connected = z.connected
        /\ y.peer = z.peer /\ y.bar = z.bar /\ y.activated = z.activated
        /\ y.release = z.release /\ (Clean(z) => Clean(y))
    BY <1>6 DEF Clean, Empty, Held, ClientRecord
  <2> HIDE DEF y
  <2>3. Connected(c, client[c])'
    BY <1>1, <1>4, <2>1, <2>2 DEF Side, Connected
  <2>4. Requesting(c, client[c])'
    <3>1. Applied' = Applied /\ Invited' = Invited
      BY <1>4 DEF Applied, Invited
    <3>2. ~OnOffer(c) /\ OnOffer(c)'
      BY <1>11
    <3> QED BY <1>4, <1>5, <2>1, <2>2, <3>1, <3>2 DEF Side, Requesting
  <2>5. Pipeline(c, client[c])' /\ Latest(c, client[c])'
    BY <1>1, <2>1 DEF Pipeline, Latest
  <2>6. Follows(c, client[c])'
    BY <1>1, <1>4, <2>1, <2>2 DEF Side, Follows
  <2> QED BY <2>3, <2>4, <2>5, <2>6 DEF Side
<1>14. \A d \in Client : Own(client'[d]) /\ client'[d].peer.life <= server'.life
  <2>1. Own(y) /\ y.peer.life <= server.life
    <3>1. Own(client[c]) /\ client[c].peer.life <= server.life
      BY <1>2, <1>5
    <3> QED BY <1>6, <3>1 DEF Own, Empty, Held, ClientRecord
  <2> QED BY <1>2, <1>4, <1>7, <2>1
<1>15. \A d \in Client : Side(d, client[d])'
  BY <1>12, <1>13
<1> QED BY <1>4, <1>8, <1>9, <1>14, <1>15 DEF IInv

LEMMA ActivateStep ==
  ASSUME IInv, Activate
  PROVE  IInv'
<1>1. /\ server.up /\ server.pc = "await" /\ server.answer
      /\ B!Join(Head(server.todo).client)
      /\ data' = [data EXCEPT !.active = @ \cup Sockets({Head(server.todo).id})]
      /\ server' = [server EXCEPT !.todo = Tail(@),
           !.pc = IF Len(server.todo) = 1 THEN "dump" ELSE "activate"]
      /\ UNCHANGED <<mode, producer, history, queue, waiting, client>>
  BY DEF Activate
<1>2. /\ Types /\ Schedule /\ \A d \in Client : Side(d, client[d])
      /\ \A d \in Client : Own(client[d]) /\ client[d].peer.life <= server.life
  BY <1>1 DEF IInv
<1>3. server \in ServerRecord
  BY <1>2 DEF Types
<1>4. server.todo \in Requests /\ server.todo # <<>>
  BY <1>1, <1>2, <1>3 DEF ServerRecord, Schedule
<1>5. PICK c \in Client : c = Head(server.todo).client /\ c \in Invited
  BY <1>4, RequestsTail DEF ActivationRequest, Invited
<1> DEFINE x == client[c]
<1>6. /\ x \in ClientRecord /\ Own(x) /\ Side(c, x)
      /\ c \notin data.active /\ c \notin member /\ c \notin waiting
      /\ c \notin Applied /\ c \in server.fresh
  <2>1. c \notin member
    BY <1>1, <1>5 DEF B!Join
  <2>2. QueueLocked
    BY <1>1 DEF QueueLocked
  <2> QED BY <1>2, <1>5, <2>1, <2>2 DEF Types, Schedule
<1>7. OnOffer(c)
  BY <1>1, <1>5 DEF OnOffer
<1>8. /\ x.connected /\ x.bar = server.life
      /\ Asks(server.todo, c, x.peer.id)
      /\ x.activated /\ x.read = "reading" /\ ~x.release
  BY <1>1, <1>5, <1>6, <1>7 DEF Side, Requesting
<1>9. Clean(x)
  BY <1>6, <1>8 DEF Side, Follows
<1>10. Sockets({Head(server.todo).id}) = {c}
  <2>1. Head(server.todo).id = x.peer.id
    BY <1>4, <1>5, <1>8, RequestsTail
  <2>2. x.peer.id \in DOMAIN data.sockets /\ data.sockets[x.peer.id] = c
    BY <1>6, <1>8 DEF Side, Connected
  <2> QED BY <2>1, <2>2 DEF Sockets
<1>11. /\ data'.sockets = data.sockets /\ data'.active = data.active \cup {c}
       /\ data' \in [sockets : Seq(Client), active : SUBSET Client]
  BY <1>1, <1>2, <1>10 DEF Types
<1>12. member' = member \cup {c}
  BY <1>1, <1>5 DEF B!Join
<1>13. /\ Tail(server.todo) \in Requests
       /\ Tail(server.todo) = <<>> <=> Len(server.todo) = 1
       /\ Clients(Tail(server.todo)) = Invited \ {c}
       /\ Distinct(Tail(server.todo))
       /\ \A d, id : Asks(server.todo, d, id) => Asks(Tail(server.todo), d, id)
  BY <1>2, <1>4, <1>5, RequestsTail DEF Schedule, Invited
<1>14. /\ server' \in ServerRecord /\ server'.up /\ server'.life = server.life
       /\ server'.pc = IF Len(server.todo) = 1 THEN "dump" ELSE "activate"
       /\ server'.todo = Tail(server.todo) /\ server'.requests = server.requests
       /\ server'.fresh = server.fresh /\ server'.old = server.old
  BY <1>1, <1>3, <1>13 DEF ServerRecord
<1>15. Types'
  BY <1>1, <1>2, <1>11, <1>12, <1>14 DEF Types
<1>16. Applied' = Applied /\ Invited' = Invited \ {c}
  BY <1>13, <1>14 DEF Applied, Invited
<1>17. Schedule'
  <2>1. QueueLocked' /\ QueueLocked
    BY <1>1, <1>14 DEF QueueLocked
  <2>2. ActiveClients' = ActiveClients \cup {c}
    BY <1>12 DEF ActiveClients
  <2>3. /\ server'.pc \in {"activate", "await"} <=> server'.todo # <<>>
        /\ "local" \in member' /\ "local" \notin waiting
    BY <1>1, <1>2, <1>12, <1>13, <1>14 DEF Schedule
  <2>4. data'.active = server.old \cup (server.fresh \ (Invited \ {c}))
        /\ queue.back = <<>> /\ server.old \cap server.fresh = {}
        /\ Invited \subseteq server.fresh /\ data.active = ActiveClients
    BY <1>2, <1>6, <1>11, <2>1 DEF Schedule
  <2>5. Distinct(server'.requests) /\ Distinct(server'.todo)
        /\ Applied \cap Invited = {}
        /\ (Applied \cup Invited) \cap data.active = {}
    BY <1>2, <1>13, <1>14 DEF Schedule
  <2> QED BY <1>1, <1>6, <1>11, <1>14, <1>16, <2>1, <2>2, <2>3, <2>4, <2>5
          DEF Schedule
<1>18. ~Sent /\ ~Sent' /\ Unsent' = Unsent
  <2>1. server'.pc \in {"activate", "dump"}
    BY <1>14
  <2>2. Unsent = queue.front \o queue.back
    BY <1>1 DEF Unsent
  <2>3. Unsent' = queue.front \o queue.back
    BY <1>1, <2>1 DEF Unsent
  <2> QED BY <1>1, <2>1, <2>2, <2>3 DEF Sent
<1>19. \A d : ~OnOffer(d)' /\ (OnOffer(d) => d = c)
  BY <1>1, <1>5, <1>14 DEF OnOffer
<1>20. ASSUME NEW d \in Client, d # c PROVE Side(d, client[d])'
  <2> DEFINE z == client[d]
  <2>1. Side(d, z) /\ client'[d] = z
    BY <1>1, <1>2
  <2>2. Connected(d, client[d])'
    BY <1>11, <1>14, <2>1 DEF Side, Connected
  <2>3. Requesting(d, client[d])'
    BY <1>13, <1>14, <1>16, <1>19, <1>20, <2>1 DEF Side, Requesting
  <2>4. Pipeline(d, client[d])'
    BY <1>1, <1>11, <1>14, <1>18, <1>20, <2>1 DEF Side, Pipeline, One
  <2>5. Follows(d, client[d])'
    BY <1>1, <1>11, <1>14, <1>18, <1>20, <2>1 DEF Side, Follows
  <2>6. Latest(d, client[d])'
    BY <1>18 DEF Latest
  <2> QED BY <2>2, <2>3, <2>4, <2>5, <2>6 DEF Side
<1>21. Side(c, client[c])'
  <2>1. client'[c] = x
    BY <1>1
  <2>2. Connected(c, client[c])'
    BY <1>6, <1>11, <1>14, <2>1 DEF Side, Connected
  <2>3. Requesting(c, client[c])'
    BY <1>6, <1>8, <1>16, <2>1 DEF Requesting
  <2>4. Pipeline(c, client[c])'
    <3>1. x.connected /\ x.read # "lost"
      BY <1>8
    <3>2. x.draw \in {"top", "null", "wait"}
      BY <1>6, <1>9, <3>1 DEF Own, Clean
    <3>3. Len(<<>>) = 0
      OBVIOUS
    <3>4. Outstanding(x) = 0
      BY <1>9, <3>2, <3>3 DEF Outstanding, One, Clean, Empty
    <3>5. ~FirstDone(x)
      BY <1>8, <1>9 DEF FirstDone, Clean
    <3> QED BY <1>1, <1>6, <1>8, <1>14, <1>18, <2>1, <3>2, <3>4, <3>5
            DEF Pipeline, One
  <2>5. Follows(c, client[c])'
    BY <1>6, <1>9, <1>14, <2>1 DEF Follows
  <2>6. Latest(c, client[c])'
    BY <1>18 DEF Latest
  <2> QED BY <2>2, <2>3, <2>4, <2>5, <2>6 DEF Side
<1>22. \A d \in Client : Own(client'[d]) /\ client'[d].peer.life <= server'.life
  BY <1>1, <1>2, <1>14
<1>23. \A d \in Client : Side(d, client[d])'
  BY <1>20, <1>21
<1> QED BY <1>14, <1>15, <1>17, <1>22, <1>23 DEF IInv

LEMMA EnterLocalStep ==
  ASSUME IInv, EnterLocal
  PROVE  IInv'
<1>1. /\ server.up /\ server.pc = "enter"
      /\ server' = [server EXCEPT !.pc = "local"]
      /\ waiting' = waiting \cup {"local"} /\ "local" \in member
      /\ UNCHANGED <<mode, data, producer, history, queue, member, client>>
  BY DEF EnterLocal, B!Enter
<1>2. /\ Types /\ Schedule /\ \A d \in Client : Side(d, client[d])
      /\ \A d \in Client : Own(client[d]) /\ client[d].peer.life <= server.life
  BY <1>1 DEF IInv
<1>3. server \in ServerRecord
  BY <1>2 DEF Types
<1>4. /\ server' \in ServerRecord /\ server'.up /\ server'.life = server.life
      /\ server'.pc = "local" /\ server'.answer = server.answer
      /\ server'.requests = server.requests /\ server'.todo = server.todo
      /\ server'.fresh = server.fresh /\ server'.old = server.old
  BY <1>1, <1>3 DEF ServerRecord
<1>5. Types'
  BY <1>1, <1>2, <1>4 DEF Types
<1>6. Schedule'
  <2>1. ~QueueLocked' /\ ~QueueLocked
    BY <1>1, <1>4 DEF QueueLocked
  <2> QED BY <1>1, <1>2, <1>4, <2>1 DEF Schedule, ActiveClients, Invited, Applied
<1>7. Sent /\ Sent' /\ Unsent' = Unsent
  BY <1>1, <1>4 DEF Sent, Unsent
<1>8. ASSUME NEW d \in Client PROVE Side(d, client[d])'
  <2> DEFINE z == client[d]
  <2>1. Side(d, z) /\ client'[d] = z
    BY <1>1, <1>2
  <2>2. d \in waiting' <=> d \in waiting
    BY <1>1, SyncDataAssumption
  <2>3. Connected(d, client[d])'
    BY <1>1, <1>4, <2>1 DEF Side, Connected
  <2>4. Requesting(d, client[d])'
    BY <1>1, <1>4, <2>1 DEF Side, Requesting, Applied, Invited, OnOffer
  <2>5. Pipeline(d, client[d])'
    BY <1>1, <1>4, <1>7, <2>1, <2>2 DEF Side, Pipeline, One
  <2>6. Follows(d, client[d])'
    BY <1>1, <1>4, <1>7, <2>1 DEF Side, Follows
  <2>7. Latest(d, client[d])'
    BY <1>1, <1>4, <1>7, <2>1 DEF Side, Latest, One
  <2> QED BY <2>3, <2>4, <2>5, <2>6, <2>7 DEF Side
<1>9. \A d \in Client : Own(client'[d]) /\ client'[d].peer.life <= server'.life
  BY <1>1, <1>2, <1>4
<1> QED BY <1>4, <1>5, <1>6, <1>8, <1>9 DEF IInv

(* Everyone who is active has entered, and is released.                    *)
LEMMA EndRoundStep ==
  ASSUME IInv, EndRound
  PROVE  IInv'
<1>1. /\ server.up /\ member \subseteq waiting /\ waiting' = {}
      /\ client' = [c \in Client |->
           IF c \in waiting THEN [client[c] EXCEPT !.release = TRUE] ELSE client[c]]
      /\ server' = [server EXCEPT !.pc = "top", !.signal = @ \/ mode = "auto",
                                  !.released = @ \/ mode = "manual"]
      /\ UNCHANGED <<mode, data, producer, history, queue, member>>
  BY DEF EndRound, B!EndRound
<1>2. /\ Types /\ Schedule /\ \A d \in Client : Side(d, client[d])
      /\ \A d \in Client : Own(client[d]) /\ client[d].peer.life <= server.life
  BY <1>1 DEF IInv
<1>3. server \in ServerRecord
  BY <1>2 DEF Types
<1>4. server.pc = "local"
  BY <1>1, <1>2 DEF Schedule
<1>5. /\ server' \in ServerRecord /\ server'.up /\ server'.life = server.life
      /\ server'.pc = "top" /\ server'.answer = server.answer
      /\ server'.requests = server.requests /\ server'.todo = server.todo
      /\ server'.fresh = server.fresh /\ server'.old = server.old
  BY <1>1, <1>3 DEF ServerRecord
<1>6. \A d \in Client : /\ client[d] \in ClientRecord
                        /\ [client[d] EXCEPT !.release = TRUE] \in ClientRecord
  <2> SUFFICES ASSUME NEW d \in Client
               PROVE  /\ client[d] \in ClientRecord
                      /\ [client[d] EXCEPT !.release = TRUE] \in ClientRecord
    OBVIOUS
  <2> DEFINE x == client[d]
  <2>1. x \in ClientRecord
    BY <1>2 DEF Types
  <2> HIDE DEF x
  <2>2. [x EXCEPT !.release = TRUE] \in ClientRecord
    BY <2>1 DEF ClientRecord
  <2> QED BY <2>1, <2>2 DEF x
<1>7. Types'
  BY <1>1, <1>2, <1>5, <1>6 DEF Types
<1>8. Schedule'
  <2>1. ~QueueLocked' /\ ~QueueLocked
    BY <1>4, <1>5 DEF QueueLocked
  <2> QED BY <1>1, <1>2, <1>4, <1>5, <2>1
          DEF Schedule, ActiveClients, Invited, Applied
<1>9. Sent /\ ~Sent' /\ Unsent' = Unsent
  BY <1>1, <1>4, <1>5 DEF Sent, Unsent
<1>10. \A d \in Client : d \in waiting <=> d \in data.active
  BY <1>1, <1>2 DEF Types, Schedule, ActiveClients
<1>11. ASSUME NEW d \in Client
       PROVE  /\ Side(d, client[d])'
              /\ Own(client'[d]) /\ client'[d].peer.life <= server.life
  <2> DEFINE x == client[d]
             y == client'[d]
  <2>1. /\ Side(d, x) /\ x \in ClientRecord /\ Own(x)
        /\ x.peer.life <= server.life
    BY <1>2 DEF Types
  <2>2. /\ y.connected = x.connected /\ y.peer = x.peer /\ y.bar = x.bar
        /\ y.activated = x.activated /\ y.inbox = x.inbox /\ y.hand = x.hand
        /\ y.stack = x.stack /\ y.draw = x.draw /\ y.first = x.first
        /\ y.replica = x.replica /\ y.read = x.read /\ y.response = x.response
        /\ y.swapReady = x.swapReady /\ y.available = x.available
        /\ y.null = x.null /\ y.conn = x.conn
        /\ IF d \in data.active THEN y.release ELSE y.release = x.release
    BY <1>1, <1>10, <2>1 DEF ClientRecord
  <2> HIDE DEF y
  <2>3. /\ Own(y) /\ y.peer.life <= server.life
        /\ Held(y) = Held(x) /\ FirstDone(y) = FirstDone(x)
        /\ Clean(y) = Clean(x)
    BY <2>1, <2>2 DEF Own, Empty, Held, FirstDone, Clean
  <2>4. /\ Outstanding(y) = Outstanding(x) /\ Contents(y) = Contents(x)
    BY <2>2 DEF Outstanding, Contents, Held
  <2>5. Connected(d, client[d])'
    BY <1>1, <1>5, <2>1, <2>2 DEF Side, Connected, y
  <2>6. Requesting(d, client[d])'
    <3>1. d \in Applied \cup Invited => d \notin data.active
      BY <1>2 DEF Schedule
    <3>2. /\ Applied' = Applied /\ Invited' = Invited
          /\ ~OnOffer(d) /\ ~OnOffer(d)'
      BY <1>4, <1>5 DEF Applied, Invited, OnOffer
    <3> QED BY <1>5, <2>1, <2>2, <3>1, <3>2 DEF Side, Requesting, y
  <2>7. Pipeline(d, client[d])'
    <3>1. ASSUME d \in data.active
          PROVE  /\ y.connected /\ y.activated /\ y.bar = server.life
                 /\ y.read # "activating" /\ y.release
                 /\ y.read = "syncing" \/ y.draw = "sync"
                 /\ Outstanding(y) = One(FirstDone(y))
      <4>1. d \in waiting
        BY <1>10, <3>1
      <4>2. Outstanding(x) + One(d \in waiting) = One(FirstDone(x)) + One(Sent)
        BY <2>1, <3>1 DEF Side, Pipeline
      <4>3. Outstanding(x) \in Nat
        BY <2>1, OutstandingNat
      <4>4. Outstanding(x) = One(FirstDone(x))
        BY <1>9, <4>1, <4>2, <4>3 DEF One
      <4> QED BY <2>1, <2>2, <2>3, <2>4, <3>1, <4>1, <4>4 DEF Side, Pipeline, One
    <3> QED BY <1>1, <1>5, <1>9, <3>1 DEF Pipeline, One, y
  <2>8. Follows(d, client[d])'
    BY <1>1, <1>5, <1>9, <2>1, <2>2, <2>3, <2>4 DEF Side, Follows, y
  <2>9. Latest(d, client[d])'
    BY <1>9 DEF Latest
  <2> QED BY <2>3, <2>5, <2>6, <2>7, <2>8, <2>9 DEF Side, y
<1> QED BY <1>5, <1>7, <1>8, <1>11 DEF IInv

-----------------------------------------------------------------------------
(* The send thread sends: the front buffer, or the dump.                   *)

SendTo(x, b) == [x EXCEPT !.inbox = Append(x.inbox, b)]

Sending(x, b, y) ==
  /\ y \in ClientRecord /\ Own(y)
  /\ y.connected = x.connected /\ y.peer = x.peer /\ y.bar = x.bar
  /\ y.activated = x.activated /\ y.response = x.response
  /\ y.release = x.release /\ y.read = x.read /\ y.draw = x.draw
  /\ y.first = x.first
  /\ Held(y) = Held(x) /\ FirstDone(y) = FirstDone(x)
  /\ Len(y.inbox) = Len(x.inbox) + 1 /\ y.inbox # <<>>
  /\ y.inbox[Len(y.inbox)] = b
  /\ Contents(y) = Contents(x) \o b
  /\ Outstanding(y) = Outstanding(x) + 1

LEMMA SentTo ==
  \A x \in ClientRecord, b \in Records :
    Own(x) /\ x.connected /\ x.read # "lost" /\ Len(x.inbox) <= 1
      => Sending(x, b, SendTo(x, b))
<1> SUFFICES ASSUME NEW x \in ClientRecord, NEW b \in Records,
                    Own(x), x.connected, x.read # "lost", Len(x.inbox) <= 1,
                    NEW y, y = SendTo(x, b)
             PROVE  Sending(x, b, y)
  OBVIOUS
<1>1. /\ Append(x.inbox, b) \in Buffers
      /\ Len(Append(x.inbox, b)) = Len(x.inbox) + 1
      /\ Append(x.inbox, b)[Len(x.inbox) + 1] = b
  BY FlattenAppend DEF ClientRecord
<1>2. y \in ClientRecord
  BY <1>1 DEF ClientRecord, SendTo
<1>3. /\ y.connected = x.connected /\ y.peer = x.peer /\ y.bar = x.bar
      /\ y.activated = x.activated /\ y.response = x.response
      /\ y.release = x.release /\ y.read = x.read /\ y.draw = x.draw
      /\ y.first = x.first /\ y.stack = x.stack /\ y.hand = x.hand
      /\ y.replica = x.replica /\ y.swapReady = x.swapReady
      /\ y.available = x.available /\ y.null = x.null /\ y.conn = x.conn
      /\ y.inbox = Append(x.inbox, b)
  BY DEF ClientRecord, SendTo
<1>4. Own(y)
  BY <1>3 DEF Own, Held
<1>5. Held(y) = Held(x) /\ FirstDone(y) = FirstDone(x)
  BY <1>3 DEF Held, FirstDone
<1>6. y.inbox # <<>>
  <2>1. x.inbox \in Seq(Records)
    BY DEF ClientRecord, Buffers
  <2> QED BY <1>3, <2>1, AppendProperties
<1>7. Contents(y) = Contents(x) \o b
  BY <1>2, <1>3, ContentsSent
<1>8. Outstanding(y) = Outstanding(x) + 1
  <2>1. Len(x.inbox) \in Nat /\ Len(x.stack) \in Nat
    BY OutstandingNat
  <2> DEFINE h == IF Held(x) THEN 1 ELSE 0
             e == IF x.draw = "drawn" THEN 1 ELSE 0
  <2>2. /\ h \in Nat /\ e \in Nat
        /\ Outstanding(x) = Len(x.inbox) + h + Len(x.stack) + e
        /\ Outstanding(y) = Len(y.inbox) + h + Len(x.stack) + e
    BY <1>3, <1>5 DEF Outstanding, One
  <2>3. Len(y.inbox) = Len(x.inbox) + 1
    BY <1>1, <1>3
  <2> DEFINE m == Len(x.inbox)
             n == Len(x.stack)
             k == Len(y.inbox)
  <2> HIDE DEF h, e, m, n, k
  <2>4. /\ m \in Nat /\ n \in Nat /\ h \in Nat /\ e \in Nat
        /\ Outstanding(x) = m + h + n + e /\ k = m + 1
        /\ Outstanding(y) = k + h + n + e
    BY <2>1, <2>2, <2>3 DEF m, n, k
  <2> QED BY <2>4
<1> QED BY <1>1, <1>2, <1>3, <1>4, <1>5, <1>6, <1>7, <1>8 DEF Sending

LEMMA SendStep ==
  ASSUME IInv, server.up, server.pc \in {"dump", "send"},
         client' = [d \in Client |-> IF d \in data.active
           THEN [client[d] EXCEPT !.inbox = Append(client[d].inbox,
                   IF d \in server.fresh THEN history ELSE queue.front)]
           ELSE client[d]],
         server' = [server EXCEPT !.pc = "enter", !.fresh = {}, !.old = {}],
         UNCHANGED <<mode, data, producer, history, queue, member, waiting>>
  PROVE  IInv'
<1>1. /\ Types /\ Schedule /\ \A d \in Client : Side(d, client[d])
      /\ \A d \in Client : Own(client[d]) /\ client[d].peer.life <= server.life
  BY DEF IInv
<1>2. server \in ServerRecord
  BY <1>1 DEF Types
<1>3. /\ server' \in ServerRecord /\ server'.up /\ server'.life = server.life
      /\ server'.pc = "enter" /\ server'.answer = server.answer
      /\ server'.requests = server.requests /\ server'.todo = server.todo
      /\ server'.fresh = {} /\ server'.old = {}
  BY <1>2 DEF ServerRecord
<1>4. ~Sent /\ Sent'
  BY <1>3 DEF Sent
<1>5. Unsent = queue.front \o queue.back /\ Unsent' = <<>> \o queue.back
  BY <1>3 DEF Unsent
<1>6. history \in Records /\ queue.front \in Records /\ queue.back \in Records
  BY <1>1 DEF Types
<1>7. server.fresh # {} => queue.back = <<>>
  BY <1>1 DEF Schedule
<1>8. Schedule'
  <2>1. ~QueueLocked'
    BY <1>3 DEF QueueLocked
  <2>2. server.todo = <<>>
    BY <1>1 DEF Schedule
  <2>3. "local" \notin waiting
    BY <1>1 DEF Schedule
  <2> QED BY <1>1, <1>3, <2>1, <2>2, <2>3
          DEF Schedule, ActiveClients, Invited, Applied
<1>9. ASSUME NEW d \in Client, d \in data.active
      PROVE  /\ client'[d] \in ClientRecord
             /\ Side(d, client[d])' /\ Own(client'[d])
             /\ client'[d].peer.life <= server.life
  <2> DEFINE x == client[d]
             b == IF d \in server.fresh THEN history ELSE queue.front
             y == client'[d]
  <2>1. /\ x \in ClientRecord /\ Own(x) /\ Side(d, x)
        /\ x.peer.life <= server.life /\ b \in Records
        /\ y = SendTo(x, b)
    BY <1>1, <1>6, <1>9 DEF Types, SendTo
  <2>2. x.connected /\ x.read # "lost"
    BY <1>9, <2>1 DEF Side, Pipeline, Connected
  <2>3. Outstanding(x) + One(d \in waiting) = One(FirstDone(x))
    <3>1. Outstanding(x) + One(d \in waiting) = One(FirstDone(x)) + One(Sent)
      BY <1>9, <2>1 DEF Side, Pipeline
    <3> QED BY <1>4, <3>1 DEF One
  <2>4. Outstanding(x) \in Nat /\ Len(x.inbox) <= Outstanding(x)
    BY <2>1, OutstandingNat
  <2>5. Len(x.inbox) <= 1
    <3>1. Len(x.inbox) \in Nat
      BY <2>1, OutstandingNat
    <3> QED BY <2>3, <2>4, <3>1 DEF One
  <2> HIDE DEF x, b, y
  <2>6. /\ y \in ClientRecord /\ Own(y)
        /\ y.connected = x.connected /\ y.peer = x.peer /\ y.bar = x.bar
        /\ y.activated = x.activated /\ y.response = x.response
        /\ y.release = x.release /\ y.read = x.read /\ y.draw = x.draw
        /\ y.first = x.first
        /\ Held(y) = Held(x) /\ FirstDone(y) = FirstDone(x)
        /\ Len(y.inbox) = Len(x.inbox) + 1 /\ y.inbox # <<>>
        /\ y.inbox[Len(y.inbox)] = b
        /\ Contents(y) = Contents(x) \o b
        /\ Outstanding(y) = Outstanding(x) + 1
    <3>1. Sending(x, b, y)
      BY <2>1, <2>2, <2>5, SentTo
    <3> QED BY <3>1 DEF Sending
  <2>7. Connected(d, client[d])'
    BY <1>3, <2>1, <2>6 DEF Side, Connected, y
  <2>8. Requesting(d, client[d])'
    <3>1. d \notin Applied \cup Invited
      BY <1>1, <1>9 DEF Schedule
    <3>2. Applied' = Applied /\ Invited' = Invited
      BY <1>3 DEF Applied, Invited
    <3>3. x.read # "activating"
      BY <1>9, <2>1 DEF Side, Pipeline
    <3> QED BY <2>6, <3>1, <3>2, <3>3 DEF Requesting, y
  <2>9. Pipeline(d, client[d])'
    <3>1. One(d \in waiting) \in Nat /\ One(FirstDone(x)) \in Nat
      BY DEF One
    <3>2. Outstanding(y) + One(d \in waiting) = One(FirstDone(y)) + 1
      BY <2>3, <2>4, <2>6, <3>1
    <3> QED BY <1>3, <1>4, <1>9, <2>1, <2>6, <3>2 DEF Side, Pipeline, One, y
  <2>10. ASSUME d \in server.fresh
         PROVE  Contents(x) = <<>> /\ x.first /\ Len(x.inbox) = 0 /\ ~Held(x)
    <3>1. Clean(x)
      BY <2>1, <2>2, <2>10 DEF Side, Follows
    <3>2. Contents(x) = <<>>
      BY <2>1, <3>1, ContentsEmpty DEF Clean
    <3>3. Len(<<>>) = 0
      OBVIOUS
    <3> QED BY <3>1, <3>2, <3>3 DEF Clean, Empty
  <2>11. Contents(y) \o Unsent' = history
    <3>1. CASE d \in server.fresh
      <4>1. Contents(y) = history
        BY <1>6, <2>6, <2>10, <3>1, ConcatEmpty DEF b
      <4>2. Unsent' = <<>>
        BY <1>5, <1>7, <3>1, EmptyRecords, ConcatEmpty
      <4> QED BY <1>6, <4>1, <4>2, ConcatEmpty
    <3>2. CASE d \notin server.fresh
      <4>1. Contents(x) \o (queue.front \o queue.back) = history
        BY <1>5, <1>9, <2>1, <3>2 DEF Side, Follows
      <4>2. Contents(y) = Contents(x) \o queue.front
        BY <2>6, <3>2 DEF b
      <4>3. Unsent' = queue.back
        BY <1>5, <1>6, ConcatEmpty
      <4>4. Contents(x) \in Records
        BY <2>1, ContentsRecords
      <4>5. (Contents(x) \o queue.front) \o queue.back = history
        BY <1>6, <4>1, <4>4, ConcatAssoc, Zenon
      <4> QED BY <4>2, <4>3, <4>5, Zenon
    <3> QED BY <3>1, <3>2
  <2>12. Follows(d, client[d])'
    BY <1>3, <1>9, <2>11 DEF Follows, y
  <2>13. Latest(d, client[d])'
    <3>1. CASE d \in server.fresh
      <4>1. y.first /\ Len(y.inbox) + One(Held(y)) = 1
        <5>1. ~Held(y)
          BY <2>6, <2>10, <3>1
        <5>2. One(Held(y)) = 0
          BY <5>1 DEF One
        <5> QED BY <2>6, <2>10, <3>1, <5>2
      <4> QED BY <4>1 DEF Latest, y
    <3>2. CASE d \notin server.fresh
      <4>1. y.inbox[Len(y.inbox)] = queue.front
        BY <2>6, <3>2 DEF b
      <4> QED BY <2>6, <4>1 DEF Latest, y
    <3> QED BY <3>1, <3>2
  <2>14. Side(d, client[d])'
    BY <2>1, <2>7, <2>8, <2>9, <2>12, <2>13 DEF Side
  <2> QED BY <2>1, <2>6, <2>14 DEF y
<1>10. ASSUME NEW d \in Client, d \notin data.active
       PROVE  client'[d] = client[d] /\ Side(d, client[d])'
  <2> DEFINE x == client[d]
  <2>1. Side(d, x) /\ client'[d] = x
    BY <1>1, <1>10
  <2>2. Connected(d, client[d])'
    BY <1>3, <2>1 DEF Side, Connected
  <2>3. Requesting(d, client[d])'
    <3>1. ~OnOffer(d) /\ ~OnOffer(d)'
      BY <1>3 DEF OnOffer
    <3> QED BY <1>3, <2>1, <3>1 DEF Side, Requesting, Applied, Invited
  <2>4. Pipeline(d, client[d])' /\ Latest(d, client[d])'
    BY <1>10 DEF Pipeline, Latest
  <2>5. Follows(d, client[d])'
    BY <1>10, <2>1 DEF Side, Follows
  <2> QED BY <2>1, <2>2, <2>3, <2>4, <2>5 DEF Side
<1>11. Types'
  <2>1. \A d \in Client : client'[d] \in ClientRecord
    BY <1>1, <1>9, <1>10 DEF Types
  <2>2. client' \in [Client -> ClientRecord]
    BY <2>1
  <2> QED BY <1>1, <1>3, <2>2 DEF Types
<1>12. \A d \in Client : /\ Own(client'[d]) /\ client'[d].peer.life <= server'.life
                         /\ Side(d, client[d])'
  BY <1>1, <1>3, <1>9, <1>10
<1> QED BY <1>3, <1>8, <1>11, <1>12 DEF IInv

LEMMA OneBuffer ==
  \A q \in Buffers, b \in Records :
    /\ q \o <<b>> \o <<>> = Append(q, b) /\ q \o <<>> \o <<b>> = Append(q, b)
    /\ q \o <<b>> = Append(q, b) /\ q \o <<>> = q /\ q \o <<>> \o <<>> = q
BY DEF Buffers

LEMMA InboxKept ==
  ASSUME NEW x \in ClientRecord
  PROVE  [x EXCEPT !.inbox = x.inbox] = x
BY DEF ClientRecord

LEMMA SendDumpStep ==
  ASSUME IInv, SendDump
  PROVE  IInv'
<1>1. /\ server.up /\ server.pc = "dump" /\ Types /\ Schedule
      /\ data.active = server.old \cup server.fresh
      /\ server.old \cap server.fresh = {}
  BY DEF SendDump, IInv, Schedule, QueueLocked, Invited, Clients
<1>2. history \in Records /\ queue.front \in Records
  BY <1>1 DEF Types
<1>3. ASSUME NEW d \in Client
      PROVE  [client[d] EXCEPT !.inbox = @ \o
                (IF d \in server.old THEN <<queue.front>> ELSE <<>>) \o
                (IF d \in server.fresh THEN <<Dump>> ELSE <<>>)]
             = IF d \in data.active
               THEN [client[d] EXCEPT !.inbox = Append(client[d].inbox,
                       IF d \in server.fresh THEN history ELSE queue.front)]
               ELSE client[d]
  <2>1. client[d] \in ClientRecord /\ client[d].inbox \in Buffers
    BY <1>1 DEF Types, ClientRecord
  <2>2. CASE d \in server.fresh
    <3>1. d \notin server.old /\ d \in data.active
      BY <1>1, <2>2
    <3> QED BY <1>2, <2>1, <2>2, <3>1, OneBuffer DEF Dump
  <2>3. CASE d \in server.old
    <3>1. d \notin server.fresh /\ d \in data.active
      BY <1>1, <2>3
    <3> QED BY <1>2, <2>1, <2>3, <3>1, OneBuffer
  <2>4. CASE d \notin server.old \cup server.fresh
    <3>1. client[d].inbox \o <<>> \o <<>> = client[d].inbox
      BY <1>2, <2>1, OneBuffer
    <3> QED BY <1>1, <2>1, <2>4, <3>1, InboxKept
  <2> QED BY <2>2, <2>3, <2>4
<1> QED BY <1>1, <1>3, SendStep DEF SendDump, barrierVars

LEMMA SendFrontStep ==
  ASSUME IInv, SendFront
  PROVE  IInv'
<1>1. /\ server.up /\ server.pc = "send" /\ Types /\ Schedule
      /\ server.old = {} /\ server.fresh = {}
  BY DEF SendFront, IInv, Schedule, QueueLocked
<1>2. queue.front \in Records /\ server \in ServerRecord
  BY <1>1 DEF Types
<1>3. ASSUME NEW d \in Client
      PROVE  [client[d] EXCEPT !.inbox = @ \o
                (IF d \in data.active THEN <<queue.front>> ELSE <<>>)]
             = IF d \in data.active
               THEN [client[d] EXCEPT !.inbox = Append(client[d].inbox,
                       IF d \in server.fresh THEN history ELSE queue.front)]
               ELSE client[d]
  <2>1. client[d] \in ClientRecord /\ client[d].inbox \in Buffers
    BY <1>1 DEF Types, ClientRecord
  <2>2. CASE d \in data.active
    BY <1>1, <1>2, <2>1, <2>2, OneBuffer
  <2>3. CASE d \notin data.active
    <3>1. client[d].inbox \o <<>> = client[d].inbox
      BY <1>2, <2>1, OneBuffer
    <3> QED BY <2>1, <2>3, <3>1, InboxKept
  <2> QED BY <2>2, <2>3
<1>4. server' = [server EXCEPT !.pc = "enter", !.fresh = {}, !.old = {}]
  BY <1>1, <1>2 DEF SendFront, ServerRecord
<1> QED BY <1>1, <1>3, <1>4, SendStep DEF SendFront, barrierVars

-----------------------------------------------------------------------------
(* The invariant holds initially, and is preserved.                        *)

LEMMA InitInv == Init => IInv
<1> SUFFICES ASSUME Init PROVE IInv
  OBVIOUS
<1>1. /\ mode \in {"auto", "manual"} /\ server = NewServer(1)
      /\ data = [sockets |-> <<>>, active |-> {}] /\ producer = "idle"
      /\ history = <<>> /\ queue = [front |-> <<>>, back |-> <<>>]
      /\ member = {"local"} /\ waiting = {}
      /\ client = [c \in Client |-> NewClient]
  BY DEF Init
<1>2. 1 \in 1..MaxLife
  BY SyncDataAssumption
<1>3. /\ server \in ServerRecord /\ server.up /\ server.life = 1
      /\ server.pc = "top" /\ server.requests = <<>> /\ server.todo = <<>>
      /\ server.fresh = {} /\ server.old = {}
  BY <1>1, <1>2, RequestsEmpty DEF NewServer, ServerRecord
<1>4. <<>> \in Seq(Client) /\ <<>> \in Buffers
  <2>1. <<>> \in Seq(Client) /\ <<>> \in Seq(Records) /\ Len(<<>>) <= 2
    OBVIOUS
  <2> QED BY <2>1 DEF Buffers
<1>5. NewClient \in ClientRecord /\ Own(NewClient) /\ NewClient.peer.life = 0
  BY <1>4, EmptyRecords DEF NewClient, ClientRecord, Own, Empty, Held
<1>6. Types
  BY <1>1, <1>3, <1>4, <1>5, EmptyRecords DEF Types
<1>7. Applied = {} /\ Invited = {} /\ ~QueueLocked
  BY <1>3, RequestsEmpty DEF Applied, Invited, QueueLocked
<1>8. Schedule
  <2>1. ActiveClients = {}
    BY <1>1, SyncDataAssumption DEF ActiveClients
  <2>2. Distinct(server.requests) /\ Distinct(server.todo)
    BY <1>3, RequestsEmpty
  <2> QED BY <1>1, <1>3, <1>7, <2>1, <2>2 DEF Schedule
<1>9. \A d \in Client : Side(d, client[d])
  <2> SUFFICES ASSUME NEW d \in Client PROVE Side(d, client[d])
    OBVIOUS
  <2>1. client[d].bar = 0 /\ ~client[d].connected /\ d \notin data.active
    BY <1>1 DEF NewClient
  <2> QED BY <1>7, <2>1
          DEF Side, Connected, Requesting, Pipeline, Follows, Latest
<1>10. \A d \in Client : Own(client[d]) /\ client[d].peer.life <= server.life
  BY <1>1, <1>3, <1>5
<1> QED BY <1>3, <1>6, <1>8, <1>9, <1>10 DEF IInv

LEMMA Stutter ==
  ASSUME IInv, UNCHANGED vars
  PROVE  IInv'
<1>1. UNCHANGED <<mode, server, data, producer, history, queue, member, waiting>>
      /\ client' = client
  BY DEF vars
<1>2. Types' = Types /\ Schedule' = Schedule /\ Down' = Down
  BY <1>1 DEF Types, Schedule, Down, ActiveClients, QueueLocked, Applied, Invited
<1>3. ASSUME NEW d \in Client, Side(d, client[d]) PROVE Side(d, client[d])'
  <2>1. Connected(d, client[d])' /\ Requesting(d, client[d])'
    BY <1>1, <1>3 DEF Side, Connected, Requesting, OnOffer, Applied, Invited
  <2>2. Pipeline(d, client[d])' /\ Latest(d, client[d])'
    BY <1>1, <1>3 DEF Side, Pipeline, Latest, Sent
  <2>3. Follows(d, client[d])'
    BY <1>1, <1>3 DEF Side, Follows, Unsent
  <2> QED BY <2>1, <2>2, <2>3 DEF Side
<1> QED BY <1>1, <1>2, <1>3 DEF IInv

LEMMA ClientStep ==
  ASSUME IInv, NEW c \in Client,
         \/ BarrierClient(c) \/ ConnectionThread(c) \/ ReadThread(c)
         \/ Consumer(c)
  PROVE  IInv'
<1>1. CASE BarrierClient(c)
  BY <1>1, ConnectBarrierStep, LoseBarrierStep DEF BarrierClient
<1>2. CASE ConnectionThread(c)
  BY <1>2, CheckBarrierStep, DialStep, SkipConsumptionStep, AskNullStep,
     EndNullStep DEF ConnectionThread
<1>3. CASE ReadThread(c)
  BY <1>3, StartReadStep, AnswerActivationStep, GetBufferStep, FirstSyncStep,
     EndFirstSyncStep, PushBufferStep, LoseDataStep, ReportLossStep
     DEF ReadThread
<1>4. CASE Consumer(c)
  BY <1>4, BeginFrameStep, NullFrameStep, EndWaitStep, DrawFrameStep,
     FrameSyncStep, EndFrameSyncStep, EndFrameStep DEF Consumer
<1> QED BY <1>1, <1>2, <1>3, <1>4

LEMMA NextStep ==
  ASSUME IInv, [Next]_vars, Restart => Noticed'
  PROVE  IInv'
<1>1. CASE SendThread
  BY <1>1, SwapBuffersStep, OfferActivationStep, ActivateStep, SendDumpStep,
     SendFrontStep, EnterLocalStep, EndRoundStep DEF SendThread
<1>2. CASE Alter \/ Resume \/ RequestSwap \/ EndSwap
  BY <1>2, ProducerStep
<1>3. CASE Kill
  BY <1>3, KillStep
<1>4. CASE Restart
  BY <1>4, RestartStep
<1>5. CASE \E c \in Client :
             \/ BarrierClient(c) \/ ConnectionThread(c) \/ ReadThread(c)
             \/ Consumer(c)
  BY <1>5, ClientStep
<1>6. CASE UNCHANGED vars
  BY <1>6, Stutter
<1> QED BY <1>1, <1>2, <1>3, <1>4, <1>5, <1>6 DEF Next

LEMMA Invariance == Spec /\ RestartsNoticed => []IInv
<1>1. IInv /\ [Next]_vars /\ [Restart => Noticed']_vars => IInv'
  BY NextStep, Stutter
<1> QED BY <1>1, InitInv, PTL DEF Spec, RestartsNoticed

-----------------------------------------------------------------------------
(* What a round and the buffers add up to.                                 *)

LEMMA TypesOK == IInv => TypeOK
<1> SUFFICES ASSUME IInv PROVE TypeOK
  OBVIOUS
<1>1. Types /\ server \in ServerRecord
  BY DEF IInv, Types
<1>2. ASSUME NEW c \in Client
      PROVE  /\ client[c].conn \in {"barrier", "dial", "up", "skip", "null"}
             /\ client[c].read \in {"idle", "activating", "reading", "first",
                                    "syncing", "synced", "swap", "lost"}
             /\ client[c].draw \in {"top", "null", "wait", "take", "drawn",
                                    "sync", "post"}
             /\ client[c].available \in 0 .. 2
             /\ client[c].null \in 0 .. 2
             /\ Len(client[c].stack) <= 1
             /\ Len(client[c].inbox) <= 2
  <2> DEFINE x == client[c]
  <2>1. x \in ClientRecord /\ Own(x)
    BY <1>1 DEF IInv, Types
  <2> HIDE DEF x
  <2>2. Len(<<>>) = 0
    OBVIOUS
  <2>3. Len(x.stack) <= 1
    <3>1. x.stack = <<>> \/ Len(x.stack) = 1
      BY <2>1 DEF Own, Empty
    <3>2. CASE x.stack = <<>>
      <4>1. Len(x.stack) = 0
        BY <2>2, <3>2, Zenon
      <4> QED BY <4>1
    <3>3. CASE Len(x.stack) = 1
      BY <3>3
    <3> QED BY <3>1, <3>2, <3>3
  <2>4. /\ x.conn \in {"barrier", "dial", "up", "skip", "null"}
        /\ x.read \in {"idle", "activating", "reading", "first",
                       "syncing", "synced", "swap", "lost"}
        /\ x.draw \in {"top", "null", "wait", "take", "drawn", "sync", "post"}
        /\ x.available \in {0, 1, 2} /\ x.null \in {0, 1, 2}
        /\ Len(x.inbox) <= 2
    BY <2>1 DEF ClientRecord, Buffers
  <2> QED BY <2>3, <2>4 DEF x
<1> QED BY <1>1, <1>2 DEF Types, ServerRecord, TypeOK

LEMMA Follow == IInv => ReplicaFollows
<1> SUFFICES ASSUME IInv, NEW c \in data.active \ server.fresh
             PROVE  Received(c) \o Unsent = history
  BY DEF ReplicaFollows
<1>1. server.up
  BY DEF IInv, Down
<1>2. c \in Client
  BY DEF IInv, Types
<1>3. Contents(client[c]) \o Unsent = history
  BY <1>1, <1>2 DEF IInv, Side, Follows
<1> QED BY <1>3 DEF Received, Contents

(* A display that the barrier releases has drawn all but the last buffer.  *)
LEMMA Drawn ==
  ASSUME IInv, EndRound, NEW c \in waiting \cap Client, client[c].draw = "sync"
  PROVE  (client[c].replica \o queue.front) \o queue.back = history
<1> DEFINE x == client[c]
<1>1. /\ server.up /\ Types /\ Schedule
      /\ x \in ClientRecord /\ Own(x) /\ Side(c, x)
  BY DEF EndRound, IInv, Types
<1>2. server.pc = "local"
  BY <1>1 DEF EndRound, B!EndRound, Schedule
<1>3. c \in data.active /\ server.fresh = {}
  BY <1>1, <1>2 DEF Types, Schedule, ActiveClients, QueueLocked
<1>4. Sent /\ Unsent = <<>> \o queue.back
  BY <1>2 DEF Sent, Unsent
<1>5. x.connected /\ x.read # "lost"
  BY <1>1, <1>3 DEF Side, Pipeline, Connected
<1>6. ~x.first /\ x.stack = <<>>
  BY <1>1, <1>5 DEF Own
<1>7. Outstanding(x) = 1
  <2>1. Outstanding(x) + One(c \in waiting) = One(FirstDone(x)) + One(Sent)
    BY <1>1, <1>3 DEF Side, Pipeline
  <2>2. FirstDone(x)
    BY <1>6 DEF FirstDone
  <2>3. Outstanding(x) \in Nat
    BY <1>1, OutstandingNat
  <2> QED BY <1>4, <2>1, <2>2, <2>3 DEF One
<1>8. Len(x.inbox) \in Nat /\ Len(x.inbox) + One(Held(x)) = 1
  <2>1. Len(x.inbox) \in Nat
    BY <1>1, OutstandingNat
  <2>2. Len(x.stack) = 0 /\ One(x.draw = "drawn") = 0
    BY <1>6 DEF One
  <2>3. Outstanding(x) = Len(x.inbox) + One(Held(x)) + 0 + 0
    BY <2>2 DEF Outstanding
  <2>4. One(Held(x)) \in Nat
    BY DEF One
  <2> QED BY <1>7, <2>1, <2>3, <2>4
<1>9. /\ x.inbox # <<>> => x.inbox[Len(x.inbox)] = queue.front
      /\ x.inbox = <<>> /\ Held(x) => x.hand = queue.front
  BY <1>1, <1>3, <1>4, <1>6 DEF Side, Latest
<1>10. /\ x.replica \in Records /\ x.hand \in Records /\ x.inbox \in Buffers
       /\ queue.front \in Records /\ queue.back \in Records
  BY <1>1 DEF Types, ClientRecord
<1>11. x.hand \o FlattenSeq(x.inbox) = queue.front
  <2>1. CASE Held(x)
    <3>1. One(Held(x)) = 1
      BY <2>1 DEF One
    <3>2. x.inbox = <<>>
      BY <1>8, <1>10, <3>1, Queues
    <3> QED BY <1>9, <1>10, <2>1, <3>2, FlattenNone, ConcatEmpty
  <2>2. CASE ~Held(x)
    <3>1. One(Held(x)) = 0
      BY <2>2 DEF One
    <3>2. Len(x.inbox) = 1 /\ x.inbox # <<>> /\ x.inbox \in Seq(Records)
      <4>1. Len(x.inbox) = 1
        BY <1>8, <3>1
      <4>2. x.inbox \in Seq(Records) /\ (x.inbox # <<>> \/ Len(x.inbox) = 0)
        BY <1>10, Queues
      <4> QED BY <4>1, <4>2
    <3>3. FlattenSeq(x.inbox) = queue.front
      BY <1>9, <3>2, FlattenOne
    <3>4. x.hand = <<>>
      BY <1>1, <2>2 DEF Own
    <3> QED BY <1>10, <3>3, <3>4, ConcatEmpty
  <2> QED BY <2>1, <2>2
<1>12. Contents(x) = x.replica \o queue.front
  <2> DEFINE f == FlattenSeq(x.inbox)
  <2>1. f \in Records
    BY <1>10, FlattenRecords
  <2>2. Contents(x) = ((x.replica \o <<>>) \o x.hand) \o f
    BY <1>6, FlattenNone DEF Contents
  <2> HIDE DEF f
  <2>3. Contents(x) = (x.replica \o x.hand) \o f
    BY <1>10, <2>2, ConcatEmpty
  <2>4. (x.replica \o x.hand) \o f = x.replica \o (x.hand \o f)
    BY <1>10, <2>1, ConcatAssoc
  <2> QED BY <1>11, <2>3, <2>4 DEF f
<1>13. Contents(x) \o Unsent = history
  BY <1>1, <1>3 DEF Side, Follows
<1>14. Unsent = queue.back
  BY <1>4, <1>10, ConcatEmpty
<1> QED BY <1>12, <1>13, <1>14

LEMMA Agree ==
  ASSUME IInv, EndRound,
         NEW c \in {e \in waiting \cap Client : client[e].draw = "sync"},
         NEW d \in {e \in waiting \cap Client : client[e].draw = "sync"}
  PROVE  client[c].replica = client[d].replica
<1> DEFINE r == client[c].replica
           s == client[d].replica
           f == queue.front
           b == queue.back
<1>1. r \in Records /\ s \in Records /\ f \in Records /\ b \in Records
  BY DEF IInv, Types, ClientRecord
<1>2. (r \o f) \o b = (s \o f) \o b
  BY Drawn
<1> HIDE DEF r, s, f, b
<1>3. r \o f \in Records /\ s \o f \in Records
  BY <1>1, ConcatRecords
<1>4. \A t, u, v \in Records : t \o v = u \o v => t = u
  BY ConcatSimplifications DEF Records
<1>5. r \o f = s \o f
  BY <1>1, <1>2, <1>3, <1>4, Zenon
<1>6. r = s
  BY <1>1, <1>4, <1>5, Zenon
<1> QED BY <1>6 DEF r, s

-----------------------------------------------------------------------------

(* The types of the state, and that at most two buffers are on their way   *)
(* to a client and at most one waits for its consumer                      *)
(* (arSyncDataClient.cpp:124-171, arSyncDataServer.cpp:141-152).           *)
THEOREM SyncDataTypeOK == Spec /\ RestartsNoticed => []TypeOK
BY Invariance, TypesOK, PTL

(* Whatever the number of clients and records and whenever they join, an   *)
(* active client gets every record once and in order: its replica, what is *)
(* in its threads' hands and what is still to be sent to it make up the    *)
(* history of the database (arSyncDataServer.cpp:115-132, 398-414,         *)
(* arSyncDataClient.cpp:124-171).                                          *)
THEOREM ReplicaFollowsHolds == Spec /\ RestartsNoticed => []ReplicaFollows
BY Invariance, Follow, PTL

(* Swap lock: two displays that the barrier releases from the end of a     *)
(* frame have drawn the same database (arSyncDataClient.cpp:133-139,       *)
(* 526-529, arSyncDataServer.cpp:141-152).                                 *)
THEOREM DisplaysAgreeHolds == Spec /\ RestartsNoticed => DisplaysAgree
<1>1. IInv /\ [Next]_vars =>
        [EndRound =>
           \A c, d \in {e \in waiting \cap Client : client[e].draw = "sync"} :
             client[c].replica = client[d].replica]_vars
  BY Agree
<1> QED BY <1>1, Invariance, PTL DEF Spec, DisplaysAgree
=============================================================================
