------------------------------ MODULE SyncData ------------------------------
(***************************************************************************)
(* arSyncDataServer and the arSyncDataClients that replicate its database, *)
(* in the synchronised modes.  The server has a producer, which alters the *)
(* database, and a send thread; a client has a connection thread, a read   *)
(* thread, a consumer, which draws, and a barrier client.  The rounds of   *)
(* the barrier are those of BarrierService; Barrier implements it.         *)
(*                                                                         *)
(* The server may be killed and started again, as another `life' with an   *)
(* empty database.  Clients stay: a client that leaves is a matter of      *)
(* Barrier.  A record is a number, and a buffer is a sequence of records;  *)
(* the dump of a database is one buffer with all its records.              *)
(***************************************************************************)
EXTENDS Naturals, Sequences, SequencesExt

CONSTANTS
  Client,
  MaxRecord,   \* records made in one life of the server
  SendLimit,   \* records in the back buffer above which the producer waits
  MaxLife

ASSUME SyncDataAssumption ==
  /\ "local" \notin Client
  /\ MaxRecord \in Nat /\ SendLimit \in Nat
  /\ MaxLife \in Nat \ {0}

VARIABLES
  mode,      \* AR_SYNC_AUTO_SERVER or AR_SYNC_MANUAL_SERVER
  server,    \* up, life, and the send thread with the flags it shares
  data,      \* the arDataServer: sockets in the order of their IDs
  producer,  \* program counter of the thread that calls receiveMessage
  history,   \* the records applied to the server's database
  queue,     \* the arQueuedData: back and front buffer
  member,    \* the barrier: participants of the round and ...
  waiting,   \* ... those that have entered
  client     \* per client: its threads and the flags they share

vars == <<mode, server, data, producer, history, queue, member, waiting,
          client>>
barrierVars == <<member, waiting>>

B == INSTANCE BarrierService WITH
       Participant <- Client \cup {"local"}, intact <- TRUE

-----------------------------------------------------------------------------
(* The server.                                                             *)

NewServer(life) ==
  [up |-> TRUE, life |-> life, pc |-> "top", signal |-> FALSE,
   released |-> FALSE, full |-> FALSE, pump |-> TRUE,
   requests |-> <<>>, todo |-> <<>>, fresh |-> {}, old |-> {},
   answer |-> FALSE]

ActiveClients == member \cap Client

QueueLocked == server.pc \in {"activate", "await", "dump"}

(* The clients behind the data sockets with these IDs, if there are any.   *)
Sockets(ids) == {data.sockets[i] : i \in ids \cap DOMAIN data.sockets}

(* Mutant: the producer is signalled, but its flag is not reset.           *)
SwapBuffersStillFull ==
  /\ server.up
  /\ server.pc = "top"
  /\ server.signal
  /\ queue' = [front |-> queue.back, back |-> <<>>]
  /\ server' =
       IF server.requests = <<>>
       THEN [server EXCEPT !.pc = "send", !.signal = FALSE]
       ELSE [server EXCEPT !.pc = "activate", !.signal = FALSE,
               !.requests = <<>>, !.todo = server.requests, !.old = data.active,
               !.fresh = Sockets({server.requests[i].id :
                                  i \in DOMAIN server.requests})]
  /\ UNCHANGED <<mode, data, producer, history, barrierVars, client>>

(* The head of the send thread's loop: wait for *_signalObject, and swap   *)
(* the buffers.  If clients have asked to be activated, _queueLock is held *)
(* until they have got their dump.                                         *)
SwapBuffers ==
  /\ server.up
  /\ server.pc = "top"
  /\ server.signal
  /\ queue' = [front |-> queue.back, back |-> <<>>]
  /\ server' =
       IF server.requests = <<>>
       THEN [server EXCEPT !.pc = "send", !.signal = FALSE, !.full = FALSE]
       ELSE [server EXCEPT !.pc = "activate", !.signal = FALSE, !.full = FALSE,
               !.requests = <<>>, !.todo = server.requests, !.old = data.active,
               !.fresh = Sockets({server.requests[i].id :
                                  i \in DOMAIN server.requests})]
  /\ UNCHANGED <<mode, data, producer, history, barrierVars, client>>

(* arBarrierServer::activatePassiveSockets: the second part of the         *)
(* handshake ...                                                           *)
OfferActivation ==
  LET c == Head(server.todo).client
  IN  /\ server.up
      /\ server.pc = "activate"
      /\ server' = [server EXCEPT !.pc = "await", !.answer = FALSE]
      /\ client' = [client EXCEPT ![c].response = TRUE]
      /\ UNCHANGED <<mode, data, producer, history, queue, barrierVars>>

(* ... and what follows the third.                                         *)
Activate ==
  LET r == Head(server.todo)
  IN  /\ server.up
      /\ server.pc = "await"
      /\ server.answer
      /\ B!Join(r.client)
      /\ waiting' = waiting
      /\ data' = [data EXCEPT !.active = @ \cup Sockets({r.id})]
      /\ server' = [server EXCEPT !.todo = Tail(@),
           !.pc = IF Len(server.todo) = 1 THEN "dump" ELSE "activate"]
      /\ UNCHANGED <<mode, producer, history, queue, client>>

(* The database as it is, serialised by _connectionCallback.               *)
Dump == history

(* Mutant: the front buffer goes to those who get the dump, too.           *)
DumpAndSendToAll ==
  /\ server.up
  /\ server.pc = "dump"
  /\ client' = [c \in Client |-> [client[c] EXCEPT !.inbox = @ \o
       (IF c \in data.active THEN <<queue.front>> ELSE <<>>) \o
       (IF c \in server.fresh THEN <<Dump>> ELSE <<>>)]]
  /\ server' = [server EXCEPT !.pc = "enter", !.fresh = {}, !.old = {}]
  /\ UNCHANGED <<mode, data, producer, history, queue, barrierVars>>

(* Still under _queueLock: the front buffer for those who were active, and *)
(* the dump for the others.                                                *)
SendDump ==
  /\ server.up
  /\ server.pc = "dump"
  /\ client' = [c \in Client |-> [client[c] EXCEPT !.inbox = @ \o
       (IF c \in server.old THEN <<queue.front>> ELSE <<>>) \o
       (IF c \in server.fresh THEN <<Dump>> ELSE <<>>)]]
  /\ server' = [server EXCEPT !.pc = "enter", !.fresh = {}, !.old = {}]
  /\ UNCHANGED <<mode, data, producer, history, queue, barrierVars>>

(* Nobody new: _queueLock is free while the front buffer is sent.          *)
SendFront ==
  /\ server.up
  /\ server.pc = "send"
  /\ client' = [c \in Client |-> [client[c] EXCEPT !.inbox = @ \o
       (IF c \in data.active THEN <<queue.front>> ELSE <<>>)]]
  /\ server' = [server EXCEPT !.pc = "enter"]
  /\ UNCHANGED <<mode, data, producer, history, queue, barrierVars>>

(* localSync                                                               *)
EnterLocal ==
  /\ server.up
  /\ server.pc = "enter"
  /\ B!Enter("local")
  /\ server' = [server EXCEPT !.pc = "local"]
  /\ UNCHANGED <<mode, data, producer, history, queue, client>>

(* Mutant: the send thread is not registered with the barrier.             *)
EndRoundOfClients ==
  /\ server.up
  /\ ActiveClients # {}
  /\ ActiveClients \subseteq waiting
  /\ waiting' = {}
  /\ client' = [c \in Client |->
       IF c \in waiting THEN [client[c] EXCEPT !.release = TRUE] ELSE client[c]]
  /\ server' = [server EXCEPT !.pc = IF @ = "local" THEN "top" ELSE @,
                              !.signal = @ \/ mode = "auto",
                              !.released = @ \/ mode = "manual"]
  /\ UNCHANGED <<mode, data, producer, history, queue, member>>

(* The barrier releases everyone, and with them the send thread or, in     *)
(* manual mode, the producer that waits in swapBuffers().                  *)
EndRound ==
  /\ server.up
  /\ B!EndRound
  /\ client' = [c \in Client |->
       IF c \in waiting THEN [client[c] EXCEPT !.release = TRUE] ELSE client[c]]
  /\ server' = [server EXCEPT !.pc = "top",
                              !.signal = @ \/ mode = "auto",
                              !.released = @ \/ mode = "manual"]
  /\ UNCHANGED <<mode, data, producer, history, queue>>

SendThread ==
  \/ SwapBuffers \/ OfferActivation \/ Activate \/ SendDump \/ SendFront
  \/ EnterLocal \/ EndRound

-----------------------------------------------------------------------------
(* The producer: receiveMessage and swapBuffers.                           *)

(* _messageCallback alters the database, and the record is queued if any   *)
(* client is active.                                                       *)
Apply ==
  LET r == Len(history) + 1
  IN  /\ history' = Append(history, r)
      /\ queue' = IF ActiveClients = {} THEN queue
                  ELSE [queue EXCEPT !.back = Append(@, r)]

Alter ==
  /\ server.up
  /\ producer = "idle"
  /\ ~QueueLocked
  /\ Len(history) < MaxRecord
  /\ IF mode = "auto" /\ Len(queue.back) > SendLimit /\ ActiveClients # {}
     THEN /\ producer' = "full"
          /\ server' = [server EXCEPT !.full = TRUE]
          /\ UNCHANGED <<history, queue>>
     ELSE /\ Apply
          /\ UNCHANGED <<producer, server>>
  /\ UNCHANGED <<mode, data, barrierVars, client>>

(* The wait for _messageBufferVar ends, and the record is handled.         *)
Resume ==
  /\ server.up
  /\ producer = "full"
  /\ ~server.full
  /\ ~QueueLocked
  /\ producer' = "idle"
  /\ Apply
  /\ UNCHANGED <<mode, server, data, barrierVars, client>>

(* swapBuffers up to its wait, and from there                              *)
RequestSwap ==
  /\ server.up
  /\ mode = "manual"
  /\ producer = "idle"
  /\ producer' = "swapping"
  /\ server' = [server EXCEPT !.signal = TRUE]
  /\ UNCHANGED <<mode, data, history, queue, barrierVars, client>>

EndSwap ==
  /\ server.up
  /\ producer = "swapping"
  /\ server.released
  /\ producer' = "idle"
  /\ server' = [server EXCEPT !.released = FALSE]
  /\ UNCHANGED <<mode, data, history, queue, barrierVars, client>>

-----------------------------------------------------------------------------
(* The server process.                                                     *)

Vacant ==
  /\ data' = [sockets |-> <<>>, active |-> {}]
  /\ producer' = "idle"
  /\ history' = <<>>
  /\ queue' = [front |-> <<>>, back |-> <<>>]
  /\ member' = {"local"}
  /\ waiting' = {}

Kill ==
  /\ server.up
  /\ server' = [NewServer(server.life) EXCEPT !.up = FALSE]
  /\ Vacant
  /\ UNCHANGED <<mode, client>>

Restart ==
  /\ ~server.up
  /\ server.life < MaxLife
  /\ server' = NewServer(server.life + 1)
  /\ UNCHANGED <<mode, data, producer, history, queue, barrierVars, client>>

-----------------------------------------------------------------------------
(* A client: its barrier client.  `bar' is the life of the server that it  *)
(* is connected to, or 0.                                                  *)

NewClient ==
  [conn |-> "barrier", read |-> "idle", draw |-> "top",
   connected |-> FALSE, peer |-> [life |-> 0, id |-> 0], inbox |-> <<>>,
   hand |-> <<>>, stack |-> <<>>, replica |-> <<>>,
   first |-> TRUE, swapReady |-> TRUE, available |-> 0, null |-> 0,
   bar |-> 0, activated |-> FALSE, response |-> FALSE, release |-> FALSE]

Current(life) == server.up /\ life = server.life

(* A step of client c that changes its own record only.                    *)
Changes(c, self) ==
  /\ client' = [client EXCEPT ![c] = self]
  /\ UNCHANGED <<mode, data, producer, history, queue, member>>

Alone == UNCHANGED <<server, waiting>>

ConnectBarrier(c) ==
  /\ client[c].bar = 0
  /\ server.up
  /\ Changes(c, [client[c] EXCEPT !.bar = server.life])
  /\ Alone

(* _dataTask of the barrier client finds that the connection is closed.    *)
LoseBarrier(c) ==
  /\ client[c].bar # 0
  /\ ~Current(client[c].bar)
  /\ Changes(c, [client[c] EXCEPT !.bar = 0, !.activated = FALSE,
                   !.release = TRUE])
  /\ Alone

BarrierClient(c) == ConnectBarrier(c) \/ LoseBarrier(c)

(* sync() up to its wait, or past it: c is then one of these.  A record to *)
(* a server that is gone may be written all the same.                      *)
Sync(c, waits, passed) ==
  \/ /\ client[c].bar # 0 /\ client[c].activated
     /\ IF Current(client[c].bar) THEN B!Enter(c) ELSE UNCHANGED barrierVars
     /\ Changes(c, waits)
     /\ UNCHANGED server
  \/ /\ ~Current(client[c].bar) \/ ~client[c].activated
     /\ Changes(c, passed)
     /\ Alone

-----------------------------------------------------------------------------
(* The connection thread.                                                  *)

(* The barrier must connect first.                                         *)
CheckBarrier(c) ==
  /\ client[c].conn = "barrier"
  /\ client[c].bar # 0
  /\ Changes(c, [client[c] EXCEPT !.conn = "dial"])
  /\ Alone

(* discoverService and dialUpFallThrough; the data server accepts the      *)
(* connection as a passive socket.                                         *)
Dial(c) ==
  /\ client[c].conn = "dial"
  /\ server.up
  /\ data' = [data EXCEPT !.sockets = Append(@, c)]
  /\ client' = [client EXCEPT ![c].conn = "up", ![c].connected = TRUE,
       ![c].peer = [life |-> server.life, id |-> Len(data.sockets) + 1]]
  /\ UNCHANGED <<mode, server, producer, history, queue, barrierVars>>

(* Mutant: the consumer is left to wait for data.                          *)
SkipConsumptionForgotten(c) ==
  /\ client[c].conn = "up"
  /\ ~client[c].connected
  /\ Changes(c, [client[c] EXCEPT !.conn = "skip"])
  /\ Alone

(* The read thread has found the connection closed.                        *)
SkipConsumption(c) ==
  /\ client[c].conn = "up"
  /\ ~client[c].connected
  /\ Changes(c, [client[c] EXCEPT !.conn = "skip", !.available = 2])
  /\ Alone

(* Ask the consumer for a null frame, and wait for it.                     *)
AskNull(c) ==
  /\ client[c].conn = "skip"
  /\ Changes(c, [client[c] EXCEPT !.conn = "null", !.null = 1])
  /\ Alone

EndNull(c) ==
  /\ client[c].conn = "null"
  /\ client[c].null = 2
  /\ Changes(c, [client[c] EXCEPT !.conn = "barrier", !.null = 0])
  /\ Alone

ConnectionThread(c) ==
  CheckBarrier(c) \/ Dial(c) \/ SkipConsumption(c) \/ AskNull(c) \/ EndNull(c)

-----------------------------------------------------------------------------
(* The read thread.                                                        *)

(* The head of its loop: ask for activation unless the barrier client is   *)
(* active.  That requestActivation may fail is ignored.                    *)
StartRead(c) ==
  LET self == client[c]
      asks == ~self.activated /\ self.bar # 0
  IN  /\ self.read = "idle"
      /\ self.connected
      /\ IF asks
         THEN \/ Changes(c, [self EXCEPT !.read = "activating",
                                         !.response = FALSE])
              \/ /\ ~Current(self.bar)
                 /\ Changes(c, [self EXCEPT !.read = "reading"])
         ELSE Changes(c, [self EXCEPT !.read = "reading"])
      /\ server' =
           IF asks /\ Current(self.bar)
           THEN [server EXCEPT
                  !.requests = Append(@, [client |-> c, id |-> self.peer.id]),
                  !.signal = @ \/ (server.pump /\ ActiveClients = {}),
                  !.pump = @ /\ ActiveClients # {}]
           ELSE server
      /\ UNCHANGED waiting

(* The wait of requestActivation ends.                                     *)
AnswerActivation(c) ==
  /\ client[c].read = "activating"
  /\ client[c].response
  /\ Changes(c, [client[c] EXCEPT !.read = "reading", !.activated = TRUE,
                   !.release = FALSE])
  /\ server' = IF Current(client[c].bar)
               THEN [server EXCEPT !.answer = TRUE] ELSE server
  /\ UNCHANGED waiting

(* getDataQueue                                                            *)
GetBuffer(c) ==
  /\ client[c].read = "reading"
  /\ client[c].inbox # <<>>
  /\ Changes(c, [client[c] EXCEPT !.hand = Head(client[c].inbox),
                   !.inbox = Tail(client[c].inbox),
                   !.read = IF client[c].first THEN "first" ELSE "swap"])
  /\ Alone

(* The first buffer of a connection is not consumed yet: the read thread   *)
(* enters the barrier itself, to have the second one sent.                 *)
FirstSync(c) ==
  /\ client[c].read = "first"
  /\ Sync(c, [client[c] EXCEPT !.read = "syncing"],
             [client[c] EXCEPT !.read = "synced"])

EndFirstSync(c) ==
  /\ client[c].read = "syncing"
  /\ client[c].release
  /\ Changes(c, [client[c] EXCEPT !.read = "synced", !.release = FALSE])
  /\ Alone

(* Mutant: the read thread does not wait for the consumer.                 *)
PushBufferAtOnce(c) ==
  /\ client[c].read \in {"synced", "swap"}
  /\ Changes(c, [client[c] EXCEPT !.read = "idle", !.first = FALSE,
                   !.swapReady = FALSE,
                   !.stack = Append(client[c].stack, client[c].hand),
                   !.hand = <<>>, !.available = 1])
  /\ Alone

(* Wait for the consumer, and hand it the buffer.                          *)
PushBuffer(c) ==
  /\ client[c].read \in {"synced", "swap"}
  /\ client[c].swapReady
  /\ Changes(c, [client[c] EXCEPT !.read = "idle", !.first = FALSE,
                   !.swapReady = FALSE,
                   !.stack = Append(client[c].stack, client[c].hand),
                   !.hand = <<>>, !.available = 1])
  /\ Alone

(* getDataQueue fails.                                                     *)
LoseData(c) ==
  /\ client[c].read = "reading"
  /\ client[c].inbox = <<>>
  /\ ~Current(client[c].peer.life)
  /\ Changes(c, [client[c] EXCEPT !.read = "lost", !.first = TRUE,
                   !.swapReady = TRUE, !.stack = <<>>])
  /\ Alone

(* The connection is reported closed last.                                 *)
ReportLoss(c) ==
  /\ client[c].read = "lost"
  /\ Changes(c, [client[c] EXCEPT !.read = "idle", !.available = 0,
                   !.connected = FALSE])
  /\ Alone

ReadThread(c) ==
  \/ StartRead(c) \/ AnswerActivation(c) \/ GetBuffer(c) \/ FirstSync(c)
  \/ EndFirstSync(c) \/ PushBuffer(c) \/ LoseData(c) \/ ReportLoss(c)

-----------------------------------------------------------------------------
(* The consumer: consume() in a loop.                                      *)

BeginFrame(c) ==
  /\ client[c].draw = "top"
  /\ Changes(c, [client[c] EXCEPT
                   !.draw = IF client[c].connected THEN "wait" ELSE "null"])
  /\ Alone

(* A black frame.  If the connection thread waits for it, the database is  *)
(* cleared by _disconnectCallback.                                         *)
NullFrame(c) ==
  /\ client[c].draw = "null"
  /\ IF client[c].null = 1
     THEN Changes(c, [client[c] EXCEPT !.draw = "top", !.replica = <<>>,
                        !.null = 2])
     ELSE Changes(c, [client[c] EXCEPT !.draw = "top"])
  /\ Alone

(* The wait for data ends; 2 is for a black frame.                         *)
EndWait(c) ==
  /\ client[c].draw = "wait"
  /\ client[c].available # 0
  /\ Changes(c, [client[c] EXCEPT
                   !.draw = IF client[c].available = 2 THEN "top" ELSE "take",
                   !.available = 0])
  /\ Alone

(* Consume exactly one buffer, unless the read thread has recycled it, and *)
(* draw the scene.                                                         *)
DrawFrame(c) ==
  /\ client[c].draw = "take"
  /\ IF client[c].stack = <<>>
     THEN Changes(c, [client[c] EXCEPT !.draw = "drawn"])
     ELSE Changes(c, [client[c] EXCEPT !.draw = "drawn",
                        !.stack = Tail(client[c].stack),
                        !.replica = client[c].replica \o Head(client[c].stack)])
  /\ Alone

FrameSync(c) ==
  /\ client[c].draw = "drawn"
  /\ IF client[c].connected
     THEN Sync(c, [client[c] EXCEPT !.draw = "sync"],
                  [client[c] EXCEPT !.draw = "post"])
     ELSE Changes(c, [client[c] EXCEPT !.draw = "post"]) /\ Alone

EndFrameSync(c) ==
  /\ client[c].draw = "sync"
  /\ client[c].release
  /\ Changes(c, [client[c] EXCEPT !.draw = "post", !.release = FALSE])
  /\ Alone

(* Mutant: the read thread is not told that the buffers may be swapped.    *)
EndFrameUnready(c) ==
  /\ client[c].draw = "post"
  /\ Changes(c, [client[c] EXCEPT !.draw = "top"])
  /\ Alone

(* _postSyncCallback shows the frame, and the next buffer may come.        *)
EndFrame(c) ==
  /\ client[c].draw = "post"
  /\ Changes(c, [client[c] EXCEPT !.draw = "top", !.swapReady = TRUE])
  /\ Alone

Consumer(c) ==
  \/ BeginFrame(c) \/ NullFrame(c) \/ EndWait(c) \/ DrawFrame(c)
  \/ FrameSync(c) \/ EndFrameSync(c) \/ EndFrame(c)

-----------------------------------------------------------------------------

Init ==
  /\ mode \in {"auto", "manual"}
  /\ server = NewServer(1)
  /\ data = [sockets |-> <<>>, active |-> {}]
  /\ producer = "idle"
  /\ history = <<>>
  /\ queue = [front |-> <<>>, back |-> <<>>]
  /\ member = {"local"}
  /\ waiting = {}
  /\ client = [c \in Client |-> NewClient]

Next ==
  \/ SendThread \/ Alter \/ Resume \/ RequestSwap \/ EndSwap
  \/ Kill \/ Restart
  \/ \E c \in Client :
       \/ BarrierClient(c) \/ ConnectionThread(c) \/ ReadThread(c) \/ Consumer(c)

Spec == Init /\ [][Next]_vars

(* Every thread runs; those that connect a client and find its connections *)
(* closed have a few steps each, so one condition serves for both.  Nobody *)
(* has to alter the database, to ask for another frame, to start a client, *)
(* or to restart the server.                                               *)
FairSpec ==
  /\ Spec
  /\ WF_vars(SendThread)
  /\ WF_vars(Resume \/ EndSwap)
  /\ \A c \in Client :
       /\ WF_vars(\/ BarrierClient(c) /\ client[c].peer.life # 0
                  \/ ConnectionThread(c))
       /\ WF_vars(ReadThread(c))
       /\ WF_vars(Consumer(c))

-----------------------------------------------------------------------------

TypeOK ==
  /\ mode \in {"auto", "manual"}
  /\ server.pc \in {"top", "activate", "await", "dump", "send", "enter", "local"}
  /\ server.life \in 1 .. MaxLife
  /\ data.active \subseteq Client
  /\ producer \in {"idle", "full", "swapping"}
  /\ member \subseteq Client \cup {"local"}
  /\ waiting \subseteq member
  /\ \A c \in Client :
       /\ client[c].conn \in {"barrier", "dial", "up", "skip", "null"}
       /\ client[c].read \in {"idle", "activating", "reading", "first",
                              "syncing", "synced", "swap", "lost"}
       /\ client[c].draw \in {"top", "null", "wait", "take", "drawn", "sync",
                              "post"}
       /\ client[c].available \in 0 .. 2
       /\ client[c].null \in 0 .. 2
       /\ Len(client[c].stack) <= 1
       /\ Len(client[c].inbox) <= 2

(* The server is back only when everyone has found that it was gone: a     *)
(* client that has not may ask the new one to activate the socket that it  *)
(* had with the old one, see Reconnects.                                   *)
Noticed ==
  server.up => \A c \in Client :
    /\ client[c].bar \in {0, server.life}
    /\ client[c].connected => client[c].peer.life = server.life

(* The records that c's threads have read or can read.                     *)
Received(c) ==
  client[c].replica \o FlattenSeq(client[c].stack) \o client[c].hand
    \o FlattenSeq(client[c].inbox)

(* The records that the server still has to send to those who were active  *)
(* before.                                                                 *)
Unsent ==
  (IF server.pc \in {"activate", "await", "dump", "send"}
   THEN queue.front ELSE <<>>) \o queue.back

(***************************************************************************)
(* What an active client has received, and what is queued for it, is the   *)
(* history of the database: a client that joins gets no record twice and   *)
(* misses none, although its dump is made while the producer waits, and    *)
(* alters the database, and buffers are on their way to others             *)
(* (arSyncDataServer.cpp:115-132, 398-414).                                *)
(***************************************************************************)
ReplicaFollows ==
  \A c \in data.active \ server.fresh : Received(c) \o Unsent = history

(***************************************************************************)
(* Swap lock: the displays that the barrier releases from the end of a     *)
(* frame have drawn the same one, also when a client has joined: its read  *)
(* thread enters a round for it (arSyncDataClient.cpp:133-139) while the   *)
(* others still draw the buffer before its dump.                           *)
(***************************************************************************)
DisplaysAgree ==
  [][EndRound =>
       \A c, d \in {e \in waiting \cap Client : client[e].draw = "sync"} :
         client[c].replica = client[d].replica]_vars

(***************************************************************************)
(* An active client catches up with the database again and again, unless   *)
(* the server is killed, and so every record is drawn in the end: the send *)
(* thread, the read thread and the consumer wait for each other in turn,   *)
(* and never all at once (arSyncDataServer.cpp:110, 394, 152;              *)
(* arSyncDataClient.cpp:130, 151, 458, 526).                               *)
(***************************************************************************)
RecordsDrawn ==
  mode = "auto" =>
    \A c \in Client :
      c \in data.active ~> ~server.up \/ client[c].replica = history

(***************************************************************************)
(* A producer that waits for the back buffer to be sent, or in             *)
(* swapBuffers() for the frame to be shown, goes on, whoever joins in the  *)
(* meantime (arSyncDataServer.cpp:116-119, 379-383, 389-396).              *)
(***************************************************************************)
ProducerResumes == producer # "idle" ~> producer = "idle"

(***************************************************************************)
(* A read thread that finds the connection closed brings the client back   *)
(* to where it can connect again, with an empty database: connection       *)
(* thread and consumer do not miss each other, whatever the consumer was   *)
(* doing (arSyncDataClient.cpp:74-91, 171-191, 427-450).                   *)
(***************************************************************************)
DisconnectCompletes ==
  \A c \in Client :
    client[c].read = "lost" ~> client[c].conn = "barrier"
                               /\ client[c].replica = <<>>

(***************************************************************************)
(* docsrc/ClusterTest.t2t:16: "Components can appear, disappear, connect,  *)
(* disconnect, and reconnect in any order".                                *)
(***************************************************************************)
Reconnects ==
  \A c \in Client :
    server.up /\ client[c].peer.life # 0 ~> ~server.up \/ c \in data.active

=============================================================================
