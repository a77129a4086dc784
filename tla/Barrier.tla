------------------------------- MODULE Barrier -------------------------------
(***************************************************************************)
(* arBarrierServer, the arBarrierClients connected to it and the passive   *)
(* and active sockets of its arDataServer.  The threads of the server are  *)
(* the release thread, one read thread per client (atomicReceive(false):   *)
(* they run side by side) and the thread that activates sockets: the main  *)
(* loop of BarrierServer.cpp, or, when `local', the send thread of an      *)
(* arSyncDataServer in AR_SYNC_AUTO_SERVER mode, which also takes part in  *)
(* the rounds.                                                             *)
(*                                                                         *)
(* Two locks are held while other locks are taken: _waitingLock and the    *)
(* _lockTransfer of the data server.  Who holds them follows from the      *)
(* program counters.  Every other lock guards a few assignments, which are *)
(* one step here.                                                          *)
(***************************************************************************)
EXTENDS Naturals, Sequences, FiniteSets

CONSTANT Client   \* connections; a client that reconnects is another one

ASSUME ClientAssumption == IsFiniteSet(Client) /\ "local" \notin Client

VARIABLES
  local,      \* registerLocal() was called before start()
  client,     \* per client: program counter of its loop, flags, signal
  up,         \* records on their way from a client to the server
  down,       \* records on their way to a client
  db,         \* the socket database of the data server
  reader,     \* per client: program counter of its read thread
  total,      \* _totalWaiting
  release,    \* program counter of the release thread
  activation, \* the thread that activates sockets, and what it shares
  signal      \* _pumpPrimingFlag, *_signalObject, _localSignal

vars == <<local, client, up, down, db, reader, total, release, activation,
          signal>>
serverVars == <<db, reader, total, release, activation, signal>>

-----------------------------------------------------------------------------
(* Locks.                                                                  *)

(* Mutant: the lock is given up while the client answers.                  *)
HoldsWaitingBriefly == {"find", "offer"}

(* activatePassiveSockets holds _waitingLock from here to here.            *)
HoldsWaiting == {"find", "offer", "await", "move"}

WaitingFree == release # "send" /\ activation.pc \notin HoldsWaiting

TransferFree == \A c \in Client : reader[c] # "removing"

(* _waitingCondVar.signal(): only the release thread waits for it.         *)
Signalled(pc) == IF pc = "wait" THEN "lock" ELSE pc

-----------------------------------------------------------------------------
(* The socket database.                                                    *)

(* _deleteSocketFromDatabase: a passive socket stays in _passiveSockets,   *)
(* and _numberConnected stays as it was.                                   *)
Deleted(d, gone) ==
  LET known == gone \cap d.ids
  IN  [d EXCEPT !.ids = @ \ known,
                !.active = @ \ known,
                !.connected = @ - Cardinality(d.active \cap known)]

(* activatePassiveSocket                                                   *)
Activated(d, c) ==
  IF c \in d.passive
  THEN [d EXCEPT !.passive = @ \ {c}, !.active = @ \cup {c}]
  ELSE d

(* _barrierDisconnectFunction, the part after _waitingLock.                *)
Primed(s, d) == [s EXCEPT !.pump = @ \/ d.connected = 0]

Gone == {c \in Client : client[c].pc = "gone"}

(* Mutant: the local loop is not counted, see Ready.                       *)
ReadyWithoutLocal ==
  /\ total >= Cardinality(db.active)
  /\ Cardinality(db.active) + (IF local THEN 1 ELSE 0) > 0

(* The release thread's condition for the end of a round.                  *)
Ready ==
  LET needed == Cardinality(db.active) + (IF local THEN 1 ELSE 0)
  IN  total >= needed /\ needed > 0

-----------------------------------------------------------------------------
(* The client.                                                             *)

(* What a client's process has in its memory, at first and at the end.     *)
Fresh(pc) ==
  [pc |-> pc, response |-> FALSE, release |-> FALSE, exiting |-> FALSE,
   finalSent |-> FALSE, stop |-> "no"]

Goto(c, pc) == client' = [client EXCEPT ![c].pc = pc]

Send(c, r) == up' = [up EXCEPT ![c] = Append(@, r)]

(* The connection is accepted passive, and gets its read thread.           *)
Accept(c) ==
  /\ client[c].pc = "new"
  /\ TransferFree
  /\ Goto(c, "connected")
  /\ db' = [db EXCEPT !.ids = @ \cup {c}, !.passive = @ \cup {c},
                      !.connected = @ + 1]
  /\ reader' = [reader EXCEPT ![c] = "read"]
  /\ UNCHANGED <<local, up, down, total, release, activation, signal>>

(* requestActivation up to its wait; it does not look at _exitProgram yet. *)
RequestActivation(c) ==
  /\ client[c].pc = "connected"
  /\ client' = [client EXCEPT ![c].pc = "requested", ![c].response = FALSE]
  /\ Send(c, "handshake")
  /\ UNCHANGED <<local, down, serverVars>>

(* The end of its wait, and the check of _exitProgram: a client that exits *)
(* does not answer, and is activated all the same.                         *)
AnswerActivation(c) ==
  /\ client[c].pc = "requested"
  /\ client[c].response \/ client[c].exiting
  /\ Goto(c, IF client[c].exiting THEN "answered" ELSE "answering")
  /\ UNCHANGED <<local, up, down, serverVars>>

(* The answer is sent, also if stop() has come in between.                 *)
SendResponse(c) ==
  /\ client[c].pc = "answering"
  /\ Goto(c, "answered")
  /\ Send(c, "response")
  /\ UNCHANGED <<local, down, serverVars>>

(* The last statement of requestActivation: _releaseSignal.reset()         *)
ResetRelease(c) ==
  /\ client[c].pc = "answered"
  /\ client' = [client EXCEPT ![c].pc = "running", ![c].release = FALSE]
  /\ UNCHANGED <<local, up, down, serverVars>>

(* sync() looks at _exitProgram before it takes _sendLock ...              *)
BeginSync(c) ==
  /\ client[c].pc = "running"
  /\ ~client[c].exiting
  /\ Goto(c, "syncing")
  /\ UNCHANGED <<local, up, down, serverVars>>

(* Mutant: sync() does not say that its record was the last one.           *)
SendTuningAgain(c) ==
  /\ client[c].pc = "syncing"
  /\ IF client[c].finalSent
     THEN /\ Goto(c, "running")
          /\ UNCHANGED up
     ELSE /\ Goto(c, "waiting")
          /\ Send(c, "tuning")
  /\ UNCHANGED <<local, down, serverVars>>

(* ... and sends under it, unless stop() has sent the last record.         *)
SendTuning(c) ==
  /\ client[c].pc = "syncing"
  /\ IF client[c].finalSent
     THEN /\ Goto(c, "running")
          /\ UNCHANGED up
     ELSE /\ client' = [client EXCEPT ![c].pc = "waiting",
                                      ![c].finalSent = @ \/ client[c].exiting]
          /\ Send(c, "tuning")
  /\ UNCHANGED <<local, down, serverVars>>

(* sync() returns: _releaseSignal.receiveSignal()                          *)
EndSync(c) ==
  /\ client[c].pc = "waiting"
  /\ client[c].release
  /\ client' = [client EXCEPT ![c].pc = "running", ![c].release = FALSE]
  /\ UNCHANGED <<local, up, down, serverVars>>

(* One turn of the client's data thread.  Once _exitProgram is set it      *)
(* handles at most the record it waits for; more of them would change      *)
(* nothing but the moment at which a last sync() returns, for stop()       *)
(* raises both flags itself.                                               *)
DataTask(c) ==
  /\ down[c] # <<>>
  /\ IF Head(down[c]) = "handshake"
     THEN client' = [client EXCEPT ![c].response = TRUE]
     ELSE client' = [client EXCEPT ![c].release = TRUE]
  /\ down' = [down EXCEPT ![c] = Tail(@)]
  /\ UNCHANGED <<local, up, serverVars>>

(* stop() in another thread of the client.  Under _activationLock, and for *)
(* _exitProgram under _sendLock too, it ends the wait for the server, ...  *)
Stop(c) ==
  /\ client[c].pc \notin {"new", "gone"}
  /\ ~client[c].exiting
  /\ client' = [client EXCEPT ![c].exiting = TRUE, ![c].response = TRUE,
                              ![c].stop = "send"]
  /\ UNCHANGED <<local, up, down, serverVars>>

(* ... under _sendLock, taken again, it sends the last record, unless a    *)
(* sync() under way has done so, ...                                       *)
SendLast(c) ==
  /\ client[c].stop = "send"
  /\ client' = [client EXCEPT ![c].finalSent = TRUE, ![c].stop = "signal"]
  /\ IF client[c].finalSent THEN UNCHANGED up ELSE Send(c, "tuning")
  /\ UNCHANGED <<local, down, serverVars>>

(* ... and lets sync() go on.                                              *)
SignalLast(c) ==
  /\ client[c].stop = "signal"
  /\ client' = [client EXCEPT ![c].release = TRUE, ![c].stop = "no"]
  /\ UNCHANGED <<local, up, down, serverVars>>

(* The process exits or crashes, and its socket is closed.                 *)
Die(c) ==
  /\ client[c].pc \notin {"new", "gone"}
  /\ client' = [client EXCEPT ![c] = Fresh("gone")]
  /\ down' = [down EXCEPT ![c] = <<>>]
  /\ UNCHANGED <<local, up, serverVars>>

-----------------------------------------------------------------------------
(* The server's read thread for client c.                                  *)

Read(c, r) ==
  /\ reader[c] = "read"
  /\ up[c] # <<>>
  /\ Head(up[c]) = r
  /\ up' = [up EXCEPT ![c] = Tail(@)]

(* Mutant: the first client does not wake the send thread.                 *)
ReceiveHandshakeUnprimed(c) ==
  /\ Read(c, "handshake")
  /\ activation' = [activation EXCEPT !.queue = Append(@, c)]
  /\ UNCHANGED <<local, client, down, db, reader, total, release, signal>>

(* _barrierDataFunction: the client asks to be activated.                  *)
ReceiveHandshake(c) ==
  /\ Read(c, "handshake")
  /\ activation' = [activation EXCEPT !.queue = Append(@, c)]
  /\ IF db.active = {} /\ signal.pump
     THEN signal' = [signal EXCEPT !.pump = FALSE, !.object = @ \/ local]
     ELSE UNCHANGED signal
  /\ UNCHANGED <<local, client, down, db, reader, total, release>>

(* _barrierDataFunction: the third part of the handshake                   *)
ReceiveResponse(c) ==
  /\ Read(c, "response")
  /\ activation' = [activation EXCEPT !.response = TRUE]
  /\ UNCHANGED <<local, client, down, db, reader, total, release, signal>>

(* Mutant: the release thread is not woken.                                *)
ReceiveTuningUnnoticed(c) ==
  /\ Read(c, "tuning")
  /\ WaitingFree
  /\ total' = total + 1
  /\ UNCHANGED <<local, client, down, db, reader, release, activation, signal>>

(* _barrierDataFunction: the client enters the barrier.                    *)
ReceiveTuning(c) ==
  /\ Read(c, "tuning")
  /\ WaitingFree
  /\ total' = total + 1
  /\ release' = Signalled(release)
  /\ UNCHANGED <<local, client, down, db, reader, activation, signal>>

(* The read fails: under _lockTransfer the socket is removed, and ...      *)
BeginRemove(c) ==
  /\ reader[c] = "read"
  /\ c \in Gone
  /\ TransferFree
  /\ reader' = [reader EXCEPT ![c] = IF c \in db.ids THEN "removing" ELSE "done"]
  /\ db' = Deleted(db, {c})
  /\ up' = [up EXCEPT ![c] = <<>>]
  /\ UNCHANGED <<local, client, down, total, release, activation, signal>>

(* ... still under it, _barrierDisconnectFunction takes _waitingLock.      *)
EndRemove(c) ==
  /\ reader[c] = "removing"
  /\ WaitingFree
  /\ reader' = [reader EXCEPT ![c] = "done"]
  /\ release' = Signalled(release)
  /\ signal' = Primed(signal, db)
  /\ UNCHANGED <<local, client, up, down, db, total, activation>>

-----------------------------------------------------------------------------
(* The release thread.                                                     *)

(* Mutant: _totalWaiting is not reset.                                     *)
CheckRoundAccumulates ==
  /\ release = "lock"
  /\ WaitingFree
  /\ release' = IF Ready THEN "send" ELSE "wait"
  /\ UNCHANGED <<local, client, up, down, db, reader, total, activation, signal>>

(* Under _waitingLock: end the round, or wait for _waitingCondVar.         *)
CheckRound ==
  /\ release = "lock"
  /\ WaitingFree
  /\ IF Ready
     THEN release' = "send" /\ total' = 0
     ELSE release' = "wait" /\ UNCHANGED total
  /\ UNCHANGED <<local, client, up, down, db, reader, activation, signal>>

(* Still under _waitingLock: sendData to every active socket.  A write to  *)
(* a client that is gone may fail; then the socket is removed, and         *)
(* _barrierDisconnectFunction takes the recursive _waitingLock again.      *)
SendRelease ==
  /\ release = "send"
  /\ TransferFree
  /\ \E failed \in SUBSET (db.active \cap Gone) :
       /\ db' = Deleted(db, failed)
       /\ signal' = IF failed \cap db.ids = {} THEN signal
                    ELSE Primed(signal, db')
  /\ down' = [c \in Client |-> IF c \in db.active \ Gone
                               THEN Append(down[c], "release") ELSE down[c]]
  /\ release' = "signal"
  /\ UNCHANGED <<local, client, up, reader, total, activation>>

(* No lock held: wake up the local loop.                                   *)
SignalRelease ==
  /\ release = "signal"
  /\ release' = "lock"
  /\ signal' = [signal EXCEPT !.object = @ \/ local, !.local = TRUE]
  /\ UNCHANGED <<local, client, up, down, db, reader, total, activation>>

-----------------------------------------------------------------------------
(* The thread that activates sockets.                                      *)

Then(list) == IF list # <<>> THEN "find" ELSE IF local THEN "sync" ELSE "top"

(* The loop's head and the first part of activatePassiveSockets: take the  *)
(* list of those who asked.  The send thread waits for *_signalObject, and *)
(* calls activatePassiveSockets only if checkWaitingSockets().             *)
TakeQueue ==
  /\ activation.pc = "top"
  /\ IF local THEN signal.object ELSE activation.queue # <<>>
  /\ signal' = [signal EXCEPT !.object = FALSE]
  /\ activation' = [activation EXCEPT
       !.todo = activation.queue, !.queue = <<>>,
       !.pc = IF activation.queue # <<>> THEN "lock" ELSE "sync"]
  /\ UNCHANGED <<local, client, up, down, db, reader, total, release>>

LockRounds ==
  /\ activation.pc = "lock"
  /\ WaitingFree
  /\ activation' = [activation EXCEPT !.pc = "find"]
  /\ UNCHANGED <<local, client, up, down, db, reader, total, release, signal>>

(* getConnectedSocket, and _activationResponse = false                     *)
FindSocket ==
  /\ activation.pc = "find"
  /\ TransferFree
  /\ activation' = [activation EXCEPT !.pc = "offer", !.response = FALSE,
                      !.found = Head(activation.todo) \in db.ids]
  /\ UNCHANGED <<local, client, up, down, db, reader, total, release, signal>>

(* The second part of the handshake; sendData ignores a NULL socket.       *)
OfferActivation ==
  LET c == Head(activation.todo)
  IN  /\ activation.pc = "offer"
      /\ activation.found => TransferFree
      /\ IF ~activation.found THEN UNCHANGED <<down, db, release, signal>>
         ELSE \/ /\ c \in Gone
                 /\ db' = Deleted(db, {c})
                 /\ IF c \in db.ids
                    THEN /\ release' = Signalled(release)
                         /\ signal' = Primed(signal, db')
                    ELSE UNCHANGED <<release, signal>>
                 /\ UNCHANGED down
              \/ /\ down' = [down EXCEPT ![c] = IF c \in Gone THEN @
                                                ELSE Append(@, "handshake")]
                 /\ UNCHANGED <<db, release, signal>>
      /\ activation' = [activation EXCEPT !.pc = "await"]
      /\ UNCHANGED <<local, client, up, reader, total>>

AwaitResponse ==
  /\ activation.pc = "await"
  /\ activation.response
  /\ activation' = [activation EXCEPT !.pc = "move"]
  /\ UNCHANGED <<local, client, up, down, db, reader, total, release, signal>>

(* activatePassiveSocket; _waitingLock is released after the last one.     *)
MoveSocket ==
  /\ activation.pc = "move"
  /\ TransferFree
  /\ db' = Activated(db, Head(activation.todo))
  /\ activation' = [activation EXCEPT !.todo = Tail(@),
                                      !.pc = Then(Tail(activation.todo))]
  /\ UNCHANGED <<local, client, up, down, reader, total, release, signal>>

(* localSync up to its wait                                                *)
EnterLocal ==
  /\ activation.pc = "sync"
  /\ WaitingFree
  /\ total' = total + 1
  /\ release' = Signalled(release)
  /\ activation' = [activation EXCEPT !.pc = "waiting"]
  /\ UNCHANGED <<local, client, up, down, db, reader, signal>>

(* localSync returns: _localSignal.receiveSignal()                         *)
LeaveLocal ==
  /\ activation.pc = "waiting"
  /\ signal.local
  /\ signal' = [signal EXCEPT !.local = FALSE]
  /\ activation' = [activation EXCEPT !.pc = "top"]
  /\ UNCHANGED <<local, client, up, down, db, reader, total, release>>

-----------------------------------------------------------------------------

Init ==
  /\ local \in BOOLEAN
  /\ client = [c \in Client |-> Fresh("new")]
  /\ up = [c \in Client |-> <<>>]
  /\ down = [c \in Client |-> <<>>]
  /\ db = [ids |-> {}, passive |-> {}, active |-> {}, connected |-> 0]
  /\ reader = [c \in Client |-> "none"]
  /\ total = 0
  /\ release = "lock"
  /\ activation = [pc |-> "top", queue |-> <<>>, todo |-> <<>>,
                   found |-> FALSE, response |-> FALSE]
  /\ signal = [pump |-> TRUE, object |-> FALSE, local |-> FALSE]

ClientLoop(c) ==
  \/ RequestActivation(c) \/ AnswerActivation(c) \/ SendResponse(c)
  \/ ResetRelease(c) \/ BeginSync(c) \/ SendTuning(c) \/ EndSync(c)

StopThread(c) == Stop(c) \/ SendLast(c) \/ SignalLast(c)

ReadThread(c) ==
  \/ ReceiveHandshake(c) \/ ReceiveResponse(c) \/ ReceiveTuning(c)
  \/ BeginRemove(c) \/ EndRemove(c)

ReleaseThread == CheckRound \/ SendRelease \/ SignalRelease

ActivationThread ==
  \/ TakeQueue \/ LockRounds \/ FindSocket \/ OfferActivation
  \/ AwaitResponse \/ MoveSocket \/ EnterLocal \/ LeaveLocal

Next ==
  \/ \E c \in Client :
       \/ Accept(c) \/ ClientLoop(c) \/ DataTask(c) \/ ReadThread(c)
       \/ StopThread(c) \/ Die(c)
  \/ ReleaseThread
  \/ ActivationThread

Spec == Init /\ [][Next]_vars

(* The threads of the server run, those of a client run as long as it is   *)
(* up, and a client that was told to stop exits.  arLock::lock tries again *)
(* and again, so a thread that finds _waitingLock free now and then gets   *)
(* it in the end, though rounds of the others go on in between.            *)
FairSpec ==
  /\ Spec
  /\ \A c \in Client :
       /\ WF_vars(ClientLoop(c))
       /\ WF_vars(DataTask(c))
       /\ WF_vars(ReadThread(c))
       /\ WF_vars(client[c].exiting /\ Die(c))
  /\ WF_vars(ReleaseThread)
  /\ WF_vars(ActivationThread)
  /\ SF_vars(LockRounds)

-----------------------------------------------------------------------------

TypeOK ==
  /\ local \in BOOLEAN
  /\ client \in [Client -> [pc : {"new", "connected", "requested", "answering",
                                  "answered", "running", "syncing", "waiting",
                                  "gone"},
                            response : BOOLEAN, release : BOOLEAN,
                            exiting : BOOLEAN, finalSent : BOOLEAN,
                            stop : {"no", "send", "signal"}]]
  /\ \A c \in Client : \A i \in DOMAIN up[c] :
       up[c][i] \in {"handshake", "response", "tuning"}
  /\ \A c \in Client : \A i \in DOMAIN down[c] :
       down[c][i] \in {"handshake", "release"}
  /\ db \in [ids : SUBSET Client, passive : SUBSET Client,
             active : SUBSET Client, connected : 0 .. Cardinality(Client)]
  /\ reader \in [Client -> {"none", "read", "removing", "done"}]
  /\ total \in 0 .. 2 * Cardinality(Client) + 1
  /\ release \in {"lock", "wait", "send", "signal"}
  /\ activation.pc \in {"top", "lock", "find", "offer", "await", "move",
                        "sync", "waiting"}
  /\ activation.todo # <<>> <=>
       activation.pc \in {"lock", "find", "offer", "await", "move"}
  /\ signal \in [pump : BOOLEAN, object : BOOLEAN, local : BOOLEAN]

SomeoneLeft == \E c \in Client : client[c].pc = "gone" \/ client[c].exiting

(* Client c stands in the barrier: it has sent its record, and no release  *)
(* has reached it since or is on its way.                                  *)
Inside(c) ==
  /\ client[c].pc = "waiting"
  /\ ~client[c].release
  /\ \A i \in DOMAIN down[c] : down[c][i] # "release"

LocalInside ==
  /\ activation.pc = "waiting"
  /\ ~signal.local
  /\ release # "signal"

(***************************************************************************)
(* A socket that is counted in _numberConnectedActive is in the database.  *)
(* Nothing removes one that is not (arDataServer.cpp:619-624), and the     *)
(* barrier would wait for it for ever.  arBarrierServer.cpp:286 holds      *)
(* _waitingLock from getConnectedSocket to activatePassiveSocket, so that  *)
(* the removal of a client, once begun, cannot end in between.             *)
(***************************************************************************)
ActiveAreConnected == db.active \subseteq db.ids

(***************************************************************************)
(* Until somebody leaves, a round ends only when every active client and   *)
(* the local loop stand in the barrier, also while clients join, and a     *)
(* release never meets a client that has not entered: one that arrived too *)
(* early would let it through later (arBarrierClient.cpp:197-203, 326).    *)
(***************************************************************************)
Abstract == INSTANCE BarrierService WITH
  Participant <- Client \cup {"local"},
  member <- (db.active \ Gone) \cup (IF local THEN {"local"} ELSE {}),
  waiting <- {c \in db.active \ Gone : Inside(c)}
             \cup (IF local /\ LocalInside THEN {"local"} ELSE {}),
  intact <- ~SomeoneLeft

ImplementsBarrierService == Abstract!Spec

(***************************************************************************)
(* Once _exitProgram is set, exactly one sync record goes out, that of a   *)
(* sync() under way or that of stop(), whichever takes _sendLock first;    *)
(* more would confuse the server (arBarrierClient.cpp:246-250, 311-316).   *)
(***************************************************************************)
Sends(c) == up'[c] = Append(up[c], "tuning")

LastRecordOnce(c) ==
  /\ client[c].finalSent =>
       ~Sends(c) /\ (client'[c].finalSent \/ client'[c].pc = "gone")
  /\ client[c].exiting /\ Sends(c) => client'[c].finalSent
  /\ client'[c].stop = "signal" => client'[c].finalSent

OneLastRecord == [][\A c \in Client : LastRecordOnce(c)]_vars

(***************************************************************************)
(* Until somebody leaves, sync() returns: no record, signal or wake-up of  *)
(* arBarrierServer.cpp:39-46, 68-109 is lost.                              *)
(***************************************************************************)
SyncReturns ==
  \A c \in Client :
    client[c].pc = "waiting" ~> client[c].pc # "waiting" \/ SomeoneLeft

(***************************************************************************)
(* Until somebody leaves, a client that asks is activated.  The three      *)
(* parts of the handshake cross the rounds of the others and, for the      *)
(* first client, depend on the send thread being woken                     *)
(* (arBarrierServer.cpp:24-29, 96-99).                                     *)
(***************************************************************************)
JoinCompletes ==
  \A c \in Client :
    client[c].pc = "requested" ~> c \in db.active \/ SomeoneLeft

(***************************************************************************)
(* docsrc/Testing.t2t:106-109 of the test programs, whose loops are those  *)
(* of this module: they "should be able to run indefinitely and tolerate   *)
(* ... dynamically adding and subtracting BarrierClient nodes".            *)
(***************************************************************************)
SyncAlwaysReturns ==
  \A c \in Client : client[c].pc = "waiting" ~> client[c].pc # "waiting"

=============================================================================
