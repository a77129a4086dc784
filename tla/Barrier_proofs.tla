--------------------------- MODULE Barrier_proofs ---------------------------
(***************************************************************************)
(* The socket database of the barrier server keeps its promise: what is    *)
(* counted active is connected.  The argument follows the answer to the    *)
(* server's offer.  At most one is under way, it is that of the client at  *)
(* the head of the list, and while it is awaited _waitingLock keeps the    *)
(* removal of that client from ending.  A second part proves that a client *)
(* which stops sends exactly one more record.  The third proves the bounds *)
(* of the type invariant: every record that is counted was owed by         *)
(* somebody, and what is owed never grows.                                 *)
(***************************************************************************)
EXTENDS Barrier, TLAPS, FiniteSetTheorems, FunctionTheorems,
        SequenceTheorems

(* The record r is in the queue s; it is there once at most.               *)
Has(s, r) == \E i \in DOMAIN s : s[i] = r
Once(s, r) == \A i, j \in DOMAIN s : s[i] = r /\ s[j] = r => i = j

LEMMA NothingInEmpty ==
  ASSUME NEW r
  PROVE  ~Has(<<>>, r) /\ Once(<<>>, r)
BY DEF Has, Once

LEMMA AppendHas ==
  ASSUME NEW S, NEW s \in Seq(S), NEW x \in S, NEW r
  PROVE  /\ Append(s, x) \in Seq(S)
         /\ Has(Append(s, x), r) <=> Has(s, r) \/ x = r
         /\ Once(s, r) /\ (x = r => ~Has(s, r)) => Once(Append(s, x), r)
<1> DEFINE t == Append(s, x)
<1>1. /\ t \in Seq(S) /\ Len(t) = Len(s) + 1 /\ t[Len(s) + 1] = x
      /\ \A i \in 1..Len(s) : t[i] = s[i]
      /\ Len(s) \in Nat
      /\ DOMAIN s = 1..Len(s) /\ DOMAIN t = 1..Len(t)
  BY AppendProperties, LenProperties
<1> HIDE DEF t
<1>2. \A i : i \in DOMAIN t <=> i \in DOMAIN s \/ i = Len(s) + 1
  BY <1>1
<1>3. Has(t, r) <=> Has(s, r) \/ x = r
  BY <1>1, <1>2 DEF Has
<1>4. Once(s, r) /\ (x = r => ~Has(s, r)) => Once(t, r)
  BY <1>1, <1>2 DEF Has, Once
<1> QED BY <1>1, <1>3, <1>4 DEF t

LEMMA TailHas ==
  ASSUME NEW S, NEW s \in Seq(S), s # <<>>, NEW r
  PROVE  /\ Tail(s) \in Seq(S) /\ Head(s) \in S
         /\ Has(s, r) <=> Has(Tail(s), r) \/ Head(s) = r
         /\ Once(s, r) => Once(Tail(s), r)
         /\ Once(s, r) /\ Head(s) = r => ~Has(Tail(s), r)
<1> DEFINE t == Tail(s)
<1>1. /\ t \in Seq(S) /\ Head(s) \in S /\ Head(s) = s[1]
      /\ Len(s) \in Nat \ {0} /\ Len(t) = Len(s) - 1
      /\ \A i \in 1..Len(t) : t[i] = s[i + 1]
      /\ DOMAIN s = 1..Len(s) /\ DOMAIN t = 1..Len(t)
  BY HeadTailProperties, LenProperties, EmptySeq
<1> HIDE DEF t
<1>2. /\ \A i \in DOMAIN t : i + 1 \in DOMAIN s /\ t[i] = s[i + 1] /\ i + 1 # 1
      /\ \A i \in DOMAIN s : i = 1 \/ (i - 1 \in DOMAIN t /\ s[i] = t[i - 1])
      /\ 1 \in DOMAIN s
      /\ DOMAIN t \subseteq Int
  BY <1>1
<1>3. Has(s, r) <=> Has(t, r) \/ Head(s) = r
  BY <1>1, <1>2 DEF Has
<1>4. Once(s, r) => Once(t, r)
  <2> SUFFICES ASSUME Once(s, r), NEW i \in DOMAIN t, NEW j \in DOMAIN t,
                      t[i] = r, t[j] = r
               PROVE  i = j
    BY DEF Once
  <2>1. i + 1 = j + 1
    BY <1>2 DEF Once
  <2> QED BY <1>2, <2>1
<1>5. Once(s, r) /\ Head(s) = r => ~Has(t, r)
  BY <1>1, <1>2 DEF Has, Once
<1> QED BY <1>1, <1>3, <1>4, <1>5 DEF t

-----------------------------------------------------------------------------
(* Types, without the bounds on the two counters.                          *)

ClientState ==
  [pc : {"new", "connected", "requested", "answering", "answered", "running",
         "syncing", "waiting", "gone"},
   response : BOOLEAN, release : BOOLEAN, exiting : BOOLEAN,
   finalSent : BOOLEAN, stop : {"no", "send", "signal"}]

Upward == {"handshake", "response", "tuning"}
Downward == {"handshake", "release"}

Database ==
  [ids : SUBSET Client, passive : SUBSET Client, active : SUBSET Client,
   connected : Int]

Activation ==
  [pc : {"top", "lock", "find", "offer", "await", "move", "sync", "waiting"},
   queue : Seq(Client), todo : Seq(Client), found : BOOLEAN,
   response : BOOLEAN]

Types ==
  /\ local \in BOOLEAN
  /\ client \in [Client -> ClientState]
  /\ up \in [Client -> Seq(Upward)]
  /\ down \in [Client -> Seq(Downward)]
  /\ db \in Database
  /\ reader \in [Client -> {"none", "read", "removing", "done"}]
  /\ total \in Nat
  /\ release \in {"lock", "wait", "send", "signal"}
  /\ activation \in Activation
  /\ signal \in [pump : BOOLEAN, object : BOOLEAN, local : BOOLEAN]

(* The list is being worked on.                                            *)
Listed ==
  activation.pc \in {"lock"} \cup HoldsWaiting => activation.todo # <<>>

LEMMA DeletedParts ==
  ASSUME NEW d \in Database, NEW gone
  PROVE  /\ Deleted(d, gone) \in Database
         /\ Deleted(d, gone).ids = d.ids \ gone
         /\ Deleted(d, gone).active = d.active \ (gone \cap d.ids)
         /\ Deleted(d, gone).passive = d.passive
<1> DEFINE known == gone \cap d.ids
           k == Cardinality(d.active \cap known)
<1>1. k \in Nat
  <2>1. d.active \cap known \in SUBSET Client
    BY DEF Database
  <2> QED BY <2>1, ClientAssumption, FS_Subset, FS_CardinalityType
<1>2. Deleted(d, gone) = [d EXCEPT !.ids = @ \ known, !.active = @ \ known,
                                   !.connected = @ - k]
  BY DEF Deleted
<1>3. d.connected - k \in Int
  BY <1>1 DEF Database
<1> HIDE DEF k
<1>4. /\ Deleted(d, gone).ids = d.ids \ known
      /\ Deleted(d, gone).active = d.active \ known
      /\ Deleted(d, gone).passive = d.passive
  BY <1>2 DEF Database
<1>5. d.ids \ known \in SUBSET Client /\ d.active \ known \in SUBSET Client
  BY DEF Database
<1>6. Deleted(d, gone) \in Database
  <2> HIDE DEF known
  <2> QED BY <1>2, <1>3, <1>5 DEF Database
<1> QED BY <1>4, <1>6

LEMMA ActivatedParts ==
  ASSUME NEW d \in Database, NEW c \in Client
  PROVE  /\ Activated(d, c) \in Database
         /\ Activated(d, c).ids = d.ids
         /\ Activated(d, c).active =
              IF c \in d.passive THEN d.active \cup {c} ELSE d.active
         /\ Activated(d, c).passive = d.passive \ {c}
BY DEF Activated, Database

LEMMA InitTypes == Init => Types
BY EmptySeq DEF Init, Fresh, Types, ClientState, Database, Activation

(* A client's state with one or two fields changed is one.                 *)
LEMMA ClientActionTypes ==
  ASSUME Types, NEW c \in Client,
         \/ ClientLoop(c) \/ DataTask(c) \/ StopThread(c) \/ Die(c)
  PROVE  Types'
<1>1. /\ local' = local /\ db' = db /\ reader' = reader /\ total' = total
      /\ release' = release /\ activation' = activation /\ signal' = signal
  BY DEF ClientLoop, RequestActivation, AnswerActivation, SendResponse,
         ResetRelease, BeginSync, SendTuning, EndSync, DataTask, StopThread,
         Stop, SendLast, SignalLast, Die, Fresh, serverVars
<1>2. client' \in [Client -> ClientState]
  <2>1. client \in [Client -> ClientState]
    BY DEF Types
  <2>2. \E s \in ClientState : client' = [client EXCEPT ![c] = s]
    <3>0. client[c] \in ClientState
      BY <2>1
    <3>1. CASE ClientLoop(c)
      BY <2>1, <3>0, <3>1 DEF ClientLoop, RequestActivation, AnswerActivation,
                              SendResponse, ResetRelease, BeginSync,
                              SendTuning, EndSync, Goto, ClientState
    <3>2. CASE DataTask(c) \/ StopThread(c)
      <4>1. \/ client' = [client EXCEPT ![c].response = TRUE]
            \/ client' = [client EXCEPT ![c].release = TRUE]
            \/ client' = [client EXCEPT ![c].exiting = TRUE,
                                        ![c].response = TRUE,
                                        ![c].stop = "send"]
            \/ client' = [client EXCEPT ![c].finalSent = TRUE,
                                        ![c].stop = "signal"]
            \/ client' = [client EXCEPT ![c].release = TRUE, ![c].stop = "no"]
        BY <3>2 DEF DataTask, StopThread, Stop, SendLast, SignalLast
      <4> QED BY <2>1, <3>0, <4>1 DEF ClientState
    <3>3. CASE Die(c)
      <4>1. Fresh("gone") \in ClientState
        BY DEF Fresh, ClientState
      <4> QED BY <3>3, <4>1 DEF Die
    <3> QED BY <3>1, <3>2, <3>3
  <2> QED BY <2>1, <2>2
<1>3. up' \in [Client -> Seq(Upward)]
  <2>0. up \in [Client -> Seq(Upward)]
    BY DEF Types
  <2>1. \/ up' = up
        \/ \E r \in Upward : up' = [up EXCEPT ![c] = Append(@, r)]
    BY DEF ClientLoop, RequestActivation, AnswerActivation, SendResponse,
           ResetRelease, BeginSync, SendTuning, EndSync, DataTask, StopThread,
           Stop, SendLast, SignalLast, Die, Fresh, Send, Upward
  <2>2. \A r \in Upward : Append(up[c], r) \in Seq(Upward)
    BY <2>0, AppendProperties
  <2> QED BY <2>0, <2>1, <2>2
<1>4. down' \in [Client -> Seq(Downward)]
  <2>0. down \in [Client -> Seq(Downward)]
    BY DEF Types
  <2>1. \/ down' = down
        \/ down' = [down EXCEPT ![c] = <<>>]
        \/ down[c] # <<>> /\ down' = [down EXCEPT ![c] = Tail(@)]
    BY DEF ClientLoop, RequestActivation, AnswerActivation, SendResponse,
           ResetRelease, BeginSync, SendTuning, EndSync, DataTask, StopThread,
           Stop, SendLast, SignalLast, Die, Fresh
  <2>2. /\ down[c] # <<>> => Tail(down[c]) \in Seq(Downward)
        /\ <<>> \in Seq(Downward)
    BY <2>0, HeadTailProperties, EmptySeq
  <2> QED BY <2>0, <2>1, <2>2
<1> QED BY <1>1, <1>2, <1>3, <1>4 DEF Types

LEMMA AcceptTypes ==
  ASSUME Types, NEW c \in Client, Accept(c)
  PROVE  Types'
<1>1. client' \in [Client -> ClientState]
  <2>1. client' = [client EXCEPT ![c].pc = "connected"]
        /\ client \in [Client -> ClientState] /\ client[c] \in ClientState
    BY DEF Types, Accept, Goto
  <2>2. [client[c] EXCEPT !.pc = "connected"] \in ClientState
    BY <2>1 DEF ClientState
  <2> QED BY <2>1, <2>2
<1>2. db' \in Database
  <2>1. db \in Database
    BY DEF Types
  <2>2. db.ids \cup {c} \in SUBSET Client /\ db.passive \cup {c} \in SUBSET Client
        /\ db.connected + 1 \in Int
    BY <2>1 DEF Database
  <2> QED BY <2>1, <2>2 DEF Accept, Database
<1>3. reader' \in [Client -> {"none", "read", "removing", "done"}]
  BY DEF Types, Accept
<1> QED BY <1>1, <1>2, <1>3 DEF Types, Accept

(* What is appended to the list of those who asked.                        *)
LEMMA QueueTypes ==
  ASSUME Types, NEW c \in Client
  PROVE  [activation EXCEPT !.queue = Append(@, c)] \in Activation
<1>1. activation \in Activation /\ activation.queue \in Seq(Client)
  BY DEF Types, Activation
<1>2. Append(activation.queue, c) \in Seq(Client)
  BY <1>1, AppendProperties
<1> QED BY <1>1, <1>2 DEF Activation

LEMMA SignalTypes ==
  ASSUME Types, NEW d
  PROVE  /\ Signalled(release) \in {"lock", "wait", "send", "signal"}
         /\ Primed(signal, d) \in [pump : BOOLEAN, object : BOOLEAN,
                                   local : BOOLEAN]
         /\ Primed(signal, d).local = signal.local
BY DEF Types, Signalled, Primed

LEMMA ReadThreadTypes ==
  ASSUME Types, NEW c \in Client, ReadThread(c)
  PROVE  Types'
<1>0. /\ up \in [Client -> Seq(Upward)] /\ activation \in Activation
      /\ signal \in [pump : BOOLEAN, object : BOOLEAN, local : BOOLEAN]
      /\ reader \in [Client -> {"none", "read", "removing", "done"}]
      /\ db \in Database /\ total \in Nat
  BY DEF Types
<1>1. CASE ReceiveHandshake(c) \/ ReceiveResponse(c) \/ ReceiveTuning(c)
  <2>1. up' \in [Client -> Seq(Upward)]
    <3>1. up[c] # <<>> /\ up' = [up EXCEPT ![c] = Tail(@)]
      BY <1>1 DEF ReceiveHandshake, ReceiveResponse, ReceiveTuning, Read
    <3>2. Tail(up[c]) \in Seq(Upward)
      BY <1>0, <3>1, HeadTailProperties
    <3> QED BY <1>0, <3>1, <3>2
  <2>2. CASE ReceiveHandshake(c)
    <3>1. activation' \in Activation
      BY <2>2, QueueTypes DEF ReceiveHandshake
    <3>2. signal' \in [pump : BOOLEAN, object : BOOLEAN, local : BOOLEAN]
      BY <1>0, <2>2 DEF ReceiveHandshake, Types
    <3> QED BY <2>1, <2>2, <3>1, <3>2 DEF Types, ReceiveHandshake
  <2>3. CASE ReceiveResponse(c)
    <3>1. activation' \in Activation
      BY <1>0, <2>3 DEF ReceiveResponse, Activation
    <3> QED BY <2>1, <2>3, <3>1 DEF Types, ReceiveResponse
  <2>4. CASE ReceiveTuning(c)
    <3>1. release' \in {"lock", "wait", "send", "signal"} /\ total' \in Nat
      BY <1>0, <2>4 DEF Types, ReceiveTuning, Signalled
    <3> QED BY <2>1, <2>4, <3>1 DEF Types, ReceiveTuning
  <2> QED BY <1>1, <2>2, <2>3, <2>4
<1>2. CASE BeginRemove(c)
  <2>1. up' \in [Client -> Seq(Upward)]
    BY <1>0, <1>2, EmptySeq DEF BeginRemove
  <2>2. db' \in Database
    BY <1>0, <1>2, DeletedParts DEF BeginRemove
  <2>3. reader' \in [Client -> {"none", "read", "removing", "done"}]
    BY <1>0, <1>2 DEF BeginRemove
  <2> QED BY <1>2, <2>1, <2>2, <2>3 DEF Types, BeginRemove
<1>3. CASE EndRemove(c)
  BY <1>0, <1>3, SignalTypes DEF Types, EndRemove
<1> QED BY <1>1, <1>2, <1>3 DEF ReadThread

LEMMA ReleaseThreadTypes ==
  ASSUME Types, ReleaseThread
  PROVE  Types'
<1>0. /\ down \in [Client -> Seq(Downward)] /\ db \in Database
      /\ signal \in [pump : BOOLEAN, object : BOOLEAN, local : BOOLEAN]
  BY DEF Types
<1>1. CASE CheckRound
  BY <1>1 DEF Types, CheckRound
<1>2. CASE SendRelease
  <2>1. down' \in [Client -> Seq(Downward)]
    <3>1. \A c \in Client : Append(down[c], "release") \in Seq(Downward)
      BY <1>0, AppendProperties DEF Downward
    <3> QED BY <1>0, <1>2, <3>1 DEF SendRelease
  <2>2. /\ db' \in Database
        /\ signal' \in [pump : BOOLEAN, object : BOOLEAN, local : BOOLEAN]
    BY <1>0, <1>2, DeletedParts, SignalTypes DEF SendRelease
  <2> QED BY <1>2, <2>1, <2>2 DEF Types, SendRelease
<1>3. CASE SignalRelease
  BY <1>0, <1>3 DEF Types, SignalRelease
<1> QED BY <1>1, <1>2, <1>3 DEF ReleaseThread

(* The state of the thread that activates sockets after each of its steps. *)
LEMMA ActivationSteps ==
  ASSUME Types, Listed, ActivationThread
  PROVE  /\ activation' \in Activation
         /\ Listed'
<1>0. /\ activation \in Activation /\ activation.todo \in Seq(Client)
      /\ activation.queue \in Seq(Client) /\ local \in BOOLEAN
  BY DEF Types, Activation
<1>1. CASE TakeQueue
  BY <1>0, <1>1, EmptySeq DEF TakeQueue, Listed, Activation, HoldsWaiting
<1>2. CASE LockRounds
  BY <1>0, <1>2 DEF LockRounds, Listed, Activation, HoldsWaiting
<1>3. CASE FindSocket
  <2> DEFINE f == Head(activation.todo) \in db.ids
  <2>1. /\ f \in BOOLEAN /\ activation.pc = "find"
        /\ activation' = [activation EXCEPT !.pc = "offer", !.response = FALSE,
                                            !.found = f]
    BY <1>3 DEF FindSocket
  <2> HIDE DEF f
  <2>2. activation' \in Activation
    BY <1>0, <2>1 DEF Activation
  <2>3. activation'.todo = activation.todo
    BY <1>0, <2>1 DEF Activation
  <2> QED BY <2>1, <2>2, <2>3 DEF Listed, HoldsWaiting
<1>4. CASE OfferActivation
  BY <1>0, <1>4 DEF OfferActivation, Listed, Activation, HoldsWaiting
<1>5. CASE AwaitResponse
  BY <1>0, <1>5 DEF AwaitResponse, Listed, Activation, HoldsWaiting
<1>6. CASE MoveSocket
  <2>1. activation.todo # <<>>
    BY <1>6 DEF MoveSocket, Listed, HoldsWaiting
  <2> DEFINE t == Tail(activation.todo)
             p == Then(t)
  <2>2. t \in Seq(Client)
    BY <1>0, <2>1, HeadTailProperties
  <2>3. /\ p \in {"find", "sync", "top"}
        /\ p = "find" => t # <<>>
    BY DEF Then
  <2>4. activation' = [activation EXCEPT !.todo = t, !.pc = p]
    BY <1>6 DEF MoveSocket
  <2> HIDE DEF t, p
  <2>5. activation' \in Activation
    BY <1>0, <2>2, <2>3, <2>4 DEF Activation
  <2>6. activation'.todo = t /\ activation'.pc = p
    BY <1>0, <2>4 DEF Activation
  <2> QED BY <2>3, <2>5, <2>6 DEF Listed, HoldsWaiting
<1>7. CASE EnterLocal
  BY <1>0, <1>7 DEF EnterLocal, Listed, Activation, HoldsWaiting
<1>8. CASE LeaveLocal
  BY <1>0, <1>8 DEF LeaveLocal, Listed, Activation, HoldsWaiting
<1> QED BY <1>1, <1>2, <1>3, <1>4, <1>5, <1>6, <1>7, <1>8 DEF ActivationThread

(* The client the server is about to activate.                             *)
LEMMA HeadIsClient ==
  ASSUME Types, Listed, activation.pc \in {"lock"} \cup HoldsWaiting
  PROVE  Head(activation.todo) \in Client
<1>1. activation.todo \in Seq(Client) /\ activation.todo # <<>>
  BY DEF Types, Listed, Activation
<1> QED BY <1>1, HeadTailProperties

LEMMA ActivationThreadTypes ==
  ASSUME Types, Listed, ActivationThread
  PROVE  Types' /\ Listed'
<1>0. /\ down \in [Client -> Seq(Downward)] /\ db \in Database /\ total \in Nat
      /\ signal \in [pump : BOOLEAN, object : BOOLEAN, local : BOOLEAN]
  BY DEF Types
<1>1. activation' \in Activation /\ Listed'
  BY ActivationSteps
<1>2. CASE OfferActivation
  <2> DEFINE c == Head(activation.todo)
  <2>1. c \in Client
    BY <1>2, HeadIsClient DEF OfferActivation, HoldsWaiting
  <2>2. \/ UNCHANGED <<down, db, release, signal>>
        \/ /\ db' = Deleted(db, {c}) /\ UNCHANGED down
           /\ \/ release' = Signalled(release) /\ signal' = Primed(signal, db')
              \/ UNCHANGED <<release, signal>>
        \/ /\ \/ UNCHANGED down
              \/ down' = [down EXCEPT ![c] = Append(@, "handshake")]
           /\ UNCHANGED <<db, release, signal>>
    <3>1. [down EXCEPT ![c] = down[c]] = down
      BY <1>0, <2>1
    <3> QED BY <1>2, <3>1 DEF OfferActivation
  <2>3. Append(down[c], "handshake") \in Seq(Downward)
    BY <1>0, <2>1, AppendProperties DEF Downward
  <2> HIDE DEF c
  <2>4. down' \in [Client -> Seq(Downward)]
    BY <1>0, <2>1, <2>2, <2>3
  <2>5. /\ db' \in Database
        /\ signal' \in [pump : BOOLEAN, object : BOOLEAN, local : BOOLEAN]
        /\ release' \in {"lock", "wait", "send", "signal"}
    BY <1>0, <2>2, DeletedParts, SignalTypes DEF Types
  <2> QED BY <1>1, <1>2, <2>4, <2>5 DEF Types, OfferActivation
<1>3. CASE MoveSocket
  <2>1. Head(activation.todo) \in Client
    BY <1>3, HeadIsClient DEF MoveSocket, HoldsWaiting
  <2>2. db' \in Database
    BY <1>0, <1>3, <2>1, ActivatedParts DEF MoveSocket
  <2> QED BY <1>1, <1>3, <2>2 DEF Types, MoveSocket
<1>4. CASE TakeQueue \/ LockRounds \/ FindSocket \/ AwaitResponse
  BY <1>0, <1>1, <1>4 DEF Types, TakeQueue, LockRounds, FindSocket,
                          AwaitResponse
<1>5. CASE EnterLocal
  <2>1. release' \in {"lock", "wait", "send", "signal"} /\ total' \in Nat
    BY <1>0, <1>5 DEF Types, EnterLocal, Signalled
  <2> QED BY <1>1, <1>5, <2>1 DEF Types, EnterLocal
<1>6. CASE LeaveLocal
  BY <1>0, <1>1, <1>6 DEF Types, LeaveLocal
<1> QED BY <1>2, <1>3, <1>4, <1>5, <1>6 DEF ActivationThread

LEMMA TypesStep == Types /\ Listed /\ [Next]_vars => Types' /\ Listed'
<1> SUFFICES ASSUME Types, Listed, [Next]_vars PROVE Types' /\ Listed'
  OBVIOUS
<1>1. CASE UNCHANGED vars
  BY <1>1 DEF vars, Types, Listed, Activation, Database
<1>2. ASSUME NEW c \in Client,
             ClientLoop(c) \/ DataTask(c) \/ StopThread(c) \/ Die(c) \/ Accept(c)
      PROVE  Types' /\ Listed'
  <2>1. activation' = activation
    BY <1>2 DEF ClientLoop, RequestActivation, AnswerActivation, SendResponse,
                ResetRelease, BeginSync, SendTuning, EndSync, DataTask,
                StopThread, Stop, SendLast, SignalLast, Die, Fresh,
                serverVars, Accept
  <2> QED BY <1>2, <2>1, ClientActionTypes, AcceptTypes DEF Listed
<1>3. ASSUME NEW c \in Client, ReadThread(c)
      PROVE  Types' /\ Listed'
  <2>1. activation \in Activation
    BY DEF Types
  <2>2. activation'.pc = activation.pc /\ activation'.todo = activation.todo
    BY <1>3, <2>1 DEF ReadThread, ReceiveHandshake, ReceiveResponse,
       ReceiveTuning, BeginRemove, EndRemove, Activation
  <2> QED BY <1>3, <2>2, ReadThreadTypes DEF Listed
<1>4. CASE ReleaseThread
  <2>1. activation' = activation
    BY <1>4 DEF ReleaseThread, CheckRound, SendRelease, SignalRelease
  <2> QED BY <1>4, <2>1, ReleaseThreadTypes DEF Listed
<1>5. CASE ActivationThread
  BY <1>5, ActivationThreadTypes
<1> QED BY <1>1, <1>2, <1>3, <1>4, <1>5 DEF Next

(* Who runs stop() exits, and has sent the last record once stop() is past *)
(* that.                                                                   *)
LastSent ==
  \A c \in Client :
    /\ client[c].stop # "no" => client[c].exiting /\ client[c].pc # "gone"
    /\ client[c].exiting /\ client[c].stop # "send" => client[c].finalSent

(* Every step keeps that.                                                  *)
LEMMA LastSentKept == Types /\ LastSent /\ [Next]_vars => LastSent'
<1> SUFFICES ASSUME Types, LastSent, [Next]_vars PROVE LastSent'
  OBVIOUS
<1>0. client \in [Client -> ClientState]
  BY DEF Types
<1>1. CASE UNCHANGED client
  BY <1>1 DEF LastSent
<1>2. ASSUME NEW c \in Client,
             Accept(c) \/ ClientLoop(c) \/ DataTask(c) \/ StopThread(c) \/ Die(c)
      PROVE  LastSent'
  <2>0. client[c] \in ClientState
    BY <1>0
  <2>1. /\ \A b \in Client \ {c} : client'[b] = client[b]
        /\ client'[c].stop # "no" =>
             client'[c].exiting /\ client'[c].pc # "gone"
        /\ client'[c].exiting /\ client'[c].stop # "send" =>
             client'[c].finalSent
    <3>1. CASE Accept(c) \/ DataTask(c) \/ StopThread(c) \/ Die(c)
      BY <1>0, <2>0, <3>1
      DEF Accept, DataTask, StopThread, Stop, SendLast, SignalLast, Die,
          Fresh, Goto, LastSent, ClientState
    <3>2. CASE ClientLoop(c)
      BY <1>0, <2>0, <3>2 DEF ClientLoop, RequestActivation, AnswerActivation,
                              SendResponse, ResetRelease, BeginSync,
                              SendTuning, EndSync, Goto, LastSent, ClientState
    <3> QED BY <1>2, <3>1, <3>2
  <2> QED BY <2>1 DEF LastSent
<1>3. CASE ReleaseThread \/ ActivationThread \/ UNCHANGED vars
           \/ \E c \in Client : ReadThread(c)
  <2>1. UNCHANGED client
    BY <1>3 DEF ReleaseThread, CheckRound, SendRelease, SignalRelease,
       ReadThread, ReceiveHandshake, ReceiveResponse, ReceiveTuning,
       BeginRemove, EndRemove, ActivationThread, TakeQueue, LockRounds,
       FindSocket, OfferActivation, AwaitResponse, MoveSocket, EnterLocal,
       LeaveLocal, vars
  <2> QED BY <1>1, <2>1
<1> QED BY <1>2, <1>3 DEF Next

-----------------------------------------------------------------------------
(* The answer to an offer is under way: the offer has not been read, or c  *)
(* is about to answer it, or the answer has not been read.                 *)
Offered(c) == Has(down[c], "handshake")
Agreed(c) ==
  \/ client[c].pc = "requested" /\ client[c].response /\ ~client[c].exiting
  \/ client[c].pc = "answering"
Answered(c) == Has(up[c], "response")

MayAnswer(c) == Offered(c) \/ Agreed(c) \/ Answered(c)

OneAnswerOf(c) ==
  /\ Once(down[c], "handshake") /\ Once(up[c], "response")
  /\ ~(Offered(c) /\ Agreed(c))
  /\ ~(Offered(c) /\ Answered(c))
  /\ ~(Agreed(c) /\ Answered(c))

OneAnswer == \A c \in Client : OneAnswerOf(c)

(* Only the client the server waits for may answer, and only once.         *)
AnswersAwaited ==
  \A c \in Client : MayAnswer(c) =>
    /\ activation.pc = "await" /\ ~activation.response
    /\ c = Head(activation.todo)

(* c is in the database, or its removal has begun and has not ended.       *)
Present(c) == c \in db.ids \/ reader[c] = "removing"

(* The client found in the database is present until it is activated.      *)
HeadPresent ==
  LET c == Head(activation.todo)
  IN  /\ activation.pc = "offer" =>
           ~activation.response /\ (activation.found => Present(c))
      /\ activation.pc = "await" =>
           (activation.response \/ MayAnswer(c) => Present(c))
      /\ activation.pc = "move" => Present(c) /\ activation.response

(* _waitingLock has one holder.                                            *)
Exclusion == release = "send" => activation.pc \notin HoldsWaiting

Safe ==
  /\ OneAnswer
  /\ AnswersAwaited
  /\ HeadPresent
  /\ Exclusion
  /\ ActiveAreConnected

IInv == Types /\ Listed /\ LastSent /\ Safe

LEMMA InitInv == Init => IInv
<1> SUFFICES ASSUME Init PROVE IInv
  OBVIOUS
<1>1. /\ \A c \in Client : /\ up[c] = <<>> /\ down[c] = <<>>
                           /\ client[c].pc = "new"
      /\ activation.pc = "top" /\ release = "lock" /\ db.active = {}
  BY DEF Init, Fresh
<1>2. OneAnswer /\ \A c \in Client : ~MayAnswer(c)
  BY <1>1, NothingInEmpty
  DEF OneAnswer, OneAnswerOf, MayAnswer, Offered, Agreed, Answered
<1>3. LastSent
  BY DEF Init, Fresh, LastSent
<1>4. HeadPresent /\ Exclusion /\ ActiveAreConnected /\ Listed
  BY <1>1
  DEF HeadPresent, Exclusion, ActiveAreConnected, Listed, HoldsWaiting
<1> QED BY <1>2, <1>3, <1>4, InitTypes DEF IInv, Safe, AnswersAwaited

(* A step that offers nothing to nobody and leaves the list alone.  While  *)
(* the list is worked on, nobody's removal ends.                           *)
LEMMA KeptSafe ==
  ASSUME IInv,
         /\ activation'.pc = activation.pc
         /\ activation'.todo = activation.todo
         /\ activation'.found = activation.found
         /\ activation'.response = activation.response,
         release' = "send" =>
           release = "send" \/ activation.pc \notin HoldsWaiting,
         activation.pc \in HoldsWaiting =>
           \A b \in Client : Present(b) => Present(b)',
         ActiveAreConnected',
         \A b \in Client : OneAnswerOf(b)' /\ (MayAnswer(b)' => MayAnswer(b))
  PROVE  Safe'
<1>1. OneAnswer'
  BY DEF OneAnswer
<1>2. AnswersAwaited'
  BY DEF IInv, Safe, AnswersAwaited
<1>3. HeadPresent'
  <2> DEFINE h == Head(activation.todo)
  <2> SUFFICES ASSUME activation.pc \in {"offer", "await", "move"}
               PROVE  HeadPresent'
    BY DEF HeadPresent
  <2>1. h \in Client /\ activation.pc \in HoldsWaiting
    BY HeadIsClient DEF IInv, HoldsWaiting
  <2>2. h = Head(activation.todo)'
    OBVIOUS
  <2>3. (Present(h) => Present(h)') /\ (MayAnswer(h)' => MayAnswer(h))
    BY <2>1
  <2>4. HeadPresent
    BY DEF IInv, Safe
  <2> HIDE DEF h
  <2>5. /\ activation.pc = "offer" =>
             ~activation.response /\ (activation.found => Present(h))
        /\ activation.pc = "await" =>
             (activation.response \/ MayAnswer(h) => Present(h))
        /\ activation.pc = "move" => Present(h) /\ activation.response
    BY <2>4 DEF HeadPresent, h
  <2>6. /\ activation'.pc = "offer" =>
             ~activation'.response /\ (activation'.found => Present(h)')
        /\ activation'.pc = "await" =>
             (activation'.response \/ MayAnswer(h)' => Present(h)')
        /\ activation'.pc = "move" => Present(h)' /\ activation'.response
    BY <2>3, <2>5
  <2> QED BY <2>2, <2>6 DEF HeadPresent, h, Present, MayAnswer, Offered,
                            Agreed, Answered
<1>4. Exclusion'
  BY DEF IInv, Safe, Exclusion
<1> QED BY <1>1, <1>2, <1>3, <1>4 DEF Safe

-----------------------------------------------------------------------------
(* The clients: an offer that is read becomes an intention to answer, and  *)
(* that an answer.                                                         *)

(* Only c and its records change.                                          *)
LocalTo(c) ==
  /\ \A b \in Client : b # c =>
       client'[b] = client[b] /\ up'[b] = up[b] /\ down'[b] = down[b]
  /\ UNCHANGED <<local, serverVars>>

LEMMA ClientSafe ==
  ASSUME IInv, NEW c \in Client, LocalTo(c),
         OneAnswerOf(c)', MayAnswer(c)' => MayAnswer(c)
  PROVE  Safe'
<1>1. UNCHANGED <<db, reader, release, activation>>
  BY DEF LocalTo, serverVars
<1>2. ASSUME NEW b \in Client
      PROVE  OneAnswerOf(b)' /\ (MayAnswer(b)' => MayAnswer(b))
  <2>1. CASE b = c
    BY <2>1
  <2>2. CASE b # c
    <3>1. client'[b] = client[b] /\ up'[b] = up[b] /\ down'[b] = down[b]
      BY <2>2 DEF LocalTo
    <3>2. OneAnswerOf(b)
      BY DEF IInv, Safe, OneAnswer
    <3> QED BY <3>1, <3>2
      DEF OneAnswerOf, MayAnswer, Offered, Agreed, Answered
  <2> QED BY <2>1, <2>2
<1>3. ActiveAreConnected'
  BY <1>1 DEF IInv, Safe, ActiveAreConnected
<1>4. \A b \in Client : Present(b) => Present(b)'
  BY <1>1 DEF Present
<1> QED BY <1>1, <1>2, <1>3, <1>4, KeptSafe

(* A step of the loop of c that neither receives nor sends an answer.      *)
LEMMA LoopSafe ==
  ASSUME IInv, NEW c \in Client, LocalTo(c), down'[c] = down[c],
         Agreed(c)' => Agreed(c),
         \/ up'[c] = up[c]
         \/ \E r \in Upward \ {"response"} : up'[c] = Append(up[c], r)
  PROVE  Safe'
<1>0. up[c] \in Seq(Upward)
  BY DEF IInv, Types
<1>1. /\ Has(up'[c], "response") <=> Has(up[c], "response")
      /\ Once(up[c], "response") => Once(up'[c], "response")
  <2>1. CASE up'[c] = up[c]
    BY <2>1
  <2>2. ASSUME NEW r \in Upward \ {"response"}, up'[c] = Append(up[c], r)
        PROVE  /\ Has(up'[c], "response") <=> Has(up[c], "response")
               /\ Once(up[c], "response") => Once(up'[c], "response")
    <3>1. r \in Upward /\ r # "response"
      OBVIOUS
    <3>2. /\ Has(Append(up[c], r), "response") <=>
               Has(up[c], "response") \/ r = "response"
          /\ Once(up[c], "response") /\ (r = "response" => ~Has(up[c], "response"))
               => Once(Append(up[c], r), "response")
      BY <1>0, <3>1, AppendHas
    <3> QED BY <2>2, <3>1, <3>2
  <2> QED BY <2>1, <2>2
<1>3. Offered(c)' <=> Offered(c)
  BY DEF Offered
<1>4. OneAnswerOf(c)
  BY DEF IInv, Safe, OneAnswer
<1>5. OneAnswerOf(c)'
  BY <1>1, <1>3, <1>4 DEF OneAnswerOf, Answered
<1>6. MayAnswer(c)' => MayAnswer(c)
  BY <1>1, <1>3 DEF MayAnswer, Answered
<1> QED BY <1>5, <1>6, ClientSafe

(* What a step of c's loop does to the state of c.                         *)
LEMMA RequestActivationParts ==
  ASSUME Types, NEW c \in Client, RequestActivation(c)
  PROVE  /\ LocalTo(c) /\ down'[c] = down[c]
         /\ up'[c] = Append(up[c], "handshake")
         /\ client[c].pc = "connected"
         /\ client'[c] = [client[c] EXCEPT !.pc = "requested",
                                           !.response = FALSE]
BY DEF Types, RequestActivation, Send, LocalTo

LEMMA AnswerActivationParts ==
  ASSUME Types, NEW c \in Client, AnswerActivation(c)
  PROVE  /\ LocalTo(c) /\ down'[c] = down[c] /\ up'[c] = up[c]
         /\ client[c].pc = "requested"
         /\ \/ /\ client[c].exiting
               /\ client'[c] = [client[c] EXCEPT !.pc = "answered"]
            \/ /\ client[c].response /\ ~client[c].exiting
               /\ client'[c] = [client[c] EXCEPT !.pc = "answering"]
BY DEF Types, AnswerActivation, Goto, LocalTo

LEMMA SendResponseParts ==
  ASSUME Types, NEW c \in Client, SendResponse(c)
  PROVE  /\ LocalTo(c) /\ down'[c] = down[c]
         /\ up'[c] = Append(up[c], "response")
         /\ client[c].pc = "answering"
         /\ client'[c] = [client[c] EXCEPT !.pc = "answered"]
BY DEF Types, SendResponse, Send, Goto, LocalTo

LEMMA ResetReleaseParts ==
  ASSUME Types, NEW c \in Client, ResetRelease(c)
  PROVE  /\ LocalTo(c) /\ down'[c] = down[c] /\ up'[c] = up[c]
         /\ client[c].pc = "answered"
         /\ client'[c] = [client[c] EXCEPT !.pc = "running",
                                           !.release = FALSE]
BY DEF Types, ResetRelease, LocalTo

LEMMA BeginSyncParts ==
  ASSUME Types, NEW c \in Client, BeginSync(c)
  PROVE  /\ LocalTo(c) /\ down'[c] = down[c] /\ up'[c] = up[c]
         /\ client[c].pc = "running"
         /\ client'[c] = [client[c] EXCEPT !.pc = "syncing"]
BY DEF Types, BeginSync, Goto, LocalTo

LEMMA SendTuningParts ==
  ASSUME Types, NEW c \in Client, SendTuning(c)
  PROVE  /\ LocalTo(c) /\ down'[c] = down[c]
         /\ client[c].pc = "syncing"
         /\ \/ /\ client'[c] = [client[c] EXCEPT !.pc = "running"]
               /\ up'[c] = up[c]
            \/ /\ client'[c] = [client[c] EXCEPT !.pc = "waiting",
                                  !.finalSent = client[c].finalSent
                                                \/ client[c].exiting]
               /\ ~client[c].finalSent
               /\ up'[c] = Append(up[c], "tuning")
BY DEF Types, SendTuning, Send, Goto, LocalTo

LEMMA EndSyncParts ==
  ASSUME Types, NEW c \in Client, EndSync(c)
  PROVE  /\ LocalTo(c) /\ down'[c] = down[c] /\ up'[c] = up[c]
         /\ client[c].pc = "waiting" /\ client[c].release
         /\ client'[c] = [client[c] EXCEPT !.pc = "running",
                                           !.release = FALSE]
BY DEF Types, EndSync, LocalTo

LEMMA DataTaskParts ==
  ASSUME Types, NEW c \in Client, DataTask(c)
  PROVE  /\ LocalTo(c) /\ up'[c] = up[c]
         /\ down[c] # <<>> /\ down'[c] = Tail(down[c])
         /\ \/ /\ Head(down[c]) = "handshake"
               /\ client'[c] = [client[c] EXCEPT !.response = TRUE]
            \/ /\ Head(down[c]) # "handshake"
               /\ client'[c] = [client[c] EXCEPT !.release = TRUE]
BY DEF Types, DataTask, LocalTo

LEMMA StopParts ==
  ASSUME Types, NEW c \in Client, Stop(c)
  PROVE  /\ LocalTo(c) /\ down'[c] = down[c] /\ up'[c] = up[c]
         /\ client[c].pc \notin {"new", "gone"} /\ ~client[c].exiting
         /\ client'[c] = [client[c] EXCEPT !.exiting = TRUE, !.response = TRUE,
                                           !.stop = "send"]
BY DEF Types, Stop, LocalTo

LEMMA SendLastParts ==
  ASSUME Types, NEW c \in Client, SendLast(c)
  PROVE  /\ LocalTo(c) /\ down'[c] = down[c]
         /\ client[c].stop = "send"
         /\ client'[c] = [client[c] EXCEPT !.finalSent = TRUE,
                                           !.stop = "signal"]
         /\ up'[c] = IF client[c].finalSent THEN up[c]
                     ELSE Append(up[c], "tuning")
BY DEF Types, SendLast, Send, LocalTo

LEMMA SignalLastParts ==
  ASSUME Types, NEW c \in Client, SignalLast(c)
  PROVE  /\ LocalTo(c) /\ down'[c] = down[c] /\ up'[c] = up[c]
         /\ client[c].stop = "signal"
         /\ client'[c] = [client[c] EXCEPT !.release = TRUE, !.stop = "no"]
BY DEF Types, SignalLast, LocalTo

LEMMA DieParts ==
  ASSUME Types, NEW c \in Client, Die(c)
  PROVE  /\ LocalTo(c) /\ down'[c] = <<>> /\ up'[c] = up[c]
         /\ client'[c] = Fresh("gone") /\ client'[c].pc = "gone"
BY DEF Types, Die, Fresh, LocalTo

LEMMA ClientActionSafe ==
  ASSUME IInv, NEW c \in Client,
         \/ ClientLoop(c) \/ DataTask(c) \/ StopThread(c) \/ Die(c)
  PROVE  Safe'
<1>0. /\ Types /\ client[c] \in ClientState
      /\ up[c] \in Seq(Upward) /\ down[c] \in Seq(Downward)
      /\ OneAnswerOf(c)
  BY DEF IInv, Types, Safe, OneAnswer
<1>1. CASE RequestActivation(c)
  <2>1. Agreed(c)' => Agreed(c)
    BY <1>0, <1>1, RequestActivationParts DEF Agreed, ClientState
  <2> QED BY <1>0, <1>1, <2>1, RequestActivationParts, LoopSafe DEF Upward
<1>2. CASE AnswerActivation(c)
  <2>0. /\ LocalTo(c) /\ down'[c] = down[c] /\ up'[c] = up[c]
        /\ client[c].pc = "requested"
        /\ \/ client'[c].pc = "answered"
           \/ client[c].response /\ ~client[c].exiting
    BY <1>0, <1>2, AnswerActivationParts DEF ClientState
  <2>1. Agreed(c)' => Agreed(c)
    BY <2>0 DEF Agreed
  <2> QED BY <2>0, <2>1, LoopSafe
<1>10. CASE SendResponse(c)
  <2>0. /\ LocalTo(c) /\ down'[c] = down[c]
        /\ client[c].pc = "answering" /\ client'[c].pc = "answered"
        /\ up'[c] = Append(up[c], "response")
    BY <1>0, <1>10, SendResponseParts DEF ClientState
  <2>1. Agreed(c) /\ ~Agreed(c)' /\ (Offered(c)' <=> Offered(c))
    BY <2>0 DEF Agreed, Offered
  <2>2. ~Offered(c) /\ ~Answered(c)
    BY <1>0, <2>1 DEF OneAnswerOf
  <2>3. Once(up'[c], "response")
    BY <1>0, <2>0, <2>2, AppendHas DEF OneAnswerOf, Answered, Upward
  <2>4. OneAnswerOf(c)'
    BY <1>0, <2>0, <2>1, <2>2, <2>3 DEF OneAnswerOf
  <2>5. MayAnswer(c)
    BY <2>1 DEF MayAnswer
  <2> QED BY <2>0, <2>4, <2>5, ClientSafe
<1>3. CASE ResetRelease(c)
  <2>0. client'[c].pc \notin {"requested", "answering"}
    BY <1>0, <1>3, ResetReleaseParts DEF ClientState
  <2>1. Agreed(c)' => Agreed(c)
    BY <2>0 DEF Agreed
  <2> QED BY <1>0, <1>3, <2>1, ResetReleaseParts, LoopSafe
<1>4. CASE BeginSync(c)
  <2>0. client'[c].pc \notin {"requested", "answering"}
    BY <1>0, <1>4, BeginSyncParts DEF ClientState
  <2>1. Agreed(c)' => Agreed(c)
    BY <2>0 DEF Agreed
  <2> QED BY <1>0, <1>4, <2>1, BeginSyncParts, LoopSafe
<1>5. CASE SendTuning(c)
  <2>0. client'[c].pc \notin {"requested", "answering"}
    BY <1>0, <1>5, SendTuningParts DEF ClientState
  <2>1. Agreed(c)' => Agreed(c)
    BY <2>0 DEF Agreed
  <2>2. \/ up'[c] = up[c]
        \/ \E r \in Upward \ {"response"} : up'[c] = Append(up[c], r)
    BY <1>0, <1>5, SendTuningParts DEF Upward
  <2> QED BY <1>0, <1>5, <2>1, <2>2, SendTuningParts, LoopSafe
<1>6. CASE EndSync(c)
  <2>0. client'[c].pc \notin {"requested", "answering"}
    BY <1>0, <1>6, EndSyncParts DEF ClientState
  <2>1. Agreed(c)' => Agreed(c)
    BY <2>0 DEF Agreed
  <2> QED BY <1>0, <1>6, <2>1, EndSyncParts, LoopSafe
<1>7. CASE DataTask(c)
  <2>0. /\ LocalTo(c) /\ up'[c] = up[c]
        /\ down[c] # <<>> /\ down'[c] = Tail(down[c])
        /\ \/ Head(down[c]) = "handshake"
           \/ /\ Head(down[c]) # "handshake"
              /\ client'[c] = [client[c] EXCEPT !.release = TRUE]
    BY <1>0, <1>7, DataTaskParts
  <2>1. /\ Has(down[c], "handshake") <=>
             Has(down'[c], "handshake") \/ Head(down[c]) = "handshake"
        /\ Once(down[c], "handshake") => Once(down'[c], "handshake")
        /\ Once(down[c], "handshake") /\ Head(down[c]) = "handshake"
             => ~Has(down'[c], "handshake")
    BY <1>0, <2>0, TailHas
  <2>2. Answered(c)' <=> Answered(c)
    BY <2>0 DEF Answered
  <2>3. CASE Head(down[c]) = "handshake"
    <3>1. Offered(c) /\ ~Offered(c)'
      BY <1>0, <2>1, <2>3 DEF Offered, OneAnswerOf
    <3>2. ~Answered(c)
      BY <1>0, <3>1 DEF OneAnswerOf
    <3>3. OneAnswerOf(c)'
      BY <1>0, <2>0, <2>1, <2>2, <3>1, <3>2 DEF OneAnswerOf
    <3>4. MayAnswer(c)
      BY <3>1 DEF MayAnswer
    <3> QED BY <2>0, <3>3, <3>4, ClientSafe
  <2>4. CASE /\ Head(down[c]) # "handshake"
             /\ client'[c] = [client[c] EXCEPT !.release = TRUE]
    <3>1. (Agreed(c)' <=> Agreed(c)) /\ (Offered(c)' <=> Offered(c))
      BY <1>0, <2>1, <2>4 DEF Agreed, Offered, ClientState
    <3>2. OneAnswerOf(c)'
      BY <1>0, <2>0, <2>1, <2>2, <3>1 DEF OneAnswerOf
    <3>3. MayAnswer(c)' => MayAnswer(c)
      BY <2>2, <3>1 DEF MayAnswer
    <3> QED BY <2>0, <3>2, <3>3, ClientSafe
  <2> QED BY <2>0, <2>3, <2>4
<1>8. CASE StopThread(c)
  <2>1. /\ LocalTo(c) /\ down'[c] = down[c]
        /\ client'[c].pc = client[c].pc
        /\ \/ client'[c].exiting
           \/ /\ client'[c].exiting = client[c].exiting
              /\ client'[c].response = client[c].response
        /\ up'[c] = up[c] \/ up'[c] = Append(up[c], "tuning")
    <3>1. CASE Stop(c)
      BY <1>0, <3>1, StopParts DEF ClientState
    <3>2. CASE SendLast(c)
      BY <1>0, <3>2, SendLastParts DEF ClientState
    <3>3. CASE SignalLast(c)
      BY <1>0, <3>3, SignalLastParts DEF ClientState
    <3> QED BY <1>8, <3>1, <3>2, <3>3 DEF StopThread
  <2>2. Agreed(c)' => Agreed(c)
    BY <2>1 DEF Agreed
  <2>3. \/ up'[c] = up[c]
        \/ \E r \in Upward \ {"response"} : up'[c] = Append(up[c], r)
    BY <2>1 DEF Upward
  <2> QED BY <2>1, <2>2, <2>3, LoopSafe
<1>9. CASE Die(c)
  <2>0. /\ LocalTo(c) /\ down'[c] = <<>> /\ up'[c] = up[c]
        /\ client'[c].pc = "gone"
    BY <1>0, <1>9, DieParts DEF ClientState
  <2>1. ~Offered(c)' /\ ~Agreed(c)' /\ (Answered(c)' <=> Answered(c))
        /\ Once(down[c], "handshake")'
    BY <2>0, NothingInEmpty DEF Offered, Agreed, Answered
  <2>2. OneAnswerOf(c)'
    BY <1>0, <2>0, <2>1 DEF OneAnswerOf
  <2>3. MayAnswer(c)' => MayAnswer(c)
    BY <2>1 DEF MayAnswer
  <2> QED BY <2>0, <2>2, <2>3, ClientSafe
<1> QED BY <1>1, <1>2, <1>3, <1>4, <1>5, <1>6, <1>7, <1>8, <1>9, <1>10
     DEF ClientLoop

-----------------------------------------------------------------------------
(* The server's threads.                                                   *)

(* A record that is no answer, and one from which nobody's answer comes.   *)
LEMMA ReadKeepsAnswers ==
  ASSUME IInv, NEW c \in Client, NEW r, r # "response", Read(c, r),
         UNCHANGED <<client, down>>
  PROVE  \A b \in Client : OneAnswerOf(b)' /\ (MayAnswer(b)' => MayAnswer(b))
<1>1. /\ up[c] \in Seq(Upward) /\ up[c] # <<>> /\ Head(up[c]) = r
      /\ \A b \in Client : up'[b] = IF b = c THEN Tail(up[c]) ELSE up[b]
  BY DEF IInv, Types, Read
<1>2. /\ Has(up[c], "response") <=> Has(Tail(up[c]), "response")
      /\ Once(up[c], "response") => Once(Tail(up[c]), "response")
  BY <1>1, TailHas
<1>3. ASSUME NEW b \in Client
      PROVE  /\ Answered(b)' <=> Answered(b)
             /\ Once(up[b], "response") => Once(up[b], "response")'
  BY <1>1, <1>2 DEF Answered
<1>4. ASSUME NEW b \in Client
      PROVE  OneAnswerOf(b)' /\ (MayAnswer(b)' => MayAnswer(b))
  <2>1. OneAnswerOf(b)
    BY DEF IInv, Safe, OneAnswer
  <2>2. (Offered(b)' <=> Offered(b)) /\ (Agreed(b)' <=> Agreed(b))
    BY DEF Offered, Agreed
  <2> QED BY <1>3, <2>1, <2>2 DEF OneAnswerOf, MayAnswer
<1> QED BY <1>4

(* Nothing is sent or received.                                            *)
LEMMA SilentKeepsAnswers ==
  ASSUME IInv, UNCHANGED <<client, up, down>>
  PROVE  \A b \in Client : OneAnswerOf(b)' /\ (MayAnswer(b)' => MayAnswer(b))
<1> SUFFICES ASSUME NEW b \in Client
             PROVE  OneAnswerOf(b)' /\ (MayAnswer(b)' => MayAnswer(b))
  OBVIOUS
<1>1. OneAnswerOf(b)
  BY DEF IInv, Safe, OneAnswer
<1> QED BY <1>1 DEF OneAnswerOf, MayAnswer, Offered, Agreed, Answered

LEMMA AcceptSafe ==
  ASSUME IInv, NEW c \in Client, Accept(c)
  PROVE  Safe'
<1>1. /\ client[c].pc = "new"
      /\ \A b \in Client : client'[b] =
           IF b = c THEN [client[c] EXCEPT !.pc = "connected"] ELSE client[b]
      /\ db'.ids = db.ids \cup {c} /\ db'.active = db.active
      /\ reader' = [reader EXCEPT ![c] = "read"]
      /\ UNCHANGED <<up, down, release, activation>>
  BY DEF IInv, Types, Database, Accept, Goto
<1>2. ASSUME NEW b \in Client
      PROVE  OneAnswerOf(b)' /\ (MayAnswer(b)' => MayAnswer(b))
  <2>1. OneAnswerOf(b)
    BY DEF IInv, Safe, OneAnswer
  <2>2. (Offered(b)' <=> Offered(b)) /\ (Answered(b)' <=> Answered(b))
    BY <1>1 DEF Offered, Answered
  <2>3. client'[c].pc = "connected"
    BY <1>1 DEF IInv, Types, ClientState
  <2>4. Agreed(b)' <=> Agreed(b)
    BY <1>1, <2>3 DEF Agreed
  <2> QED BY <1>1, <2>1, <2>2, <2>4 DEF OneAnswerOf, MayAnswer
<1>3. \A b \in Client : Present(b) => Present(b)'
  BY <1>1 DEF Present, IInv, Types
<1>4. ActiveAreConnected'
  BY <1>1 DEF IInv, Safe, ActiveAreConnected
<1> QED BY <1>1, <1>2, <1>3, <1>4, KeptSafe

LEMMA ReceiveHandshakeSafe ==
  ASSUME IInv, NEW c \in Client, ReceiveHandshake(c)
  PROVE  Safe'
<1>1. /\ Read(c, "handshake")
      /\ UNCHANGED <<client, down, db, reader, release>>
      /\ activation' = [activation EXCEPT !.queue = Append(@, c)]
  BY DEF ReceiveHandshake
<1>2. /\ activation'.pc = activation.pc
      /\ activation'.todo = activation.todo
      /\ activation'.found = activation.found
      /\ activation'.response = activation.response
  BY <1>1 DEF IInv, Types, Activation
<1>3. \A b \in Client : OneAnswerOf(b)' /\ (MayAnswer(b)' => MayAnswer(b))
  BY <1>1, ReadKeepsAnswers
<1>4. ActiveAreConnected' /\ \A b \in Client : Present(b) => Present(b)'
  BY <1>1 DEF IInv, Safe, ActiveAreConnected, Present
<1> QED BY <1>1, <1>2, <1>3, <1>4, KeptSafe

LEMMA ReceiveTuningSafe ==
  ASSUME IInv, NEW c \in Client, ReceiveTuning(c)
  PROVE  Safe'
<1>1. /\ Read(c, "tuning")
      /\ UNCHANGED <<client, down, db, reader, activation>>
      /\ release' = "send" => release = "send"
  BY DEF ReceiveTuning, Signalled
<1>2. \A b \in Client : OneAnswerOf(b)' /\ (MayAnswer(b)' => MayAnswer(b))
  BY <1>1, ReadKeepsAnswers
<1>3. ActiveAreConnected' /\ \A b \in Client : Present(b) => Present(b)'
  BY <1>1 DEF IInv, Safe, ActiveAreConnected, Present
<1> QED BY <1>1, <1>2, <1>3, KeptSafe

(* The answer the server waits for: nobody else may answer from now on.    *)
LEMMA ReceiveResponseSafe ==
  ASSUME IInv, NEW c \in Client, ReceiveResponse(c)
  PROVE  Safe'
<1>1. /\ up[c] \in Seq(Upward) /\ up[c] # <<>> /\ Head(up[c]) = "response"
      /\ \A b \in Client : up'[b] = IF b = c THEN Tail(up[c]) ELSE up[b]
      /\ UNCHANGED <<client, down, db, reader, release>>
      /\ activation' = [activation EXCEPT !.response = TRUE]
  BY DEF IInv, Types, ReceiveResponse, Read
<1>2. /\ Has(up[c], "response")
      /\ Once(up[c], "response") => Once(Tail(up[c]), "response")
      /\ Once(up[c], "response") => ~Has(Tail(up[c]), "response")
  BY <1>1, TailHas
<1>3. MayAnswer(c) /\ Answered(c)
  BY <1>2 DEF MayAnswer, Answered
<1>4. activation.pc = "await" /\ c = Head(activation.todo)
  BY <1>3 DEF IInv, Safe, AnswersAwaited
<1>5. OneAnswerOf(c)
  BY DEF IInv, Safe, OneAnswer
<1>6. ASSUME NEW b \in Client
      PROVE  OneAnswerOf(b)' /\ ~MayAnswer(b)'
  <2>1. CASE b = c
    <3>1. ~Answered(c)' /\ Once(up[c], "response")'
      BY <1>1, <1>2, <1>5 DEF Answered, OneAnswerOf
    <3>2. ~Offered(c)' /\ ~Agreed(c)' /\ Once(down[c], "handshake")'
      BY <1>1, <1>3, <1>5 DEF OneAnswerOf, Offered, Agreed
    <3> QED BY <2>1, <3>1, <3>2 DEF OneAnswerOf, MayAnswer
  <2>2. CASE b # c
    <3>1. ~MayAnswer(b) /\ OneAnswerOf(b)
      BY <1>4, <2>2 DEF IInv, Safe, AnswersAwaited, OneAnswer
    <3>2. up'[b] = up[b] /\ UNCHANGED <<client, down>>
      BY <1>1, <2>2
    <3> QED BY <3>1, <3>2
      DEF OneAnswerOf, MayAnswer, Offered, Agreed, Answered
  <2> QED BY <2>1, <2>2
<1>7. /\ activation'.pc = "await" /\ activation'.response
      /\ activation'.todo = activation.todo
  BY <1>1, <1>4 DEF IInv, Types, Activation
<1>8. Present(c)'
  BY <1>1, <1>3, <1>4 DEF IInv, Safe, HeadPresent, Present
<1>9. HeadPresent'
  BY <1>4, <1>7, <1>8 DEF HeadPresent, Present
<1>10. Exclusion' /\ ActiveAreConnected'
  BY <1>1, <1>4, <1>7 DEF IInv, Safe, Exclusion, ActiveAreConnected
<1> QED BY <1>6, <1>9, <1>10 DEF Safe, OneAnswer, AnswersAwaited

(* The removal begins; who is in the database stays present until it ends. *)
LEMMA BeginRemoveSafe ==
  ASSUME IInv, NEW c \in Client, BeginRemove(c)
  PROVE  Safe'
<1>1. /\ reader' = [reader EXCEPT ![c] = IF c \in db.ids THEN "removing"
                                         ELSE "done"]
      /\ db'.ids = db.ids \ {c} /\ db'.active = db.active \ ({c} \cap db.ids)
      /\ \A b \in Client : up'[b] = IF b = c THEN <<>> ELSE up[b]
      /\ UNCHANGED <<client, down, release, activation>>
      /\ reader[c] = "read"
  BY DeletedParts DEF IInv, Types, BeginRemove
<1>2. ASSUME NEW b \in Client
      PROVE  OneAnswerOf(b)' /\ (MayAnswer(b)' => MayAnswer(b))
  <2>1. OneAnswerOf(b)
    BY DEF IInv, Safe, OneAnswer
  <2>2. (Offered(b)' <=> Offered(b)) /\ (Agreed(b)' <=> Agreed(b))
    BY <1>1 DEF Offered, Agreed
  <2>3. /\ Answered(b)' => Answered(b)
        /\ Once(up[b], "response") => Once(up[b], "response")'
    BY <1>1, NothingInEmpty DEF Answered
  <2>4. Once(down[b], "handshake")' <=> Once(down[b], "handshake")
    BY <1>1
  <2> QED BY <2>1, <2>2, <2>3, <2>4 DEF OneAnswerOf, MayAnswer
<1>3. \A b \in Client : Present(b) => Present(b)'
  BY <1>1 DEF Present, IInv, Types
<1>4. ActiveAreConnected'
  BY <1>1 DEF IInv, Safe, ActiveAreConnected
<1> QED BY <1>1, <1>2, <1>3, <1>4, KeptSafe

(* The removal ends, which the holder of _waitingLock keeps it from.       *)
LEMMA EndRemoveSafe ==
  ASSUME IInv, NEW c \in Client, EndRemove(c)
  PROVE  Safe'
<1>1. /\ UNCHANGED <<client, up, down, db, activation>>
      /\ release' = "send" => release = "send"
      /\ activation.pc \notin HoldsWaiting
  BY DEF EndRemove, Signalled, WaitingFree
<1>2. \A b \in Client : OneAnswerOf(b)' /\ (MayAnswer(b)' => MayAnswer(b))
  BY <1>1, SilentKeepsAnswers
<1>3. ActiveAreConnected'
  BY <1>1 DEF IInv, Safe, ActiveAreConnected
<1> QED BY <1>1, <1>2, <1>3, KeptSafe

LEMMA ReleaseThreadSafe ==
  ASSUME IInv, ReleaseThread
  PROVE  Safe'
<1>1. CASE CheckRound \/ SignalRelease
  <2>1. /\ UNCHANGED <<client, up, down, db, reader, activation>>
        /\ release' = "send" => activation.pc \notin HoldsWaiting
    BY <1>1 DEF CheckRound, SignalRelease, WaitingFree
  <2>2. \A b \in Client : OneAnswerOf(b)' /\ (MayAnswer(b)' => MayAnswer(b))
    BY <2>1, SilentKeepsAnswers
  <2>3. ActiveAreConnected' /\ \A b \in Client : Present(b) => Present(b)'
    BY <2>1 DEF IInv, Safe, ActiveAreConnected, Present
  <2> QED BY <2>1, <2>2, <2>3, KeptSafe
<1>2. CASE SendRelease
  <2>1. /\ UNCHANGED <<client, up, reader, activation>>
        /\ release' = "signal" /\ release = "send"
        /\ \E failed : db' = Deleted(db, failed)
        /\ \A b \in Client : \/ down'[b] = down[b]
                             \/ down'[b] = Append(down[b], "release")
    BY <1>2 DEF SendRelease
  <2>2. activation.pc \notin HoldsWaiting
    BY <2>1 DEF IInv, Safe, Exclusion
  <2>3. ActiveAreConnected'
    <3>1. PICK failed : db' = Deleted(db, failed)
      BY <2>1
    <3>2. /\ db'.ids = db.ids \ failed
          /\ db'.active = db.active \ (failed \cap db.ids)
      BY <3>1, DeletedParts DEF IInv, Types
    <3> QED BY <3>2 DEF IInv, Safe, ActiveAreConnected
  <2>4. ASSUME NEW b \in Client
        PROVE  OneAnswerOf(b)' /\ (MayAnswer(b)' => MayAnswer(b))
    <3>1. OneAnswerOf(b) /\ down[b] \in Seq(Downward) /\ "release" \in Downward
      BY DEF IInv, Types, Safe, OneAnswer, Downward
    <3>2. /\ Has(Append(down[b], "release"), "handshake") <=>
               Has(down[b], "handshake")
          /\ Once(down[b], "handshake") =>
               Once(Append(down[b], "release"), "handshake")
      <4>1. "release" # "handshake"
        OBVIOUS
      <4> QED BY <3>1, <4>1, AppendHas
    <3>3. /\ Has(down'[b], "handshake") <=> Has(down[b], "handshake")
          /\ Once(down[b], "handshake") => Once(down'[b], "handshake")
      BY <2>1, <3>2
    <3>4. (Answered(b)' <=> Answered(b)) /\ (Agreed(b)' <=> Agreed(b))
      BY <2>1 DEF Answered, Agreed
    <3>5. Once(up[b], "response")' <=> Once(up[b], "response")
      BY <2>1
    <3> QED BY <3>1, <3>3, <3>4, <3>5 DEF OneAnswerOf, MayAnswer, Offered
  <2> QED BY <2>1, <2>2, <2>3, <2>4, KeptSafe
<1> QED BY <1>1, <1>2 DEF ReleaseThread

(* Unless the server waits for an answer, none is under way.               *)
LEMMA IdleSafe ==
  ASSUME IInv, activation.pc # "await" \/ activation.response,
         UNCHANGED <<client, up, down>>,
         HeadPresent', Exclusion', ActiveAreConnected'
  PROVE  Safe'
<1>1. \A b \in Client : ~MayAnswer(b)
  BY DEF IInv, Safe, AnswersAwaited
<1>2. \A b \in Client : OneAnswerOf(b)' /\ (MayAnswer(b)' => MayAnswer(b))
  BY SilentKeepsAnswers
<1> QED BY <1>1, <1>2 DEF Safe, OneAnswer, AnswersAwaited

LEMMA FindSocketSafe ==
  ASSUME IInv, FindSocket
  PROVE  Safe'
<1> DEFINE h == Head(activation.todo)
           f == h \in db.ids
<1>1. /\ activation.pc = "find" /\ f \in BOOLEAN
      /\ activation' = [activation EXCEPT !.pc = "offer", !.response = FALSE,
                                          !.found = f]
      /\ UNCHANGED <<client, up, down, db, reader, release>>
  BY DEF FindSocket
<1>2. f => Present(h)
  BY DEF Present
<1> HIDE DEF f
<1>3. /\ activation'.pc = "offer" /\ ~activation'.response
      /\ activation'.found = f /\ activation'.todo = activation.todo
  BY <1>1 DEF IInv, Types, Activation
<1>4. HeadPresent'
  <2>1. Present(h) => Present(h)'
    BY <1>1 DEF Present
  <2> QED BY <1>2, <1>3, <2>1 DEF HeadPresent, Present
<1>5. Exclusion' /\ ActiveAreConnected'
  BY <1>1 DEF IInv, Safe, Exclusion, ActiveAreConnected, HoldsWaiting
<1> QED BY <1>1, <1>4, <1>5, IdleSafe

(* Who is offered is in the database: its removal, had it begun, would     *)
(* hold _lockTransfer.                                                     *)
LEMMA OfferActivationSafe ==
  ASSUME IInv, OfferActivation
  PROVE  Safe'
<1> DEFINE c == Head(activation.todo)
<1>1. /\ activation.pc = "offer" /\ c \in Client
      /\ activation.found => TransferFree
      /\ activation' = [activation EXCEPT !.pc = "await"]
      /\ UNCHANGED <<client, up, reader>>
  BY HeadIsClient DEF OfferActivation, IInv, HoldsWaiting
<1>2. /\ ~activation.response /\ (activation.found => Present(c))
      /\ release # "send"
  BY <1>1 DEF IInv, Safe, HeadPresent, Exclusion, HoldsWaiting
<1>3. activation.found => c \in db.ids
  BY <1>1, <1>2 DEF Present, TransferFree
<1>4. /\ activation'.pc = "await" /\ ~activation'.response
      /\ activation'.todo = activation.todo
  BY <1>1, <1>2 DEF IInv, Types, Activation
<1>5. \/ ~activation.found /\ UNCHANGED <<down, db, release>>
      \/ /\ db' = Deleted(db, {c}) /\ UNCHANGED down
         /\ release' = Signalled(release) \/ release' = release
      \/ /\ activation.found
         /\ down' = [down EXCEPT ![c] = IF c \in Gone THEN @
                                        ELSE Append(@, "handshake")]
         /\ UNCHANGED <<db, release>>
  BY DEF OfferActivation
<1>6. /\ \A b \in Client : ~MayAnswer(b) /\ OneAnswerOf(b)
      /\ down \in [Client -> Seq(Downward)]
  BY <1>1 DEF IInv, Types, Safe, AnswersAwaited, OneAnswer
<1>7. release' # "send"
  BY <1>2, <1>5 DEF Signalled
<1>8. Exclusion'
  BY <1>7 DEF Exclusion
<1>9. ActiveAreConnected'
  <2>1. CASE db' = Deleted(db, {c})
    <3>1. /\ db'.ids = db.ids \ {c}
          /\ db'.active = db.active \ ({c} \cap db.ids)
      BY <2>1, DeletedParts DEF IInv, Types
    <3> QED BY <3>1 DEF IInv, Safe, ActiveAreConnected
  <2>2. CASE db' = db
    BY <2>2 DEF IInv, Safe, ActiveAreConnected
  <2> QED BY <1>5, <2>1, <2>2
<1> HIDE DEF c
<1>10. CASE down' = down
  <2>1. \A b \in Client : OneAnswerOf(b)' /\ (MayAnswer(b)' => MayAnswer(b))
    BY <1>1, <1>10, SilentKeepsAnswers
  <2>2. c = Head(activation.todo)'
    BY <1>4 DEF c
  <2>3. HeadPresent'
    BY <1>1, <1>4, <1>6, <2>1, <2>2 DEF HeadPresent, MayAnswer, Offered,
                                        Agreed, Answered
  <2> QED BY <1>6, <1>8, <1>9, <2>1, <2>3 DEF Safe, OneAnswer, AnswersAwaited
<1>11. CASE /\ activation.found
            /\ down' = [down EXCEPT ![c] = Append(@, "handshake")]
            /\ UNCHANGED <<db, release>>
  <2>1. /\ Once(Append(down[c], "handshake"), "handshake")
        /\ down[c] \in Seq(Downward) /\ "handshake" \in Downward
    <3>1. down[c] \in Seq(Downward) /\ "handshake" \in Downward
      BY <1>1, <1>6 DEF Downward
    <3>2. Once(down[c], "handshake") /\ ~Has(down[c], "handshake")
      BY <1>1, <1>6 DEF OneAnswerOf, MayAnswer, Offered
    <3> QED BY <3>1, <3>2, AppendHas
  <2>2. \A b \in Client : down'[b] =
          IF b = c THEN Append(down[c], "handshake") ELSE down[b]
    BY <1>1, <1>6, <1>11
  <2>3. \A b \in Client : ~Agreed(b)' /\ ~Answered(b)'
                          /\ Once(up[b], "response")'
    BY <1>1, <1>6 DEF MayAnswer, Agreed, Answered, OneAnswerOf
  <2>4. \A b \in Client : Once(down[b], "handshake")'
                          /\ (b # c => ~Offered(b)')
    BY <1>6, <2>1, <2>2 DEF MayAnswer, Offered, OneAnswerOf
  <2>5. OneAnswer'
    BY <2>3, <2>4 DEF OneAnswer, OneAnswerOf
  <2>6. AnswersAwaited'
    BY <1>4, <2>3, <2>4 DEF AnswersAwaited, MayAnswer, c
  <2>7. HeadPresent'
    BY <1>3, <1>4, <1>11 DEF HeadPresent, Present, c
  <2> QED BY <1>8, <1>9, <2>5, <2>6, <2>7 DEF Safe
<1>12. CASE /\ down' = [down EXCEPT ![c] = down[c]]
  <2>1. down' = down
    BY <1>1, <1>6, <1>12
  <2> QED BY <1>10, <2>1
<1> QED BY <1>5, <1>10, <1>11, <1>12

(* The head of the list is in the database, for nobody's removal holds     *)
(* _lockTransfer.                                                          *)
LEMMA MoveSocketSafe ==
  ASSUME IInv, MoveSocket
  PROVE  Safe'
<1> DEFINE c == Head(activation.todo)
           t == Tail(activation.todo)
           p == Then(t)
<1>1. /\ activation.pc = "move" /\ c \in Client /\ TransferFree
      /\ activation' = [activation EXCEPT !.todo = t, !.pc = p]
      /\ db' = Activated(db, c)
      /\ UNCHANGED <<client, up, down, reader, release>>
  BY HeadIsClient DEF MoveSocket, IInv, HoldsWaiting
<1>2. Present(c) /\ activation.response /\ release # "send"
  BY <1>1 DEF IInv, Safe, HeadPresent, Exclusion, HoldsWaiting
<1>3. c \in db.ids
  BY <1>1, <1>2 DEF Present, TransferFree
<1>4. p \in {"find", "sync", "top"}
  BY DEF Then
<1> HIDE DEF c, t, p
<1>5. activation'.pc = p
  BY <1>1 DEF IInv, Types, Activation
<1>6. HeadPresent' /\ Exclusion'
  BY <1>1, <1>2, <1>4, <1>5 DEF HeadPresent, Exclusion
<1>7. /\ db'.ids = db.ids
      /\ db'.active \subseteq db.active \cup {c}
  BY <1>1, ActivatedParts DEF IInv, Types
<1>8. ActiveAreConnected'
  BY <1>3, <1>7 DEF IInv, Safe, ActiveAreConnected
<1> QED BY <1>1, <1>2, <1>6, <1>8, IdleSafe

LEMMA ActivationThreadSafe ==
  ASSUME IInv, ActivationThread
  PROVE  Safe'
<1>0. activation \in Activation
  BY DEF IInv, Types
<1>1. CASE TakeQueue
  <2>1. /\ activation.pc = "top" /\ activation'.pc \in {"lock", "sync"}
        /\ UNCHANGED <<client, up, down, db, reader, release>>
    BY <1>0, <1>1 DEF TakeQueue, Activation
  <2>2. HeadPresent' /\ Exclusion' /\ ActiveAreConnected'
    BY <2>1 DEF HeadPresent, Exclusion, ActiveAreConnected, IInv, Safe,
       HoldsWaiting
  <2> QED BY <2>1, <2>2, IdleSafe
<1>2. CASE LockRounds
  <2>1. /\ activation.pc = "lock" /\ activation'.pc = "find"
        /\ release # "send"
        /\ UNCHANGED <<client, up, down, db, reader, release>>
    BY <1>0, <1>2 DEF LockRounds, WaitingFree, Activation
  <2>2. HeadPresent' /\ Exclusion' /\ ActiveAreConnected'
    BY <2>1 DEF HeadPresent, Exclusion, ActiveAreConnected, IInv, Safe
  <2> QED BY <2>1, <2>2, IdleSafe
<1>3. CASE AwaitResponse
  <2>1. /\ activation.pc = "await" /\ activation.response
        /\ activation' = [activation EXCEPT !.pc = "move"]
        /\ UNCHANGED <<client, up, down, db, reader, release>>
    BY <1>3 DEF AwaitResponse
  <2>2. /\ activation'.pc = "move" /\ activation'.response
        /\ activation'.todo = activation.todo
    BY <1>0, <2>1 DEF Activation
  <2>3. Present(Head(activation.todo)) /\ release # "send"
    BY <2>1 DEF IInv, Safe, HeadPresent, Exclusion, HoldsWaiting
  <2>4. HeadPresent' /\ Exclusion' /\ ActiveAreConnected'
    BY <2>1, <2>2, <2>3
    DEF HeadPresent, Present, Exclusion, ActiveAreConnected, IInv, Safe
  <2> QED BY <2>1, <2>4, IdleSafe
<1>4. CASE EnterLocal \/ LeaveLocal
  <2>1. /\ activation.pc \in {"sync", "waiting"}
        /\ activation'.pc \in {"waiting", "top"}
        /\ UNCHANGED <<client, up, down, db, reader>>
    BY <1>0, <1>4 DEF EnterLocal, LeaveLocal, Activation
  <2>2. HeadPresent' /\ Exclusion' /\ ActiveAreConnected'
    BY <2>1 DEF HeadPresent, Exclusion, ActiveAreConnected, IInv, Safe,
       HoldsWaiting
  <2> QED BY <2>1, <2>2, IdleSafe
<1> QED BY <1>1, <1>2, <1>3, <1>4, FindSocketSafe, OfferActivationSafe,
     MoveSocketSafe DEF ActivationThread

LEMMA NextInv == IInv /\ [Next]_vars => IInv'
<1> SUFFICES ASSUME IInv, [Next]_vars PROVE IInv'
  OBVIOUS
<1>1. Types' /\ Listed' /\ LastSent'
  BY TypesStep, LastSentKept DEF IInv
<1>2. CASE UNCHANGED vars
  <2>1. \A b \in Client : OneAnswerOf(b)' /\ (MayAnswer(b)' => MayAnswer(b))
    BY <1>2, SilentKeepsAnswers DEF vars
  <2>2. ActiveAreConnected' /\ \A b \in Client : Present(b) => Present(b)'
    BY <1>2 DEF vars, IInv, Safe, ActiveAreConnected, Present
  <2>3. Safe'
    BY <1>2, <2>1, <2>2, KeptSafe DEF vars
  <2> QED BY <1>1, <2>3 DEF IInv
<1>3. ASSUME NEW c \in Client,
             \/ Accept(c) \/ ClientLoop(c) \/ DataTask(c) \/ ReadThread(c)
             \/ StopThread(c) \/ Die(c)
      PROVE  Safe'
  BY <1>3, AcceptSafe, ClientActionSafe, ReceiveHandshakeSafe,
     ReceiveResponseSafe, ReceiveTuningSafe, BeginRemoveSafe, EndRemoveSafe
  DEF ReadThread
<1>4. CASE ReleaseThread \/ ActivationThread
  BY <1>1, <1>4, ReleaseThreadSafe, ActivationThreadSafe DEF IInv
<1> QED BY <1>1, <1>2, <1>3, <1>4 DEF Next, IInv

-----------------------------------------------------------------------------
(* The theorems.                                                           *)

(* The inductive invariant: types, a last record sent by whoever is past   *)
(* that point of stop(), one answer under way at most, which is that of    *)
(* the client the server waits for, and whoever is about to be activated   *)
(* is in the database or about to be removed from it.                      *)
THEOREM Invariance == Spec => []IInv
  BY InitInv, NextInv, PTL DEF Spec

(* A socket that is counted in _numberConnectedActive is in the database,  *)
(* for any number of clients that come, go and crash at any moment         *)
(* (arDataServer.cpp:619-624, arBarrierServer.cpp:286).                    *)
THEOREM ActiveSocketsConnected == Spec => []ActiveAreConnected
<1>1. IInv => ActiveAreConnected
  BY DEF IInv, Safe
<1> QED BY <1>1, Invariance, PTL

-----------------------------------------------------------------------------
(* The last record.                                                        *)

(* A queue to which nothing, or something else, is appended, or from which *)
(* records are taken, has got no sync record.                              *)
LEMMA OtherRecords ==
  ASSUME NEW s \in Seq(Upward)
  PROVE  /\ s # Append(s, "tuning") /\ <<>> # Append(s, "tuning")
         /\ s # <<>> => Tail(s) # Append(s, "tuning")
         /\ Append(s, "handshake") # Append(s, "tuning")
         /\ Append(s, "response") # Append(s, "tuning")
<1>1. \A r \in Upward :
        /\ Len(Append(s, r)) = Len(s) + 1 /\ Append(s, r)[Len(s) + 1] = r
  BY AppendProperties
<1>2. Len(s) \in Nat /\ Len(<<>>) = 0
  BY LenProperties, EmptySeq
<1>3. s # <<>> => Len(Tail(s)) = Len(s) - 1
  BY HeadTailProperties
<1>4. "tuning" \in Upward /\ "handshake" \in Upward /\ "response" \in Upward
  BY DEF Upward
<1> QED BY <1>1, <1>2, <1>3, <1>4

(* A step that sends no sync record and leaves _finalSyncSent alone.       *)
LEMMA NothingSent ==
  ASSUME LastSent', NEW b \in Client, ~Sends(b),
         \/ client'[b].finalSent = client[b].finalSent
         \/ client'[b].pc = "gone"
  PROVE  LastRecordOnce(b)
BY DEF LastRecordOnce, LastSent

(* What the client itself does.                                            *)
LEMMA ClientSendsOneLast ==
  ASSUME Types, LastSent, LastSent', NEW c \in Client,
         ClientLoop(c) \/ DataTask(c) \/ StopThread(c) \/ Die(c)
  PROVE  \A b \in Client : LastRecordOnce(b)
<1>0. /\ client[c] \in ClientState /\ \A b \in Client : up[b] \in Seq(Upward)
  BY DEF Types
<1>1. LocalTo(c)
  BY RequestActivationParts, AnswerActivationParts, SendResponseParts,
     ResetReleaseParts, BeginSyncParts, SendTuningParts, EndSyncParts,
     DataTaskParts, StopParts, SendLastParts, SignalLastParts, DieParts
  DEF ClientLoop, StopThread
<1>2. \A b \in Client : b # c => LastRecordOnce(b)
  BY <1>0, <1>1, NothingSent, OtherRecords DEF LocalTo, Sends
<1>3. LastRecordOnce(c)
  <2> DEFINE x == client[c]
             y == client'[c]
  <2>1. CASE RequestActivation(c) \/ SendResponse(c)
    <3>1. CASE RequestActivation(c)
      <4>1. /\ y = [x EXCEPT !.pc = "requested", !.response = FALSE]
            /\ up'[c] = Append(up[c], "handshake")
        BY <3>1, RequestActivationParts
      <4>2. y.finalSent = x.finalSent /\ ~Sends(c)
        BY <1>0, <4>1, OtherRecords DEF Sends, ClientState
      <4> QED BY <4>2, NothingSent
    <3>2. CASE SendResponse(c)
      <4>1. /\ y = [x EXCEPT !.pc = "answered"]
            /\ up'[c] = Append(up[c], "response")
        BY <3>2, SendResponseParts
      <4>2. y.finalSent = x.finalSent /\ ~Sends(c)
        BY <1>0, <4>1, OtherRecords DEF Sends, ClientState
      <4> QED BY <4>2, NothingSent
    <3> QED BY <2>1, <3>1, <3>2
  <2>2. CASE \/ AnswerActivation(c) \/ ResetRelease(c) \/ BeginSync(c)
             \/ EndSync(c) \/ DataTask(c) \/ Stop(c) \/ SignalLast(c)
    <3>1. y.finalSent = x.finalSent
      <4>1. CASE AnswerActivation(c) \/ BeginSync(c)
        <5>1. \E q \in {"answered", "answering", "syncing"} :
                y = [x EXCEPT !.pc = q]
          BY <4>1, AnswerActivationParts, BeginSyncParts
        <5> QED BY <1>0, <5>1 DEF ClientState
      <4>2. CASE ResetRelease(c) \/ EndSync(c) \/ DataTask(c)
        <5>1. \/ y = [x EXCEPT !.pc = "running", !.release = FALSE]
              \/ y = [x EXCEPT !.response = TRUE]
              \/ y = [x EXCEPT !.release = TRUE]
          BY <4>2, ResetReleaseParts, EndSyncParts, DataTaskParts
        <5> QED BY <1>0, <5>1 DEF ClientState
      <4>3. CASE Stop(c) \/ SignalLast(c)
        <5>1. \/ y = [x EXCEPT !.exiting = TRUE, !.response = TRUE,
                               !.stop = "send"]
              \/ y = [x EXCEPT !.release = TRUE, !.stop = "no"]
          BY <4>3, StopParts, SignalLastParts
        <5> QED BY <1>0, <5>1 DEF ClientState
      <4> QED BY <2>2, <4>1, <4>2, <4>3
    <3>2. ~Sends(c)
      <4>1. up'[c] = up[c]
        BY <2>2, AnswerActivationParts, ResetReleaseParts, BeginSyncParts,
           EndSyncParts, DataTaskParts, StopParts, SignalLastParts
      <4> QED BY <1>0, <4>1, OtherRecords DEF Sends
    <3> QED BY <3>1, <3>2, NothingSent
  <2>3. CASE SendTuning(c)
    <3>1. CASE client'[c] = [client[c] EXCEPT !.pc = "running"]
               /\ up'[c] = up[c]
      <4>1. client'[c].finalSent = client[c].finalSent /\ ~Sends(c)
        BY <1>0, <3>1, OtherRecords DEF Sends, ClientState
      <4> QED BY <4>1, NothingSent
    <3>2. CASE ~client[c].finalSent
               /\ client'[c] = [client[c] EXCEPT !.pc = "waiting",
                                  !.finalSent = client[c].finalSent
                                                \/ client[c].exiting]
      <4>1. client'[c].finalSent <=> client[c].exiting
        BY <1>0, <3>2 DEF ClientState
      <4> QED BY <3>2, <4>1 DEF LastRecordOnce, LastSent
    <3> QED BY <2>3, <3>1, <3>2, SendTuningParts
  <2>4. CASE SendLast(c)
    <3>1. /\ client'[c].finalSent
          /\ client[c].finalSent => up'[c] = up[c]
      <4>1. /\ y = [x EXCEPT !.finalSent = TRUE, !.stop = "signal"]
            /\ up'[c] = IF x.finalSent THEN up[c] ELSE Append(up[c], "tuning")
        BY <2>4, SendLastParts
      <4> QED BY <1>0, <4>1 DEF ClientState
    <3> QED BY <1>0, <3>1, OtherRecords DEF LastRecordOnce, Sends
  <2>5. CASE Die(c)
    <3>1. client'[c].pc = "gone" /\ ~Sends(c)
      BY <1>0, <2>5, DieParts, OtherRecords DEF Sends
    <3> QED BY <3>1, NothingSent
  <2> QED BY <2>1, <2>2, <2>3, <2>4, <2>5 DEF ClientLoop, StopThread
<1> QED BY <1>2, <1>3

(* What the server does, and the connection.                               *)
LEMMA NobodyElseSends ==
  ASSUME Types, LastSent', NEW c \in Client,
         \/ UNCHANGED vars
         \/ Accept(c) \/ ReadThread(c) \/ ReleaseThread \/ ActivationThread
  PROVE  \A b \in Client : LastRecordOnce(b)
<1>0. \A b \in Client : client[b] \in ClientState /\ up[b] \in Seq(Upward)
  BY DEF Types
<1>1. \A b \in Client : client'[b].finalSent = client[b].finalSent
  <2>1. CASE Accept(c)
    <3>1. client' = [client EXCEPT ![c].pc = "connected"]
      BY <2>1 DEF Accept, Goto
    <3> QED BY <1>0, <3>1 DEF Types, ClientState
  <2>2. CASE ~Accept(c)
    <3>1. UNCHANGED client
      BY <2>2
      DEF vars, ReadThread, ReceiveHandshake, ReceiveResponse, ReceiveTuning,
          BeginRemove, EndRemove, ReleaseThread, CheckRound, SendRelease,
          SignalRelease, ActivationThread, TakeQueue, LockRounds, FindSocket,
          OfferActivation, AwaitResponse, MoveSocket, EnterLocal, LeaveLocal
    <3> QED BY <3>1
  <2> QED BY <2>1, <2>2
<1>2. \A b \in Client : ~Sends(b)
  <2>1. \/ UNCHANGED up
        \/ up[c] # <<>> /\ up' = [up EXCEPT ![c] = Tail(@)]
        \/ up' = [up EXCEPT ![c] = <<>>]
    BY DEF vars, Accept, ReadThread, ReceiveHandshake, ReceiveResponse,
       ReceiveTuning, Read, BeginRemove, EndRemove, ReleaseThread, CheckRound,
       SendRelease, SignalRelease, ActivationThread, TakeQueue, LockRounds,
       FindSocket, OfferActivation, AwaitResponse, MoveSocket, EnterLocal,
       LeaveLocal
  <2>2. \A b \in Client :
          \/ up'[b] = up[b] \/ up'[b] = <<>>
          \/ up[b] # <<>> /\ up'[b] = Tail(up[b])
    <3>1. up \in [Client -> Seq(Upward)]
      BY DEF Types
    <3> QED BY <2>1, <3>1
  <2> QED BY <1>0, <2>2, OtherRecords DEF Sends
<1> QED BY <1>1, <1>2, NothingSent

(* Once _exitProgram is set, exactly one sync record goes out, that of a   *)
(* sync() under way or that of stop(), whoever else comes, stops or dies   *)
(* (arBarrierClient.cpp:246-250, 311-316).                                 *)
THEOREM LastRecordIsOne == Spec => OneLastRecord
<1>1. IInv /\ IInv' /\ [Next]_vars => \A c \in Client : LastRecordOnce(c)
  <2> SUFFICES ASSUME IInv, IInv', [Next]_vars
               PROVE  \A b \in Client : LastRecordOnce(b)
    OBVIOUS
  <2>1. Types /\ LastSent /\ LastSent'
    BY DEF IInv
  <2>2. \A c \in Client :
          ClientLoop(c) \/ DataTask(c) \/ StopThread(c) \/ Die(c) =>
            \A b \in Client : LastRecordOnce(b)
    BY <2>1, ClientSendsOneLast
  <2>3. \A c \in Client :
          Accept(c) \/ ReadThread(c) => \A b \in Client : LastRecordOnce(b)
    BY <2>1, NobodyElseSends
  <2>4. UNCHANGED vars \/ ReleaseThread \/ ActivationThread =>
          \A b \in Client : LastRecordOnce(b)
    BY <2>1, NobodyElseSends
  <2> QED BY <2>2, <2>3, <2>4 DEF Next
<1> QED BY <1>1, Invariance, PTL DEF Spec, OneLastRecord

-----------------------------------------------------------------------------
(* How many records there can be.  A client sends at most one record for   *)
(* each time it is let out of the barrier, and one more when it stops, so  *)
(* that whatever the server counts was owed by somebody.                   *)

(* Where and how often the record r is in the queue s.                     *)
Places(s, r) == {i \in DOMAIN s : s[i] = r}
Times(s, r) == Cardinality(Places(s, r))
One(b) == IF b THEN 1 ELSE 0

(* What a client owes: the records on their way in u and the last one if   *)
(* it exits and has not sent it; otherwise one if it is outside of the     *)
(* barrier, one for each release on its way in d, one for the release it   *)
(* has, and the last one.                                                  *)
Chances(d, x) ==
  IF x.pc = "gone" THEN 0
  ELSE IF x.exiting THEN One(~x.finalSent)
  ELSE Times(d, "release") + One(x.release) + One(x.pc # "waiting") + 1
Weight(u, d, x) == Times(u, "tuning") + Chances(d, x)
Owed == [c \in Client |-> Weight(up[c], down[c], client[c])]

(* The sum of the numbers in w, as the size of a set.                      *)
Tokens(w) == UNION {{<<c, k>> : k \in 1..w[c]} : c \in Client}

(* What the local loop owes.                                               *)
LocalChances ==
  IF local
  THEN One(activation.pc # "waiting") + One(signal.local)
       + One(release = "signal")
  ELSE 0

(* The releases that are about to be sent.                                 *)
RoundChances ==
  IF release = "send" THEN Cardinality(db.active) + One(local) ELSE 0

(* What was counted, and what is due besides the clients' records.         *)
Rest == total + LocalChances + RoundChances

(* No more than everybody can owe at first: two records per client, and    *)
(* the local loop's.                                                       *)
Budget ==
  /\ IsFiniteSet(Tokens(Owed))
  /\ Rest + Cardinality(Tokens(Owed)) <= 2 * Cardinality(Client) + 1

(* The places of a record in a queue are finitely many.                    *)
LEMMA TimesType ==
  ASSUME NEW S, NEW s \in Seq(S), NEW r
  PROVE  /\ IsFiniteSet(Places(s, r)) /\ Times(s, r) \in Nat
         /\ DOMAIN s = 1..Len(s) /\ Len(s) \in Nat
<1>1. DOMAIN s = 1..Len(s) /\ Len(s) \in Nat
  BY LenProperties
<1>2. IsFiniteSet(1..Len(s))
  BY <1>1, FS_Interval
<1>3. Places(s, r) \in SUBSET (1..Len(s))
  BY <1>1 DEF Places
<1>4. IsFiniteSet(Places(s, r))
  BY <1>2, <1>3, FS_Subset
<1> QED BY <1>1, <1>4, FS_CardinalityType DEF Times

(* An empty queue holds nothing,                                           *)
LEMMA TimesNothing ==
  ASSUME NEW r
  PROVE  Times(<<>>, r) = 0
<1>1. Places(<<>>, r) = {}
  BY DEF Places
<1> QED BY <1>1, FS_EmptySet DEF Times

(* a record that is sent is one more,                                      *)
LEMMA TimesAppend ==
  ASSUME NEW S, NEW s \in Seq(S), NEW x \in S, NEW r
  PROVE  Times(Append(s, x), r) = Times(s, r) + One(x = r)
<1> DEFINE t == Append(s, x)
           n == Len(s) + 1
<1>1. /\ t \in Seq(S) /\ Len(t) = n /\ t[n] = x
      /\ \A i \in 1..Len(s) : t[i] = s[i]
      /\ Len(s) \in Nat
      /\ DOMAIN s = 1..Len(s) /\ DOMAIN t = 1..Len(t)
  BY AppendProperties, LenProperties
<1> HIDE DEF t
<1>2. /\ \A i : i \in DOMAIN t <=> i \in DOMAIN s \/ i = n
      /\ n \notin DOMAIN s
  BY <1>1
<1>3. IsFiniteSet(Places(s, r)) /\ Times(s, r) \in Nat
  BY TimesType
<1> HIDE DEF n
<1>4. n \notin Places(s, r)
  BY <1>2 DEF Places
<1>5. CASE x = r
  <2>1. Places(t, r) = Places(s, r) \cup {n}
    BY <1>1, <1>2, <1>5 DEF Places
  <2>2. Cardinality(Places(s, r) \cup {n}) = Cardinality(Places(s, r)) + 1
    BY <1>3, <1>4, FS_AddElement
  <2> QED BY <1>5, <2>1, <2>2 DEF Times, One, t
<1>6. CASE x # r
  <2>1. Places(t, r) = Places(s, r)
    BY <1>1, <1>2, <1>6 DEF Places
  <2> QED BY <1>3, <1>6, <2>1 DEF Times, One, t
<1> QED BY <1>5, <1>6

(* and one that is read is one less.                                       *)
LEMMA TimesTail ==
  ASSUME NEW S, NEW s \in Seq(S), s # <<>>, NEW r
  PROVE  Times(s, r) = Times(Tail(s), r) + One(Head(s) = r)
<1> DEFINE t == Tail(s)
           P == Places(s, r) \ {1}
           Q == Places(t, r)
<1>1. /\ t \in Seq(S) /\ Head(s) \in S /\ Head(s) = s[1]
      /\ Len(s) \in Nat \ {0} /\ Len(t) = Len(s) - 1
      /\ \A i \in 1..Len(t) : t[i] = s[i + 1]
      /\ DOMAIN s = 1..Len(s) /\ DOMAIN t = 1..Len(t)
  BY HeadTailProperties, LenProperties, EmptySeq
<1>2. IsFiniteSet(Q) /\ Times(t, r) \in Nat
  BY <1>1, TimesType
<1>3. IsFiniteSet(Places(s, r)) /\ Times(s, r) \in Nat
  BY TimesType
<1> HIDE DEF t
<1>4. ExistsBijection(Q, P)
  <2> DEFINE f == [i \in Q |-> i + 1]
  <2>1. \A i \in Q : i \in Int /\ i + 1 \in P
    BY <1>1 DEF Places
  <2>2. \A j \in P : j - 1 \in Q /\ j \in Int
    BY <1>1 DEF Places
  <2> HIDE DEF P, Q
  <2>3. f \in [Q -> P]
    BY <2>1
  <2>4. \A i, j \in Q : f[i] = f[j] => i = j
    BY <2>1
  <2>5. \A j \in P : \E i \in Q : f[i] = j
    <3> SUFFICES ASSUME NEW j \in P PROVE \E i \in Q : f[i] = j
      OBVIOUS
    <3>1. j - 1 \in Q /\ j \in Int
      BY <2>2
    <3>2. f[j - 1] = j
      BY <3>1
    <3> QED BY <3>1, <3>2
  <2> HIDE DEF f
  <2>6. f \in Injection(Q, P)
    BY <2>3, <2>4, Fun_IsInj
  <2>7. f \in Surjection(Q, P)
    BY <2>3, <2>5, Fun_IsSurj
  <2> QED BY <2>6, <2>7 DEF ExistsBijection, Bijection
<1>5. Cardinality(P) = Times(t, r)
  BY <1>2, <1>4, FS_Bijection DEF Times
<1>6. Cardinality(P) = IF 1 \in Places(s, r) THEN Times(s, r) - 1 ELSE Times(s, r)
  BY <1>3, FS_RemoveElement DEF Times
<1>7. 1 \in Places(s, r) <=> Head(s) = r
  BY <1>1 DEF Places
<1> HIDE DEF P
<1> QED BY <1>2, <1>3, <1>5, <1>6, <1>7 DEF One, t

-----------------------------------------------------------------------------
(* Nobody owes more.                                                       *)
LEMMA TokensKept ==
  ASSUME NEW w \in [Client -> Nat], NEW v \in [Client -> Nat],
         IsFiniteSet(Tokens(w)),
         \A c \in Client : v[c] <= w[c]
  PROVE  /\ IsFiniteSet(Tokens(v))
         /\ Cardinality(Tokens(v)) <= Cardinality(Tokens(w))
         /\ Cardinality(Tokens(v)) \in Nat /\ Cardinality(Tokens(w)) \in Nat
<1>1. \A c \in Client : \A k \in 1..v[c] : k \in 1..w[c]
  OBVIOUS
<1>2. Tokens(v) \in SUBSET Tokens(w)
  BY <1>1 DEF Tokens
<1> QED BY <1>2, FS_Subset, FS_CardinalityType

(* One of them owes one less.                                              *)
LEMMA TokenSpent ==
  ASSUME NEW w \in [Client -> Nat], NEW v \in [Client -> Nat],
         IsFiniteSet(Tokens(w)), NEW b \in Client,
         \A c \in Client : v[c] <= w[c],
         v[b] + 1 <= w[b]
  PROVE  /\ IsFiniteSet(Tokens(v))
         /\ Cardinality(Tokens(v)) + 1 <= Cardinality(Tokens(w))
         /\ Cardinality(Tokens(v)) \in Nat /\ Cardinality(Tokens(w)) \in Nat
<1> DEFINE t == <<b, w[b]>>
           R == Tokens(w) \ {t}
<1>1. t \in Tokens(w)
  <2>1. w[b] \in 1..w[b]
    OBVIOUS
  <2> QED BY <2>1 DEF Tokens
<1>2. Tokens(v) \in SUBSET R
  <2> SUFFICES ASSUME NEW c \in Client, NEW k \in 1..v[c]
               PROVE  <<c, k>> \in Tokens(w) /\ <<c, k>> # t
    BY DEF Tokens
  <2>1. k \in 1..w[c]
    OBVIOUS
  <2>2. c = b => k # w[b]
    OBVIOUS
  <2> QED BY <2>1, <2>2 DEF Tokens
<1>3. IsFiniteSet(R) /\ Cardinality(R) = Cardinality(Tokens(w)) - 1
  BY <1>1, FS_RemoveElement
<1>4. Cardinality(Tokens(w)) \in Nat
  BY FS_CardinalityType
<1> HIDE DEF R
<1>5. IsFiniteSet(Tokens(v)) /\ Cardinality(Tokens(v)) <= Cardinality(R)
  BY <1>2, <1>3, FS_Subset
<1>6. Cardinality(Tokens(v)) \in Nat
  BY <1>5, FS_CardinalityType
<1> QED BY <1>3, <1>4, <1>5, <1>6

(* Some owe one more.                                                      *)
LEMMA TokensGiven ==
  ASSUME NEW w \in [Client -> Nat], NEW v \in [Client -> Nat],
         IsFiniteSet(Tokens(w)), NEW P \in SUBSET Client,
         \A c \in Client : v[c] <= w[c] + One(c \in P)
  PROVE  /\ IsFiniteSet(Tokens(v))
         /\ Cardinality(Tokens(v)) <= Cardinality(Tokens(w)) + Cardinality(P)
         /\ Cardinality(Tokens(v)) \in Nat /\ Cardinality(Tokens(w)) \in Nat
         /\ Cardinality(P) \in Nat
<1> DEFINE N == {<<c, w[c] + 1>> : c \in P}
           U == Tokens(w) \cup N
<1>1. IsFiniteSet(P) /\ Cardinality(P) \in Nat
  BY ClientAssumption, FS_Subset, FS_CardinalityType
<1>2. IsFiniteSet(N) /\ Cardinality(N) <= Cardinality(P)
  <2> DEFINE f == [c \in P |-> <<c, w[c] + 1>>]
  <2>1. f \in [P -> N] /\ \A t \in N : \E c \in P : f[c] = t
    OBVIOUS
  <2> HIDE DEF f, N
  <2>2. f \in Surjection(P, N)
    BY <2>1, Fun_IsSurj
  <2> QED BY <1>1, <2>2, FS_Surjection
<1>3. Tokens(v) \in SUBSET U
  <2> SUFFICES ASSUME NEW c \in Client, NEW k \in 1..v[c],
                      <<c, k>> \notin Tokens(w)
               PROVE  <<c, k>> \in N
    BY DEF Tokens
  <2>1. k \notin 1..w[c]
    BY DEF Tokens
  <2>2. c \in P /\ k = w[c] + 1
    BY <2>1 DEF One
  <2> QED BY <2>2
<1> HIDE DEF N
<1>4. /\ Cardinality(Tokens(w)) \in Nat /\ Cardinality(N) \in Nat
      /\ Cardinality(Tokens(w) \cap N) \in Nat
  <2>1. IsFiniteSet(Tokens(w) \cap N)
    BY <1>2, FS_Subset
  <2> QED BY <1>2, <2>1, FS_CardinalityType
<1>5. /\ IsFiniteSet(U)
      /\ Cardinality(U) = Cardinality(Tokens(w)) + Cardinality(N)
                            - Cardinality(Tokens(w) \cap N)
  BY <1>2, FS_Union
<1>6. IsFiniteSet(Tokens(v)) /\ Cardinality(Tokens(v)) <= Cardinality(U)
  BY <1>3, <1>5, FS_Subset
<1>7. Cardinality(Tokens(v)) \in Nat
  BY <1>6, FS_CardinalityType
<1> HIDE DEF U
<1> QED BY <1>1, <1>2, <1>4, <1>5, <1>6, <1>7

-----------------------------------------------------------------------------
(* What is owed is a natural number, for each client,                      *)
LEMMA WeightParts ==
  ASSUME NEW u \in Seq(Upward), NEW d \in Seq(Downward), NEW x \in ClientState
  PROVE  /\ Times(u, "tuning") \in Nat /\ Times(d, "release") \in Nat
         /\ Chances(d, x) \in Nat /\ Weight(u, d, x) \in Nat
<1>1. Times(u, "tuning") \in Nat /\ Times(d, "release") \in Nat
  BY TimesType
<1> QED BY <1>1 DEF Chances, Weight, One

(* and for all of them before and after a step.                            *)
LEMMA OwedType ==
  /\ Types => Owed \in [Client -> Nat]
  /\ Types' => Owed' \in [Client -> Nat]
<1>1. Types => Owed \in [Client -> Nat]
  BY WeightParts DEF Types, Owed
<1>2. Types' => Owed' \in [Client -> Nat]
  BY WeightParts DEF Types, Owed
<1> QED BY <1>1, <1>2

(* The active sockets can be counted.                                      *)
LEMMA ActiveFinite ==
  ASSUME NEW d \in Database
  PROVE  IsFiniteSet(d.active) /\ Cardinality(d.active) \in Nat
<1>1. d.active \in SUBSET Client
  BY DEF Database
<1> QED BY <1>1, ClientAssumption, FS_Subset, FS_CardinalityType

(* What is due to the server is a natural number.                          *)
LEMMA RestType ==
  /\ Types => Rest \in Nat
  /\ Types' => Rest' \in Nat
<1>1. Types => Cardinality(db.active) \in Nat
  BY ActiveFinite DEF Types
<1>2. Types' => Cardinality(db'.active) \in Nat
  BY ActiveFinite DEF Types
<1>3. Types => Rest \in Nat
  BY <1>1 DEF Types, Rest, LocalChances, RoundChances, One
<1>4. Types' => Rest' \in Nat
  BY <1>2 DEF Types, Rest, LocalChances, RoundChances, One
<1> QED BY <1>3, <1>4

(* Facts of arithmetic, to be applied to whole terms.                      *)
LEMMA SumsCompared ==
  \A a, b, e, f, g, h \in Nat :
    a + b <= e + f /\ g <= h => a + b + g <= e + f + h
OBVIOUS

LEMMA SumCompared ==
  \A a, b, e, f \in Nat : a <= e /\ b <= f => a + b <= e + f
OBVIOUS

LEMMA SumMoved == \A a, b \in Nat : (a + 1) + b <= a + (b + 1)
OBVIOUS

(* What changes of the server's own records.                               *)
LEMMA RestCompared ==
  ASSUME total \in Nat, total' \in Nat,
         LocalChances \in Nat, LocalChances' \in Nat,
         RoundChances \in Nat, RoundChances' \in Nat,
         RoundChances' <= RoundChances,
         total' + LocalChances' <= total + LocalChances
  PROVE  Rest' <= Rest
<1>1. Rest' = total' + LocalChances' + RoundChances'
  BY DEF Rest
<1>2. Rest = total + LocalChances + RoundChances
  BY DEF Rest
<1> QED BY <1>1, <1>2, SumsCompared

(* The clients can be counted.                                             *)
LEMMA ClientsFinite == Cardinality(Client) \in Nat
BY ClientAssumption, FS_CardinalityType

(* A step after which nobody owes more.                                    *)
LEMMA BudgetKept ==
  ASSUME Types, Types', Budget, Rest' <= Rest,
         \A c \in Client : Owed'[c] <= Owed[c]
  PROVE  Budget'
<1> DEFINE w == Owed
           v == Owed'
<1>1. w \in [Client -> Nat] /\ v \in [Client -> Nat]
      /\ IsFiniteSet(Tokens(w)) /\ \A c \in Client : v[c] <= w[c]
  BY OwedType DEF Budget
<1>2. Rest \in Nat /\ Rest' \in Nat /\ Cardinality(Client) \in Nat
  BY RestType, ClientsFinite
<1>3. Tokens(v) = Tokens(Owed)'
  BY DEF Tokens
<1>4. Rest + Cardinality(Tokens(w)) <= 2 * Cardinality(Client) + 1
  BY DEF Budget
<1> HIDE DEF w, v
<1>5. /\ IsFiniteSet(Tokens(v))
      /\ Cardinality(Tokens(v)) <= Cardinality(Tokens(w))
      /\ Cardinality(Tokens(v)) \in Nat /\ Cardinality(Tokens(w)) \in Nat
  BY <1>1, TokensKept
<1>6. Rest' + Cardinality(Tokens(v)) <= 2 * Cardinality(Client) + 1
  BY <1>2, <1>4, <1>5
<1> QED BY <1>3, <1>5, <1>6 DEF Budget, v

(* What a client does adds nothing to what it owes.                        *)
LEMMA ClientWeight ==
  ASSUME Types, NEW c \in Client,
         client[c].stop # "no" => client[c].exiting /\ client[c].pc # "gone",
         \/ ClientLoop(c) \/ DataTask(c) \/ StopThread(c) \/ Die(c)
  PROVE  Weight(up'[c], down'[c], client'[c]) <= Weight(up[c], down[c], client[c])
<1> DEFINE u == up[c]
           d == down[c]
           x == client[c]
<1>0. u \in Seq(Upward) /\ d \in Seq(Downward) /\ x \in ClientState
  BY DEF Types
<1>1. Times(u, "tuning") \in Nat /\ Times(d, "release") \in Nat
  BY <1>0, WeightParts
<1>2. /\ Times(Append(u, "handshake"), "tuning") = Times(u, "tuning")
      /\ Times(Append(u, "response"), "tuning") = Times(u, "tuning")
      /\ Times(Append(u, "tuning"), "tuning") = Times(u, "tuning") + 1
  BY <1>0, <1>1, TimesAppend DEF Upward, One
<1>3. CASE RequestActivation(c)
  <2>1. /\ down'[c] = d /\ up'[c] = Append(u, "handshake")
        /\ client'[c] = [x EXCEPT !.pc = "requested", !.response = FALSE]
        /\ x.pc = "connected"
    BY <1>3, RequestActivationParts
  <2> QED BY <1>0, <1>1, <1>2, <2>1 DEF Weight, Chances, One, ClientState
<1>4. CASE AnswerActivation(c) \/ SendResponse(c)
  <2>1. /\ (up'[c] = u \/ up'[c] = Append(u, "response"))
        /\ \E p \in {"answering", "answered"} : client'[c] = [x EXCEPT !.pc = p]
        /\ x.pc \in {"requested", "answering"} /\ down'[c] = d
    BY <1>4, AnswerActivationParts, SendResponseParts
  <2>2. Times(up'[c], "tuning") = Times(u, "tuning")
    BY <1>2, <2>1
  <2>3. Chances(down'[c], client'[c]) = Chances(d, x)
    BY <1>0, <2>1 DEF Chances, One, ClientState
  <2>4. Chances(d, x) \in Nat
    BY <1>0, WeightParts
  <2> QED BY <1>1, <2>2, <2>3, <2>4 DEF Weight
<1>5. CASE ResetRelease(c)
  <2>1. /\ down'[c] = d /\ up'[c] = u
        /\ client'[c] = [x EXCEPT !.pc = "running", !.release = FALSE]
        /\ x.pc = "answered"
    BY <1>5, ResetReleaseParts
  <2> QED BY <1>0, <1>1, <2>1 DEF Weight, Chances, One, ClientState
<1>6. CASE BeginSync(c)
  <2>1. /\ down'[c] = d /\ up'[c] = u
        /\ client'[c] = [x EXCEPT !.pc = "syncing"]
        /\ x.pc = "running"
    BY <1>6, BeginSyncParts
  <2> QED BY <1>0, <1>1, <2>1 DEF Weight, Chances, One, ClientState
<1>7. CASE SendTuning(c)
  <2> DEFINE y == client'[c]
  <2>1. /\ down'[c] = d /\ x.pc = "syncing"
        /\ \/ y = [x EXCEPT !.pc = "running"] /\ up'[c] = u
           \/ /\ y.pc = "waiting" /\ y.release = x.release
              /\ y.exiting = x.exiting /\ ~x.finalSent
              /\ x.exiting => y.finalSent
              /\ up'[c] = Append(u, "tuning")
    BY <1>0, <1>7, SendTuningParts DEF ClientState
  <2>2. CASE y = [x EXCEPT !.pc = "running"] /\ up'[c] = u
    BY <1>0, <1>1, <2>1, <2>2 DEF Weight, Chances, One, ClientState
  <2>3. CASE /\ y.pc = "waiting" /\ y.release = x.release
             /\ y.exiting = x.exiting /\ ~x.finalSent
             /\ x.exiting => y.finalSent
             /\ up'[c] = Append(u, "tuning")
    <3>1. Chances(d, y) + 1 = Chances(d, x)
      BY <1>0, <1>1, <2>1, <2>3 DEF Chances, One, ClientState
    <3>2. Chances(d, x) \in Nat /\ Chances(d, y) \in Nat
      BY <1>0, <1>1, <2>3, WeightParts DEF Chances, One
    <3>3. Times(up'[c], "tuning") = Times(u, "tuning") + 1
      BY <1>2, <2>3
    <3> HIDE DEF x, y, d, u
    <3>4. Times(up'[c], "tuning") + Chances(d, y)
            <= Times(u, "tuning") + Chances(d, x)
      BY <1>1, <3>1, <3>2, <3>3
    <3> QED BY <2>1, <3>4 DEF Weight, x, y, d, u
  <2> QED BY <2>1, <2>2, <2>3
<1>8. CASE EndSync(c)
  <2>1. /\ down'[c] = d /\ up'[c] = u
        /\ client'[c] = [x EXCEPT !.pc = "running", !.release = FALSE]
        /\ x.pc = "waiting" /\ x.release
    BY <1>8, EndSyncParts
  <2> QED BY <1>0, <1>1, <2>1 DEF Weight, Chances, One, ClientState
<1>9. CASE DataTask(c)
  <2>1. /\ up'[c] = u /\ d # <<>> /\ down'[c] = Tail(d)
        /\ \/ Head(d) = "handshake" /\ client'[c] = [x EXCEPT !.response = TRUE]
           \/ Head(d) # "handshake" /\ client'[c] = [x EXCEPT !.release = TRUE]
    BY <1>9, DataTaskParts
  <2>2. /\ Head(d) \in Downward
        /\ Times(d, "release") = Times(Tail(d), "release") + One(Head(d) = "release")
        /\ Times(Tail(d), "release") \in Nat
    <3> HIDE DEF d
    <3>1. Head(d) \in Downward /\ Tail(d) \in Seq(Downward)
      BY <1>0, <2>1, HeadTailProperties
    <3>2. Times(d, "release") =
            Times(Tail(d), "release") + One(Head(d) = "release")
      BY <1>0, <2>1, TimesTail
    <3>3. Times(Tail(d), "release") \in Nat
      BY <3>1, TimesType
    <3> QED BY <3>1, <3>2, <3>3
  <2> DEFINE y == client'[c]
             n == Times(d, "release")
             m == Times(Tail(d), "release")
  <2>3. /\ y.pc = x.pc /\ y.exiting = x.exiting /\ y.finalSent = x.finalSent
        /\ \/ y.release = x.release /\ n = m
           \/ y.release = TRUE /\ n = m + 1
    BY <1>0, <2>1, <2>2 DEF ClientState, Downward, One
  <2>4. x.release \in BOOLEAN /\ n \in Nat /\ m \in Nat
    BY <1>0, <1>1, <2>2 DEF ClientState
  <2>5. Chances(down'[c], y) <= Chances(d, x)
    <3>1. Chances(down'[c], y) =
            IF y.pc = "gone" THEN 0
            ELSE IF y.exiting THEN One(~y.finalSent)
            ELSE m + One(y.release) + One(y.pc # "waiting") + 1
      BY <2>1 DEF Chances
    <3>2. Chances(d, x) =
            IF x.pc = "gone" THEN 0
            ELSE IF x.exiting THEN One(~x.finalSent)
            ELSE n + One(x.release) + One(x.pc # "waiting") + 1
      BY DEF Chances
    <3> HIDE DEF x, y, n, m
    <3> QED BY <2>3, <2>4, <3>1, <3>2 DEF One
  <2>6. Chances(down'[c], y) \in Nat /\ Chances(d, x) \in Nat
    BY <1>0, <2>1, <2>3, <2>4 DEF Chances, One
  <2> HIDE DEF x, y, d, u
  <2>7. Times(up'[c], "tuning") = Times(u, "tuning")
    BY <2>1 DEF u
  <2>8. Times(u, "tuning") + Chances(down'[c], y)
          <= Times(u, "tuning") + Chances(d, x)
    BY <1>1, <2>5, <2>6
  <2> QED BY <2>7, <2>8 DEF Weight, y, d, x, u
<1>10. CASE Stop(c)
  <2>1. /\ x.pc # "gone" /\ ~x.exiting /\ up'[c] = u
        /\ client'[c].exiting
    BY <1>0, <1>10, StopParts DEF ClientState
  <2>2. Chances(d, x) \in Nat /\ Chances(d, x) >= 1
    BY <1>0, <1>1, <2>1 DEF Chances, One
  <2>3. Chances(down'[c], client'[c]) \in {0, 1}
    BY <2>1 DEF Chances, One
  <2>4. Chances(down'[c], client'[c]) <= Chances(d, x)
    BY <2>2, <2>3
  <2> QED BY <1>1, <2>1, <2>2, <2>3, <2>4 DEF Weight
<1>12. CASE SendLast(c)
  <2>1. /\ x.exiting /\ x.pc # "gone" /\ down'[c] = d
        /\ client'[c].pc = x.pc /\ client'[c].exiting /\ client'[c].finalSent
        /\ up'[c] = IF x.finalSent THEN u ELSE Append(u, "tuning")
    BY <1>0, <1>12, SendLastParts DEF ClientState
  <2>2. Chances(down'[c], client'[c]) = 0
    BY <2>1 DEF Chances, One
  <2>3. Chances(d, x) = One(~x.finalSent)
    BY <2>1 DEF Chances
  <2>4. Times(up'[c], "tuning") = Times(u, "tuning") + One(~x.finalSent)
    BY <1>1, <1>2, <2>1 DEF One
  <2>5. One(~x.finalSent) \in Nat
    BY DEF One
  <2> QED BY <1>1, <2>2, <2>3, <2>4, <2>5 DEF Weight
<1>13. CASE SignalLast(c)
  <2>1. /\ x.exiting /\ down'[c] = d /\ up'[c] = u
        /\ client'[c] = [x EXCEPT !.release = TRUE, !.stop = "no"]
    BY <1>0, <1>13, SignalLastParts DEF ClientState
  <2>2. Chances(down'[c], client'[c]) = Chances(d, x)
    BY <1>0, <2>1 DEF Chances, ClientState
  <2>3. Chances(d, x) \in Nat
    BY <1>0, WeightParts
  <2> QED BY <1>1, <2>1, <2>2, <2>3 DEF Weight
<1>11. CASE Die(c)
  <2>1. up'[c] = u /\ client'[c].pc = "gone"
    BY <1>0, <1>11, DieParts DEF ClientState
  <2> QED BY <1>0, <1>1, <2>1 DEF Weight, Chances, One
<1> QED BY <1>3, <1>4, <1>5, <1>6, <1>7, <1>8, <1>9, <1>10, <1>11, <1>12,
     <1>13 DEF ClientLoop, StopThread

(* The server's own records stay what they are, or fewer of the releases   *)
(* that are about to be sent have an addressee.                            *)
LEMMA RestKept ==
  ASSUME Types, Types', local' = local, total' = total,
         activation'.pc = "waiting" <=> activation.pc = "waiting",
         signal'.local = signal.local,
         release' = "signal" => release = "signal",
         release' = "send" => release = "send" /\ db'.active \subseteq db.active
  PROVE  Rest' <= Rest
<1>1. /\ total \in Nat
      /\ IsFiniteSet(db.active) /\ Cardinality(db.active) \in Nat
      /\ Cardinality(db'.active) \in Nat
  BY ActiveFinite DEF Types
<1>2. release' = "send" => Cardinality(db'.active) <= Cardinality(db.active)
  BY <1>1, FS_Subset
<1>3. LocalChances \in Nat /\ LocalChances' \in Nat
      /\ LocalChances' <= LocalChances
  BY DEF LocalChances, One
<1>4. /\ RoundChances \in Nat /\ RoundChances' \in Nat
      /\ RoundChances' <= RoundChances
  BY <1>1, <1>2 DEF RoundChances, One
<1>5. total' \in Nat /\ total' + LocalChances' <= total + LocalChances
  <2>1. total' = total
    OBVIOUS
  <2>2. total' <= total /\ total' \in Nat
    BY <1>1, <2>1
  <2> QED BY <1>1, <1>3, <2>2, SumCompared
<1> QED BY <1>1, <1>3, <1>4, <1>5, RestCompared

(* No client and no record on its way changes.                             *)
LEMMA OwedStays ==
  ASSUME Types, UNCHANGED <<client, up, down>>
  PROVE  \A b \in Client : Owed'[b] <= Owed[b]
<1>1. Owed \in [Client -> Nat] /\ Owed' = Owed
  BY OwedType DEF Owed
<1> QED BY <1>1

(* Only what c owes changes, and does not grow.                            *)
LEMMA OwedOf ==
  ASSUME Types, NEW c \in Client,
         \A b \in Client \ {c} :
           client'[b] = client[b] /\ up'[b] = up[b] /\ down'[b] = down[b],
         Weight(up'[c], down'[c], client'[c])
           <= Weight(up[c], down[c], client[c])
  PROVE  \A b \in Client : Owed'[b] <= Owed[b]
<1>1. Owed \in [Client -> Nat]
  BY OwedType
<1> SUFFICES ASSUME NEW b \in Client PROVE Owed'[b] <= Owed[b]
  OBVIOUS
<1>2. /\ Owed[b] = Weight(up[b], down[b], client[b])
      /\ Owed'[b] = Weight(up'[b], down'[b], client'[b])
  BY DEF Owed
<1>3. CASE b = c
  BY <1>2, <1>3
<1>4. CASE b # c
  <2>1. Owed'[b] = Owed[b]
    BY <1>2, <1>4
  <2> QED BY <1>1, <2>1
<1> QED BY <1>3, <1>4

(* A client's step spends what the client owes, or leaves it alone.        *)
LEMMA ClientActionBudget ==
  ASSUME Types, Types', Budget, LastSent, NEW c \in Client,
         \/ ClientLoop(c) \/ DataTask(c) \/ StopThread(c) \/ Die(c)
  PROVE  Budget'
<1>1. LocalTo(c)
  BY RequestActivationParts, AnswerActivationParts, SendResponseParts,
     ResetReleaseParts, BeginSyncParts, SendTuningParts, EndSyncParts,
     DataTaskParts, StopParts, SendLastParts, SignalLastParts, DieParts
  DEF ClientLoop, StopThread
<1>2. Weight(up'[c], down'[c], client'[c]) <= Weight(up[c], down[c], client[c])
  BY ClientWeight DEF LastSent
<1>3. \A b \in Client : Owed'[b] <= Owed[b]
  BY <1>1, <1>2, OwedOf DEF LocalTo
<1>4. Rest' <= Rest
  BY <1>1, RestKept DEF LocalTo, serverVars
<1> QED BY <1>3, <1>4, BudgetKept

(* A connection that is accepted owes what it owed from the beginning.     *)
LEMMA AcceptBudget ==
  ASSUME Types, Types', Budget, NEW c \in Client, Accept(c)
  PROVE  Budget'
<1>1. /\ client[c].pc = "new"
      /\ client' = [client EXCEPT ![c].pc = "connected"]
      /\ db'.active = db.active
      /\ UNCHANGED <<local, up, down, total, release, activation, signal>>
  BY DEF Types, Database, Accept, Goto
<1>2. Weight(up'[c], down'[c], client'[c]) <= Weight(up[c], down[c], client[c])
  <2>1. /\ client'[c].pc = "connected"
        /\ client'[c].exiting = client[c].exiting
        /\ client'[c].finalSent = client[c].finalSent
        /\ client'[c].release = client[c].release
    BY <1>1 DEF Types, ClientState
  <2>2. Chances(down'[c], client'[c]) = Chances(down[c], client[c])
    BY <1>1, <2>1 DEF Chances, One
  <2>3. Weight(up[c], down[c], client[c]) \in Nat
    BY WeightParts DEF Types
  <2> QED BY <1>1, <2>2, <2>3 DEF Weight
<1>3. \A b \in Client : Owed'[b] <= Owed[b]
  BY <1>1, <1>2, OwedOf DEF Types
<1>4. Rest' <= Rest
  BY <1>1, RestKept
<1> QED BY <1>3, <1>4, BudgetKept

(* A record is read.                                                       *)
LEMMA ReadWeight ==
  ASSUME Types, NEW c \in Client, NEW r, Read(c, r), UNCHANGED <<client, down>>
  PROVE  /\ \A b \in Client \ {c} :
              client'[b] = client[b] /\ up'[b] = up[b] /\ down'[b] = down[b]
         /\ Weight(up'[c], down'[c], client'[c]) + One(r = "tuning")
              = Weight(up[c], down[c], client[c])
         /\ Weight(up'[c], down'[c], client'[c]) \in Nat
<1>1. /\ up[c] \in Seq(Upward) /\ up[c] # <<>> /\ Head(up[c]) = r
      /\ \A b \in Client : up'[b] = IF b = c THEN Tail(up[c]) ELSE up[b]
      /\ down[c] \in Seq(Downward) /\ client[c] \in ClientState
  BY DEF Types, Read
<1>2. Tail(up[c]) \in Seq(Upward)
  BY <1>1, HeadTailProperties
<1>3. Times(up[c], "tuning") = Times(Tail(up[c]), "tuning") + One(r = "tuning")
  BY <1>1, TimesTail
<1>4. /\ Times(Tail(up[c]), "tuning") \in Nat
      /\ Chances(down[c], client[c]) \in Nat
      /\ Weight(Tail(up[c]), down[c], client[c]) \in Nat
  BY <1>1, <1>2, WeightParts
<1>5. /\ Weight(up[c], down[c], client[c])
           = Times(up[c], "tuning") + Chances(down[c], client[c])
      /\ Weight(Tail(up[c]), down[c], client[c])
           = Times(Tail(up[c]), "tuning") + Chances(down[c], client[c])
  BY DEF Weight
<1>6. One(r = "tuning") \in Nat
  BY DEF One
<1>7. Weight(Tail(up[c]), down[c], client[c]) + One(r = "tuning")
        = Weight(up[c], down[c], client[c])
  BY <1>3, <1>4, <1>5, <1>6
<1>8. up'[c] = Tail(up[c]) /\ down' = down /\ client' = client
  BY <1>1
<1> QED BY <1>1, <1>4, <1>7, <1>8

(* A record that is counted is one that is no longer owed.                 *)
LEMMA ReadThreadBudget ==
  ASSUME Types, Types', Budget, NEW c \in Client, ReadThread(c)
  PROVE  Budget'
<1>1. CASE ReceiveHandshake(c) \/ ReceiveResponse(c)
  <2>1. PICK r : Read(c, r) /\ r # "tuning"
    BY <1>1 DEF ReceiveHandshake, ReceiveResponse
  <2>2. UNCHANGED <<local, client, down, db, reader, total, release>>
    BY <1>1 DEF ReceiveHandshake, ReceiveResponse
  <2>3. \A b \in Client : Owed'[b] <= Owed[b]
    <3>1. Weight(up'[c], down'[c], client'[c]) + One(r = "tuning")
            = Weight(up[c], down[c], client[c])
          /\ Weight(up'[c], down'[c], client'[c]) \in Nat
          /\ \A b \in Client \ {c} :
              client'[b] = client[b] /\ up'[b] = up[b] /\ down'[b] = down[b]
      BY <2>1, <2>2, ReadWeight
    <3>2. Weight(up'[c], down'[c], client'[c])
            <= Weight(up[c], down[c], client[c])
      BY <2>1, <3>1 DEF One
    <3> QED BY <3>1, <3>2, OwedOf
  <2>4. activation'.pc = activation.pc /\ signal'.local = signal.local
    BY <1>1 DEF ReceiveHandshake, ReceiveResponse, Types, Activation
  <2>5. Rest' <= Rest
    BY <2>2, <2>4, RestKept
  <2> QED BY <2>3, <2>5, BudgetKept
<1>2. CASE ReceiveTuning(c)
  <2> DEFINE w == Owed
             v == Owed'
  <2>1. /\ Read(c, "tuning") /\ total' = total + 1 /\ release # "send"
        /\ release' = Signalled(release)
        /\ UNCHANGED <<local, client, down, db, activation, signal>>
    BY <1>2 DEF ReceiveTuning, WaitingFree
  <2>2. /\ w \in [Client -> Nat] /\ v \in [Client -> Nat]
        /\ IsFiniteSet(Tokens(w))
    BY OwedType DEF Budget
  <2>3. \A b \in Client : v[b] <= w[b] - One(b = c)
    <3>1. Weight(up'[c], down'[c], client'[c]) + 1
            = Weight(up[c], down[c], client[c])
          /\ Weight(up'[c], down'[c], client'[c]) \in Nat
          /\ \A b \in Client \ {c} :
              client'[b] = client[b] /\ up'[b] = up[b] /\ down'[b] = down[b]
      BY <2>1, ReadWeight DEF One
    <3> SUFFICES ASSUME NEW b \in Client PROVE v[b] <= w[b] - One(b = c)
      OBVIOUS
    <3>2. /\ w[b] = Weight(up[b], down[b], client[b])
          /\ v[b] = Weight(up'[b], down'[b], client'[b])
      BY DEF Owed
    <3>3. w[b] \in Nat /\ v[b] \in Nat
      BY <2>2
    <3> HIDE DEF w, v
    <3>4. CASE b = c
      BY <3>1, <3>2, <3>3, <3>4 DEF One
    <3>5. CASE b # c
      <4>1. v[b] = w[b]
        BY <3>1, <3>2, <3>5
      <4> QED BY <3>3, <3>5, <4>1 DEF One
    <3> QED BY <3>4, <3>5
  <2>4. Rest' = Rest + 1
    <3>1. Signalled(release) # "send" /\ (Signalled(release) = "signal"
                                           <=> release = "signal")
      BY <2>1 DEF Signalled
    <3>2. LocalChances' = LocalChances /\ RoundChances' = RoundChances
      BY <2>1, <3>1 DEF LocalChances, RoundChances
    <3>3. total \in Nat /\ LocalChances \in Nat /\ RoundChances = 0
      BY <2>1 DEF Types, LocalChances, RoundChances, One
    <3> QED BY <2>1, <3>2, <3>3 DEF Rest
  <2>5. Rest \in Nat /\ Rest' \in Nat /\ Cardinality(Client) \in Nat
    BY RestType, ClientsFinite
  <2>6. Rest + Cardinality(Tokens(w)) <= 2 * Cardinality(Client) + 1
    BY DEF Budget
  <2>7. Tokens(v) = Tokens(Owed)'
    BY DEF Tokens
  <2> HIDE DEF w, v
  <2>8. (\A b \in Client : v[b] <= w[b]) /\ v[c] + 1 <= w[c]
    BY <2>2, <2>3 DEF One
  <2>9. /\ IsFiniteSet(Tokens(v))
        /\ Cardinality(Tokens(v)) + 1 <= Cardinality(Tokens(w))
        /\ Cardinality(Tokens(v)) \in Nat /\ Cardinality(Tokens(w)) \in Nat
    BY <2>2, <2>8, TokenSpent
  <2>10. Rest' + Cardinality(Tokens(v)) <= 2 * Cardinality(Client) + 1
    BY <2>4, <2>5, <2>6, <2>9
  <2> QED BY <2>7, <2>9, <2>10 DEF Budget, v
<1>3. CASE BeginRemove(c)
  <2>1. /\ \A b \in Client : up'[b] = IF b = c THEN <<>> ELSE up[b]
        /\ db'.active \subseteq db.active
        /\ UNCHANGED <<local, client, down, total, release, activation, signal>>
    BY <1>3, DeletedParts DEF Types, BeginRemove
  <2>2. Weight(up'[c], down'[c], client'[c])
          <= Weight(up[c], down[c], client[c])
    <3>1. Times(up[c], "tuning") \in Nat /\ Chances(down[c], client[c]) \in Nat
      BY WeightParts DEF Types
    <3>2. Times(up'[c], "tuning") = 0
      BY <2>1, TimesNothing
    <3>3. Chances(down'[c], client'[c]) = Chances(down[c], client[c])
      BY <2>1
    <3> QED BY <3>1, <3>2, <3>3 DEF Weight
  <2>3. \A b \in Client : Owed'[b] <= Owed[b]
    BY <2>1, <2>2, OwedOf
  <2>4. Rest' <= Rest
    BY <2>1, RestKept
  <2> QED BY <2>3, <2>4, BudgetKept
<1>4. CASE EndRemove(c)
  <2>1. /\ UNCHANGED <<local, client, up, down, db, total, activation>>
        /\ release' = Signalled(release) /\ signal' = Primed(signal, db)
    BY <1>4 DEF EndRemove
  <2>2. /\ signal'.local = signal.local
        /\ release' = "signal" => release = "signal"
        /\ release' = "send" => release = "send"
    BY <2>1, SignalTypes DEF Signalled
  <2>3. Rest' <= Rest
    BY <2>1, <2>2, RestKept
  <2> QED BY <2>1, <2>3, OwedStays, BudgetKept
<1> QED BY <1>1, <1>2, <1>3, <1>4 DEF ReadThread

(* The end of a round is paid for by what was counted, the releases are    *)
(* what the active clients are given in return.                            *)
LEMMA ReleaseThreadBudget ==
  ASSUME IInv, Types', Budget, ReleaseThread
  PROVE  Budget'
<1>0. /\ Types /\ total \in Nat /\ local \in BOOLEAN
      /\ IsFiniteSet(db.active) /\ Cardinality(db.active) \in Nat
      /\ db.active \in SUBSET Client
  BY ActiveFinite DEF IInv, Types, Database
<1> DEFINE n == Cardinality(db.active)
<1>1. CASE CheckRound
  <2>1. /\ release = "lock"
        /\ UNCHANGED <<local, client, up, down, db, reader, activation, signal>>
    BY <1>1 DEF CheckRound
  <2>2. \/ release' = "wait" /\ total' = total
        \/ release' = "send" /\ total' = 0 /\ total >= n + One(local)
    BY <1>1 DEF CheckRound, Ready, One
  <2>3. /\ LocalChances' = LocalChances /\ LocalChances \in Nat
        /\ RoundChances = 0
        /\ RoundChances' = IF release' = "send" THEN n + One(local) ELSE 0
    BY <2>1, <2>2 DEF LocalChances, RoundChances, One
  <2> HIDE DEF n
  <2>4. Rest' <= Rest
    BY <1>0, <2>2, <2>3 DEF Rest, One, n
  <2> QED BY <1>0, <2>1, <2>4, OwedStays, BudgetKept
<1>2. CASE SendRelease
  <2> DEFINE w == Owed
             v == Owed'
             P == db.active
  <2>1. /\ release = "send" /\ release' = "signal"
        /\ \A b \in Client : down'[b] = IF b \in db.active \ Gone
                             THEN Append(down[b], "release") ELSE down[b]
        /\ UNCHANGED <<local, client, up, reader, total, activation>>
    BY <1>2 DEF SendRelease
  <2>2. signal'.local = signal.local
    BY <1>0, <1>2, SignalTypes DEF SendRelease
  <2>3. /\ w \in [Client -> Nat] /\ v \in [Client -> Nat]
        /\ IsFiniteSet(Tokens(w))
    BY <1>0, OwedType DEF Budget
  <2>4. \A b \in Client : v[b] <= w[b] + One(b \in P)
    <3> SUFFICES ASSUME NEW b \in Client PROVE v[b] <= w[b] + One(b \in P)
      OBVIOUS
    <3>1. /\ w[b] = Weight(up[b], down[b], client[b])
          /\ v[b] = Weight(up[b], down'[b], client[b])
      BY <2>1 DEF Owed
    <3>2. w[b] \in Nat /\ v[b] \in Nat
      BY <2>3
    <3> HIDE DEF w, v
    <3>3. CASE b \in db.active \ Gone
      <4>1. /\ up[b] \in Seq(Upward) /\ down[b] \in Seq(Downward)
            /\ client[b] \in ClientState
        BY <1>0 DEF Types
      <4>2. Times(Append(down[b], "release"), "release")
              = Times(down[b], "release") + 1
        BY <4>1, TimesAppend DEF Downward, One
      <4>3. Times(up[b], "tuning") \in Nat /\ Times(down[b], "release") \in Nat
        BY <4>1, WeightParts
      <4>4. down'[b] = Append(down[b], "release")
        BY <2>1, <3>3
      <4>5. /\ Chances(down'[b], client[b]) <= Chances(down[b], client[b]) + 1
            /\ Chances(down'[b], client[b]) \in Nat
            /\ Chances(down[b], client[b]) \in Nat
        BY <4>1, <4>2, <4>3, <4>4 DEF Chances, One
      <4> QED BY <3>1, <3>3, <4>3, <4>5 DEF Weight, One
    <3>4. CASE b \notin db.active \ Gone
      <4>1. v[b] = w[b]
        BY <2>1, <3>1, <3>4
      <4> QED BY <3>2, <4>1 DEF One
    <3> QED BY <3>3, <3>4
  <2>5. Rest' + n <= Rest
    <3>1. /\ LocalChances \in Nat /\ LocalChances' \in Nat
          /\ LocalChances' <= LocalChances + One(local)
          /\ RoundChances = n + One(local) /\ RoundChances' = 0
          /\ One(local) \in Nat
      BY <2>1, <2>2 DEF LocalChances, RoundChances, One
    <3> QED BY <1>0, <2>1, <3>1 DEF Rest
  <2>6. Rest \in Nat /\ Rest' \in Nat /\ Cardinality(Client) \in Nat
    BY <1>0, RestType, ClientsFinite
  <2>7. Rest + Cardinality(Tokens(w)) <= 2 * Cardinality(Client) + 1
    BY DEF Budget
  <2>8. Tokens(v) = Tokens(Owed)'
    BY DEF Tokens
  <2> HIDE DEF w, v
  <2>9. /\ IsFiniteSet(Tokens(v))
        /\ Cardinality(Tokens(v)) <= Cardinality(Tokens(w)) + n
        /\ Cardinality(Tokens(v)) \in Nat /\ Cardinality(Tokens(w)) \in Nat
    BY <1>0, <2>3, <2>4, TokensGiven
  <2>10. Rest' + Cardinality(Tokens(v)) <= 2 * Cardinality(Client) + 1
    BY <1>0, <2>5, <2>6, <2>7, <2>9
  <2> QED BY <2>8, <2>9, <2>10 DEF Budget, v
<1>3. CASE SignalRelease
  <2>1. /\ release = "signal" /\ release' = "lock" /\ signal'.local
        /\ UNCHANGED <<local, client, up, down, db, reader, total, activation>>
    BY <1>0, <1>3 DEF SignalRelease, Types
  <2>2. /\ LocalChances \in Nat /\ LocalChances' \in Nat
        /\ LocalChances' <= LocalChances
        /\ RoundChances \in Nat /\ RoundChances' \in Nat
        /\ RoundChances' <= RoundChances
    BY <2>1 DEF LocalChances, RoundChances, One
  <2>3. total' \in Nat /\ total' + LocalChances' <= total + LocalChances
    <3>1. total' <= total /\ total' \in Nat
      BY <1>0, <2>1
    <3> QED BY <1>0, <2>2, <3>1, SumCompared
  <2>4. Rest' <= Rest
    BY <1>0, <2>2, <2>3, RestCompared
  <2> QED BY <1>0, <2>1, <2>4, OwedStays, BudgetKept
<1> QED BY <1>1, <1>2, <1>3 DEF ReleaseThread

(* The local loop takes part only if it was registered, and the list of    *)
(* those who are to be activated is kept while it is worked on.            *)
Idle ==
  /\ activation.pc \in {"sync", "waiting"} => local
  /\ activation.pc \in {"top", "sync", "waiting"} => activation.todo = <<>>

(* The local loop owes one record for each time it is let out.             *)
LEMMA ActivationThreadBudget ==
  ASSUME IInv, Types', Budget, Idle, ActivationThread
  PROVE  Budget'
<1>0. /\ Types /\ total \in Nat /\ activation \in Activation
      /\ signal \in [pump : BOOLEAN, object : BOOLEAN, local : BOOLEAN]
      /\ db \in Database
  BY DEF IInv, Types
<1>1. CASE TakeQueue \/ LockRounds \/ FindSocket \/ AwaitResponse
  <2>1. UNCHANGED <<local, client, up, down, db, total, release>>
    BY <1>1 DEF TakeQueue, LockRounds, FindSocket, AwaitResponse
  <2>2. /\ activation.pc # "waiting" /\ activation'.pc # "waiting"
        /\ signal'.local = signal.local
    BY <1>0, <1>1
    DEF TakeQueue, LockRounds, FindSocket, AwaitResponse, Activation
  <2>3. Rest' <= Rest
    BY <1>0, <2>1, <2>2, RestKept
  <2> QED BY <1>0, <2>1, <2>3, OwedStays, BudgetKept
<1>2. CASE OfferActivation
  <2> DEFINE c == Head(activation.todo)
  <2>1. c \in Client
    BY <1>2, HeadIsClient DEF IInv, OfferActivation, HoldsWaiting
  <2>2. /\ UNCHANGED <<local, client, up, total>>
        /\ down' = down \/ down' = [down EXCEPT ![c] = Append(@, "handshake")]
        /\ db' = db \/ db' = Deleted(db, {c})
        /\ release' = release \/ release' = Signalled(release)
        /\ signal' = signal \/ signal' = Primed(signal, db')
        /\ activation.pc = "offer" /\ activation'.pc = "await"
    <3>1. down = [down EXCEPT ![c] = @]
      BY <1>0, <2>1 DEF Types
    <3> QED BY <1>0, <1>2, <3>1 DEF OfferActivation, Activation
  <2> HIDE DEF c
  <2>3. /\ db'.active \subseteq db.active
        /\ signal'.local = signal.local
        /\ release' = "signal" => release = "signal"
        /\ release' = "send" => release = "send"
    BY <1>0, <2>2, DeletedParts, SignalTypes DEF Signalled
  <2>4. Rest' <= Rest
    BY <1>0, <2>2, <2>3, RestKept
  <2>5. /\ \A b \in Client \ {c} :
             client'[b] = client[b] /\ up'[b] = up[b] /\ down'[b] = down[b]
        /\ down'[c] = down[c] \/ down'[c] = Append(down[c], "handshake")
    BY <1>0, <2>1, <2>2 DEF Types
  <2>6. Weight(up'[c], down'[c], client'[c])
          <= Weight(up[c], down[c], client[c])
    <3>1. /\ down[c] \in Seq(Downward) /\ up[c] \in Seq(Upward)
          /\ client[c] \in ClientState
      BY <1>0, <2>1 DEF Types
    <3>2. Times(down[c], "release") \in Nat
          /\ Weight(up[c], down[c], client[c]) \in Nat
      BY <3>1, WeightParts
    <3>3. Times(Append(down[c], "handshake"), "release")
            = Times(down[c], "release") + One("handshake" = "release")
      BY <3>1, TimesAppend DEF Downward
    <3>4. Times(Append(down[c], "handshake"), "release")
            = Times(down[c], "release")
      BY <3>2, <3>3 DEF One
    <3>6. Times(down'[c], "release") = Times(down[c], "release")
      BY <2>5, <3>4
    <3>5. Weight(up'[c], down'[c], client'[c])
            = Weight(up[c], down[c], client[c])
      BY <2>2, <3>6 DEF Weight, Chances
    <3> QED BY <3>2, <3>5
  <2>7. \A b \in Client : Owed'[b] <= Owed[b]
    BY <1>0, <2>1, <2>5, <2>6, OwedOf
  <2> QED BY <1>0, <2>4, <2>7, BudgetKept
<1>3. CASE MoveSocket
  <2>1. /\ UNCHANGED <<local, client, up, down, total, release, signal>>
        /\ activation.pc = "move" /\ activation'.pc # "waiting"
    BY <1>0, <1>3 DEF MoveSocket, Activation, Then
  <2>2. release' # "send"
    BY <2>1 DEF IInv, Safe, Exclusion, HoldsWaiting
  <2>3. Rest' <= Rest
    BY <1>0, <2>1, <2>2, RestKept
  <2> QED BY <1>0, <2>1, <2>3, OwedStays, BudgetKept
<1>4. CASE EnterLocal
  <2>1. /\ activation.pc = "sync" /\ activation'.pc = "waiting"
        /\ local /\ total' = total + 1 /\ release # "send"
        /\ release' = Signalled(release)
        /\ UNCHANGED <<local, client, up, down, db, signal>>
    BY <1>0, <1>4 DEF EnterLocal, Idle, Activation, WaitingFree
  <2>2. release' # "send" /\ (release' = "signal" <=> release = "signal")
    BY <2>1 DEF Signalled
  <2>3. /\ LocalChances \in Nat /\ LocalChances' \in Nat
        /\ LocalChances = LocalChances' + 1
        /\ RoundChances \in Nat /\ RoundChances' \in Nat
        /\ RoundChances' <= RoundChances
    BY <2>1, <2>2 DEF LocalChances, RoundChances, One
  <2>4. Rest' <= Rest
    <3>1. total \in Nat /\ total' = total + 1
      BY <1>0, <2>1
    <3>2. (total + 1) + LocalChances' <= total + (LocalChances' + 1)
      BY <2>3, <3>1, SumMoved
    <3>3. total' + LocalChances' = (total + 1) + LocalChances'
      BY <3>1
    <3>4. total + LocalChances = total + (LocalChances' + 1)
      BY <2>3
    <3>5. total' + LocalChances' <= total + LocalChances
      BY <3>2, <3>3, <3>4
    <3>6. total' \in Nat
      BY <3>1
    <3> QED BY <2>3, <3>1, <3>5, <3>6, RestCompared
  <2> QED BY <1>0, <2>1, <2>4, OwedStays, BudgetKept
<1>5. CASE LeaveLocal
  <2>1. /\ activation.pc = "waiting" /\ activation'.pc = "top" /\ local
        /\ signal.local /\ ~signal'.local
        /\ UNCHANGED <<local, client, up, down, db, total, release>>
    BY <1>0, <1>5 DEF LeaveLocal, Idle, Activation
  <2>2. /\ LocalChances \in Nat /\ LocalChances' = LocalChances
        /\ RoundChances \in Nat /\ RoundChances' = RoundChances
    <3>1. Cardinality(db.active) \in Nat
      BY <1>0, ActiveFinite
    <3> QED BY <2>1, <3>1 DEF LocalChances, RoundChances, One
  <2>3. Rest' <= Rest
    BY <1>0, <2>1, <2>2 DEF Rest
  <2> QED BY <1>0, <2>1, <2>3, OwedStays, BudgetKept
<1> QED BY <1>1, <1>2, <1>3, <1>4, <1>5 DEF ActivationThread

(* Every step keeps Idle.                                                  *)
LEMMA IdleKept == Types /\ Idle /\ [Next]_vars => Idle'
<1> SUFFICES ASSUME Types, Idle, [Next]_vars PROVE Idle'
  OBVIOUS
<1>0. activation \in Activation
  BY DEF Types
<1>1. CASE UNCHANGED vars
  BY <1>1 DEF Idle, vars
<1>2. CASE \/ ReleaseThread
           \/ \E c \in Client :
                \/ Accept(c) \/ ClientLoop(c) \/ DataTask(c) \/ ReadThread(c)
                \/ StopThread(c) \/ Die(c)
  <2>1. local' = local /\ activation'.pc = activation.pc
        /\ activation'.todo = activation.todo
    BY <1>0, <1>2 DEF ReleaseThread, CheckRound, SendRelease, SignalRelease,
                      Accept, ClientLoop, RequestActivation, AnswerActivation,
                      SendResponse, ResetRelease, BeginSync, SendTuning,
                      EndSync, DataTask, StopThread, Stop, SendLast,
                      SignalLast, Die, Fresh, serverVars, ReadThread,
                      ReceiveHandshake, ReceiveResponse, ReceiveTuning,
                      BeginRemove, EndRemove, Activation
  <2> QED BY <2>1 DEF Idle
<1>3. CASE ActivationThread
  <2>1. CASE TakeQueue
    BY <1>0, <2>1 DEF TakeQueue, Idle, Activation
  <2>2. CASE LockRounds \/ FindSocket \/ OfferActivation \/ AwaitResponse
    <3>1. activation'.pc \notin {"top", "sync", "waiting"}
      BY <1>0, <2>2
      DEF LockRounds, FindSocket, OfferActivation, AwaitResponse, Activation
    <3> QED BY <3>1 DEF Idle
  <2>3. CASE MoveSocket
    <3>1. /\ activation'.todo = Tail(activation.todo)
          /\ activation'.pc = Then(Tail(activation.todo)) /\ local' = local
      BY <1>0, <2>3 DEF MoveSocket, Activation
    <3> QED BY <3>1 DEF Idle, Then
  <2>4. CASE EnterLocal \/ LeaveLocal
    BY <1>0, <2>4 DEF EnterLocal, LeaveLocal, Idle, Activation
  <2> QED BY <1>3, <2>1, <2>2, <2>3, <2>4 DEF ActivationThread
<1> QED BY <1>1, <1>2, <1>3 DEF Next

(* At first everybody owes two records, and nothing is counted.            *)
LEMMA InitBudget == Init => Budget
<1> SUFFICES ASSUME Init PROVE Budget
  OBVIOUS
<1> DEFINE z == [c \in Client |-> 0]
           o == [c \in Client |-> 1]
           w == Owed
           N == Cardinality(Client)
<1>1. Types
  BY InitTypes
<1>2. \A c \in Client : w[c] = 2
  <2>1. \A c \in Client : /\ up[c] = <<>> /\ down[c] = <<>>
                          /\ client[c].pc = "new" /\ ~client[c].exiting
                          /\ ~client[c].release
    BY DEF Init, Fresh
  <2>2. \A c \in Client : Times(up[c], "tuning") = 0 /\ Times(down[c], "release") = 0
    BY <2>1, TimesNothing
  <2> QED BY <2>1, <2>2 DEF Owed, Weight, Chances, One
<1>3. /\ z \in [Client -> Nat] /\ o \in [Client -> Nat]
      /\ w \in [Client -> Nat] /\ Client \in SUBSET Client
      /\ \A c \in Client : o[c] <= z[c] + One(c \in Client)
  BY <1>1, OwedType DEF One
<1>4. \A c \in Client : w[c] <= o[c] + One(c \in Client)
  BY <1>2 DEF One
<1>5. Tokens(z) = {}
  BY DEF Tokens
<1>6. IsFiniteSet(Tokens(z)) /\ Cardinality(Tokens(z)) = 0
  BY <1>5, FS_EmptySet
<1> HIDE DEF z, o, w
<1>7. /\ IsFiniteSet(Tokens(o)) /\ Cardinality(Tokens(o)) \in Nat
      /\ Cardinality(Tokens(o)) <= Cardinality(Tokens(z)) + N
  BY <1>3, <1>6, TokensGiven
<1>8. /\ IsFiniteSet(Tokens(w)) /\ Cardinality(Tokens(w)) \in Nat
      /\ Cardinality(Tokens(w)) <= Cardinality(Tokens(o)) + N
  BY <1>3, <1>4, <1>7, TokensGiven
<1>9. Rest \in Nat /\ Rest <= 1
  BY DEF Init, Fresh, Rest, LocalChances, RoundChances, One
<1>10. N \in Nat
  BY ClientsFinite
<1> HIDE DEF N
<1>11. Rest + Cardinality(Tokens(w)) <= 2 * N + 1
  BY <1>6, <1>7, <1>8, <1>9, <1>10
<1> QED BY <1>8, <1>11 DEF Budget, w, N

-----------------------------------------------------------------------------
(* _numberConnected is the number of sockets in the two lists; one that    *)
(* died while it was passive stays in its list and is counted.             *)

(* Who was ever accepted, and the sockets in the two lists.                *)
Arrived == {c \in Client : client[c].pc # "new"}
Sockets(d) == d.passive \cup d.active

Apart(d) ==
  /\ d.passive \cap d.active = {}
  /\ Cardinality(Sockets(d)) = d.connected

ConnectionsCounted ==
  /\ Apart(db)
  /\ Sockets(db) \subseteq Arrived

(* A part of the clients can be counted.                                   *)
LEMMA PartFinite ==
  ASSUME NEW P \in SUBSET Client
  PROVE  IsFiniteSet(P) /\ Cardinality(P) \in Nat
BY ClientAssumption, FS_Subset, FS_CardinalityType

(* A socket that is removed is taken off the count if it was active,       *)
LEMMA DeletedApart ==
  ASSUME NEW d \in Database, Apart(d), NEW gone
  PROVE  /\ Apart(Deleted(d, gone))
         /\ Sockets(Deleted(d, gone)) \subseteq Sockets(d)
<1> DEFINE e == Deleted(d, gone)
           D == d.active \cap (gone \cap d.ids)
           k == Cardinality(D)
<1>1. /\ e.active = d.active \ D /\ e.passive = d.passive
      /\ e.connected = d.connected - k
  BY DeletedParts DEF Deleted, Database
<1>2. /\ d.passive \in SUBSET Client /\ d.active \in SUBSET Client
      /\ D \in SUBSET Client /\ D \subseteq d.active
      /\ d.connected \in Int
  BY DEF Database
<1> HIDE DEF e, D
<1>3. /\ Sockets(e) \in SUBSET Client /\ Sockets(d) \in SUBSET Client
      /\ Sockets(d) = Sockets(e) \cup D /\ Sockets(e) \cap D = {}
      /\ Sockets(e) \subseteq Sockets(d)
      /\ e.passive \cap e.active = {}
  BY <1>1, <1>2 DEF Sockets, Apart
<1>4. IsFiniteSet(D) /\ k \in Nat
  BY <1>2, PartFinite
<1>5. IsFiniteSet(Sockets(e)) /\ Cardinality(Sockets(e)) \in Nat
  BY <1>3, PartFinite
<1>6. Cardinality(Sockets(d)) = Cardinality(Sockets(e)) + k
  BY <1>3, <1>4, <1>5, FS_Union, FS_EmptySet
<1> HIDE DEF k
<1>7. Cardinality(Sockets(e)) = e.connected
  BY <1>1, <1>2, <1>4, <1>5, <1>6 DEF Apart
<1> QED BY <1>3, <1>7 DEF Apart, e

(* and one that is activated changes lists.                                *)
LEMMA ActivatedApart ==
  ASSUME NEW d \in Database, Apart(d), NEW c \in Client
  PROVE  /\ Apart(Activated(d, c))
         /\ Sockets(Activated(d, c)) = Sockets(d)
<1>1. Sockets(Activated(d, c)) = Sockets(d)
  <2> DEFINE a == Activated(d, c)
  <2>1. /\ a.passive = d.passive \ {c}
        /\ c \in d.passive => a.active = d.active \cup {c}
        /\ c \notin d.passive => a.active = d.active
    BY ActivatedParts
  <2> HIDE DEF a
  <2>2. a.passive \cup a.active = d.passive \cup d.active
    BY <2>1
  <2> QED BY <2>2 DEF Sockets, a
<1>2. Activated(d, c).connected = d.connected
  BY DEF Activated, Database
<1>3. Activated(d, c).passive \cap Activated(d, c).active = {}
  BY ActivatedParts DEF Apart
<1> QED BY <1>1, <1>2, <1>3 DEF Apart

(* What the steps do to the database.                                      *)
LEMMA DatabaseSteps ==
  ASSUME Types, Listed, [Next]_vars
  PROVE  \/ \E c \in Client : Accept(c)
         \/ db' = db
         \/ \E gone : db' = Deleted(db, gone)
         \/ \E c \in Client : db' = Activated(db, c)
<1>1. CASE MoveSocket
  <2>1. Head(activation.todo) \in Client
    BY <1>1, HeadIsClient DEF MoveSocket, HoldsWaiting
  <2> QED BY <1>1, <2>1 DEF MoveSocket
<1>2. ASSUME NEW c \in Client, Accept(c) PROVE \E b \in Client : Accept(b)
  BY <1>2
<1>3. CASE UNCHANGED vars
  BY <1>3 DEF vars
<1>4. ASSUME NEW c \in Client,
             ClientLoop(c) \/ DataTask(c) \/ StopThread(c) \/ Die(c)
      PROVE  db' = db
  BY <1>4 DEF ClientLoop, RequestActivation, AnswerActivation, SendResponse,
              ResetRelease, BeginSync, SendTuning, EndSync, DataTask,
              StopThread, Stop, SendLast, SignalLast, Die, Fresh, serverVars
<1>5. ASSUME NEW c \in Client, ReadThread(c)
      PROVE  db' = db \/ db' = Deleted(db, {c})
  BY <1>5 DEF ReadThread, ReceiveHandshake, ReceiveResponse, ReceiveTuning,
     BeginRemove, EndRemove
<1>6. CASE ReleaseThread
  BY <1>6 DEF ReleaseThread, CheckRound, SendRelease, SignalRelease
<1>7. CASE ActivationThread /\ ~MoveSocket
  BY <1>7 DEF ActivationThread, TakeQueue, LockRounds, FindSocket,
     OfferActivation, AwaitResponse, EnterLocal, LeaveLocal
<1> QED BY <1>1, <1>2, <1>3, <1>4, <1>5, <1>6, <1>7 DEF Next

(* A connection that was accepted stays so.                                *)
LEMMA ArrivedStay ==
  ASSUME Types, [Next]_vars, NEW b \in Arrived
  PROVE  b \in Arrived'
<1>0. b \in Client /\ client[b].pc # "new" /\ client \in [Client -> ClientState]
  BY DEF Arrived, Types
<1>1. CASE client' = client
  BY <1>0, <1>1 DEF Arrived
<1>2. ASSUME NEW c \in Client,
             Accept(c) \/ ClientLoop(c) \/ DataTask(c) \/ StopThread(c) \/ Die(c)
      PROVE  b \in Arrived'
  <2>0. client[c] \in ClientState
    BY <1>0
  <2>1. CASE Accept(c) \/ DataTask(c) \/ StopThread(c) \/ Die(c)
    BY <1>0, <2>0, <2>1 DEF Accept, DataTask, StopThread, Stop, SendLast,
                            SignalLast, Die, Fresh, Goto, Arrived, ClientState
  <2>2. CASE ClientLoop(c)
    BY <1>0, <2>0, <2>2 DEF ClientLoop, RequestActivation, AnswerActivation,
                            SendResponse, ResetRelease, BeginSync, SendTuning,
                            EndSync, Goto, Arrived, ClientState
  <2> QED BY <1>2, <2>1, <2>2
<1>3. CASE ReleaseThread \/ ActivationThread \/ UNCHANGED vars
           \/ \E c \in Client : ReadThread(c)
  <2>1. UNCHANGED client
    BY <1>3 DEF ReleaseThread, CheckRound, SendRelease, SignalRelease,
       ReadThread, ReceiveHandshake, ReceiveResponse, ReceiveTuning,
       BeginRemove, EndRemove, ActivationThread, TakeQueue, LockRounds,
       FindSocket, OfferActivation, AwaitResponse, MoveSocket, EnterLocal,
       LeaveLocal, vars
  <2> QED BY <1>1, <2>1
<1> QED BY <1>2, <1>3 DEF Next

(* Every step keeps the count of the connections right.                    *)
LEMMA ConnectionsKept ==
  ASSUME Types, Types', Listed, ConnectionsCounted, [Next]_vars
  PROVE  ConnectionsCounted'
<1>0. db \in Database /\ db.connected \in Int /\ Sockets(db) \in SUBSET Client
  BY DEF Types, Database, Sockets
<1>1. Arrived \subseteq Arrived'
  BY ArrivedStay
<1>2. IsFiniteSet(Sockets(db)) /\ Cardinality(Sockets(db)) \in Nat
  BY <1>0, PartFinite
<1>3. ASSUME NEW c \in Client, Accept(c) PROVE ConnectionsCounted'
  <2>1. /\ db'.passive = db.passive \cup {c} /\ db'.active = db.active
        /\ db'.connected = db.connected + 1
        /\ client[c].pc = "new" /\ client'[c].pc # "new"
    BY <1>0, <1>3 DEF Types, Database, Accept, Goto, ClientState
  <2>2. c \notin Arrived /\ c \in Arrived'
    BY <2>1 DEF Arrived
  <2>3. c \notin Sockets(db) /\ Sockets(db') = Sockets(db) \cup {c}
    BY <2>1, <2>2 DEF ConnectionsCounted, Sockets
  <2>4. Cardinality(Sockets(db')) = Cardinality(Sockets(db)) + 1
    BY <1>2, <2>3, FS_AddElement
  <2>5. db'.passive \cap db'.active = {}
    BY <2>1, <2>3 DEF ConnectionsCounted, Apart, Sockets
  <2>6. Sockets(db') \subseteq Arrived'
    BY <1>1, <2>2, <2>3 DEF ConnectionsCounted
  <2>7. Cardinality(Sockets(db')) = db'.connected
    BY <1>0, <1>2, <2>1, <2>4 DEF ConnectionsCounted, Apart
  <2> QED BY <2>5, <2>6, <2>7 DEF ConnectionsCounted, Apart
<1>4. ASSUME Apart(db'), Sockets(db') \subseteq Sockets(db)
      PROVE  ConnectionsCounted'
  <2>1. Sockets(db') \subseteq Arrived'
    BY <1>1, <1>4 DEF ConnectionsCounted
  <2> QED BY <1>4, <2>1 DEF ConnectionsCounted, Apart, Sockets
<1>5. Apart(db)
  BY DEF ConnectionsCounted
<1>6. CASE db' = db
  BY <1>4, <1>5, <1>6
<1>7. ASSUME NEW gone, db' = Deleted(db, gone) PROVE ConnectionsCounted'
  BY <1>0, <1>4, <1>5, <1>7, DeletedApart
<1>8. ASSUME NEW c \in Client, db' = Activated(db, c) PROVE ConnectionsCounted'
  BY <1>0, <1>4, <1>5, <1>8, ActivatedApart
<1> QED BY <1>3, <1>6, <1>7, <1>8, DatabaseSteps

(* At first there are none.                                                *)
LEMMA InitConnections == Init => ConnectionsCounted
<1> SUFFICES ASSUME Init PROVE ConnectionsCounted
  OBVIOUS
<1>1. /\ db.passive = {} /\ db.active = {} /\ db.connected = 0
      /\ \A c \in Client : client[c].pc = "new"
  BY DEF Init, Fresh
<1>2. Sockets(db) = {} /\ Arrived = {}
  BY <1>1 DEF Sockets, Arrived
<1>3. Cardinality({}) = 0
  BY FS_EmptySet
<1> QED BY <1>1, <1>2, <1>3 DEF ConnectionsCounted, Apart

-----------------------------------------------------------------------------
(* What is added to IInv.                                                  *)
Bounded == Idle /\ Budget /\ ConnectionsCounted

(* All of it holds at first,                                               *)
LEMMA InitBounded == Init => Bounded
<1>1. Init => Idle
  BY DEF Init, Idle
<1> QED BY <1>1, InitBudget, InitConnections DEF Bounded

(* and every step keeps it.                                                *)
LEMMA NextBounded == IInv /\ IInv' /\ Bounded /\ [Next]_vars => Bounded'
<1> SUFFICES ASSUME IInv, IInv', Bounded, [Next]_vars PROVE Bounded'
  OBVIOUS
<1>1. Types /\ Listed /\ LastSent /\ Types'
  BY DEF IInv
<1>2. Idle' /\ ConnectionsCounted'
  BY <1>1, IdleKept, ConnectionsKept DEF Bounded
<1>3. Budget'
  <2>1. CASE UNCHANGED vars
    <3>1. Rest' = Rest /\ UNCHANGED <<client, up, down>>
      BY <2>1 DEF vars, Rest, LocalChances, RoundChances
    <3>2. Rest' <= Rest
      BY <1>1, <3>1, RestType
    <3> QED BY <1>1, <3>1, <3>2, OwedStays, BudgetKept DEF Bounded
  <2>2. ASSUME NEW c \in Client,
               \/ Accept(c) \/ ClientLoop(c) \/ DataTask(c) \/ ReadThread(c)
               \/ StopThread(c) \/ Die(c)
        PROVE  Budget'
    BY <1>1, <2>2, AcceptBudget, ClientActionBudget, ReadThreadBudget
    DEF Bounded
  <2>3. CASE ReleaseThread \/ ActivationThread
    BY <1>1, <2>3, ReleaseThreadBudget, ActivationThreadBudget DEF Bounded
  <2> QED BY <2>1, <2>2, <2>3 DEF Next
<1> QED BY <1>2, <1>3 DEF Bounded

(* What is in a sequence over S is in S.                                   *)
LEMMA ElementsOf ==
  ASSUME NEW S, NEW s \in Seq(S)
  PROVE  \A i \in DOMAIN s : s[i] \in S
<1>1. s \in [1..Len(s) -> S] /\ DOMAIN s = 1..Len(s)
  BY LenProperties
<1> QED BY <1>1

(* The parts of the invariant give the type invariant.                     *)
LEMMA BoundedTypes ==
  ASSUME IInv, Bounded
  PROVE  TypeOK
<1>0. Types /\ Listed /\ Idle
  BY DEF IInv, Bounded
<1>1. /\ \A c \in Client : \A i \in DOMAIN up[c] : up[c][i] \in Upward
      /\ \A c \in Client : \A i \in DOMAIN down[c] : down[c][i] \in Downward
  BY <1>0, ElementsOf DEF Types
<1>2. total \in 0 .. 2 * Cardinality(Client) + 1
  <2> DEFINE n == Cardinality(Tokens(Owed))
             m == Cardinality(Client)
  <2>1. n \in Nat /\ m \in Nat /\ Rest + n <= 2 * m + 1
    BY ClientsFinite, FS_CardinalityType DEF Bounded, Budget
  <2>2. /\ total \in Nat /\ LocalChances \in Nat /\ RoundChances \in Nat
        /\ Rest = total + LocalChances + RoundChances
    <3>1. Cardinality(db.active) \in Nat
      BY <1>0, ActiveFinite DEF Types
    <3> QED BY <1>0, <3>1 DEF Types, LocalChances, RoundChances, One, Rest
  <2> HIDE DEF n, m
  <2>3. total <= 2 * m + 1
    BY <2>1, <2>2
  <2> QED BY <2>1, <2>2, <2>3 DEF m
<1>3. db.connected \in 0 .. Cardinality(Client)
  <2>1. Sockets(db) \in SUBSET Client
    BY <1>0 DEF Types, Database, Sockets
  <2>2. /\ Cardinality(Sockets(db)) \in Nat
        /\ Cardinality(Sockets(db)) <= Cardinality(Client)
        /\ Cardinality(Client) \in Nat
    BY <2>1, PartFinite, ClientAssumption, ClientsFinite, FS_Subset
  <2>3. Cardinality(Sockets(db)) = db.connected
    BY DEF Bounded, ConnectionsCounted, Apart
  <2> QED BY <2>2, <2>3
<1>4. db \in [ids : SUBSET Client, passive : SUBSET Client,
             active : SUBSET Client, connected : 0 .. Cardinality(Client)]
  BY <1>0, <1>3 DEF Types, Database
<1>5. activation.pc \in {"top", "lock", "find", "offer", "await", "move",
                        "sync", "waiting"}
  BY <1>0 DEF Types, Activation
<1>6. activation.todo # <<>> <=>
        activation.pc \in {"lock", "find", "offer", "await", "move"}
  BY <1>0, <1>5 DEF Listed, Idle, HoldsWaiting
<1> QED BY <1>0, <1>1, <1>2, <1>4, <1>5, <1>6
  DEF TypeOK, Types, ClientState, Upward, Downward

(* The types and the bounds, whoever comes, stops or dies: no more records *)
(* are ever counted than two per client and the local loop's, and          *)
(* _numberConnected stays between zero and the number of clients           *)
(* (arBarrierServer.cpp, arDataServer.cpp:619-636).                        *)
THEOREM BarrierTypeOK == Spec => []TypeOK
<1>1. IInv /\ Bounded => TypeOK
  BY BoundedTypes
<1> QED BY <1>1, InitBounded, NextBounded, Invariance, PTL DEF Spec
=============================================================================
