-------------------------- MODULE Barrier_refinement --------------------------
(***************************************************************************)
(* The barrier implements BarrierService.  What the server has counted in  *)
(* _totalWaiting are, until somebody leaves, exactly the active clients    *)
(* that stand in the barrier and whose record was read, and the local      *)
(* loop; so a round that the number ends is a round everybody has entered. *)
(* From the first departure on nothing is promised.                        *)
(***************************************************************************)
EXTENDS Barrier_proofs

Sent(c) == Has(up[c], "tuning")
Released(c) == client[c].release \/ Has(down[c], "release")

(* The server has counted c.                                               *)
Stands(c) == Inside(c) /\ ~Sent(c)
Counted == {c \in Client : Stands(c)}

(* c was made active, or is about to be, before it could enter a round.    *)
Admitted(c) ==
  \/ Answered(c)
  \/ c \in db.active
  \/ /\ activation.pc \in {"await", "move"}
     /\ activation.response
     /\ c = Head(activation.todo)

(* One record enters c into a round and one release lets it out, never the *)
(* two at a time.                                                          *)
Orderly(c) ==
  /\ client[c].pc # "new" => c \in db.passive \cup db.active
  /\ client[c].pc \in {"answered", "running", "syncing", "waiting"} =>
       Admitted(c)
  /\ Once(up[c], "tuning") /\ (Sent(c) => Inside(c))
  /\ Once(down[c], "release")
  /\ ~(client[c].release /\ Has(down[c], "release"))
  /\ Released(c) => c \in db.active /\ client[c].pc = "waiting"
  /\ Stands(c) => c \in db.active

(* The local loop enters and leaves the barrier like a client.             *)
LocalIn == local /\ LocalInside
LocalOrderly ==
  /\ activation.pc \in {"sync", "waiting"} => local
  /\ local /\ release \in {"send", "signal"} =>
       activation.pc = "waiting" /\ ~signal.local
  /\ local /\ signal.local => activation.pc = "waiting"

(* _totalWaiting counts who stands in the barrier.                         *)
CountRight ==
  total = IF release = "send" THEN 0
          ELSE Cardinality(Counted) + (IF LocalIn THEN 1 ELSE 0)

(* The round that is about to end has everybody in it.                     *)
EveryoneIn ==
  release = "send" =>
    /\ \A c \in db.active : Stands(c)
    /\ local => LocalIn
    /\ local \/ db.active # {}

Round == LocalOrderly /\ CountRight /\ EveryoneIn

Undisturbed == ~SomeoneLeft => (\A c \in Client : Orderly(c)) /\ Round

-----------------------------------------------------------------------------
LEMMA InsideReleased ==
  ASSUME NEW c \in Client
  PROVE  Inside(c) <=> client[c].pc = "waiting" /\ ~Released(c)
BY DEF Inside, Released, Has

LEMMA CountedFinite == IsFiniteSet(Counted) /\ Cardinality(Counted) \in Nat
<1>1. Counted \in SUBSET Client
  BY DEF Counted
<1> QED BY <1>1, ClientAssumption, FS_Subset, FS_CardinalityType

LEMMA InitUndisturbed == Init => Undisturbed
<1> SUFFICES ASSUME Init PROVE Undisturbed
  OBVIOUS
<1>1. /\ \A c \in Client : /\ up[c] = <<>> /\ down[c] = <<>>
                           /\ client[c].pc = "new" /\ ~client[c].release
      /\ activation.pc = "top" /\ release = "lock" /\ total = 0
      /\ ~signal.local
  BY DEF Init, Fresh
<1>2. \A c \in Client : ~Sent(c) /\ ~Released(c) /\ ~Inside(c)
  BY <1>1, NothingInEmpty DEF Sent, Released, Inside
<1>3. \A c \in Client : Orderly(c)
  BY <1>1, <1>2, NothingInEmpty DEF Orderly, Stands
<1>4. Counted = {}
  BY <1>2 DEF Counted, Stands
<1>5. Round
  BY <1>1, <1>4, FS_EmptySet
  DEF Round, LocalOrderly, CountRight, EveryoneIn, LocalIn, LocalInside
<1> QED BY <1>3, <1>5 DEF Undisturbed

(* Departures are for good.                                                *)
LEMMA LeftForGood ==
  ASSUME Types, [Next]_vars, SomeoneLeft
  PROVE  SomeoneLeft'
<1>1. PICK b \in Client : client[b].pc = "gone" \/ client[b].exiting
  BY DEF SomeoneLeft
<1>2. client[b] \in ClientState
  BY DEF Types
<1>3. ASSUME NEW c \in Client, Accept(c)
      PROVE  client'[b].pc = "gone" \/ client'[b].exiting
  <2>1. client' = [client EXCEPT ![c].pc = "connected"] /\ client[c].pc = "new"
    BY <1>3 DEF Accept, Goto
  <2> QED BY <1>1, <1>2, <2>1 DEF Types, ClientState
<1>4. ASSUME NEW c \in Client,
             ClientLoop(c) \/ DataTask(c) \/ StopThread(c) \/ Die(c)
      PROVE  client'[b].pc = "gone" \/ client'[b].exiting
  <2>1. CASE c # b
    <3>1. LocalTo(c)
      BY <1>4, RequestActivationParts, AnswerActivationParts,
         SendResponseParts, ResetReleaseParts, BeginSyncParts,
         SendTuningParts, EndSyncParts, DataTaskParts, StopParts,
         SendLastParts, SignalLastParts, DieParts DEF ClientLoop, StopThread
    <3> QED BY <1>1, <2>1, <3>1 DEF LocalTo
  <2>2. CASE c = b
    <3>1. CASE RequestActivation(b)
      BY <1>1, <1>2, <3>1, RequestActivationParts DEF ClientState
    <3>2. CASE AnswerActivation(b)
      BY <1>1, <1>2, <3>2, AnswerActivationParts DEF ClientState
    <3>3. CASE ResetRelease(b)
      BY <1>1, <1>2, <3>3, ResetReleaseParts DEF ClientState
    <3>4. CASE BeginSync(b)
      BY <1>1, <1>2, <3>4, BeginSyncParts DEF ClientState
    <3>5. CASE SendTuning(b)
      BY <1>1, <1>2, <3>5, SendTuningParts DEF ClientState
    <3>6. CASE EndSync(b)
      BY <1>1, <1>2, <3>6, EndSyncParts DEF ClientState
    <3>7. CASE DataTask(b)
      BY <1>1, <1>2, <3>7, DataTaskParts DEF ClientState
    <3>8. CASE Stop(b)
      BY <1>2, <3>8, StopParts DEF ClientState
    <3>9. CASE Die(b)
      BY <1>1, <1>2, <3>9, DieParts DEF ClientState
    <3>10. CASE SendResponse(b)
      BY <1>1, <1>2, <3>10, SendResponseParts DEF ClientState
    <3>11. CASE SendLast(b)
      BY <1>1, <1>2, <3>11, SendLastParts DEF ClientState
    <3>12. CASE SignalLast(b)
      BY <1>1, <1>2, <3>12, SignalLastParts DEF ClientState
    <3> QED BY <1>4, <2>2, <3>1, <3>2, <3>3, <3>4, <3>5, <3>6, <3>7, <3>8,
         <3>9, <3>10, <3>11, <3>12 DEF ClientLoop, StopThread
  <2> QED BY <2>1, <2>2
<1>5. ASSUME NEW c \in Client, ReadThread(c)
      PROVE  client' = client
  BY <1>5 DEF ReadThread, ReceiveHandshake, ReceiveResponse, ReceiveTuning,
     BeginRemove, EndRemove
<1>6. CASE ReleaseThread \/ ActivationThread \/ UNCHANGED vars
  BY <1>1, <1>6 DEF ReleaseThread, CheckRound, SendRelease, SignalRelease,
     ActivationThread, TakeQueue, LockRounds, FindSocket, OfferActivation,
     AwaitResponse, MoveSocket, EnterLocal, LeaveLocal, vars, SomeoneLeft
<1> QED BY <1>1, <1>3, <1>4, <1>5, <1>6 DEF Next, SomeoneLeft

-----------------------------------------------------------------------------
(* The steps of the abstract barrier.                                      *)

LEMMA NobodyGone ==
  (~SomeoneLeft => Gone = {}) /\ (~SomeoneLeft' => Gone' = {})
BY DEF SomeoneLeft, Gone

LEMMA AbstractDisturbed ==
  ASSUME Types', SomeoneLeft'
  PROVE  Abstract!Next
<1>1. db'.active \subseteq Client
  BY DEF Types, Database
<1>2. Abstract!Disturbed
  BY <1>1 DEF Abstract!Disturbed
<1> QED BY <1>2 DEF Abstract!Next

(* Nobody enters, and nobody is let out.                                   *)
LEMMA AbstractStutters ==
  ASSUME ~SomeoneLeft, ~SomeoneLeft', local' = local,
         db'.active = db.active,
         \A c \in db.active : Inside(c)' <=> Inside(c),
         LocalIn' <=> LocalIn
  PROVE  UNCHANGED Abstract!vars
<1>1. Gone = {} /\ Gone' = {}
  BY NobodyGone
<1>2. {c \in db.active \ Gone : Inside(c)}' = {c \in db.active \ Gone : Inside(c)}
  BY <1>1
<1>3. (db.active \ Gone)' = db.active \ Gone
  BY <1>1
<1> QED BY <1>2, <1>3 DEF Abstract!vars, LocalIn

LEMMA AbstractEnters ==
  ASSUME ~SomeoneLeft, ~SomeoneLeft', local' = local,
         db'.active = db.active, NEW c \in db.active, ~Inside(c), Inside(c)',
         db.active \subseteq Client,
         \A b \in db.active : b # c => (Inside(b)' <=> Inside(b)),
         LocalIn' <=> LocalIn
  PROVE  Abstract!Next
<1>1. Gone = {} /\ Gone' = {}
  BY NobodyGone
<1>2. (db.active \ Gone)' = db.active \ Gone
  BY <1>1
<1>3. {b \in db.active \ Gone : Inside(b)}' =
        {b \in db.active \ Gone : Inside(b)} \cup {c}
  BY <1>1
<1>4. c \in Client /\ c # "local"
  BY ClientAssumption
<1>5. Abstract!Enter(c)
  BY <1>1, <1>2, <1>3, <1>4 DEF Abstract!Enter, LocalIn
<1> QED BY <1>4, <1>5 DEF Abstract!Next

LEMMA AbstractLocalEnters ==
  ASSUME ~SomeoneLeft, ~SomeoneLeft', local' = local,
         db'.active = db.active, db.active \subseteq Client,
         \A b \in db.active : Inside(b)' <=> Inside(b),
         local, ~LocalIn, LocalIn'
  PROVE  Abstract!Next
<1>1. Gone = {} /\ Gone' = {}
  BY NobodyGone
<1>2. (db.active \ Gone)' = db.active \ Gone
  BY <1>1
<1>3. {b \in db.active \ Gone : Inside(b)}' =
        {b \in db.active \ Gone : Inside(b)}
  BY <1>1
<1>4. "local" \notin db.active
  BY ClientAssumption
<1>5. Abstract!Enter("local")
  BY <1>1, <1>2, <1>3, <1>4 DEF Abstract!Enter, LocalIn
<1> QED BY <1>5 DEF Abstract!Next

LEMMA AbstractJoins ==
  ASSUME ~SomeoneLeft, ~SomeoneLeft', local' = local,
         NEW c \in Client \ db.active, db'.active = db.active \cup {c},
         \A b \in Client : Inside(b)' <=> Inside(b), db.active \subseteq Client,
         LocalIn' <=> LocalIn
  PROVE  Abstract!Next
<1>1. Gone = {} /\ Gone' = {}
  BY NobodyGone
<1>2. (db.active \ Gone)' = (db.active \ Gone) \cup {c}
  BY <1>1
<1>3. {b \in db.active \ Gone : Inside(b)}' =
        {b \in db.active \ Gone : Inside(b)} \cup (IF Inside(c) THEN {c} ELSE {})
  BY <1>1
<1>4. c # "local"
  BY ClientAssumption
<1>5. Abstract!Join(c)
  BY <1>1, <1>2, <1>3, <1>4 DEF Abstract!Join, LocalIn
<1> QED BY <1>5 DEF Abstract!Next

LEMMA AbstractEndsRound ==
  ASSUME ~SomeoneLeft, ~SomeoneLeft', local' = local,
         db'.active = db.active, db.active \subseteq Client,
         \A b \in db.active : Inside(b) /\ ~Inside(b)',
         local => LocalIn, ~LocalIn', local \/ db.active # {}
  PROVE  Abstract!Next
<1>1. Gone = {} /\ Gone' = {}
  BY NobodyGone
<1>2. (db.active \ Gone)' = db.active \ Gone
  BY <1>1
<1>3. {b \in db.active \ Gone : Inside(b)}' = {}
  BY <1>1
<1>4. {b \in db.active \ Gone : Inside(b)} = db.active \ Gone
  BY <1>1
<1>5. Abstract!EndRound
  BY <1>1, <1>2, <1>3, <1>4 DEF Abstract!EndRound, LocalIn
<1> QED BY <1>5 DEF Abstract!Next

-----------------------------------------------------------------------------
(* What every step has to show: the invariant, and a step of the barrier.  *)
Follows == Undisturbed' /\ [Abstract!Next]_Abstract!vars

(* Nobody is counted and no round ends.                                    *)
LEMMA KeptRound ==
  ASSUME Round, local' = local, db'.active = db.active, total' = total,
         release' = "send" <=> release = "send",
         \A c \in Client : Stands(c)' <=> Stands(c), db.active \subseteq Client,
         LocalIn' <=> LocalIn, LocalOrderly'
  PROVE  Round'
<1>1. Counted' = Counted
  BY DEF Counted
<1>2. CountRight'
  BY <1>1 DEF Round, CountRight
<1>3. EveryoneIn'
  BY DEF Round, EveryoneIn
<1> QED BY <1>2, <1>3 DEF Round

(* A step of c and its records.                                            *)
LEMMA ClientFollows ==
  ASSUME IInv, Undisturbed, ~SomeoneLeft, ~SomeoneLeft', NEW c \in Client,
         LocalTo(c), Orderly(c)', Stands(c)' <=> Stands(c),
         Inside(c) => Inside(c)'
  PROVE  Follows
<1>1. /\ local' = local /\ db' = db /\ total' = total /\ release' = release
      /\ activation' = activation /\ signal' = signal
      /\ db.active \subseteq Client
  BY DEF LocalTo, serverVars, IInv, Types, Database
<1>2. (LocalIn' <=> LocalIn) /\ (LocalOrderly => LocalOrderly')
  BY <1>1 DEF LocalIn, LocalInside, LocalOrderly
<1>3. ASSUME NEW b \in Client, b # c
      PROVE  /\ Orderly(b)' /\ (Stands(b)' <=> Stands(b))
             /\ Inside(b)' <=> Inside(b)
  <2>1. client'[b] = client[b] /\ up'[b] = up[b] /\ down'[b] = down[b]
    BY <1>3 DEF LocalTo
  <2>2. Orderly(b)
    BY DEF Undisturbed
  <2>3. (Inside(b)' <=> Inside(b)) /\ (Sent(b)' <=> Sent(b))
    BY <2>1 DEF Inside, Sent
  <2>4. /\ Stands(b)' <=> Stands(b)
        /\ Released(b)' <=> Released(b)
        /\ Admitted(b)' <=> Admitted(b)
    BY <1>1, <2>1, <2>3 DEF Stands, Released, Admitted, Answered
  <2> QED BY <1>1, <2>1, <2>2, <2>3, <2>4 DEF Orderly
<1>4. Round'
  BY <1>1, <1>2, <1>3, KeptRound DEF Undisturbed, Round
<1>5. Undisturbed'
  BY <1>3, <1>4 DEF Undisturbed
<1>6. CASE c \in db.active /\ ~Inside(c) /\ Inside(c)'
  BY <1>1, <1>2, <1>3, <1>5, <1>6, AbstractEnters DEF Follows
<1>7. CASE c \in db.active => (Inside(c)' <=> Inside(c))
  BY <1>1, <1>2, <1>3, <1>5, <1>7, AbstractStutters DEF Follows
<1> QED BY <1>6, <1>7

(* A client that is not in the barrier and does not enter it has neither   *)
(* sent a record nor been released.                                        *)
LEMMA OutsideFollows ==
  ASSUME IInv, Undisturbed, ~SomeoneLeft, ~SomeoneLeft', NEW c \in Client,
         LocalTo(c), down'[c] = down[c],
         \/ up'[c] = up[c]
         \/ \E r \in {"handshake", "response"} : up'[c] = Append(up[c], r),
         client[c].pc \notin {"new", "waiting"}, client'[c].pc # "waiting",
         client'[c].release => client[c].release,
         client'[c].pc \in {"answered", "running", "syncing"} =>
           Admitted(c) \/ Answered(c)'
  PROVE  Follows
<1>0. Orderly(c) /\ up[c] \in Seq(Upward)
  BY DEF Undisturbed, IInv, Types
<1>1. ~Inside(c) /\ ~Sent(c) /\ ~Released(c)
  BY <1>0 DEF Orderly, Inside
<1>2. ~Inside(c)'
  BY DEF Inside
<1>3. /\ ~Sent(c)' /\ Once(up[c], "tuning")'
      /\ Answered(c) => Answered(c)'
  <2>1. CASE up'[c] = up[c]
    BY <1>0, <1>1, <2>1 DEF Sent, Answered, Orderly
  <2>2. ASSUME NEW r \in {"handshake", "response"}, up'[c] = Append(up[c], r)
        PROVE  /\ ~Sent(c)' /\ Once(up[c], "tuning")'
               /\ Answered(c) => Answered(c)'
    <3>1. r \in Upward /\ r # "tuning"
      BY DEF Upward
    <3>2. ~Has(up'[c], "tuning") /\ Once(up'[c], "tuning")
      BY <1>0, <1>1, <2>2, <3>1, AppendHas DEF Sent, Orderly
    <3>3. Has(up[c], "response") => Has(up'[c], "response")
      BY <1>0, <2>2, <3>1, AppendHas
    <3> QED BY <3>2, <3>3 DEF Sent, Answered
  <2> QED BY <2>1, <2>2
<1>4. /\ ~Has(down'[c], "release") /\ Once(down'[c], "release")
      /\ ~client'[c].release
  BY <1>0, <1>1 DEF Released, Orderly
<1>5. Admitted(c) => Admitted(c)'
  BY <1>3 DEF Admitted, LocalTo, serverVars
<1>6. /\ db' = db
      /\ client[c].pc # "new" => c \in db.passive \cup db.active
  BY <1>0 DEF LocalTo, serverVars, Orderly
<1>7. client'[c].pc \in {"answered", "running", "syncing", "waiting"} =>
        Admitted(c)'
  BY <1>5 DEF Admitted
<1>8. Orderly(c)'
  BY <1>2, <1>3, <1>4, <1>6, <1>7 DEF Orderly, Released, Stands
<1>9. Stands(c)' <=> Stands(c)
  BY <1>1, <1>2 DEF Stands
<1> QED BY <1>1, <1>8, <1>9, ClientFollows

(* The client's record is sent when none is, and no release is.            *)
LEMMA SendTuningFollows ==
  ASSUME IInv, Undisturbed, ~SomeoneLeft, ~SomeoneLeft', NEW c \in Client,
         SendTuning(c)
  PROVE  Follows
<1>0. /\ Orderly(c) /\ Types /\ client[c] \in ClientState
      /\ up[c] \in Seq(Upward)
  BY DEF Undisturbed, IInv, Types
<1>1. /\ LocalTo(c) /\ down'[c] = down[c] /\ client[c].pc = "syncing"
      /\ client'[c].release = client[c].release
      /\ \/ client'[c].pc = "running" /\ up'[c] = up[c]
         \/ client'[c].pc = "waiting" /\ up'[c] = Append(up[c], "tuning")
  BY <1>0, SendTuningParts DEF ClientState
<1>2. Admitted(c)
  BY <1>0, <1>1 DEF Orderly
<1>3. CASE client'[c].pc = "running" /\ up'[c] = up[c]
  BY <1>1, <1>2, <1>3, OutsideFollows
<1>4. CASE client'[c].pc = "waiting" /\ up'[c] = Append(up[c], "tuning")
  <2>1. ~Inside(c) /\ ~Sent(c) /\ ~Released(c)
    BY <1>0, <1>1 DEF Orderly, Inside
  <2>2. "tuning" \in Upward /\ "tuning" # "response"
    BY DEF Upward
  <2>3. /\ Sent(c)' /\ Once(up[c], "tuning")'
        /\ Answered(c)' <=> Answered(c)
    BY <1>0, <1>4, <2>1, <2>2, AppendHas DEF Sent, Answered, Orderly
  <2>4. ~Released(c)' /\ Once(down[c], "release")'
    BY <1>0, <1>1, <2>1 DEF Released, Orderly
  <2>5. Inside(c)' /\ ~Stands(c) /\ ~Stands(c)'
    BY <1>4, <2>1, <2>3, <2>4 DEF Inside, Released, Has, Stands
  <2>6. Admitted(c)' /\ db' = db
    BY <1>1, <1>2, <2>3 DEF Admitted, LocalTo, serverVars
  <2>7. c \in db.passive \cup db.active
    BY <1>0, <1>1 DEF Orderly
  <2>8. Orderly(c)'
    BY <2>3, <2>4, <2>5, <2>6, <2>7 DEF Orderly, Released
  <2> QED BY <1>1, <2>1, <2>5, <2>8, ClientFollows
<1> QED BY <1>1, <1>3, <1>4

(* sync() returns: its release was the only one.                           *)
LEMMA EndSyncFollows ==
  ASSUME IInv, Undisturbed, ~SomeoneLeft, ~SomeoneLeft', NEW c \in Client,
         EndSync(c)
  PROVE  Follows
<1>0. Orderly(c) /\ Types /\ client[c] \in ClientState
  BY DEF Undisturbed, IInv, Types
<1>1. /\ LocalTo(c) /\ down'[c] = down[c] /\ up'[c] = up[c]
      /\ client[c].pc = "waiting" /\ client[c].release
      /\ client'[c].pc = "running" /\ ~client'[c].release
  BY <1>0, EndSyncParts DEF ClientState
<1>2. /\ Released(c) /\ ~Has(down[c], "release")
      /\ ~Inside(c) /\ ~Inside(c)' /\ ~Stands(c) /\ ~Stands(c)'
  BY <1>0, <1>1 DEF Released, Orderly, Inside, Stands
<1>3. c \in db.active /\ db' = db
  BY <1>0, <1>1, <1>2 DEF Orderly, LocalTo, serverVars
<1>4. ~Sent(c)' /\ Once(up[c], "tuning")' /\ Once(down[c], "release")'
  BY <1>0, <1>1, <1>2 DEF Orderly, Sent
<1>5. ~Released(c)' /\ Admitted(c)'
  BY <1>1, <1>2, <1>3 DEF Released, Admitted
<1>6. Orderly(c)'
  BY <1>2, <1>3, <1>4, <1>5 DEF Orderly, Released
<1> QED BY <1>1, <1>2, <1>6, ClientFollows

(* The data thread passes a release on to sync().                          *)
LEMMA DataTaskFollows ==
  ASSUME IInv, Undisturbed, ~SomeoneLeft, ~SomeoneLeft', NEW c \in Client,
         DataTask(c)
  PROVE  Follows
<1>0. /\ Orderly(c) /\ Types /\ client[c] \in ClientState
      /\ down[c] \in Seq(Downward)
  BY DEF Undisturbed, IInv, Types
<1>1. /\ LocalTo(c) /\ up'[c] = up[c]
      /\ down[c] # <<>> /\ down'[c] = Tail(down[c])
      /\ client'[c].pc = client[c].pc
      /\ \/ /\ Head(down[c]) = "handshake"
            /\ client'[c].release = client[c].release
         \/ /\ Head(down[c]) # "handshake"
            /\ client'[c].release
  BY <1>0, DataTaskParts DEF ClientState
<1>2. /\ Head(down[c]) \in Downward
      /\ Has(down[c], "release") <=>
           Has(down'[c], "release") \/ Head(down[c]) = "release"
      /\ Once(down[c], "release") => Once(down'[c], "release")
      /\ Once(down[c], "release") /\ Head(down[c]) = "release"
           => ~Has(down'[c], "release")
  BY <1>0, <1>1, TailHas
<1>3. /\ Released(c)' <=> Released(c)
      /\ Once(down'[c], "release")
      /\ ~(client'[c].release /\ Has(down'[c], "release"))
  BY <1>0, <1>1, <1>2 DEF Released, Orderly, Downward
<1>4. Inside(c)' <=> Inside(c)
  <2>1. Inside(c) <=> client[c].pc = "waiting" /\ ~Released(c)
    BY InsideReleased
  <2>2. Inside(c)' <=> client'[c].pc = "waiting" /\ ~Released(c)'
    BY DEF Inside, Released, Has
  <2> QED BY <1>1, <1>3, <2>1, <2>2
<1>5. /\ Sent(c)' <=> Sent(c)
      /\ Answered(c)' <=> Answered(c)
      /\ Once(up[c], "tuning") => Once(up[c], "tuning")'
  BY <1>1 DEF Sent, Answered
<1>6. /\ Admitted(c) <=> Admitted(c)'
      /\ Stands(c)' <=> Stands(c)
      /\ db' = db
  BY <1>1, <1>4, <1>5 DEF Admitted, Stands, LocalTo, serverVars
<1>7. Orderly(c)'
  BY <1>0, <1>1, <1>3, <1>4, <1>5, <1>6 DEF Orderly
<1> QED BY <1>1, <1>4, <1>6, <1>7, ClientFollows

LEMMA ClientActionFollows ==
  ASSUME IInv, Undisturbed, ~SomeoneLeft, ~SomeoneLeft', NEW c \in Client,
         \/ ClientLoop(c) \/ DataTask(c) \/ StopThread(c) \/ Die(c)
  PROVE  Follows
<1>0. Orderly(c) /\ Types /\ client[c] \in ClientState /\ up[c] \in Seq(Upward)
  BY DEF Undisturbed, IInv, Types
<1>1. CASE RequestActivation(c)
  <2>1. /\ LocalTo(c) /\ down'[c] = down[c]
        /\ up'[c] = Append(up[c], "handshake")
        /\ client[c].pc = "connected" /\ client'[c].pc = "requested"
        /\ client'[c].release = client[c].release
    BY <1>0, <1>1, RequestActivationParts DEF ClientState
  <2> QED BY <2>1, OutsideFollows
<1>2. CASE AnswerActivation(c)
  <2>1. /\ LocalTo(c) /\ down'[c] = down[c] /\ up'[c] = up[c]
        /\ client[c].pc = "requested" /\ client'[c].pc = "answering"
        /\ client'[c].release = client[c].release
    BY <1>0, <1>2, AnswerActivationParts DEF ClientState, SomeoneLeft
  <2> QED BY <2>1, OutsideFollows
<1>6. CASE SendResponse(c)
  <2>1. /\ LocalTo(c) /\ down'[c] = down[c]
        /\ up'[c] = Append(up[c], "response")
        /\ client[c].pc = "answering" /\ client'[c].pc = "answered"
        /\ client'[c].release = client[c].release
    BY <1>0, <1>6, SendResponseParts DEF ClientState
  <2>2. Answered(c)'
    BY <1>0, <2>1, AppendHas DEF Answered, Upward
  <2> QED BY <2>1, <2>2, OutsideFollows
<1>3. CASE ResetRelease(c)
  <2>1. /\ LocalTo(c) /\ down'[c] = down[c] /\ up'[c] = up[c]
        /\ client[c].pc = "answered" /\ client'[c].pc = "running"
        /\ ~client'[c].release
    BY <1>0, <1>3, ResetReleaseParts DEF ClientState
  <2>2. Admitted(c)
    BY <1>0, <2>1 DEF Orderly
  <2> QED BY <2>1, <2>2, OutsideFollows
<1>4. CASE BeginSync(c)
  <2>1. /\ LocalTo(c) /\ down'[c] = down[c] /\ up'[c] = up[c]
        /\ client[c].pc = "running" /\ client'[c].pc = "syncing"
        /\ client'[c].release = client[c].release
    BY <1>0, <1>4, BeginSyncParts DEF ClientState
  <2>2. Admitted(c)
    BY <1>0, <2>1 DEF Orderly
  <2> QED BY <2>1, <2>2, OutsideFollows
<1>5. ~StopThread(c) /\ ~Die(c)
  <2>1. ~client[c].exiting /\ client[c].stop = "no"
    BY DEF SomeoneLeft, IInv, LastSent
  <2>2. ~SendLast(c) /\ ~SignalLast(c)
    BY <1>0, <2>1, SendLastParts, SignalLastParts
  <2>3. ~Stop(c) /\ ~Die(c)
    BY <1>0, StopParts, DieParts DEF SomeoneLeft, ClientState
  <2> QED BY <2>2, <2>3 DEF StopThread
<1> QED BY <1>1, <1>2, <1>3, <1>4, <1>5, <1>6, SendTuningFollows,
     EndSyncFollows, DataTaskFollows DEF ClientLoop

-----------------------------------------------------------------------------
(* The server's threads.                                                   *)

LEMMA KeptFollows ==
  ASSUME IInv, Undisturbed, ~SomeoneLeft, ~SomeoneLeft',
         local' = local, total' = total, db'.active = db.active,
         release' = "send" <=> release = "send",
         \A b \in Client : /\ Orderly(b)'
                           /\ Stands(b)' <=> Stands(b)
                           /\ Inside(b)' <=> Inside(b),
         LocalIn' <=> LocalIn, LocalOrderly'
  PROVE  Follows
<1>1. db.active \subseteq Client
  BY DEF IInv, Types, Database
<1>2. Round'
  BY <1>1, KeptRound DEF Undisturbed
<1>3. UNCHANGED Abstract!vars
  BY <1>1, AbstractStutters
<1> QED BY <1>2, <1>3 DEF Follows, Undisturbed

(* Nothing is sent or received, and nobody is made active.                 *)
LEMMA SilentFollows ==
  ASSUME IInv, Undisturbed, ~SomeoneLeft, ~SomeoneLeft',
         UNCHANGED <<local, client, up, down, db, total>>,
         release' = "send" <=> release = "send",
         \A b \in Client : Admitted(b) => Admitted(b)',
         LocalIn' <=> LocalIn, LocalOrderly'
  PROVE  Follows
<1>1. ASSUME NEW b \in Client
      PROVE  /\ Orderly(b)'
             /\ Stands(b)' <=> Stands(b)
             /\ Inside(b)' <=> Inside(b)
  <2>1. Orderly(b)
    BY DEF Undisturbed
  <2>2. /\ Inside(b)' <=> Inside(b)
        /\ Sent(b)' <=> Sent(b)
        /\ Released(b)' <=> Released(b)
    BY DEF Inside, Sent, Released
  <2>3. Stands(b)' <=> Stands(b)
    BY <2>2 DEF Stands
  <2> QED BY <2>1, <2>2, <2>3 DEF Orderly
<1> QED BY <1>1, KeptFollows

(* The connection is accepted.                                             *)
LEMMA AcceptFollows ==
  ASSUME IInv, Undisturbed, ~SomeoneLeft, ~SomeoneLeft', NEW c \in Client,
         Accept(c)
  PROVE  Follows
<1>1. /\ client[c].pc = "new" /\ client'[c].pc = "connected"
      /\ client'[c].release = client[c].release
      /\ \A b \in Client : b # c => client'[b] = client[b]
      /\ db'.passive = db.passive \cup {c} /\ db'.active = db.active
      /\ UNCHANGED <<local, up, down, total, release, activation, signal>>
  BY DEF IInv, Types, ClientState, Database, Accept, Goto
<1>2. ASSUME NEW b \in Client
      PROVE  /\ Orderly(b)'
             /\ Stands(b)' <=> Stands(b)
             /\ Inside(b)' <=> Inside(b)
  <2>1. Orderly(b)
    BY DEF Undisturbed
  <2>2. /\ Inside(b)' <=> Inside(b)
        /\ Sent(b)' <=> Sent(b)
        /\ Released(b)' <=> Released(b)
        /\ Admitted(b)' <=> Admitted(b)
    BY <1>1 DEF Inside, Sent, Released, Admitted, Answered
  <2>3. Stands(b)' <=> Stands(b)
    BY <2>2 DEF Stands
  <2>4. CASE b = c
    <3>1. ~Released(c)
      BY <1>1, <2>1, <2>4 DEF Orderly
    <3> QED BY <1>1, <2>1, <2>2, <2>3, <2>4, <3>1 DEF Orderly, Released
  <2>5. CASE b # c
    BY <1>1, <2>1, <2>2, <2>3, <2>5 DEF Orderly
  <2> QED BY <2>2, <2>3, <2>4, <2>5
<1>3. (LocalIn' <=> LocalIn) /\ LocalOrderly'
  BY <1>1 DEF LocalIn, LocalInside, LocalOrderly, Undisturbed, Round
<1> QED BY <1>1, <1>2, <1>3, KeptFollows

(* A record other than the one that enters a round.                        *)
LEMMA ReceiveOtherFollows ==
  ASSUME IInv, Undisturbed, ~SomeoneLeft, ~SomeoneLeft', NEW c \in Client,
         ReceiveHandshake(c) \/ ReceiveResponse(c)
  PROVE  Follows
<1> DEFINE r == Head(up[c])
<1>1. /\ up[c] \in Seq(Upward) /\ up[c] # <<>> /\ r # "tuning"
      /\ \A b \in Client : up'[b] = IF b = c THEN Tail(up[c]) ELSE up[b]
      /\ UNCHANGED <<local, client, down, db, total, release>>
      /\ signal'.local = signal.local
      /\ activation'.pc = activation.pc
      /\ activation'.todo = activation.todo
  <2>1. up[c] \in Seq(Upward) /\ up \in [Client -> Seq(Upward)]
    BY DEF IInv, Types
  <2>2. /\ activation'.pc = activation.pc
        /\ activation'.todo = activation.todo
    BY DEF ReceiveHandshake, ReceiveResponse, IInv, Types, Activation
  <2>3. signal'.local = signal.local
    BY DEF ReceiveHandshake, ReceiveResponse, IInv, Types
  <2> QED BY <2>1, <2>2, <2>3 DEF ReceiveHandshake, ReceiveResponse, Read
<1>2. /\ Has(up[c], "tuning") <=> Has(Tail(up[c]), "tuning")
      /\ Once(up[c], "tuning") => Once(Tail(up[c]), "tuning")
  BY <1>1, TailHas
<1>3. ASSUME NEW b \in Client, Admitted(b)
      PROVE  Admitted(b)'
  <2>1. CASE ReceiveHandshake(c)
    <3>1. r # "response" /\ activation'.response = activation.response
      BY <2>1 DEF ReceiveHandshake, Read, IInv, Types, Activation
    <3>2. Has(up[c], "response") <=> Has(Tail(up[c]), "response")
      BY <1>1, <3>1, TailHas
    <3> QED BY <1>1, <1>3, <3>1, <3>2 DEF Admitted, Answered
  <2>2. CASE ReceiveResponse(c)
    <3>1. r = "response" /\ activation'.response
      BY <2>2 DEF ReceiveResponse, Read, IInv, Types, Activation
    <3>2. Answered(c)
      BY <1>1, <3>1, TailHas DEF Answered
    <3>3. activation.pc = "await" /\ c = Head(activation.todo)
      BY <3>2 DEF IInv, Safe, AnswersAwaited, MayAnswer
    <3>4. CASE b = c
      BY <1>1, <3>1, <3>3, <3>4 DEF Admitted
    <3>5. CASE b # c
      BY <1>1, <1>3, <3>3, <3>5 DEF Admitted, Answered
    <3> QED BY <3>4, <3>5
  <2> QED BY <2>1, <2>2
<1>4. ASSUME NEW b \in Client
      PROVE  /\ Orderly(b)'
             /\ Stands(b)' <=> Stands(b)
             /\ Inside(b)' <=> Inside(b)
  <2>1. Orderly(b)
    BY DEF Undisturbed
  <2>2. /\ Inside(b)' <=> Inside(b)
        /\ Sent(b)' <=> Sent(b)
        /\ Released(b)' <=> Released(b)
        /\ Once(up[b], "tuning") => Once(up[b], "tuning")'
    BY <1>1, <1>2 DEF Inside, Sent, Released
  <2>3. Stands(b)' <=> Stands(b)
    BY <2>2 DEF Stands
  <2> QED BY <1>1, <1>3, <2>1, <2>2, <2>3 DEF Orderly
<1>5. (LocalIn' <=> LocalIn) /\ LocalOrderly'
  BY <1>1 DEF LocalIn, LocalInside, LocalOrderly, Undisturbed, Round
<1> QED BY <1>1, <1>4, <1>5, KeptFollows

(* The client is counted: it has become active before it could send.       *)
LEMMA ReceiveTuningFollows ==
  ASSUME IInv, Undisturbed, ~SomeoneLeft, ~SomeoneLeft', NEW c \in Client,
         ReceiveTuning(c)
  PROVE  Follows
<1>1. /\ up[c] \in Seq(Upward) /\ up[c] # <<>> /\ Head(up[c]) = "tuning"
      /\ \A b \in Client : up'[b] = IF b = c THEN Tail(up[c]) ELSE up[b]
      /\ UNCHANGED <<local, client, down, db, activation, signal>>
      /\ total' = total + 1 /\ release' = Signalled(release)
      /\ release # "send" /\ activation.pc \notin HoldsWaiting
      /\ total \in Nat /\ db.active \subseteq Client
  BY DEF IInv, Types, Database, ReceiveTuning, Read, WaitingFree
<1>2. /\ release' # "send"
      /\ release' = "signal" <=> release = "signal"
  BY <1>1 DEF Signalled
<1>3. Orderly(c)
  BY DEF Undisturbed
<1>4. /\ Sent(c) /\ ~Has(Tail(up[c]), "tuning")
      /\ Once(Tail(up[c]), "tuning")
      /\ Has(Tail(up[c]), "response") <=> Has(up[c], "response")
  BY <1>1, <1>3, TailHas DEF Sent, Orderly
<1>5. Inside(c) /\ client[c].pc = "waiting"
  BY <1>3, <1>4 DEF Orderly, Inside
<1>6. c \in db.active
  <2>1. ~Answered(c)
    BY <1>1 DEF IInv, Safe, AnswersAwaited, MayAnswer, HoldsWaiting
  <2> QED BY <1>1, <1>3, <1>5, <2>1 DEF Orderly, Admitted, HoldsWaiting
<1>7. ASSUME NEW b \in Client
      PROVE  /\ Orderly(b)' /\ (Inside(b)' <=> Inside(b))
             /\ b # c => (Stands(b)' <=> Stands(b))
             /\ b = c => Stands(b)' /\ ~Stands(b)
  <2>1. Orderly(b)
    BY DEF Undisturbed
  <2>2. /\ Inside(b)' <=> Inside(b)
        /\ Released(b)' <=> Released(b)
        /\ Admitted(b)' <=> Admitted(b)
    BY <1>1, <1>4 DEF Inside, Released, Admitted, Answered
  <2>3. CASE b = c
    <3>1. ~Sent(c)' /\ Once(up[c], "tuning")' /\ Stands(c)' /\ ~Stands(c)
      BY <1>1, <1>4, <1>5, <2>2, <2>3 DEF Sent, Stands
    <3> QED BY <1>1, <1>6, <2>1, <2>2, <2>3, <3>1 DEF Orderly
  <2>4. CASE b # c
    <3>1. up'[b] = up[b]
      BY <1>1, <2>4
    <3>2. (Sent(b)' <=> Sent(b)) /\ (Stands(b)' <=> Stands(b))
      BY <2>2, <3>1 DEF Sent, Stands
    <3> QED BY <1>1, <2>1, <2>2, <2>4, <3>1, <3>2 DEF Orderly
  <2> QED BY <2>3, <2>4
<1>8. (LocalIn' <=> LocalIn) /\ LocalOrderly'
  BY <1>1, <1>2
  DEF LocalIn, LocalInside, LocalOrderly, Undisturbed, Round
<1>9. CountRight'
  <2>1. Counted' = Counted \cup {c} /\ c \notin Counted
    BY <1>7 DEF Counted
  <2>2. /\ Cardinality(Counted') = Cardinality(Counted) + 1
        /\ Cardinality(Counted) \in Nat
    BY <2>1, CountedFinite, FS_AddElement
  <2>3. total = Cardinality(Counted) + (IF LocalIn THEN 1 ELSE 0)
    BY <1>1 DEF Undisturbed, Round, CountRight
  <2>4. total' = Cardinality(Counted') + (IF LocalIn' THEN 1 ELSE 0)
    BY <1>1, <1>8, <2>2, <2>3
  <2> QED BY <1>2, <2>4 DEF CountRight
<1>10. Undisturbed'
  BY <1>2, <1>7, <1>8, <1>9 DEF Undisturbed, Round, EveryoneIn
<1>11. UNCHANGED Abstract!vars
  BY <1>1, <1>7, <1>8, AbstractStutters
<1> QED BY <1>10, <1>11 DEF Follows

LEMMA ReadThreadFollows ==
  ASSUME IInv, Undisturbed, ~SomeoneLeft, ~SomeoneLeft', NEW c \in Client,
         ReadThread(c)
  PROVE  Follows
<1>1. ~BeginRemove(c)
  BY NobodyGone DEF BeginRemove
<1>2. CASE EndRemove(c)
  <2>1. /\ UNCHANGED <<local, client, up, down, db, total, activation>>
        /\ release' = Signalled(release) /\ release # "send"
        /\ signal'.local = signal.local
    BY <1>2 DEF EndRemove, WaitingFree, Primed, IInv, Types
  <2>2. /\ release' = "send" <=> release = "send"
        /\ release' = "signal" <=> release = "signal"
    BY <2>1 DEF Signalled
  <2>3. (LocalIn' <=> LocalIn) /\ LocalOrderly'
    BY <2>1, <2>2
    DEF LocalIn, LocalInside, LocalOrderly, Undisturbed, Round
  <2>4. \A b \in Client : Admitted(b) => Admitted(b)'
    BY <2>1 DEF Admitted, Answered
  <2> QED BY <2>1, <2>2, <2>3, <2>4, SilentFollows
<1> QED BY <1>1, <1>2, ReceiveOtherFollows, ReceiveTuningFollows DEF ReadThread

-----------------------------------------------------------------------------
(* The release thread.                                                     *)

(* Every client that is counted is active, so the number tells who.        *)
LEMMA ReadyMeansEveryone ==
  ASSUME IInv, Undisturbed, ~SomeoneLeft, Ready, release # "send"
  PROVE  /\ \A c \in db.active : Stands(c)
         /\ local => LocalIn
         /\ local \/ db.active # {}
<1> DEFINE n == Cardinality(db.active)
           k == Cardinality(Counted)
<1>1. Counted \subseteq db.active
  BY DEF Undisturbed, Orderly, Counted
<1>2. IsFiniteSet(db.active) /\ n \in Nat
  <2>1. db.active \in SUBSET Client
    BY DEF IInv, Types, Database
  <2> QED BY <2>1, ClientAssumption, FS_Subset, FS_CardinalityType
<1>3. k \in Nat /\ k <= n /\ (n = k => db.active = Counted)
  <2>1. Counted \in SUBSET db.active
    BY <1>1
  <2> QED BY <1>2, <2>1, CountedFinite, FS_Subset
<1>4. total = k + (IF LocalIn THEN 1 ELSE 0)
  BY DEF Undisturbed, Round, CountRight
<1>5. /\ total >= n + (IF local THEN 1 ELSE 0)
      /\ n + (IF local THEN 1 ELSE 0) > 0
  BY DEF Ready
<1>6. LocalIn => local
  BY DEF LocalIn
<1> HIDE DEF n, k
<1>7. n = k /\ (local => LocalIn)
  BY <1>2, <1>3, <1>4, <1>5, <1>6
<1>8. local \/ n # 0
  BY <1>5
<1>9. db.active # {} \/ local
  BY <1>8, FS_EmptySet DEF n
<1> QED BY <1>3, <1>7, <1>9 DEF Counted

LEMMA CheckRoundFollows ==
  ASSUME IInv, Undisturbed, ~SomeoneLeft, ~SomeoneLeft', CheckRound
  PROVE  Follows
<1>1. /\ UNCHANGED <<local, client, up, down, db, activation, signal>>
      /\ release = "lock"
      /\ \/ Ready /\ release' = "send" /\ total' = 0
         \/ release' = "wait" /\ total' = total
  BY DEF CheckRound
<1>2. LocalIn' <=> LocalIn
  BY <1>1 DEF LocalIn, LocalInside
<1>3. \A b \in Client : Admitted(b) => Admitted(b)'
  BY <1>1 DEF Admitted, Answered
<1>4. CASE release' = "wait" /\ total' = total
  <2>1. LocalOrderly'
    BY <1>1, <1>4 DEF LocalOrderly, Undisturbed, Round
  <2> QED BY <1>1, <1>2, <1>3, <1>4, <2>1, SilentFollows
<1>5. CASE Ready /\ release' = "send" /\ total' = 0
  <2>1. /\ \A c \in db.active : Stands(c)
        /\ local => LocalIn
        /\ local \/ db.active # {}
    BY <1>1, <1>5, ReadyMeansEveryone
  <2>2. ASSUME NEW b \in Client
        PROVE  /\ Orderly(b)'
               /\ Stands(b)' <=> Stands(b)
               /\ Inside(b)' <=> Inside(b)
    <3>1. Orderly(b)
      BY DEF Undisturbed
    <3>2. /\ Inside(b)' <=> Inside(b)
          /\ Sent(b)' <=> Sent(b)
          /\ Released(b)' <=> Released(b)
      BY <1>1 DEF Inside, Sent, Released
    <3>3. Stands(b)' <=> Stands(b)
      BY <3>2 DEF Stands
    <3> QED BY <1>1, <1>3, <3>1, <3>2, <3>3 DEF Orderly
  <2>3. db.active \subseteq Client
    BY DEF IInv, Types, Database
  <2>4. EveryoneIn'
    BY <1>1, <1>2, <2>1, <2>2, <2>3 DEF EveryoneIn
  <2>5. LocalOrderly'
    BY <1>1, <2>1
    DEF LocalOrderly, LocalIn, LocalInside, Undisturbed, Round
  <2>6. CountRight'
    BY <1>5 DEF CountRight
  <2>7. UNCHANGED Abstract!vars
    BY <1>1, <1>2, <2>2, <2>3, AbstractStutters
  <2> QED BY <2>2, <2>4, <2>5, <2>6, <2>7 DEF Follows, Undisturbed, Round
<1> QED BY <1>1, <1>4, <1>5

(* The release goes to all that are active, and all of them are inside.    *)
LEMMA SendReleaseFollows ==
  ASSUME IInv, Undisturbed, ~SomeoneLeft, ~SomeoneLeft', SendRelease
  PROVE  Follows
<1>1. /\ UNCHANGED <<local, client, up, activation>>
      /\ total' = total
      /\ release = "send" /\ release' = "signal"
      /\ db.active \subseteq Client /\ db \in Database
      /\ down \in [Client -> Seq(Downward)]
  BY DEF SendRelease, IInv, Types, Database
<1>2. PICK failed \in SUBSET (db.active \cap Gone) :
        /\ db' = Deleted(db, failed)
        /\ signal' = IF failed \cap db.ids = {} THEN signal
                     ELSE Primed(signal, db')
  BY DEF SendRelease
<1>3. failed = {} /\ Gone = {}
  BY NobodyGone
<1>4. /\ db'.active = db.active /\ db'.passive = db.passive
      /\ signal' = signal
  <2>1. /\ Deleted(db, failed).active = db.active \ (failed \cap db.ids)
        /\ Deleted(db, failed).passive = db.passive
    BY <1>1, DeletedParts
  <2>2. failed \cap db.ids = {}
    BY <1>3
  <2> QED BY <1>2, <2>1, <2>2
<1>5. \A b \in Client : down'[b] = IF b \in db.active
                                   THEN Append(down[b], "release") ELSE down[b]
  BY <1>1, <1>3 DEF SendRelease
<1>6. /\ \A c \in db.active : Stands(c)
      /\ local => LocalIn
      /\ local \/ db.active # {}
      /\ total = 0 /\ LocalOrderly
  BY <1>1 DEF Undisturbed, Round, EveryoneIn, CountRight
<1>7. ASSUME NEW b \in Client
      PROVE  Orderly(b)' /\ ~Stands(b)' /\ (b \in db.active => ~Inside(b)')
  <2>1. Orderly(b)
    BY DEF Undisturbed
  <2>2. (Sent(b)' <=> Sent(b)) /\ (Admitted(b)' <=> Admitted(b))
    BY <1>1, <1>4 DEF Sent, Admitted, Answered
  <2>3. CASE b \in db.active
    <3>1. client[b].pc = "waiting" /\ ~Released(b) /\ ~Sent(b)
      BY <1>6, <2>3, InsideReleased DEF Stands
    <3>2. "release" \in Downward /\ down[b] \in Seq(Downward)
      BY <1>1 DEF Downward
    <3>3. Has(down'[b], "release") /\ Once(down'[b], "release")
      BY <1>5, <2>1, <2>3, <3>1, <3>2, AppendHas DEF Released, Orderly
    <3>4. Released(b)' /\ ~Inside(b)'
      BY <3>3 DEF Released, Inside, Has
    <3>5. ~Stands(b)' /\ ~Sent(b)' /\ Once(up[b], "tuning")'
      BY <1>1, <2>1, <2>2, <3>1, <3>4 DEF Stands, Orderly
    <3> QED BY <1>1, <1>4, <2>1, <2>2, <2>3, <3>1, <3>3, <3>4, <3>5
      DEF Orderly, Released
  <2>4. CASE b \notin db.active
    <3>1. down'[b] = down[b] /\ client'[b] = client[b] /\ up'[b] = up[b]
      BY <1>1, <1>5, <2>4
    <3>2. /\ Inside(b)' <=> Inside(b)
          /\ Released(b)' <=> Released(b)
      BY <3>1 DEF Inside, Released
    <3>3. Stands(b)' <=> Stands(b)
      BY <2>2, <3>2 DEF Stands
    <3>4. ~Stands(b)
      BY <2>1, <2>4 DEF Orderly
    <3> QED BY <1>4, <2>1, <2>2, <2>4, <3>1, <3>2, <3>3, <3>4 DEF Orderly
  <2> QED BY <2>3, <2>4
<1>8. ~LocalIn'
  BY <1>1 DEF LocalIn, LocalInside
<1>9. CountRight'
  <2>1. Counted' = {}
    BY <1>7 DEF Counted
  <2>2. total' = 0 /\ Cardinality(Counted') = 0
    BY <1>1, <1>6, <2>1, FS_EmptySet
  <2> QED BY <1>1, <1>8, <2>2 DEF CountRight
<1>10. LocalOrderly' /\ EveryoneIn'
  BY <1>1, <1>4, <1>6 DEF LocalOrderly, EveryoneIn
<1>11. Undisturbed'
  BY <1>7, <1>9, <1>10 DEF Undisturbed, Round
<1>12. \A b \in db.active : Inside(b) /\ ~Inside(b)'
  BY <1>1, <1>6, <1>7 DEF Stands
<1>13. Abstract!Next
  BY <1>1, <1>4, <1>6, <1>8, <1>12, AbstractEndsRound
<1> QED BY <1>11, <1>13 DEF Follows

LEMMA ReleaseThreadFollows ==
  ASSUME IInv, Undisturbed, ~SomeoneLeft, ~SomeoneLeft', ReleaseThread
  PROVE  Follows
<1>1. CASE SignalRelease
  <2>1. /\ UNCHANGED <<local, client, up, down, db, total, activation>>
        /\ release = "signal" /\ release' = "lock" /\ signal'.local = TRUE
    BY <1>1 DEF SignalRelease, IInv, Types
  <2>2. (LocalIn' <=> LocalIn) /\ LocalOrderly'
    BY <2>1 DEF LocalIn, LocalInside, LocalOrderly, Undisturbed, Round
  <2>3. \A b \in Client : Admitted(b) => Admitted(b)'
    BY <2>1 DEF Admitted, Answered
  <2> QED BY <2>1, <2>2, <2>3, SilentFollows
<1> QED BY <1>1, CheckRoundFollows, SendReleaseFollows DEF ReleaseThread

-----------------------------------------------------------------------------
(* The thread that activates sockets.                                      *)

(* The offer is no release, and nobody who asked is gone.                  *)
LEMMA OfferActivationFollows ==
  ASSUME IInv, Undisturbed, ~SomeoneLeft, ~SomeoneLeft', OfferActivation
  PROVE  Follows
<1> DEFINE c == Head(activation.todo)
<1>1. /\ c \in Client /\ activation.pc = "offer"
      /\ UNCHANGED <<local, client, up, total>>
      /\ down \in [Client -> Seq(Downward)] /\ "handshake" \in Downward
  BY HeadIsClient
  DEF OfferActivation, IInv, Types, HoldsWaiting, Downward
<1>2. Gone = {}
  BY NobodyGone
<1>3. /\ UNCHANGED <<db, release, signal>>
      /\ \/ down' = down
         \/ down' = [down EXCEPT ![c] = Append(@, "handshake")]
  BY <1>2 DEF OfferActivation
<1>4. activation'.pc = "await"
  BY DEF OfferActivation, IInv, Types, Activation
<1> HIDE DEF c
<1>5. ASSUME NEW b \in Client
      PROVE  /\ Has(down'[b], "release") <=> Has(down[b], "release")
             /\ Once(down[b], "release") => Once(down'[b], "release")
  <2>1. down'[b] = down[b] \/ down'[b] = Append(down[b], "handshake")
    BY <1>1, <1>3
  <2>2. /\ Has(Append(down[b], "handshake"), "release") <=>
             Has(down[b], "release")
        /\ Once(down[b], "release") =>
             Once(Append(down[b], "handshake"), "release")
    <3>1. down[b] \in Seq(Downward) /\ "handshake" # "release"
      BY <1>1
    <3> QED BY <1>1, <3>1, AppendHas
  <2> QED BY <2>1, <2>2
<1>6. ASSUME NEW b \in Client
      PROVE  /\ Orderly(b)'
             /\ Stands(b)' <=> Stands(b)
             /\ Inside(b)' <=> Inside(b)
  <2>1. Orderly(b)
    BY DEF Undisturbed
  <2>2. (Released(b)' <=> Released(b)) /\ (Sent(b)' <=> Sent(b))
    BY <1>1, <1>5 DEF Released, Sent
  <2>3. Inside(b)' <=> Inside(b)
    <3>1. Inside(b) <=> client[b].pc = "waiting" /\ ~Released(b)
      BY InsideReleased
    <3>2. Inside(b)' <=> client'[b].pc = "waiting" /\ ~Released(b)'
      BY DEF Inside, Released, Has
    <3> QED BY <1>1, <2>2, <3>1, <3>2
  <2>4. Admitted(b) => Admitted(b)'
    BY <1>1, <1>3 DEF Admitted, Answered
  <2>5. Stands(b)' <=> Stands(b)
    BY <2>2, <2>3 DEF Stands
  <2> QED BY <1>1, <1>3, <1>5, <2>1, <2>2, <2>3, <2>4, <2>5 DEF Orderly
<1>7. (LocalIn' <=> LocalIn) /\ LocalOrderly'
  BY <1>1, <1>3, <1>4
  DEF LocalIn, LocalInside, LocalOrderly, Undisturbed, Round
<1> QED BY <1>1, <1>3, <1>6, <1>7, KeptFollows

(* Whoever answered is made active, and may stand in the barrier already.  *)
LEMMA MoveSocketFollows ==
  ASSUME IInv, Undisturbed, ~SomeoneLeft, ~SomeoneLeft', MoveSocket
  PROVE  Follows
<1> DEFINE c == Head(activation.todo)
           p == Then(Tail(activation.todo))
<1>1. /\ c \in Client /\ activation.pc = "move" /\ db \in Database
      /\ db.active \subseteq Client
      /\ activation' = [activation EXCEPT !.todo = Tail(@), !.pc = p]
      /\ db' = Activated(db, c)
      /\ UNCHANGED <<local, client, up, down, total, release, signal>>
      /\ release # "send"
  BY HeadIsClient
  DEF MoveSocket, IInv, Types, Database, Safe, Exclusion, HoldsWaiting
<1>2. p \in {"find", "sync", "top"} /\ (p = "sync" => local)
  BY DEF Then
<1> HIDE DEF p
<1>3. activation'.pc = p
  BY <1>1 DEF IInv, Types, Activation
<1>4. /\ db'.active = IF c \in db.passive THEN db.active \cup {c} ELSE db.active
      /\ db'.passive = db.passive \ {c}
  BY <1>1, ActivatedParts
<1>5. ASSUME NEW b \in Client
      PROVE  /\ Orderly(b)'
             /\ Stands(b)' <=> Stands(b)
             /\ Inside(b)' <=> Inside(b)
  <2>1. Orderly(b)
    BY DEF Undisturbed
  <2>2. /\ Inside(b)' <=> Inside(b)
        /\ Sent(b)' <=> Sent(b)
        /\ Released(b)' <=> Released(b)
        /\ Answered(b)' <=> Answered(b)
    BY <1>1 DEF Inside, Sent, Released, Answered
  <2>3. Stands(b)' <=> Stands(b)
    BY <2>2 DEF Stands
  <2>4. /\ b \in db.passive \cup db.active => b \in db'.passive \cup db'.active
        /\ b \in db.active => b \in db'.active
    BY <1>4
  <2>5. client[b].pc # "new" /\ Admitted(b) => Admitted(b)'
    <3>1. CASE Answered(b) \/ b \in db.active
      BY <2>2, <2>4, <3>1 DEF Admitted
    <3>2. CASE client[b].pc # "new" /\ b = c
      BY <1>4, <2>1, <3>2 DEF Orderly, Admitted
    <3> QED BY <3>1, <3>2 DEF Admitted
  <2>6. /\ client[b].pc \in {"answered", "running", "syncing", "waiting"} =>
             Admitted(b)'
    BY <2>1, <2>5 DEF Orderly
  <2> QED BY <1>1, <2>1, <2>2, <2>3, <2>4, <2>6 DEF Orderly
<1>6. (LocalIn' <=> LocalIn) /\ LocalOrderly'
  BY <1>1, <1>2, <1>3
  DEF LocalIn, LocalInside, LocalOrderly, Undisturbed, Round
<1>7. CASE c \in db.passive /\ c \notin db.active
  <2>1. Counted' = Counted
    BY <1>5 DEF Counted
  <2>2. CountRight'
    BY <1>1, <1>6, <2>1 DEF CountRight, Undisturbed, Round
  <2>3. Undisturbed'
    BY <1>1, <1>5, <1>6, <2>2 DEF Undisturbed, Round, EveryoneIn
  <2>4. c \in Client \ db.active /\ db'.active = db.active \cup {c}
    BY <1>1, <1>4, <1>7
  <2>5. Abstract!Next
    BY <1>1, <1>5, <1>6, <2>4, AbstractJoins
  <2> QED BY <2>3, <2>5 DEF Follows
<1>8. CASE db'.active = db.active
  BY <1>1, <1>5, <1>6, <1>8, KeptFollows
<1> QED BY <1>4, <1>7, <1>8

(* The local loop is counted at once.                                      *)
LEMMA EnterLocalFollows ==
  ASSUME IInv, Undisturbed, ~SomeoneLeft, ~SomeoneLeft', EnterLocal
  PROVE  Follows
<1>1. /\ UNCHANGED <<local, client, up, down, db, signal>>
      /\ activation.pc = "sync" /\ activation'.pc = "waiting"
      /\ total' = total + 1 /\ release' = Signalled(release)
      /\ release # "send" /\ total \in Nat /\ db.active \subseteq Client
  BY DEF EnterLocal, WaitingFree, IInv, Types, Activation, Database
<1>2. release' # "send" /\ (release' = "signal" <=> release = "signal")
  BY <1>1 DEF Signalled
<1>3. local /\ ~signal.local /\ release # "signal" /\ LocalOrderly
  BY <1>1 DEF Undisturbed, Round, LocalOrderly
<1>4. ~LocalIn /\ LocalIn' /\ LocalOrderly'
  BY <1>1, <1>2, <1>3 DEF LocalIn, LocalInside, LocalOrderly
<1>5. ASSUME NEW b \in Client
      PROVE  /\ Orderly(b)'
             /\ Stands(b)' <=> Stands(b)
             /\ Inside(b)' <=> Inside(b)
  <2>1. Orderly(b)
    BY DEF Undisturbed
  <2>2. /\ Inside(b)' <=> Inside(b)
        /\ Sent(b)' <=> Sent(b)
        /\ Released(b)' <=> Released(b)
        /\ Admitted(b) => Admitted(b)'
    BY <1>1 DEF Inside, Sent, Released, Admitted, Answered
  <2>3. Stands(b)' <=> Stands(b)
    BY <2>2 DEF Stands
  <2> QED BY <1>1, <2>1, <2>2, <2>3 DEF Orderly
<1>6. CountRight'
  <2>1. Counted' = Counted
    BY <1>5 DEF Counted
  <2>2. total = Cardinality(Counted)
    BY <1>1, <1>4, CountedFinite DEF Undisturbed, Round, CountRight
  <2>3. total' = Cardinality(Counted') + (IF LocalIn' THEN 1 ELSE 0)
    BY <1>1, <1>4, <2>1, <2>2
  <2> QED BY <1>2, <2>3 DEF CountRight
<1>7. Undisturbed'
  BY <1>2, <1>4, <1>5, <1>6 DEF Undisturbed, Round, EveryoneIn
<1>8. Abstract!Next
  BY <1>1, <1>3, <1>4, <1>5, AbstractLocalEnters
<1> QED BY <1>7, <1>8 DEF Follows

LEMMA ActivationThreadFollows ==
  ASSUME IInv, Undisturbed, ~SomeoneLeft, ~SomeoneLeft', ActivationThread
  PROVE  Follows
<1>0. activation \in Activation /\ LocalOrderly
  BY DEF IInv, Types, Undisturbed, Round
<1>1. CASE TakeQueue \/ LockRounds \/ FindSocket
  <2>1. /\ UNCHANGED <<local, client, up, down, db, total, release>>
        /\ signal'.local = signal.local
    BY <1>1 DEF TakeQueue, LockRounds, FindSocket, IInv, Types
  <2>2. /\ activation.pc \in {"top", "lock", "find"}
        /\ activation'.pc \in {"lock", "sync", "find", "offer"}
        /\ activation'.pc = "sync" => local
    <3>1. CASE TakeQueue
      BY <1>0, <3>1 DEF TakeQueue, Activation
    <3>2. CASE LockRounds
      BY <1>0, <3>2 DEF LockRounds, Activation
    <3>3. CASE FindSocket
      BY <1>0, <3>3 DEF FindSocket, Activation
    <3> QED BY <1>1, <3>1, <3>2, <3>3
  <2>3. (LocalIn' <=> LocalIn) /\ LocalOrderly'
    BY <1>0, <2>1, <2>2 DEF LocalIn, LocalInside, LocalOrderly
  <2>4. \A b \in Client : Admitted(b) => Admitted(b)'
    BY <2>1, <2>2 DEF Admitted, Answered
  <2> QED BY <2>1, <2>3, <2>4, SilentFollows
<1>2. CASE AwaitResponse
  <2>1. /\ UNCHANGED <<local, client, up, down, db, total, release, signal>>
        /\ activation.pc = "await" /\ activation'.pc = "move"
        /\ activation'.todo = activation.todo
        /\ activation'.response = activation.response
    BY <1>0, <1>2 DEF AwaitResponse, Activation
  <2>2. (LocalIn' <=> LocalIn) /\ LocalOrderly'
    BY <1>0, <2>1 DEF LocalIn, LocalInside, LocalOrderly
  <2>3. \A b \in Client : Admitted(b) => Admitted(b)'
    BY <2>1 DEF Admitted, Answered
  <2> QED BY <2>1, <2>2, <2>3, SilentFollows
<1>3. CASE LeaveLocal
  <2>1. /\ UNCHANGED <<local, client, up, down, db, total, release>>
        /\ activation.pc = "waiting" /\ activation'.pc = "top"
        /\ signal.local /\ ~signal'.local
    BY <1>0, <1>3 DEF LeaveLocal, Activation, IInv, Types
  <2>2. (LocalIn' <=> LocalIn) /\ LocalOrderly'
    BY <1>0, <2>1 DEF LocalIn, LocalInside, LocalOrderly
  <2>3. \A b \in Client : Admitted(b) => Admitted(b)'
    BY <2>1 DEF Admitted, Answered
  <2> QED BY <2>1, <2>2, <2>3, SilentFollows
<1> QED BY <1>1, <1>2, <1>3, OfferActivationFollows, MoveSocketFollows,
     EnterLocalFollows DEF ActivationThread

-----------------------------------------------------------------------------
(* The theorems.                                                           *)

LEMMA NextFollows ==
  ASSUME IInv, IInv', Undisturbed, [Next]_vars
  PROVE  Follows
<1>1. CASE SomeoneLeft'
  BY <1>1, AbstractDisturbed DEF Follows, Undisturbed, IInv
<1>2. CASE ~SomeoneLeft'
  <2>0. ~SomeoneLeft
    BY <1>2, LeftForGood DEF IInv
  <2>1. CASE UNCHANGED vars
    <3>1. (LocalIn' <=> LocalIn) /\ LocalOrderly'
      BY <2>0, <2>1
      DEF vars, LocalIn, LocalInside, LocalOrderly, Undisturbed, Round
    <3>2. \A b \in Client : Admitted(b) => Admitted(b)'
      BY <2>1 DEF vars, Admitted, Answered
    <3> QED BY <1>2, <2>0, <2>1, <3>1, <3>2, SilentFollows DEF vars
  <2>2. ASSUME NEW c \in Client,
               \/ Accept(c) \/ ClientLoop(c) \/ DataTask(c) \/ ReadThread(c)
               \/ StopThread(c) \/ Die(c)
        PROVE  Follows
    BY <1>2, <2>0, <2>2, AcceptFollows, ClientActionFollows, ReadThreadFollows
  <2>3. CASE ReleaseThread \/ ActivationThread
    BY <1>2, <2>0, <2>3, ReleaseThreadFollows, ActivationThreadFollows
  <2> QED BY <2>1, <2>2, <2>3 DEF Next
<1> QED BY <1>1, <1>2

(* Until somebody leaves, _totalWaiting counts exactly the active clients  *)
(* and the local loop that stand in the barrier, a client has one record   *)
(* or one release under way at most, and whoever enters is active by the   *)
(* time it is counted (arBarrierServer.cpp:39-46, 68-91, 286-308).         *)
THEOREM RoundsAreCounted == Spec => [](IInv /\ Undisturbed)
<1>1. IInv /\ IInv' /\ Undisturbed /\ [Next]_vars => Undisturbed'
  BY NextFollows DEF Follows
<1> QED BY <1>1, InitUndisturbed, Invariance, PTL DEF Spec

(* The barrier of any number of clients, with or without a local loop,     *)
(* implements BarrierService: until somebody leaves, a round ends only     *)
(* when every active client and the local loop stand in it, and lets all   *)
(* of them out (arBarrierServer.cpp:68-109, arBarrierClient.cpp:197-203).  *)
THEOREM Refinement == Spec => ImplementsBarrierService
<1>1. Init => Abstract!Init
  <2> SUFFICES ASSUME Init PROVE Abstract!Init
    OBVIOUS
  <2>1. /\ db.active = {} /\ activation.pc = "top"
        /\ \A c \in Client : client[c].pc = "new" /\ ~client[c].exiting
    BY DEF Init, Fresh
  <2> QED BY <2>1 DEF Abstract!Init, SomeoneLeft, LocalInside
<1>2. IInv /\ IInv' /\ Undisturbed /\ [Next]_vars =>
        [Abstract!Next]_Abstract!vars
  BY NextFollows DEF Follows
<1> QED BY <1>1, <1>2, RoundsAreCounted, PTL
     DEF Spec, ImplementsBarrierService, Abstract!Spec
=============================================================================
