------------------------ MODULE TaggedQueues_proofs ------------------------
(***************************************************************************)
(* Theorems about TaggedQueues, for any number of threads, matches,        *)
(* records and messages: its type invariant, and that no wake-up is lost.  *)
(***************************************************************************)
EXTENDS TaggedQueues, TLAPS

-----------------------------------------------------------------------------
(* The inductive invariant.                                                *)

(* Everything but the callers has its type.                                *)
Typed ==
  /\ client \in [connected : BOOLEAN, stopped : BOOLEAN,
                 dataThread : {"reading", "leaving", "left"},
                 match : 0..MaxMatch]
  /\ answers \in [to : [Match -> 0..MaxAnswer], messages : 0..MaxMessage]
  /\ parser \in [queue : [Match -> 0..MaxAnswer],
                 sync : [Match -> Caller \cup {NoCaller}],
                 activated : BOOLEAN, clearer : Clearer]
  /\ inbox \in [messages : 0..MaxMessage, exitFlag : BOOLEAN]
  /\ \A m \in Match : parser.queue[m] <= answers.to[m]
  /\ inbox.messages <= answers.messages
  /\ task \in {"idle", "waiting"}

(* What a call holds at its steps.                                         *)
Ordered(t) ==
  /\ caller[t].used \subseteq caller[t].tags
  /\ caller[t].tags \subseteq caller[t].mine
  /\ caller[t].mine \subseteq 1..client.match
  /\ caller[t].pc = "idle" => caller[t] = NoCall(caller[t].mine)
  /\ caller[t].pc # "idle" => caller[t].tags # {}
  /\ caller[t].pc \in {"lookup", "waiting"} => caller[t].told = 0

(* _messageSync says who waits: a caller is in it from its registration    *)
(* until it strikes itself off.                                            *)
Registered(t) ==
  \A m \in Match :
    parser.sync[m] = t <=> /\ caller[t].pc \in {"waiting", "cleanup"}
                           /\ m \in caller[t].used

(* Who sleeps is registered for all it asked for, and was told of what     *)
(* came since.                                                             *)
Asleep(t) ==
  caller[t].pc = "waiting" =>
    /\ caller[t].used = caller[t].tags
    /\ (caller[t].tag = 0 /\ ~caller[t].exitFlag)
       => /\ parser.activated
          /\ \A m \in caller[t].tags : parser.queue[m] = 0
    /\ caller[t].tag # 0
       => /\ caller[t].tag \in caller[t].tags
          /\ parser.activated => parser.queue[caller[t].tag] > 0

(* What a caller was told of stays where it is until it fetches it, or the *)
(* queues are closed.                                                      *)
Announced(t) ==
  /\ (caller[t].pc = "cleanup" /\ caller[t].told # 0) \/ caller[t].pc = "fetch"
     => /\ caller[t].told \in caller[t].tags
        /\ parser.activated => parser.queue[caller[t].told] > 0

CallOK(t) == Ordered(t) /\ Registered(t) /\ Asleep(t) /\ Announced(t)

(* A match belongs to one thread.                                          *)
MatchesOwned ==
  \A t, u \in Caller : t # u => caller[t].mine \cap caller[u].mine = {}

IInv ==
  /\ Typed
  /\ caller \in [Caller -> Call]
  /\ MatchesOwned
  /\ \A t \in Caller : CallOK(t)

-----------------------------------------------------------------------------
(* Calls and their parts.                                                  *)

LEMMA CallParts ==
  ASSUME NEW c \in Call
  PROVE  /\ c.pc \in {"idle", "lookup", "waiting", "cleanup", "fetch"}
         /\ c.mine \subseteq Match /\ c.tags \subseteq Match
         /\ c.used \subseteq Match
         /\ c.timed \in BOOLEAN /\ c.asks \in BOOLEAN /\ c.exitFlag \in BOOLEAN
         /\ c.tag \in 0..MaxMatch /\ c.told \in 0..MaxMatch
BY DEF Call

LEMMA NoCallParts ==
  ASSUME NEW mine \in SUBSET Match
  PROVE  /\ NoCall(mine) \in Call
         /\ NoCall(mine).pc = "idle" /\ NoCall(mine).mine = mine
         /\ NoCall(mine).tags = {} /\ NoCall(mine).used = {}
         /\ NoCall(mine).told = 0 /\ NoCall(mine).tag = 0
BY BoundsAssumption DEF NoCall, Call

LEMMA RegisterParts ==
  ASSUME NEW t \in Caller, caller[t] \in Call, NEW new \in SUBSET Match
  PROVE  /\ Register(t, new) \in Call
         /\ Register(t, new).pc = "waiting" /\ Register(t, new).used = new
         /\ Register(t, new).mine = caller[t].mine
         /\ Register(t, new).tags = caller[t].tags
         /\ Register(t, new).told = caller[t].told
         /\ Register(t, new).tag = 0 /\ ~Register(t, new).exitFlag
<1> DEFINE c == caller[t]
           r == [c EXCEPT !.pc = "waiting", !.used = new,
                          !.tag = 0, !.exitFlag = FALSE]
<1>1. c \in Call
  OBVIOUS
<1> HIDE DEF c
<1>2. r \in Call
  <2>1. 0 \in 0..MaxMatch
    BY BoundsAssumption
  <2> QED
    BY <1>1, <2>1 DEF Call
<1>3. /\ r.pc = "waiting" /\ r.used = new /\ r.tag = 0 /\ ~r.exitFlag
      /\ r.mine = c.mine /\ r.tags = c.tags /\ r.told = c.told
  BY <1>1 DEF Call
<1>4. Register(t, new) = r
  BY DEF Register, c
<1> HIDE DEF r
<1> QED
  BY <1>2, <1>3, <1>4 DEF c

(* A step of one caller changes its call only.                             *)
LEMMA OneCaller ==
  ASSUME caller \in [Caller -> Call], NEW t \in Caller, NEW c \in Call,
         caller' = [caller EXCEPT ![t] = c]
  PROVE  /\ caller' \in [Caller -> Call]
         /\ caller'[t] = c
         /\ \A u \in Caller : u # t => caller'[u] = caller[u]
OBVIOUS

(* A thread that gets no new match keeps matches apart.                    *)
LEMMA OwnersStay ==
  ASSUME MatchesOwned,
         \A u \in Caller : caller'[u].mine = caller[u].mine
  PROVE  MatchesOwned'
BY DEF MatchesOwned

(* An idle caller, however many matches it has, is in order unless         *)
(* somebody has registered it.                                             *)
LEMMA IdleOK ==
  ASSUME NEW t \in Caller, NEW mine \in SUBSET Match,
         caller'[t] = NoCall(mine), mine \subseteq 1..client'.match,
         \A m \in Match : parser'.sync[m] # t
  PROVE  CallOK(t)'
<1>1. /\ caller'[t].pc = "idle" /\ caller'[t].mine = mine
      /\ caller'[t].tags = {} /\ caller'[t].used = {}
      /\ caller'[t].told = 0
  BY NoCallParts
<1>2. Ordered(t)'
  BY <1>1 DEF Ordered
<1>3. Registered(t)' /\ Asleep(t)' /\ Announced(t)'
  BY <1>1 DEF Registered, Asleep, Announced
<1> QED
  BY <1>2, <1>3 DEF CallOK

(* A call is as good as before if nothing happened to its own matches.     *)
LEMMA Untouched ==
  ASSUME IInv, NEW u \in Caller, caller'[u] = caller[u],
         caller[u].mine \subseteq 1..client'.match,
         parser'.activated = parser.activated,
         \A n \in caller[u].mine : parser'.queue[n] = parser.queue[n],
         \A n \in Match : parser'.sync[n] = u <=> parser.sync[n] = u
  PROVE  CallOK(u)'
<1>1. CallOK(u)
  BY DEF IInv
<1>2. Ordered(u)'
  BY <1>1 DEF CallOK, Ordered
<1>3. Registered(u)'
  BY <1>1 DEF CallOK, Registered
<1>4. Asleep(u)' /\ Announced(u)'
  BY <1>1 DEF CallOK, Ordered, Asleep, Announced
<1> QED
  BY <1>2, <1>3, <1>4 DEF CallOK

(* The calls do not notice what happens to the inbox and the connection.   *)
LEMMA Elsewhere ==
  ASSUME IInv, caller' = caller, client'.match = client.match,
         parser'.queue = parser.queue, parser'.sync = parser.sync,
         parser'.activated = parser.activated
  PROVE  /\ caller' \in [Caller -> Call] /\ MatchesOwned'
         /\ \A t \in Caller : CallOK(t)'
BY DEF IInv, MatchesOwned, CallOK, Ordered, Registered, Asleep, Announced

-----------------------------------------------------------------------------
(* Initial states.                                                         *)

LEMMA InitInv == Init => IInv
<1> SUFFICES ASSUME Init PROVE IInv
  OBVIOUS
<1> USE BoundsAssumption, NoCallerAssumption
<1>1. Typed
  <2>1. /\ client \in [connected : BOOLEAN, stopped : BOOLEAN,
                       dataThread : {"reading", "leaving", "left"},
                       match : 0..MaxMatch]
        /\ task \in {"idle", "waiting"}
    BY DEF Init
  <2>2. /\ answers \in [to : [Match -> 0..MaxAnswer], messages : 0..MaxMessage]
        /\ inbox \in [messages : 0..MaxMessage, exitFlag : BOOLEAN]
        /\ inbox.messages <= answers.messages
    BY DEF Init
  <2>3. /\ parser \in [queue : [Match -> 0..MaxAnswer],
                       sync : [Match -> Caller \cup {NoCaller}],
                       activated : BOOLEAN, clearer : Clearer]
        /\ \A m \in Match : parser.queue[m] <= answers.to[m]
    BY DEF Init, Clearer
  <2> QED
    BY <2>1, <2>2, <2>3 DEF Typed
<1>2. caller \in [Caller -> Call]
  BY NoCallParts DEF Init
<1>3. MatchesOwned
  BY NoCallParts DEF Init, MatchesOwned
<1>4. ASSUME NEW t \in Caller PROVE CallOK(t)
  BY NoCallParts DEF Init, CallOK, Ordered, Registered, Asleep, Announced
<1> QED
  BY <1>1, <1>2, <1>3, <1>4 DEF IInv

-----------------------------------------------------------------------------
(* The calls of arSZGClient.                                               *)

(* A fresh match, given to t, is nobody else's.                            *)
LEMMA FreshMatch ==
  ASSUME IInv, NEW t \in Caller, client.match < MaxMatch,
         client' = [client EXCEPT !.match = @ + 1],
         caller'[t].mine = caller[t].mine \cup {client.match + 1},
         \A u \in Caller : u # t => caller'[u] = caller[u]
  PROVE  /\ MatchesOwned'
         /\ client.match + 1 \in Match
         /\ client' \in [connected : BOOLEAN, stopped : BOOLEAN,
                         dataThread : {"reading", "leaving", "left"},
                         match : 0..MaxMatch]
         /\ caller'[t].mine \subseteq 1..client'.match
         /\ \A u \in Caller : caller[u].mine \subseteq 1..client'.match
<1> USE BoundsAssumption
<1>1. /\ client.match \in Nat /\ client'.match = client.match + 1
      /\ client' \in [connected : BOOLEAN, stopped : BOOLEAN,
                      dataThread : {"reading", "leaving", "left"},
                      match : 0..MaxMatch]
  BY DEF IInv, Typed
<1>2. \A u \in Caller : caller[u].mine \subseteq 1..client.match
  BY DEF IInv, CallOK, Ordered
<1>3. MatchesOwned'
  BY <1>1, <1>2 DEF IInv, MatchesOwned
<1> QED
  BY <1>1, <1>2, <1>3 DEF Match

LEMMA AskInv ==
  ASSUME IInv, NEW t \in Caller, Ask(t)
  PROVE  IInv'
<1> USE BoundsAssumption
<1> DEFINE m == client.match + 1
           c == [NoCall(caller[t].mine \cup {m}) EXCEPT
                   !.pc = "lookup", !.tags = {m}, !.asks = TRUE]
<1>1. /\ caller[t].pc = "idle" /\ client.match < MaxMatch
      /\ client' = [client EXCEPT !.match = m]
      /\ caller' = [caller EXCEPT ![t] = c]
      /\ UNCHANGED <<answers, parser, inbox, task>>
  BY DEF Ask
<1>2. m \in Match /\ caller[t].mine \subseteq Match
  BY <1>1, CallParts DEF IInv, Typed, Match
<1>3. /\ c \in Call /\ c.pc = "lookup" /\ c.mine = caller[t].mine \cup {m}
      /\ c.tags = {m} /\ c.used = {} /\ c.told = 0
  BY <1>2, NoCallParts DEF NoCall, Call
<1>4. /\ caller' \in [Caller -> Call] /\ caller'[t] = c
      /\ \A u \in Caller : u # t => caller'[u] = caller[u]
  BY <1>1, <1>3, OneCaller DEF IInv
<1> HIDE DEF c
<1>5. /\ MatchesOwned'
      /\ client' \in [connected : BOOLEAN, stopped : BOOLEAN,
                      dataThread : {"reading", "leaving", "left"},
                      match : 0..MaxMatch]
      /\ caller'[t].mine \subseteq 1..client'.match
      /\ \A u \in Caller : caller[u].mine \subseteq 1..client'.match
  BY <1>1, <1>3, <1>4, FreshMatch
<1>6. Typed'
  BY <1>1, <1>5 DEF IInv, Typed
<1>7. CallOK(t)'
  <2>1. \A n \in Match : parser.sync[n] # t
    BY <1>1, NoCallParts DEF IInv, CallOK, Registered
  <2> QED
    BY <1>1, <1>3, <1>4, <1>5, <2>1
       DEF CallOK, Ordered, Registered, Asleep, Announced
<1>8. ASSUME NEW u \in Caller, u # t PROVE CallOK(u)'
  BY <1>1, <1>4, <1>5, <1>8, Untouched
<1> QED
  BY <1>4, <1>5, <1>6, <1>7, <1>8 DEF IInv

LEMMA RequestInv ==
  ASSUME IInv, NEW t \in Caller, Request(t)
  PROVE  IInv'
<1> USE BoundsAssumption
<1> DEFINE m == client.match + 1
           mine == caller[t].mine \cup {m}
<1>1. /\ caller[t].pc = "idle" /\ client.match < MaxMatch
      /\ client' = [client EXCEPT !.match = @ + 1]
      /\ caller' = [caller EXCEPT ![t] = NoCall(mine)]
      /\ UNCHANGED <<answers, parser, inbox, task>>
  BY DEF Request
<1>2. m \in Match /\ caller[t].mine \subseteq Match
  BY <1>1, CallParts DEF IInv, Typed, Match
<1>3. NoCall(mine) \in Call /\ NoCall(mine).mine = mine
  BY <1>2, NoCallParts
<1>4. /\ caller' \in [Caller -> Call] /\ caller'[t] = NoCall(mine)
      /\ \A u \in Caller : u # t => caller'[u] = caller[u]
  BY <1>1, <1>3, OneCaller DEF IInv
<1>5. /\ MatchesOwned'
      /\ client' \in [connected : BOOLEAN, stopped : BOOLEAN,
                      dataThread : {"reading", "leaving", "left"},
                      match : 0..MaxMatch]
      /\ mine \subseteq 1..client'.match
      /\ \A u \in Caller : caller[u].mine \subseteq 1..client'.match
  BY <1>1, <1>3, <1>4, FreshMatch
<1>6. Typed'
  BY <1>1, <1>5 DEF IInv, Typed
<1>7. CallOK(t)'
  <2>1. \A n \in Match : parser'.sync[n] # t
    BY <1>1 DEF IInv, CallOK, Registered
  <2> QED
    BY <1>2, <1>4, <1>5, <2>1, IdleOK
<1>8. ASSUME NEW u \in Caller, u # t PROVE CallOK(u)'
  BY <1>1, <1>4, <1>5, <1>8, Untouched
<1> QED
  BY <1>4, <1>5, <1>6, <1>7, <1>8 DEF IInv

LEMMA AwaitInv ==
  ASSUME IInv, NEW t \in Caller, NEW tags \in (SUBSET caller[t].mine) \ {{}},
         NEW timed \in BOOLEAN, Await(t, tags, timed)
  PROVE  IInv'
<1> DEFINE c == [NoCall(caller[t].mine) EXCEPT
                   !.pc = "lookup", !.tags = tags, !.timed = timed]
<1>1. /\ caller[t].pc = "idle"
      /\ caller' = [caller EXCEPT ![t] = c]
      /\ UNCHANGED <<client, answers, parser, inbox, task>>
  BY DEF Await
<1>2. caller[t] \in Call /\ caller[t].mine \subseteq Match
  BY CallParts DEF IInv
<1>3. /\ c \in Call /\ c.pc = "lookup" /\ c.mine = caller[t].mine
      /\ c.tags = tags /\ c.used = {} /\ c.told = 0
  BY <1>2, NoCallParts DEF NoCall, Call
<1>4. /\ caller' \in [Caller -> Call] /\ caller'[t] = c
      /\ \A u \in Caller : u # t => caller'[u] = caller[u]
  BY <1>1, <1>3, OneCaller DEF IInv
<1> HIDE DEF c
<1>5. MatchesOwned'
  BY <1>3, <1>4, OwnersStay DEF IInv
<1>6. Typed'
  BY <1>1 DEF IInv, Typed
<1>7. CallOK(t)'
  <2>1. \A n \in Match : parser.sync[n] # t
    BY <1>1 DEF IInv, CallOK, Registered
  <2>2. caller[t].mine \subseteq 1..client.match
    BY DEF IInv, CallOK, Ordered
  <2>3. Ordered(t)'
    BY <1>1, <1>3, <1>4, <2>2 DEF Ordered
  <2>4. Registered(t)' /\ Asleep(t)' /\ Announced(t)'
    BY <1>1, <1>3, <1>4, <2>1 DEF Registered, Asleep, Announced
  <2> QED
    BY <2>3, <2>4 DEF CallOK
<1>8. ASSUME NEW u \in Caller, u # t PROVE CallOK(u)'
  <2>1. caller[u].mine \subseteq 1..client'.match
    BY <1>1 DEF IInv, CallOK, Ordered
  <2> QED
    BY <1>1, <1>4, <1>8, <2>1, Untouched
<1> QED
  BY <1>4, <1>5, <1>6, <1>7, <1>8 DEF IInv

-----------------------------------------------------------------------------
(* getNextTaggedMessage.                                                   *)

(* A record is taken from a queue.                                         *)
LEMMA PopParts ==
  ASSUME Typed, NEW m \in Match, parser.queue[m] > 0, Pop(m),
         UNCHANGED <<client, answers, inbox, task>>
  PROVE  /\ Typed'
         /\ parser'.sync = parser.sync /\ parser'.activated = parser.activated
         /\ \A n \in Match : n # m => parser'.queue[n] = parser.queue[n]
<1> USE BoundsAssumption
<1>1. /\ parser' \in [queue : [Match -> 0..MaxAnswer],
                      sync : [Match -> Caller \cup {NoCaller}],
                      activated : BOOLEAN, clearer : Clearer]
      /\ parser'.sync = parser.sync /\ parser'.activated = parser.activated
      /\ \A n \in Match : parser'.queue[n] =
           IF n = m THEN parser.queue[m] - 1 ELSE parser.queue[n]
  BY DEF Typed, Pop, Clearer
<1>2. \A n \in Match : parser'.queue[n] <= answers.to[n]
  BY <1>1 DEF Typed
<1> QED
  BY <1>1, <1>2 DEF Typed

(* A call that is not registered returns; at most a record for one of its  *)
(* matches has gone.                                                       *)
LEMMA ReturnInv ==
  ASSUME IInv, NEW t \in Caller,
         caller' = [caller EXCEPT ![t] = NoCall(@.mine)],
         Typed', client' = client, parser'.activated = parser.activated,
         \A n \in Match : n \notin caller[t].mine =>
                           parser'.queue[n] = parser.queue[n],
         \A n \in Match : parser'.sync[n] # t,
         \A n \in Match : \A u \in Caller \ {t} :
            parser'.sync[n] = u <=> parser.sync[n] = u
  PROVE  IInv'
<1>1. caller[t] \in Call /\ caller[t].mine \subseteq Match
  BY CallParts DEF IInv
<1>2. NoCall(caller[t].mine) \in Call /\ NoCall(caller[t].mine).mine = caller[t].mine
  BY <1>1, NoCallParts
<1>3. /\ caller' \in [Caller -> Call] /\ caller'[t] = NoCall(caller[t].mine)
      /\ \A u \in Caller : u # t => caller'[u] = caller[u]
  BY <1>2, OneCaller DEF IInv
<1>4. MatchesOwned'
  BY <1>2, <1>3, OwnersStay DEF IInv
<1>5. \A u \in Caller : caller[u].mine \subseteq 1..client'.match
  BY DEF IInv, CallOK, Ordered
<1>6. CallOK(t)'
  BY <1>1, <1>3, <1>5, IdleOK
<1>7. ASSUME NEW u \in Caller, u # t PROVE CallOK(u)'
  <2>1. caller[u].mine \subseteq Match /\ caller[u].mine \cap caller[t].mine = {}
    BY <1>7, CallParts DEF IInv, MatchesOwned
  <2>2. \A n \in caller[u].mine : parser'.queue[n] = parser.queue[n]
    BY <2>1
  <2> QED
    BY <1>3, <1>5, <1>7, <2>2, Untouched
<1> QED
  BY <1>3, <1>4, <1>6, <1>7 DEF IInv

LEMMA LookupInv ==
  ASSUME IInv, NEW t \in Caller, Lookup(t)
  PROVE  IInv'
<1>1. /\ caller[t].pc = "lookup"
      /\ UNCHANGED <<client, answers, inbox, task>>
  BY DEF Lookup
<1>2. \A n \in Match : parser.sync[n] # t
  BY <1>1 DEF IInv, CallOK, Registered
<1>3. /\ caller[t] \in Call /\ caller[t].mine \subseteq Match
      /\ caller[t].tags \subseteq caller[t].mine
  BY CallParts DEF IInv, CallOK, Ordered
<1>4. CASE /\ caller' = [caller EXCEPT ![t] = NoCall(@.mine)]
           /\ UNCHANGED parser
  <2>1. Typed'
    BY <1>1, <1>4 DEF IInv, Typed
  <2> QED
    BY <1>1, <1>2, <1>4, <2>1, ReturnInv
<1>5. CASE \E m \in caller[t].tags :
             /\ parser.queue[m] > 0
             /\ Pop(m)
             /\ caller' = [caller EXCEPT ![t] = NoCall(@.mine)]
  <2>1. PICK m \in caller[t].tags :
          /\ parser.queue[m] > 0
          /\ Pop(m)
          /\ caller' = [caller EXCEPT ![t] = NoCall(@.mine)]
    BY <1>5
  <2>2. m \in Match /\ m \in caller[t].mine
    BY <1>3
  <2>3. /\ Typed'
        /\ parser'.sync = parser.sync /\ parser'.activated = parser.activated
        /\ \A n \in Match : n # m => parser'.queue[n] = parser.queue[n]
    BY <1>1, <2>1, <2>2, PopParts DEF IInv
  <2> QED
    BY <1>1, <1>2, <2>1, <2>2, <2>3, ReturnInv
<1>6. ASSUME NEW new, new = {m \in caller[t].tags : parser.sync[m] = NoCaller},
             parser.activated, \A m \in caller[t].tags : parser.queue[m] = 0,
             caller' = [caller EXCEPT ![t] = Register(t, new)],
             parser' = [parser EXCEPT !.sync =
                [m \in Match |-> IF m \in new THEN t ELSE @[m]]]
      PROVE  IInv'
  <2>1. new = caller[t].tags
    <3>1. ASSUME NEW m \in caller[t].tags, parser.sync[m] # NoCaller
          PROVE  FALSE
      <4>1. m \in Match /\ parser.sync[m] \in Caller
        BY <1>3, <3>1 DEF IInv, Typed
      <4> DEFINE u == parser.sync[m]
      <4>2. m \in caller[u].mine
        BY <4>1 DEF IInv, CallOK, Ordered, Registered
      <4>3. u # t
        BY <1>2, <4>1
      <4> QED
        BY <1>3, <4>1, <4>2, <4>3 DEF IInv, MatchesOwned
    <3> QED
      BY <1>6, <3>1
  <2> DEFINE c == Register(t, new)
  <2>2. /\ c \in Call /\ c.pc = "waiting" /\ c.used = new
        /\ c.mine = caller[t].mine /\ c.tags = caller[t].tags
        /\ c.told = caller[t].told /\ c.tag = 0 /\ ~c.exitFlag
    BY <1>3, <2>1, RegisterParts
  <2>3. /\ caller' \in [Caller -> Call] /\ caller'[t] = c
        /\ \A u \in Caller : u # t => caller'[u] = caller[u]
    BY <1>6, <2>2, OneCaller DEF IInv
  <2> HIDE DEF c
  <2>4. /\ parser' \in [queue : [Match -> 0..MaxAnswer],
                        sync : [Match -> Caller \cup {NoCaller}],
                        activated : BOOLEAN, clearer : Clearer]
        /\ parser'.queue = parser.queue /\ parser'.activated = parser.activated
        /\ \A n \in Match : parser'.sync[n] =
             IF n \in new THEN t ELSE parser.sync[n]
    BY <1>6 DEF IInv, Typed, Clearer
  <2>5. Typed'
    BY <1>1, <2>4 DEF IInv, Typed
  <2>6. MatchesOwned'
    BY <2>2, <2>3, OwnersStay DEF IInv
  <2>7. \A u \in Caller : caller[u].mine \subseteq 1..client'.match
    BY <1>1 DEF IInv, CallOK, Ordered
  <2>8. CallOK(t)'
    <3>1. Ordered(t)'
      <4>1. caller[t].told = 0 /\ caller[t].tags # {}
        BY <1>1 DEF IInv, CallOK, Ordered
      <4> QED
        BY <1>3, <2>1, <2>2, <2>3, <2>7, <4>1 DEF Ordered
    <3>2. Registered(t)'
      BY <1>2, <2>2, <2>3, <2>4 DEF Registered
    <3>3. Asleep(t)' /\ Announced(t)'
      BY <1>6, <2>1, <2>2, <2>3, <2>4 DEF Asleep, Announced
    <3> QED
      BY <3>1, <3>2, <3>3 DEF CallOK
  <2>9. ASSUME NEW u \in Caller, u # t PROVE CallOK(u)'
    <3>1. \A n \in Match : parser'.sync[n] = u <=> parser.sync[n] = u
      BY <1>6, <2>4, <2>9, NoCallerAssumption
    <3> QED
      BY <2>3, <2>4, <2>7, <2>9, <3>1, Untouched
  <2> QED
    BY <2>3, <2>5, <2>6, <2>8, <2>9 DEF IInv
<1> QED
  BY <1>4, <1>5, <1>6 DEF Lookup

(* The wait ends, with what the caller was told or without.                *)
LEMMA WakeInv ==
  ASSUME IInv, NEW t \in Caller, NEW told \in {0, caller[t].tag},
         caller[t].pc = "waiting",
         caller' = [caller EXCEPT ![t].pc = "cleanup", ![t].told = told],
         UNCHANGED <<client, answers, parser, inbox, task>>
  PROVE  IInv'
<1> DEFINE c == [caller[t] EXCEPT !.pc = "cleanup", !.told = told]
<1>1. caller[t] \in Call /\ told \in 0..MaxMatch
  BY CallParts, BoundsAssumption DEF IInv
<1>2. /\ c \in Call /\ c.pc = "cleanup" /\ c.told = told
      /\ c.mine = caller[t].mine /\ c.tags = caller[t].tags
      /\ c.used = caller[t].used
  BY <1>1 DEF Call
<1>3. /\ caller' \in [Caller -> Call] /\ caller'[t] = c
      /\ \A u \in Caller : u # t => caller'[u] = caller[u]
  <2>1. caller' = [caller EXCEPT ![t] = c]
    BY DEF IInv
  <2> QED
    BY <1>2, <2>1, OneCaller DEF IInv
<1> HIDE DEF c
<1>4. Typed'
  BY DEF IInv, Typed
<1>5. MatchesOwned'
  BY <1>2, <1>3, OwnersStay DEF IInv
<1>6. \A u \in Caller : caller[u].mine \subseteq 1..client'.match
  BY DEF IInv, CallOK, Ordered
<1>7. CallOK(t)'
  <2>1. CallOK(t)
    BY DEF IInv
  <2>2. Ordered(t)' /\ Registered(t)'
    BY <1>2, <1>3, <1>6, <2>1 DEF CallOK, Ordered, Registered
  <2>3. Asleep(t)' /\ Announced(t)'
    BY <1>2, <1>3, <2>1 DEF CallOK, Asleep, Announced
  <2> QED
    BY <2>2, <2>3 DEF CallOK
<1>8. ASSUME NEW u \in Caller, u # t PROVE CallOK(u)'
  BY <1>3, <1>6, <1>8, Untouched
<1> QED
  BY <1>3, <1>4, <1>5, <1>7, <1>8 DEF IInv

LEMMA WakeUpInv ==
  ASSUME IInv, NEW t \in Caller, WakeUp(t)
  PROVE  IInv'
BY WakeInv DEF WakeUp

LEMMA TimeOutInv ==
  ASSUME IInv, NEW t \in Caller, TimeOut(t)
  PROVE  IInv'
<1>1. caller[t].told = 0
  BY DEF IInv, CallOK, Ordered, TimeOut
<1>2. caller' = [caller EXCEPT ![t].pc = "cleanup", ![t].told = 0]
  <2>1. [caller[t] EXCEPT !.pc = "cleanup"]
          = [caller[t] EXCEPT !.pc = "cleanup", !.told = 0]
    BY <1>1 DEF IInv, Call
  <2> QED
    BY <2>1 DEF TimeOut
<1> QED
  BY <1>2, WakeInv DEF TimeOut

(* The caller is struck off.                                               *)
LEMMA StruckOff ==
  ASSUME IInv, NEW t \in Caller, caller[t].pc \in {"waiting", "cleanup"},
         parser' = [parser EXCEPT !.sync =
           [m \in Match |-> IF m \in caller[t].used THEN NoCaller ELSE @[m]]],
         UNCHANGED <<client, answers, inbox, task>>
  PROVE  /\ Typed'
         /\ parser'.queue = parser.queue /\ parser'.activated = parser.activated
         /\ \A n \in Match : parser'.sync[n] # t
         /\ \A n \in Match : \A u \in Caller \ {t} :
              parser'.sync[n] = u <=> parser.sync[n] = u
<1>1. /\ parser' \in [queue : [Match -> 0..MaxAnswer],
                      sync : [Match -> Caller \cup {NoCaller}],
                      activated : BOOLEAN, clearer : Clearer]
      /\ parser'.queue = parser.queue /\ parser'.activated = parser.activated
      /\ \A n \in Match : parser'.sync[n] =
           IF n \in caller[t].used THEN NoCaller ELSE parser.sync[n]
  BY DEF IInv, Typed, Clearer
<1>2. Typed'
  BY <1>1 DEF IInv, Typed
<1>3. \A n \in Match : parser.sync[n] = t <=> n \in caller[t].used
  BY DEF IInv, CallOK, Registered
<1> QED
  BY <1>1, <1>2, <1>3, NoCallerAssumption

LEMMA CleanupInv ==
  ASSUME IInv, NEW t \in Caller, Cleanup(t)
  PROVE  IInv'
<1>1. /\ caller[t].pc = "cleanup"
      /\ UNCHANGED <<client, answers, inbox, task>>
  BY DEF Cleanup
<1>2. /\ Typed'
      /\ parser'.queue = parser.queue /\ parser'.activated = parser.activated
      /\ \A n \in Match : parser'.sync[n] # t
      /\ \A n \in Match : \A u \in Caller \ {t} :
           parser'.sync[n] = u <=> parser.sync[n] = u
  BY StruckOff DEF Cleanup
<1>3. CASE caller[t].told = 0
  <2>1. caller' = [caller EXCEPT ![t] = NoCall(@.mine)]
    BY <1>3 DEF Cleanup
  <2> QED
    BY <1>1, <1>2, <2>1, ReturnInv
<1>4. CASE caller[t].told # 0
  <2> DEFINE c == [caller[t] EXCEPT !.pc = "fetch"]
  <2>1. caller[t] \in Call
    BY DEF IInv
  <2>2. /\ c \in Call /\ c.pc = "fetch" /\ c.told = caller[t].told
        /\ c.mine = caller[t].mine /\ c.tags = caller[t].tags
        /\ c.used = caller[t].used
    BY <2>1 DEF Call
  <2>3. /\ caller' \in [Caller -> Call] /\ caller'[t] = c
        /\ \A u \in Caller : u # t => caller'[u] = caller[u]
    <3>1. caller' = [caller EXCEPT ![t] = c]
      BY <1>4 DEF Cleanup
    <3> QED
      BY <2>2, <3>1, OneCaller DEF IInv
  <2> HIDE DEF c
  <2>4. MatchesOwned'
    BY <2>2, <2>3, OwnersStay DEF IInv
  <2>5. \A u \in Caller : caller[u].mine \subseteq 1..client'.match
    BY <1>1 DEF IInv, CallOK, Ordered
  <2>6. CallOK(t)'
    <3>1. CallOK(t)
      BY DEF IInv
    <3>2. Ordered(t)' /\ Registered(t)'
      BY <1>1, <1>2, <2>2, <2>3, <2>5, <3>1 DEF CallOK, Ordered, Registered
    <3>3. Asleep(t)' /\ Announced(t)'
      BY <1>1, <1>2, <1>4, <2>2, <2>3, <3>1 DEF CallOK, Asleep, Announced
    <3> QED
      BY <3>2, <3>3 DEF CallOK
  <2>7. ASSUME NEW u \in Caller, u # t PROVE CallOK(u)'
    BY <1>2, <2>3, <2>5, <2>7, Untouched
  <2> QED
    BY <1>2, <2>3, <2>4, <2>6, <2>7 DEF IInv
<1> QED
  BY <1>3, <1>4

LEMMA FetchInv ==
  ASSUME IInv, NEW t \in Caller, Fetch(t)
  PROVE  IInv'
<1>1. /\ caller[t].pc = "fetch"
      /\ caller' = [caller EXCEPT ![t] = NoCall(@.mine)]
      /\ UNCHANGED <<client, answers, inbox, task>>
  BY DEF Fetch
<1> DEFINE m == caller[t].told
<1>2. m \in caller[t].mine /\ m \in Match
  BY <1>1, CallParts DEF IInv, CallOK, Ordered, Announced
<1>3. \A n \in Match : parser.sync[n] # t
  BY <1>1 DEF IInv, CallOK, Registered
<1>4. CASE parser.queue[m] > 0 /\ Pop(m)
  <2>1. /\ Typed'
        /\ parser'.sync = parser.sync /\ parser'.activated = parser.activated
        /\ \A n \in Match : n # m => parser'.queue[n] = parser.queue[n]
    BY <1>1, <1>2, <1>4, PopParts DEF IInv
  <2> QED
    BY <1>1, <1>2, <1>3, <2>1, ReturnInv
<1>5. CASE UNCHANGED parser
  <2>1. Typed'
    BY <1>1, <1>5 DEF IInv, Typed
  <2> QED
    BY <1>1, <1>3, <1>5, <2>1, ReturnInv
<1> QED
  BY <1>4, <1>5 DEF Fetch

-----------------------------------------------------------------------------
(* The data thread.                                                        *)

LEMMA ReceiveAnswerInv ==
  ASSUME IInv, NEW m \in Match, ReceiveAnswer(m)
  PROVE  IInv'
<1> USE BoundsAssumption
<1>1. /\ answers.to[m] < MaxAnswer
      /\ answers' = [answers EXCEPT !.to[m] = @ + 1]
      /\ parser' = [parser EXCEPT !.queue[m] = @ + 1]
      /\ caller' = [t \in Caller |->
           IF parser.sync[m] = t THEN [caller[t] EXCEPT !.tag = m] ELSE caller[t]]
      /\ UNCHANGED <<client, inbox, task>>
  BY DEF ReceiveAnswer, PushOntoTaggedQueue
<1>2. /\ answers' \in [to : [Match -> 0..MaxAnswer], messages : 0..MaxMessage]
      /\ answers'.messages = answers.messages
      /\ \A n \in Match : answers'.to[n] =
           IF n = m THEN answers.to[m] + 1 ELSE answers.to[n]
  BY <1>1 DEF IInv, Typed
<1>3. parser.queue[m] + 1 \in 0..MaxAnswer
  BY <1>1 DEF IInv, Typed
<1>4. /\ parser' \in [queue : [Match -> 0..MaxAnswer],
                      sync : [Match -> Caller \cup {NoCaller}],
                      activated : BOOLEAN, clearer : Clearer]
      /\ parser'.sync = parser.sync /\ parser'.activated = parser.activated
      /\ \A n \in Match : parser'.queue[n] =
           IF n = m THEN parser.queue[m] + 1 ELSE parser.queue[n]
  BY <1>1, <1>3 DEF IInv, Typed, Clearer
<1>5. Typed'
  <2>1. \A n \in Match : parser'.queue[n] <= answers'.to[n]
    BY <1>2, <1>4 DEF IInv, Typed
  <2> QED
    BY <1>1, <1>2, <1>4, <2>1 DEF IInv, Typed
<1>6. ASSUME NEW t \in Caller
      PROVE  /\ caller'[t] \in Call
             /\ caller'[t].mine = caller[t].mine /\ caller'[t].tags = caller[t].tags
             /\ caller'[t].used = caller[t].used /\ caller'[t].pc = caller[t].pc
             /\ caller'[t].told = caller[t].told
             /\ caller'[t].exitFlag = caller[t].exitFlag
             /\ caller'[t].tag = IF parser.sync[m] = t THEN m ELSE caller[t].tag
             /\ parser.sync[m] # t => caller'[t] = caller[t]
  <2>1. caller[t] \in Call /\ m \in 0..MaxMatch
    BY DEF IInv, Match
  <2>2. caller'[t] = IF parser.sync[m] = t
                     THEN [caller[t] EXCEPT !.tag = m] ELSE caller[t]
    BY <1>1
  <2> QED
    BY <2>1, <2>2 DEF Call
<1>7. caller' \in [Caller -> Call]
  BY <1>1, <1>6
<1>8. MatchesOwned'
  BY <1>6, OwnersStay DEF IInv
<1>9. ASSUME NEW t \in Caller PROVE CallOK(t)'
  <2>1. CallOK(t) /\ caller[t].tags \subseteq Match
    BY CallParts DEF IInv
  <2>2. \A n \in Match : parser.queue[n] \in Nat
    BY DEF IInv, Typed
  <2>3. parser.sync[m] = t <=> /\ caller[t].pc \in {"waiting", "cleanup"}
                               /\ m \in caller[t].used
    BY <2>1 DEF CallOK, Registered
  <2>4. Ordered(t)'
    BY <1>1, <1>6, <2>1, <2>3 DEF CallOK, Ordered
  <2>5. Registered(t)'
    BY <1>4, <1>6, <2>1 DEF CallOK, Registered
  <2>6. Asleep(t)'
    <3> SUFFICES ASSUME caller[t].pc = "waiting" PROVE Asleep(t)'
      BY <1>6 DEF Asleep
    <3>1. caller[t].used = caller[t].tags
      BY <2>1 DEF CallOK, Asleep
    <3>2. CASE parser.sync[m] = t
      <4>1. m \in caller[t].tags /\ m # 0
        BY <2>3, <3>1, <3>2 DEF Match
      <4>2. parser'.queue[m] > 0
        BY <1>4, <2>2
      <4> QED
        BY <1>6, <3>1, <3>2, <4>1, <4>2 DEF Asleep
    <3>3. CASE parser.sync[m] # t
      <4>1. m \notin caller[t].tags
        BY <2>3, <3>1, <3>3
      <4>2. \A n \in caller[t].tags : parser'.queue[n] = parser.queue[n]
        BY <1>4, <2>1, <4>1
      <4> QED
        BY <1>4, <1>6, <2>1, <3>3, <4>2 DEF CallOK, Asleep
    <3> QED
      BY <3>2, <3>3
  <2>7. Announced(t)'
    BY <1>4, <1>6, <2>1, <2>2 DEF CallOK, Announced
  <2> QED
    BY <2>4, <2>5, <2>6, <2>7 DEF CallOK
<1> QED
  BY <1>5, <1>7, <1>8, <1>9 DEF IInv

LEMMA CloseQueuesInv ==
  ASSUME IInv, NEW who \in {"data", "application"}, CloseQueues(who)
  PROVE  IInv'
<1> USE BoundsAssumption
<1> DEFINE Waits(t) == \E m \in Match : parser.sync[m] = t
<1>1. /\ parser' = [parser EXCEPT !.activated = FALSE, !.clearer = who,
                                 !.queue = [m \in Match |-> 0]]
      /\ caller' = [t \in Caller |->
           IF Waits(t) THEN [caller[t] EXCEPT !.tag = 0, !.exitFlag = TRUE]
           ELSE caller[t]]
      /\ client' = [client EXCEPT !.stopped = @ \/ who = "application"]
      /\ UNCHANGED <<answers, inbox, task>>
  BY DEF CloseQueues, ReleaseCallers
<1>2. /\ parser' \in [queue : [Match -> 0..MaxAnswer],
                      sync : [Match -> Caller \cup {NoCaller}],
                      activated : BOOLEAN, clearer : Clearer]
      /\ parser'.sync = parser.sync /\ ~parser'.activated
      /\ \A n \in Match : parser'.queue[n] = 0
  <2> DEFINE empty == [m \in Match |-> 0]
  <2>1. empty \in [Match -> 0..MaxAnswer] /\ \A n \in Match : empty[n] = 0
    OBVIOUS
  <2>2. parser' = [parser EXCEPT !.activated = FALSE, !.clearer = who,
                                 !.queue = empty]
    BY <1>1
  <2> HIDE DEF empty
  <2> QED
    BY <2>1, <2>2 DEF IInv, Typed, Clearer
<1>3. /\ client' \in [connected : BOOLEAN, stopped : BOOLEAN,
                      dataThread : {"reading", "leaving", "left"},
                      match : 0..MaxMatch]
      /\ client'.match = client.match
  <2> DEFINE stopped == client.stopped \/ who = "application"
  <2>1. stopped \in BOOLEAN
    OBVIOUS
  <2>2. client' = [client EXCEPT !.stopped = stopped]
    BY <1>1
  <2> HIDE DEF stopped
  <2> QED
    BY <2>1, <2>2 DEF IInv, Typed
<1>4. Typed'
  <2>1. UNCHANGED <<answers, inbox, task>>
    BY <1>1
  <2>2. \A n \in Match : parser'.queue[n] <= answers'.to[n]
    BY <1>2, <2>1 DEF IInv, Typed
  <2> QED
    BY <1>2, <1>3, <2>1, <2>2 DEF IInv, Typed
<1>5. ASSUME NEW t \in Caller
      PROVE  /\ caller'[t] \in Call
             /\ caller'[t].mine = caller[t].mine /\ caller'[t].tags = caller[t].tags
             /\ caller'[t].used = caller[t].used /\ caller'[t].pc = caller[t].pc
             /\ caller'[t].told = caller[t].told
             /\ Waits(t) => caller'[t].exitFlag /\ caller'[t].tag = 0
             /\ ~Waits(t) => caller'[t] = caller[t]
  <2>1. caller[t] \in Call /\ 0 \in 0..MaxMatch
    BY DEF IInv
  <2>2. caller'[t] = IF Waits(t) THEN [caller[t] EXCEPT !.tag = 0, !.exitFlag = TRUE]
                     ELSE caller[t]
    BY <1>1
  <2> HIDE DEF Waits
  <2> QED
    BY <2>1, <2>2 DEF Call
<1>6. caller' \in [Caller -> Call]
  BY <1>1, <1>5
<1>7. MatchesOwned'
  BY <1>5, OwnersStay DEF IInv
<1>8. ASSUME NEW t \in Caller PROVE CallOK(t)'
  <2>1. CallOK(t) /\ caller[t].tags \subseteq Match
    BY CallParts DEF IInv
  <2>2. Waits(t) => caller[t].pc \in {"waiting", "cleanup"}
    BY <2>1 DEF CallOK, Registered
  <2>3. Ordered(t)'
    BY <1>3, <1>5, <2>1, <2>2 DEF CallOK, Ordered
  <2>4. Registered(t)'
    BY <1>2, <1>5, <2>1 DEF CallOK, Registered
  <2>5. Asleep(t)'
    <3> SUFFICES ASSUME caller[t].pc = "waiting" PROVE Asleep(t)'
      BY <1>5 DEF Asleep
    <3>1. caller[t].used = caller[t].tags /\ caller[t].tags # {}
      BY <2>1 DEF CallOK, Ordered, Asleep
    <3>2. Waits(t)
      BY <2>1, <3>1 DEF CallOK, Registered
    <3> QED
      BY <1>2, <1>5, <3>1, <3>2 DEF Asleep
  <2>6. Announced(t)'
    BY <1>2, <1>5, <2>1 DEF CallOK, Announced
  <2> QED
    BY <2>3, <2>4, <2>5, <2>6 DEF CallOK
<1> QED
  BY <1>4, <1>6, <1>7, <1>8 DEF IInv

-----------------------------------------------------------------------------
(* The inbox, and the end of the connection.                               *)

LEMMA ReceiveMessageInv ==
  ASSUME IInv, ReceiveMessage
  PROVE  IInv'
<1> USE BoundsAssumption
<1>1. /\ answers' \in [to : [Match -> 0..MaxAnswer], messages : 0..MaxMessage]
      /\ answers'.to = answers.to /\ answers'.messages = answers.messages + 1
      /\ inbox' \in [messages : 0..MaxMessage, exitFlag : BOOLEAN]
      /\ inbox'.messages = inbox.messages + 1
  BY DEF IInv, Typed, ReceiveMessage
<1>2. Typed'
  BY <1>1 DEF IInv, Typed, ReceiveMessage
<1> QED
  BY <1>2, Elsewhere DEF IInv, ReceiveMessage

LEMMA DisconnectInv ==
  ASSUME IInv, Disconnect \/ CloseConnection
  PROVE  IInv'
<1>1. Typed' /\ client'.match = client.match
  BY DEF IInv, Typed, Disconnect, CloseConnection
<1> QED
  BY <1>1, Elsewhere DEF IInv, Disconnect, CloseConnection

LEMMA ClearInboxInv ==
  ASSUME IInv, ClearInbox
  PROVE  IInv'
<1> USE BoundsAssumption
<1>1. /\ parser' \in [queue : [Match -> 0..MaxAnswer],
                      sync : [Match -> Caller \cup {NoCaller}],
                      activated : BOOLEAN, clearer : Clearer]
      /\ parser'.queue = parser.queue /\ parser'.sync = parser.sync
      /\ parser'.activated = parser.activated
  BY DEF IInv, Typed, ClearInbox, Clearer
<1>2. /\ client' \in [connected : BOOLEAN, stopped : BOOLEAN,
                      dataThread : {"reading", "leaving", "left"},
                      match : 0..MaxMatch]
      /\ client'.match = client.match
  BY DEF IInv, Typed, ClearInbox
<1>3. /\ inbox' \in [messages : 0..MaxMessage, exitFlag : BOOLEAN]
      /\ inbox'.messages = 0
  BY DEF ClearInbox
<1>4. Typed'
  BY <1>1, <1>2, <1>3 DEF IInv, Typed, ClearInbox
<1> QED
  BY <1>1, <1>2, <1>4, Elsewhere DEF IInv, ClearInbox

LEMMA AwaitMessageInv ==
  ASSUME IInv, AwaitMessage \/ EndAwaitMessage
  PROVE  IInv'
<1> USE BoundsAssumption
<1>1. UNCHANGED <<client, answers, parser, caller>>
  BY DEF AwaitMessage, EndAwaitMessage
<1>2. ASSUME TakeMessage, inbox.messages > 0 \/ inbox.exitFlag
      PROVE  /\ inbox' \in [messages : 0..MaxMessage, exitFlag : BOOLEAN]
             /\ inbox'.messages <= inbox.messages
             /\ task' \in {"idle", "waiting"}
  <2>1. inbox \in [messages : 0..MaxMessage, exitFlag : BOOLEAN]
    BY DEF IInv, Typed
  <2>2. CASE inbox.exitFlag
    <3>1. inbox' = [inbox EXCEPT !.exitFlag = FALSE] /\ task' = "idle"
      BY <1>2, <2>2 DEF TakeMessage
    <3>2. inbox' \in [messages : 0..MaxMessage, exitFlag : BOOLEAN]
      BY <2>1, <3>1
    <3>3. inbox'.messages = inbox.messages /\ inbox.messages \in Nat
      BY <2>1, <3>1
    <3> QED
      BY <3>1, <3>2, <3>3
  <2>3. CASE ~inbox.exitFlag
    <3>1. inbox' = [inbox EXCEPT !.messages = @ - 1] /\ task' = "idle"
      BY <1>2, <2>3 DEF TakeMessage
    <3> QED
      BY <1>2, <2>1, <2>3, <3>1
  <2> QED
    BY <2>2, <2>3
<1>3. \/ TakeMessage /\ (inbox.messages > 0 \/ inbox.exitFlag)
      \/ UNCHANGED inbox /\ task' \in {task, "waiting"}
  BY DEF AwaitMessage, EndAwaitMessage
<1>4. /\ inbox' \in [messages : 0..MaxMessage, exitFlag : BOOLEAN]
      /\ inbox'.messages <= inbox.messages
      /\ task' \in {"idle", "waiting"}
  BY <1>2, <1>3 DEF IInv, Typed
<1>5. Typed'
  BY <1>1, <1>4 DEF IInv, Typed
<1> QED
  BY <1>1, <1>5, Elsewhere DEF IInv

-----------------------------------------------------------------------------
(* The theorems.                                                           *)

LEMMA StutterInv ==
  ASSUME IInv, UNCHANGED vars
  PROVE  IInv'
<1>1. Typed'
  BY DEF IInv, Typed, vars
<1> QED
  BY <1>1, Elsewhere DEF IInv, vars

LEMMA NextInv ==
  ASSUME IInv, [Next]_vars
  PROVE  IInv'
<1>1. ASSUME NEW t \in Caller, Ask(t) \/ Request(t) \/ Proceed(t) \/ TimeOut(t)
      PROVE  IInv'
  BY <1>1, AskInv, RequestInv, LookupInv, WakeUpInv, CleanupInv, FetchInv,
     TimeOutInv DEF Proceed
<1>2. ASSUME NEW t \in Caller, NEW tags \in (SUBSET caller[t].mine) \ {{}},
             NEW timed \in BOOLEAN, Await(t, tags, timed)
      PROVE  IInv'
  BY <1>2, AwaitInv
<1>3. ASSUME NEW m \in Match, ReceiveAnswer(m)
      PROVE  IInv'
  BY <1>3, ReceiveAnswerInv
<1>4. ASSUME NEW who \in {"data", "application"}, CloseQueues(who)
      PROVE  IInv'
  BY <1>4, CloseQueuesInv
<1>5. CASE \/ ReceiveMessage \/ Disconnect \/ CloseConnection
           \/ ClearInbox \/ AwaitMessage \/ EndAwaitMessage
  BY <1>5, ReceiveMessageInv, DisconnectInv, ClearInboxInv, AwaitMessageInv
<1>6. CASE UNCHANGED vars
  BY <1>6, StutterInv
<1> QED
  BY <1>1, <1>2, <1>3, <1>4, <1>5, <1>6 DEF Next

LEMMA QueuesInvariant == Spec => []IInv
<1>1. IInv /\ [Next]_vars => IInv'
  BY NextInv
<1> QED
  BY InitInv, <1>1, PTL DEF Spec

(* The types of TaggedQueues, whatever the number of threads: a queue      *)
(* holds no more than came, a call has only what its thread asked for, and *)
(* who is about to fetch was told what.                                    *)
THEOREM QueuesTypeCorrect == Spec => []TypeOK
<1>1. IInv => TypeOK
  <2> SUFFICES ASSUME IInv PROVE TypeOK
    OBVIOUS
  <2>1. ASSUME NEW t \in Caller
        PROVE  /\ caller[t].used \subseteq caller[t].tags
               /\ caller[t].tags \subseteq caller[t].mine
               /\ caller[t].pc = "idle" => caller[t] = NoCall(caller[t].mine)
               /\ caller[t].pc = "fetch" => caller[t].told \in caller[t].tags
    BY DEF IInv, CallOK, Ordered, Announced
  <2> QED
    BY <2>1 DEF IInv, Typed, TypeOK
<1> QED
  BY QueuesInvariant, <1>1, PTL

(* No wake-up is lost, whatever the number of threads and matches: who     *)
(* sleeps and was not woken has nothing to wake up for, and who was told   *)
(* of a record finds it unless the queues were closed                      *)
(* (arStructuredDataParser.cpp:527-583, 623-627).                          *)
THEOREM NoWakeUpLost == Spec => []Rendezvous
<1>1. IInv => Rendezvous
  <2> SUFFICES ASSUME IInv, NEW t \in Caller
               PROVE  /\ (/\ caller[t].pc = "waiting" /\ caller[t].tag = 0
                          /\ ~caller[t].exitFlag)
                         => /\ parser.activated /\ caller[t].used = caller[t].tags
                            /\ \A m \in caller[t].tags :
                                 parser.sync[m] = t /\ parser.queue[m] = 0
                      /\ (caller[t].pc = "fetch" /\ parser.activated)
                         => parser.queue[caller[t].told] > 0
    BY DEF Rendezvous
  <2>1. CallOK(t) /\ caller[t].tags \subseteq Match
    BY CallParts DEF IInv
  <2> QED
    BY <2>1 DEF CallOK, Registered, Asleep, Announced
<1> QED
  BY QueuesInvariant, <1>1, PTL

=============================================================================
