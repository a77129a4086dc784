---------------------------- MODULE TaggedQueues ----------------------------
(***************************************************************************)
(* How the threads of a client of the szgserver wait for its answers:      *)
(* arSZGClient (src/phleet/arSZGClient.cpp) and the queues of its          *)
(* arStructuredDataParser (src/language/arStructuredDataParser.cpp).       *)
(*                                                                         *)
(* Every request carries a fresh match.  The data thread puts the records  *)
(* that come back on a queue per match, and wakes the thread that waits    *)
(* for it; messages go to one inbox, from which the message task reads.    *)
(* When the connection ends, or when the application says so, clearQueues  *)
(* empties the queues and sends everyone home.                             *)
(*                                                                         *)
(* A step is a critical section of _globalLock, of a synchronizer's lock   *)
(* or of the inbox's lock.  clearQueues needs two steps, and holds         *)
(* _globalLock from the first to the last.  A synchronizer belongs to one  *)
(* call until _cleanupSynchronizers recycles it, so it is kept with the    *)
(* caller.  No two threads wait for one match ("at most one command at a   *)
(* time", arStructuredDataParser.cpp:750): whoever got it keeps it.        *)
(* The records of one match are counted only; the check of their type      *)
(* (dataID) is left out.                                                   *)
(***************************************************************************)
EXTENDS Naturals

CONSTANTS
  Caller,        \* threads of the application
  MaxMatch,      \* bound: matches given out
  MaxAnswer,     \* bound: records the szgserver sends for one match
  MaxMessage,    \* bound: messages the szgserver forwards
  NoCaller       \* the value of _messageSync for a match nobody waits for

ASSUME NoCallerAssumption == NoCaller \notin Caller
ASSUME BoundsAssumption ==
  MaxMatch \in Nat /\ MaxAnswer \in Nat /\ MaxMessage \in Nat

Match == 1..MaxMatch

(* Who runs clearQueues: the data thread on its way out, the application   *)
(* in messageTaskStop, or nobody.                                          *)
Clearer == {"data", "application", "none"}

VARIABLES
  client,     \* connected (_connected), dataThread, match (_match), stopped
  answers,    \* how many records the szgserver has sent, per match; messages
  parser,     \* queue (_taggedMessages), sync (_messageSync), activated, clearer
  inbox,      \* messages and exitFlag of the queue for AR_SZG_MESSAGE
  task,       \* the message task: "idle" or "waiting" in getNextInternal
  caller      \* per thread: where in getNextTaggedMessage, and its synchronizer

vars == <<client, answers, parser, inbox, task, caller>>

(* A call: the step it is at, the matches of the thread (mine), those it   *)
(* asked for (tags) and is registered with (used), whether it has a        *)
(* timeout, tag and exitFlag of its synchronizer, and the tag it was told  *)
(* (told); 0 stands for -1.  asks: the szgserver is bound to answer.       *)
NoCall(mine) ==
  [pc |-> "idle", mine |-> mine, tags |-> {}, used |-> {}, timed |-> FALSE,
   asks |-> FALSE, tag |-> 0, exitFlag |-> FALSE, told |-> 0]

Call ==
  [pc : {"idle", "lookup", "waiting", "cleanup", "fetch"},
   mine : SUBSET Match, tags : SUBSET Match, used : SUBSET Match,
   timed : BOOLEAN, asks : BOOLEAN, tag : 0..MaxMatch,
   exitFlag : BOOLEAN, told : 0..MaxMatch]

TypeOK ==
  /\ client \in [connected : BOOLEAN, stopped : BOOLEAN,
                 dataThread : {"reading", "leaving", "left"},
                 match : 0..MaxMatch]
  /\ answers \in [to : [Match -> 0..MaxAnswer], messages : 0..MaxMessage]
  /\ parser \in [queue : [Match -> 0..MaxAnswer],
                 sync : [Match -> Caller \cup {NoCaller}],
                 activated : BOOLEAN, clearer : Clearer]
  /\ inbox \in [messages : 0..MaxMessage, exitFlag : BOOLEAN]
  /\ \A m \in Match : parser.queue[m] <= answers.to[m]
  /\ inbox.messages <= answers.messages
  /\ task \in {"idle", "waiting"}
  /\ caller \in [Caller -> Call]
  /\ \A t \in Caller :
       /\ caller[t].used \subseteq caller[t].tags
       /\ caller[t].tags \subseteq caller[t].mine
       /\ caller[t].pc = "idle" => caller[t] = NoCall(caller[t].mine)
       /\ caller[t].pc = "fetch" => caller[t].told \in caller[t].tags

Init ==
  /\ client = [connected |-> TRUE, stopped |-> FALSE,
               dataThread |-> "reading", match |-> 0]
  /\ answers = [to |-> [m \in Match |-> 0], messages |-> 0]
  /\ parser = [queue |-> [m \in Match |-> 0],
               sync |-> [m \in Match |-> NoCaller],
               activated |-> TRUE, clearer |-> "none"]
  /\ inbox = [messages |-> 0, exitFlag |-> FALSE]
  /\ task = "idle"
  /\ caller = [t \in Caller |-> NoCall({})]

GlobalLockFree == parser.clearer = "none"

-----------------------------------------------------------------------------
(* The calls of arSZGClient that wait.                                     *)

(* A request that the szgserver answers at once: getLock, getAttribute,    *)
(* sendMessage and the like send it with a fresh match and wait for the    *)
(* answer without a timeout.                                               *)
Ask(t) ==
  /\ caller[t].pc = "idle" /\ client.connected
  /\ client.match < MaxMatch
  /\ LET m == client.match + 1 IN
       /\ client' = [client EXCEPT !.match = m]
       /\ caller' = [caller EXCEPT ![t] =
            [NoCall(@.mine \cup {m}) EXCEPT !.pc = "lookup", !.tags = {m},
                                            !.asks = TRUE]]
  /\ UNCHANGED <<answers, parser, inbox, task>>

(* A request for something that happens later, if at all:                  *)
(* requestKillNotification, requestLockReleaseNotification, ...            *)
Request(t) ==
  /\ caller[t].pc = "idle" /\ client.connected
  /\ client.match < MaxMatch
  /\ client' = [client EXCEPT !.match = @ + 1]
  /\ caller' = [caller EXCEPT ![t] = NoCall(@.mine \cup {client.match + 1})]
  /\ UNCHANGED <<answers, parser, inbox, task>>

(* getKillNotification, getMessageResponse and the like wait for any of    *)
(* several matches, with or without a timeout.                             *)
Await(t, tags, timed) ==
  /\ caller[t].pc = "idle" /\ client.connected
  /\ caller' = [caller EXCEPT ![t] =
       [NoCall(@.mine) EXCEPT !.pc = "lookup", !.tags = tags, !.timed = timed]]
  /\ UNCHANGED <<client, answers, parser, inbox, task>>

-----------------------------------------------------------------------------
(* getNextTaggedMessage.                                                   *)

(* The record at the head of the queue of m goes to a caller.              *)
Pop(m) == parser' = [parser EXCEPT !.queue[m] = @ - 1]

(* The synchronizer of t, reset, is registered for the matches m.          *)
Register(t, m) ==
  [caller[t] EXCEPT !.pc = "waiting", !.used = m,
                    !.tag = 0, !.exitFlag = FALSE]

(* Phase 1, under _globalLock: give up when the queues are closed, take a  *)
(* record that is there already, or register for those to come.            *)
Lookup(t) ==
  /\ caller[t].pc = "lookup" /\ GlobalLockFree
  /\ \/ /\ ~parser.activated
        /\ caller' = [caller EXCEPT ![t] = NoCall(@.mine)]
        /\ UNCHANGED parser
     \/ \E m \in caller[t].tags :
          /\ parser.activated /\ parser.queue[m] > 0
          /\ Pop(m)
          /\ caller' = [caller EXCEPT ![t] = NoCall(@.mine)]
     \/ /\ parser.activated
        /\ \A m \in caller[t].tags : parser.queue[m] = 0
        /\ LET new == {m \in caller[t].tags : parser.sync[m] = NoCaller} IN
             /\ caller' = [caller EXCEPT ![t] = Register(t, new)]
             /\ parser' = [parser EXCEPT !.sync =
                  [m \in Match |-> IF m \in new THEN t ELSE @[m]]]
  /\ UNCHANGED <<client, answers, inbox, task>>

(* Phase 2: the wait ends because the synchronizer holds a tag or the      *)
(* queues are closed.                                                      *)
WakeUp(t) ==
  /\ caller[t].pc = "waiting"
  /\ caller[t].tag # 0 \/ caller[t].exitFlag
  /\ caller' = [caller EXCEPT ![t].pc = "cleanup", ![t].told = caller[t].tag]
  /\ UNCHANGED <<client, answers, parser, inbox, task>>

(* Or because of the timeout, whatever the synchronizer holds by then.     *)
TimeOut(t) ==
  /\ caller[t].pc = "waiting" /\ caller[t].timed
  /\ caller' = [caller EXCEPT ![t].pc = "cleanup"]
  /\ UNCHANGED <<client, answers, parser, inbox, task>>

(* Mutant: only the match that was announced is struck off.                *)
CleanupOfAnnounced(t) ==
  /\ caller[t].pc = "cleanup" /\ GlobalLockFree
  /\ parser' = [parser EXCEPT !.sync =
       [m \in Match |-> IF m = caller[t].told THEN NoCaller ELSE @[m]]]
  /\ caller' = [caller EXCEPT ![t] =
       IF @.told = 0 THEN NoCall(@.mine) ELSE [@ EXCEPT !.pc = "fetch"]]
  /\ UNCHANGED <<client, answers, inbox, task>>

(* Mutant: a call that was told nothing goes on as if it had been.         *)
CleanupUnchecked(t) ==
  /\ caller[t].pc = "cleanup" /\ GlobalLockFree
  /\ parser' = [parser EXCEPT !.sync =
       [m \in Match |-> IF m \in caller[t].used THEN NoCaller ELSE @[m]]]
  /\ caller' = [caller EXCEPT ![t].pc = "fetch"]
  /\ UNCHANGED <<client, answers, inbox, task>>

(* _cleanupSynchronizers strikes the caller off, under _globalLock; the    *)
(* call has failed if it was told nothing.                                 *)
Cleanup(t) ==
  /\ caller[t].pc = "cleanup" /\ GlobalLockFree
  /\ parser' = [parser EXCEPT !.sync =
       [m \in Match |-> IF m \in caller[t].used THEN NoCaller ELSE @[m]]]
  /\ caller' = [caller EXCEPT ![t] =
       IF @.told = 0 THEN NoCall(@.mine) ELSE [@ EXCEPT !.pc = "fetch"]]
  /\ UNCHANGED <<client, answers, inbox, task>>

(* Phase 3, under _globalLock again: the record is taken.  When the queues *)
(* were closed meanwhile there is none, and the call returns the tag all   *)
(* the same.                                                               *)
Fetch(t) ==
  /\ caller[t].pc = "fetch" /\ GlobalLockFree
  /\ \/ parser.queue[caller[t].told] > 0 /\ Pop(caller[t].told)
     \/ parser.queue[caller[t].told] = 0 /\ UNCHANGED parser
  /\ caller' = [caller EXCEPT ![t] = NoCall(@.mine)]
  /\ UNCHANGED <<client, answers, inbox, task>>

-----------------------------------------------------------------------------
(* The data thread.                                                        *)

(* _pushOntoTaggedQueue, under _globalLock: the record is queued and the   *)
(* caller that is registered for its match, if any, is told which.         *)
PushOntoTaggedQueue(m) ==
  /\ parser' = [parser EXCEPT !.queue[m] = @ + 1]
  /\ caller' = [t \in Caller |->
       IF parser.sync[m] = t THEN [caller[t] EXCEPT !.tag = m] ELSE caller[t]]

(* The szgserver sends a record about match m and the data thread queues   *)
(* it.                                                                     *)
ReceiveAnswer(m) ==
  /\ client.dataThread = "reading" /\ GlobalLockFree
  /\ m <= client.match /\ answers.to[m] < MaxAnswer
  /\ answers' = [answers EXCEPT !.to[m] = @ + 1]
  /\ PushOntoTaggedQueue(m)
  /\ UNCHANGED <<client, inbox, task>>

(* The szgserver forwards a message: _pushOntoQueue, under the inbox's     *)
(* lock.                                                                   *)
ReceiveMessage ==
  /\ client.dataThread = "reading"
  /\ answers.messages < MaxMessage
  /\ answers' = [answers EXCEPT !.messages = @ + 1]
  /\ inbox' = [inbox EXCEPT !.messages = @ + 1]
  /\ UNCHANGED <<client, parser, task, caller>>

(* The connection ends: the szgserver dies or removes the component.       *)
Disconnect ==
  /\ client.dataThread = "reading"
  /\ client' = [client EXCEPT !.dataThread = "leaving"]
  /\ UNCHANGED <<answers, parser, inbox, task, caller>>

(* closeConnection, by the application.                                    *)
CloseConnection ==
  /\ client.connected
  /\ client' = [client EXCEPT !.connected = FALSE]
  /\ UNCHANGED <<answers, parser, inbox, task, caller>>

-----------------------------------------------------------------------------
(* clearQueues.                                                            *)

(* Whoever is registered for a match is told to give up.                   *)
ReleaseCallers ==
  [t \in Caller |->
     IF \E m \in Match : parser.sync[m] = t
     THEN [caller[t] EXCEPT !.tag = 0, !.exitFlag = TRUE] ELSE caller[t]]

(* The first half: the queues are closed, the callers are released, and    *)
(* the records are recycled.                                               *)
CloseQueues(who) ==
  /\ GlobalLockFree
  /\ \/ who = "data" /\ client.dataThread = "leaving"
     \/ who = "application" /\ ~client.stopped
  /\ parser' = [parser EXCEPT !.activated = FALSE, !.clearer = who,
                              !.queue = [m \in Match |-> 0]]
  /\ caller' = ReleaseCallers
  /\ client' = [client EXCEPT !.stopped = @ \/ who = "application"]
  /\ UNCHANGED <<answers, inbox, task>>

(* Mutant: exitFlag of the inbox is left as it is.                         *)
ClearInboxOnly ==
  /\ parser.clearer # "none"
  /\ inbox' = [inbox EXCEPT !.messages = 0]
  /\ parser' = [parser EXCEPT !.clearer = "none"]
  /\ client' = IF parser.clearer = "data"
               THEN [client EXCEPT !.dataThread = "left", !.connected = FALSE]
               ELSE client
  /\ UNCHANGED <<answers, task, caller>>

(* The second half: the inbox is emptied and the message task is released. *)
(* The data thread ends with it: _connected is false from now on.          *)
ClearInbox ==
  /\ parser.clearer # "none"
  /\ inbox' = [messages |-> 0, exitFlag |-> TRUE]
  /\ parser' = [parser EXCEPT !.clearer = "none"]
  /\ client' = IF parser.clearer = "data"
               THEN [client EXCEPT !.dataThread = "left", !.connected = FALSE]
               ELSE client
  /\ UNCHANGED <<answers, task, caller>>

-----------------------------------------------------------------------------
(* getNextInternal, called by the message task through receiveMessage.     *)

(* What is taken from the inbox: nothing when clearQueues woke the task.   *)
TakeMessage ==
  /\ inbox' = IF inbox.exitFlag THEN [inbox EXCEPT !.exitFlag = FALSE]
              ELSE [inbox EXCEPT !.messages = @ - 1]
  /\ task' = "idle"

(* The call, under the inbox's lock.                                       *)
AwaitMessage ==
  /\ task = "idle" /\ client.connected
  /\ \/ ~parser.activated /\ UNCHANGED <<inbox, task>>
     \/ /\ parser.activated
        /\ inbox.messages = 0 /\ ~inbox.exitFlag
        /\ task' = "waiting" /\ UNCHANGED inbox
     \/ /\ parser.activated
        /\ inbox.messages > 0 \/ inbox.exitFlag
        /\ TakeMessage
  /\ UNCHANGED <<client, answers, parser, caller>>

(* The wait ends.                                                          *)
EndAwaitMessage ==
  /\ task = "waiting"
  /\ inbox.messages > 0 \/ inbox.exitFlag
  /\ TakeMessage
  /\ UNCHANGED <<client, answers, parser, caller>>

-----------------------------------------------------------------------------
(* A call goes on, except for the ways it may end by chance.               *)
Proceed(t) == Lookup(t) \/ WakeUp(t) \/ Cleanup(t) \/ Fetch(t)

Next ==
  \/ \E t \in Caller :
       \/ Ask(t) \/ Request(t) \/ Proceed(t) \/ TimeOut(t)
       \/ \E tags \in (SUBSET caller[t].mine) \ {{}}, timed \in BOOLEAN :
            Await(t, tags, timed)
  \/ \E m \in Match : ReceiveAnswer(m)
  \/ ReceiveMessage \/ Disconnect \/ CloseConnection
  \/ \E who \in {"data", "application"} : CloseQueues(who)
  \/ ClearInbox \/ AwaitMessage \/ EndAwaitMessage

Spec == Init /\ [][Next]_vars

(* Threads run, a timeout expires, the szgserver answers what it is asked  *)
(* as long as there is a connection, and the data thread notices when it   *)
(* is closed.  Nothing else has to happen: nobody has to be notified, no   *)
(* message has to come, the connection need not end.                       *)
FairSpec ==
  /\ Spec
  /\ \A t \in Caller : WF_vars(Proceed(t)) /\ WF_vars(TimeOut(t))
  /\ \A m \in Match : WF_vars(/\ ReceiveAnswer(m)
                              /\ \E t \in Caller : caller[t].asks
                                                   /\ m \in caller[t].tags
                              /\ answers.to[m] = 0)
  /\ WF_vars(Disconnect /\ ~client.connected)
  /\ WF_vars(CloseQueues("data")) /\ WF_vars(ClearInbox)
  /\ WF_vars(EndAwaitMessage)

-----------------------------------------------------------------------------
(* A caller that sleeps, and was not woken, has nothing to wake up for:    *)
(* the queues are open, it is registered for every match it asked for, and *)
(* no record for any of them is there (the check and the registration of   *)
(* phase 1 against _pushOntoTaggedQueue, clearQueues and what other calls  *)
(* leave behind, arStructuredDataParser.cpp:527-583).  A caller that was   *)
(* told of a record finds it, unless the queues were closed meanwhile      *)
(* (arStructuredDataParser.cpp:623-627).                                   *)
Rendezvous ==
  \A t \in Caller :
    /\ (/\ caller[t].pc = "waiting" /\ caller[t].tag = 0
        /\ ~caller[t].exitFlag)
       => /\ parser.activated /\ caller[t].used = caller[t].tags
          /\ \A m \in caller[t].tags :
               parser.sync[m] = t /\ parser.queue[m] = 0
    /\ (caller[t].pc = "fetch" /\ parser.activated)
       => parser.queue[caller[t].told] > 0

(* Nobody is left behind: a thread that waits for an answer or with a      *)
(* timeout returns, and once the queues are closed everyone does, whatever *)
(* they were about to wait for ("no matter how calls to getNextInternal()  *)
(* were in flight", arStructuredDataParser.cpp:486-490).                   *)
NobodyStranded ==
  /\ \A t \in Caller :
       (\/ caller[t].asks \/ caller[t].timed
        \/ caller[t].pc # "idle" /\ ~parser.activated)
       ~> caller[t].pc = "idle"
  /\ (task = "waiting" /\ ~parser.activated) ~> task = "idle"
=============================================================================
