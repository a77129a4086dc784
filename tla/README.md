# A TLA+ project for Syzygy (szg)

Syzygy runs programs on clusters of PCs that drive virtual-reality displays.
Every program of a cluster is connected to one process, the *szgserver*, which
hands out names, locks, ports and messages; the programs synchronise their
frames and exchange scene graphs over connections that the szgserver brokered.
The code is under `src/src`; paths below are relative to it.

This directory holds TLA+ modules that model the szgserver, the barrier and
the synchronised data that keep displays in step, and the queues through which
a client waits for answers; TLC configurations that check them on small
instances; and TLAPS proofs for the named locks, the messages, the kill
notifications, the services, the barrier, the synchronised data and the queues.
`PROJECT.json` maps each definition to the lines it models, and lists the runs, the mutants (a mutated operation for every property of a passing run,
which TLC must catch), the findings, the hazards and the theorems.

Run, in this directory:

    tlc -workers 2 -config SzgLocks.cfg MCSzgLocks
    tlc -workers 2 -config Barrier.cfg MCBarrier
    tlapm SzgLocks_proofs.tla

## 1. Inventory

| Component | State | Operations | Hard behaviour | What makes it correct |
|---|---|---|---|---|
| `language/arDataServer.cpp`: sockets and read threads | socket database, `_nextID`, `_lockConsume`, `_lockTransfer`, active and passive sockets and their counters | accept, read loop, `sendData`, activation and removal of a socket | one thread per client; a record is read before the lock is taken; a failed write removes a client from within a handler | handlers run one at a time; each component is removed once, with all its tables |
| `phleet/szgserver.cpp`: locks | `lockOwnershipDB`, `componentLockOwnershipDB`, `lockNotificationDB`, `lockNotificationOwnershipDB` | request, release, ask to be told of a release, removal | tables kept twice and purged along different keys | no two clients believe to hold a lock; nobody waits for a free one |
| szgserver: messages | `messageOwnershipDB`, `messageTradingDB` and two lists by component | send, respond, trade, take over, revoke, removal | the responder dies; removal writes to others and may remove them in turn; revocation against take-over | each message is on record once until answered once |
| szgserver: kill notifications | `killNotificationDB`, `killNotificationOwnershipDB` | observe, kill, removal | the observed or the observer disappears at any time | no request is lost, or kept for one who is gone |
| `phleet/arPhleetConnectionBroker.cpp` | computers and their ports, components, services on trial and in use, waiting requests | request, retry and confirm ports, look up, await a release, removal | ports run out or their block changes; look-ups cross registrations | a port belongs to one service; waiting clients are told |
| szgserver: parameter database, discovery | maps of attributes; UDP socket | get, set, test-and-set | test-and-set relies on serialised handlers | a set is seen by the next get |
| `language/arStructuredDataParser.cpp` | queues of records by tag, `_activated` | push, wait with time-out, clear, activate | threads wait for a match while others clear the queues | an answer reaches the caller that asked |
| `phleet/arSZGClient.cpp` | match counter, parser, component ID | every request above, as a blocking call | time-outs and late answers | what a call reports is what the server did |
| `barrier/arBarrierServer.cpp`, `arBarrierClient.cpp` | `_totalWaiting`, activation queue, `_waitingLock`; `_activated`, signals, `_exitProgram` | handshake in three parts, sync, release, local sync, drop out, stop | clients join or leave in mid-round; two locks taken in two orders; `stop` against `sync` | no round ends before all have entered it; every wait ends; a client that stops sends one last record |
| `barrier/arSyncDataServer.cpp`, `arSyncDataClient.cpp`, `language/arQueuedData.cpp` | double buffer of the server; buffers, flags and threads of a client | alter, swap, send, dump for those who join; read, consume, draw, null frame | five kinds of threads in two programs; a dump made while records are on their way; the loss of the server | every display draws the same state of the database in the same frame, and no record is missed or applied twice |
| `phleet/szgd.cpp`, `framework/arAppLauncher.cpp` | processes launched, render programs running | launch, kill, wait with time-outs | a launched program that dies before it takes over the message | the launcher gets one answer |
| `framework/` | master or slave, the connections | start, stop, frame loop | several programs start at once | one master |
| `language/arThread.cpp` | locks, condition variables, signals | lock, wait, signal | `arLock` is recursive | a signal is not lost |
| `language/` records and templates, `arDataClient`, `arSocket` | buffers | encode, decode, read, write | - | round trip |
| `graphics/`, `sound/`, `drivers/`, `interaction/`, `math/`, `model/`, `utilities/`, `demo/` | scenes, devices | rendering, input, I/O | mostly one thread | - |

How they interact.  A client sends a record; the szgserver's read thread for
that connection reads it, waits for `_lockConsume`, and calls
`dataConsumptionFunction`, which runs one handler to its end.  Handlers write
to the sender and to others.  A write that fails removes its recipient:
`_deleteSocketFromDatabase` calls `SZGdisconnectFunction`, which calls
`SZGremoveComponentFromDB`, which purges all the tables, notifies and answers
for the removed component, and so may meet the next write that fails.  A read
thread whose read fails removes its own component, under the same locks.

A client's own threads meet in `arStructuredDataParser`: the data thread queues
what the szgserver sends, threads of the application wait for the answer with
their match, and whoever notices the end of the connection empties the queues
and sends all of them home.

Programs that draw the same world connect to each other: an `arSyncDataServer`
owns an `arBarrierServer` and an `arDataServer`, an `arSyncDataClient` an
`arBarrierClient` and an `arDataClient`.  The send thread of the server swaps
buffers, activates the clients that asked, sends the buffer (or a dump of the
database to those who are new) and takes part in the barrier; the barrier's
release starts the next turn.  A client's consumer draws the buffer and enters
the barrier before it shows the frame.

## 2. The modules

| Module | Models |
|---|---|
| `SzgConnections` | the environment of every handler: connections, client processes, read threads, failing writes |
| `LockService` | abstract: what the szgserver promises about locks |
| `SzgLocks` | locks and lock notifications |
| `SzgLocks_proofs` | theorems about `SzgLocks`: its tables; that it implements `LockService`; that no notification is lost |
| `MessageService` | abstract: who has to answer a message, and that it is answered once |
| `SzgMessages` | messages, responses, trades |
| `SzgMessages_proofs` | theorems about `SzgMessages` |
| `SzgKills` | kill notifications |
| `SzgKills_proofs` | theorems about `SzgKills` |
| `SzgServices` | the connection broker and the handlers that call it |
| `SzgServices_proofs` | theorems about `SzgServices` |
| `BarrierService` | abstract: rounds that end when every member has entered |
| `Barrier` | barrier server and clients, and the sockets of the data server below them |
| `Barrier_proofs`, `Barrier_refinement` | theorems about `Barrier`: active sockets are connected, one last record, types and bounds; it implements `BarrierService` |
| `SyncData` | sync data server and clients, on top of `BarrierService` |
| `SyncData_proofs` | theorems about `SyncData`: a replica follows the database, displays agree |
| `TaggedQueues` | how the threads of a client wait for the szgserver |
| `TaggedQueues_proofs` | theorems about `TaggedQueues` |
| `MCSzgLocks`, `MCSzgMessages`, `MCSzgKills`, `MCSzgServices`, `MCBarrier`, `MCSyncData`, `MCTaggedQueues` | symmetry, state constraints and the blocks of ports for TLC |

Each subsystem of the szgserver keeps tables no other one reads, so it has a
module of its own; the four share `SzgConnections`.  `SyncData` composes the
sync data server with the barrier: it uses the actions of `BarrierService`
(`B!Join`, `B!Enter`, `B!EndRound`) where the code calls the barrier, and
`Barrier` implements them (section 5).

**Connections.**  A component is a connection: IDs are never used again, and a
client that reconnects is another component.  `link` says whether it is in the
socket database, `proc` whether its process runs (`up`), has exited (`down`: its
socket is closed, reads fail) or its host has crashed (`lost`: reads block,
writes may fail).  `held[c]` is the record that c's read thread has read and
not yet consumed, while it waits for `_lockConsume` (`arDataServer.cpp:101`).
This is the one place where the server interleaves: between reading a record
and handling it, other handlers run and may remove c.  `Receive` reads,
`Consuming` and `Consumed` bracket a handler.  `Hangups(T)` are the sets of
those in T that a handler may lose by writing to them; a write to a dead peer
may as well succeed.

**Handlers.**  One action for each branch of `dataConsumptionFunction` that
changes the tables of the subsystem, with the same name as the callback.  Each
is the whole callback: the early returns, the table operations (operators from
tables to tables, named as the functions of the code), the answer, and, when
the answer cannot be written, the removal of its recipient.  `Kill` is the
branch `AR_KILL`, `Disconnect` the removal by the read thread or by a write of
some handler of another subsystem.  `SendRequest` is the client: which
requests `arSZGClient` can send in which order.

**Barrier.**  Here locks are held while others are taken, so a lock is explicit:
`_waitingLock` belongs to the release thread between its check and the end of
`sendData`, or to the thread in `activatePassiveSockets` from the first to the
last of the clients it activates; `_lockTransfer` to a read thread that
removes a client.  `WaitingFree` and `TransferFree` read this off the program
counters.  `local` says whether the server's own loop takes part
(`registerLocal`).  `up[c]` and `down[c]` are the records on their way; TCP
neither loses nor reorders them, but drops them when the client is gone.
`_totalWaiting` is the number that it is in the code: the abstract barrier
speaks of sets, and that the number stands for the set is what the refinement
shows.  It stops being true when a client leaves after it has entered, for the
server does not take it back; so the promise of `BarrierService` ends with the
first departure (`intact`), and the liveness properties with it.
`requestActivation` looks at `_exitProgram` after its wait and sends its answer
in a later step (`AnswerActivation`, `SendResponse`), and `stop()`, which runs in a
thread of its own, has three critical sections (`Stop`, `SendLast`,
`SignalLast`); `sync()` may send in between.  `Die` ends all threads of a
client.

**SyncData.**  The two kinds of the synchronised mode, `auto` and `manual`, are
a constant of a behaviour.  Records are numbered; `history` is the server's
database, `replica` a client's, and `Dump` what `_connectionCallback` serialises
for a client that joins.  The server can be killed and started again (`life`);
a client's connections each belong to one life, and barrier and data
connection notice the end separately and in any order, which is what makes a
reconnection hard.

**TaggedQueues.**  One step is one critical section of the code: `_globalLock`
for the queues by tag, a synchronizer's lock for a sleeping caller, the inbox's
lock for messages.  `clearQueues` is two steps, and nobody else gets
`_globalLock` between them.  A match belongs to the thread that got it, as the
code demands (`arStructuredDataParser.cpp:750-752`).

**Lists as sets.**  A `std::list` that is only pushed to, removed from by value
and walked is a set.  Where the position matters it is a sequence: the
available ports, whose failed members go to the back.

**Undefined behaviour.**  `SZGsendLockNotification`, `SZGsendKillNotification`
and the broker's `_removeService` write to the components on a list while they
walk the list.  If a write fails, the removal of the recipient erases its node
from that list, and the walk continues from the erased node (the locks taken
are recursive, so nothing prevents this).  `WalksErasedNode` is the condition;
the step then may also set `server` to `"undefined"`, after which nothing
happens.  The accounting and the liveness properties make exception of that state and
say so in their formulas; the agreement of tables needs no exception because the
state is left as it was.

**Simplifications.**  The broker serves one computer: the records of several
have only the names of services in common.  A component names one network; two
match when they are the same.  `setServiceInfo` and the queries are left out:
nothing depends on them.  A failing write to one of several clients whose
waiting look-ups are answered shows as a `Disconnect` of its own, after the
handler.

## 3. What is checked

| Run | Instance | Shows |
|---|---|---|
| `szg_locks` | 2 components, 1 lock, 1 notification request each; fairness | types; the tables of owners and of notifications agree; only held locks are awaited; a request for a notification is in one place; **no two connected clients count on one lock**; removal leaves nothing behind; every step is one of `LockService`; whoever waits for a lock is told when its holder exits |
| `szg_locks_stale` | 2 components, 1 lock | finding 1 |
| `szg_messages` | 3 components, 1 message, 1 key; Calm | the two maps and the two lists agree; **a message is on record once**; **an accepted message stays on record until it is answered, and nothing follows the final answer**; a trade ends in take-over or in revocation, and whoever posted it is told; every step is one of `MessageService`, also when removals cascade |
| `szg_messages_live` | 2 components, 1 message; fairness | the sender hears of the exit of the responder |
| `szg_kills` | 2 components, 2 requests each; fairness | the two tables agree, and only connected components are observed; a request is in one place; the exit of a component is announced |
| `szg_services` | 2 components, 1 service, 1 network, 1 look-up or release request each; fairness | services, lists of components and lists of those who wait agree; **nobody waits for a service that is offered**, and a request is in one place; a release is announced |
| `szg_services_ports` | 2 components, 2 services of 1 or 2 ports, two blocks of ports that overlap; Calm, RetriesServed | **a port is in one place**, and is lost only by a request that found too few, while clients disagree on the block; a retry gets other ports while there are any |
| `barrier` | 2 clients, with or without the server's own loop; fairness; OneLeaves | **every step is one of `BarrierService`: no round ends before everyone has entered, also while clients join**; an active socket is connected; **after `_exitProgram` is set exactly one record is sent, by `sync()` or by `stop()`**; until somebody leaves, `sync()` returns and a client that asks is activated |
| `barrier_wedged` | the same | finding 2 |
| `sync_data` | 2 clients, 2 records, both modes, the server may be killed and come back; fairness; Together, Noticed, SecondLife | **a client that joins misses no record and gets none twice**; displays that are released together show the same frame; an active client catches up; a producer that waits goes on; a client that lost its server gets back to where it can connect |
| `sync_data_reconnect` | 1 client, 1 record, two lives of the server; fairness | finding 3 |
| `tagged_queues` | 2 threads, 2 matches, up to 2 records and 1 message; fairness; Calm | **no wake-up is lost**: who sleeps has nothing to wake up for, and who was told of a record finds it; everyone comes home when the queues are closed |

**The szgserver's bounds.**  `Calm`, the constraint of the larger safety runs,
keeps at most two records read but not handled and at most one dead client not
yet removed.  Two records are what it takes for a record to be overtaken by
another; one dead client is what it takes for a handler to fail half way, and a
second failure is met after the first has been dealt with.  The runs with
liveness go without it.  The tables are keyed by component and by name, and no
handler reads entries of more than one name and two components: two to act,
and for messages a third to take over or to kill, cover each interaction.  Two
locks matter for removals, which work on all entries of a component; there the
theorems cover any number.  Services of up to two ports exhaust a block of
three, in the middle of a request and of a retry.  `RetriesServed` keeps out the
one case in which the code itself loses count of its ports, a retry that finds
fewer than its service had (see the observations).  Component names are symmetric, as are keys and services:
no handler compares them but for equality.  Symmetry is dropped where liveness
is checked.

**The others' bounds.**  A round of the barrier involves those who are in it and
one who joins, enters late or leaves; with the local loop two clients make
three participants.  Its counters are reset in each round, so the state space is
finite without a bound on rounds.  `OneLeaves` keeps everything from the start to
the first departure, and all that follows it until the next; after that
the module promises nothing (finding 2).  In `sync_data` a client that is alone
meets two records and the death of the server; two clients, of which one
started first, share one record, one mode and the life of the server
(`Together`): what they do to each other is to join while a buffer is on its
way, which takes one record.  The server comes back (`MaxLife = 2`) when all its
clients have noticed that it was gone (`Noticed`), which is what keeps finding 3
out, and its second life has one client and one record (`SecondLife`).  `SendLimit = 0` makes the producer wait after the
first record instead of the code's several kilobytes.  In `tagged_queues` two
threads and two matches are a waiter that is woken and one that is not; the
second record for a match is the one that comes after a time-out; `Calm` lets
only the first match have it, and only when there is no message.

Deadlock is not checked: clients are free to leave, and when all have left,
everyone rightly sleeps.  The liveness properties say who must not.

**Fairness.**  *The szgserver*: weak fairness of `Handle(c)`, because a read
thread does nothing but wait for `_lockConsume` and every handler returns; and
of `ReadFails(c) /\ Disconnect(c)`: the read of a closed socket returns.  None
for clients, who may send nothing for ever, and none for `WriteFails`: a crashed
host may never be noticed.  The liveness properties are about clients that
*exit*, not about hosts that crash.  That handlers return is an assumption:
`ar_safeWrite` blocks when a client does not read (see the hazards).
*Barrier*: each thread runs, and a client that was told to stop exits.
`LockRounds` is strongly fair: the activation thread competes for
`_waitingLock` with rounds that go on, and `arLock::lock` polls with
`trylock` and a back-off (`arThread.cpp:203-222`), so that it gets a lock that
is free again and again.  *SyncData*: each thread runs; nobody has to alter the
database, ask for a frame, start a client or restart the server.
*TaggedQueues*: threads run, a time-out expires, the szgserver answers what it
answers at once, as long as there is a connection, and the data thread notices when it is
closed.  Nobody has to be notified, no message has to come, and the connection
need not end.

## 4. Findings

1. **A record of a removed component is still handled** (`szg_locks_stale`).
   `_readDataTask` takes `_lockConsume` after it has read the record and does
   not look again whether its socket is still in the database.  If the component
   was removed in between (`dkill -9`, a write of another handler that failed),
   its lock request is granted to an ID that no removal will ever find: the lock
   is held for ever, although `szgserver.cpp:107` says "When a connection goes
   away, release all its locks".  The same step completes a message trade for
   a component that is gone.  The properties of the passing runs allow for
   this: they speak of connected components, or of the step that removes one.
2. **A client that leaves can stop the barrier** (`barrier_wedged`).  The
   release thread holds `_waitingLock` and wants `_lockTransfer` to send
   (`arBarrierServer.cpp:69-88`); the read thread of a client that is gone holds
   `_lockTransfer` and wants `_waitingLock` (`arDataServer.cpp:126-128`,
   `arBarrierServer.cpp:111`).  And a client that leaves in the middle of its
   handshake leaves the server waiting for its answer with `_waitingLock` in its
   hands (`arBarrierServer.cpp:291-307`).  In both cases everyone else waits in
   `sync()` for ever, although `docsrc/Testing.t2t:106-109` says that the test
   programs, whose loops these are, "should be able to run indefinitely and
   tolerate [...] dynamically adding and subtracting BarrierClient nodes".
3. **A client that waits to be activated does not survive its server**
   (`sync_data_reconnect`).  `requestActivation` waits for
   `_activationResponse`; when the connection ends, `_dataTask` resets
   `_activated` and sends the release signal, but does not end this wait
   (`arBarrierClient.cpp:83-90, 182`).  The read thread never comes back, and
   the client is not active with the next server, although
   `docsrc/ClusterTest.t2t:16-17` says "Components can appear, disappear,
   connect, disconnect, and reconnect in any order".  Two more ways lead there:
   the data connection ends first and the barrier client is still `_activated`
   with the old server, or it has the new server and asks with the ID of the
   old data connection (or, if a new socket has got that ID in between, that one is
   activated, without a dump for it).

Observations that are no findings of a run:

- `requestService` (`szgserver.cpp:1650-1653`): a look-up that only other
  networks could serve is, when asynchronous, neither answered nor queued.
- `checkService` counts services whose ports are not confirmed yet,
  `registerReleaseNotification` does not: the request to be told of the release
  of such a service is forgotten (`szgserver.cpp:1743`).
- The comment at `szgserver.cpp:439-441` says that a component that asks twice
  for one lock receives the first notification only; `SZGsendLockNotification`
  walks the whole list and sends both, and so does the model.
- `retryPorts`, when the pool runs empty or the block has shrunk, leaves in the
  service's record numbers that it gave back
  (`arPhleetConnectionBroker.cpp:177-182`); a port can then be in two services.
- `_totalWaiting` keeps counting a client that entered and left, so that the
  next round may end early, against `docsrc/Programming.t2t:579-580`: "All
  connected application instances pause here until all are ready".
- A socket that dies while it is passive is not taken back from
  `_numberConnected` (`arDataServer.cpp:306, 619-636`); the barrier then never
  sees zero and the first client after it does not wake the send thread.
- `getNextTaggedMessage` returns the tag without a record when the queues were
  closed between wake-up and fetch; callers use the null pointer
  (`arSZGClient.cpp:1548, 1734`).
- The data thread starts before `_dataParser` is created
  (`arSZGClient.cpp:2560-2565`); `reconnect()` and `activateQueues()` have no
  caller.

## 5. What is proved

**The locks**, for any set of components and locks and any number of
notification requests, from `LocksAssumption` (`MaxMatch` is a natural number,
`NoOwner` is not a component, `NoRequest` is not a record):

| Theorem | Says |
|---|---|
| `Invariance` | `Spec => []IInv` |
| `TypeCorrect` | the type invariant |
| `TablesInAgreement` | `LockTablesAgree`: owners and notifications, by lock and by component |
| `AwaitedAreHeld` | `OnlyHeldLocksAwaited` |
| `MutualExclusion` | `HoldersOwn`: no two connected clients count on one lock |
| `RemovalComplete` | `RemovalReleasesAll`, an action property |
| `Refinement` | `SzgLocks` implements `LockService` |
| `RequestsTracked` | `Spec => []Tracked` |
| `NoNotificationLost` | `NotificationsAccounted`: a request is in one place |

*The inductive invariant.*  `HoldersOwn` does not follow from itself: when the
server handles a release, it frees the lock whoever the *client* thinks owns it.
A client gives up its belief when it sends the release, not when the server
handles it; so while a release is with the read thread, its sender must not
have obtained the lock anew, which holds because a read thread holds one record
at a time (`ReleasePending`).  A removed component's tables must be purged
completely, by list, which needs the agreement of the tables (`Good`), and nobody
waits for a free lock only because release and removal drop all who wait
(`Awaited`).  And a component that has not connected yet must be in no table, or
its first `Accept` would break `HoldersOwn` (`NewUnknown`).

*How the proofs are built.*  First, lemmas about the operators on tables, with
no state: `GetLockGood`, `ReleaseLockGood`, `RemoveComponentsGood` and so on: each
keeps `Good` and `Awaited`, and says what it did to the owners.  Then `FinishGood`
and `HandlerInv`: any handler that leaves good tables, answers, and perhaps loses
clients keeps `IInv`.  Then a lemma for each action, and `NextInv`.
For the refinement it adds what each operator does to `answered`, shows that
`Finish` is a `Depart` of the abstract service or nothing, and maps each action:
a request to `Acquire`, a release to `Release`, a notification to `Await` or
`CallAtOnce`, a kill or a disconnection to `Depart`.  An answer whose recipient
turns out to be dead leaves two changes in one concrete step; the code makes
them in an order that the abstract service can do in one step (a departing
client's requests may or may not have been called).

*No notification is lost.*  The last part follows one request at a time through
an operator on tables: with the read thread, on the list of one lock,
answered (`InOnePlace`).  `Tracked` says that a match that was not given out is
nowhere (`Fresh`) and that every other request of a connected component is in
one place (`Placed`).  It uses from `IInv` that only held locks are awaited, and
the agreement of the lists: a removal strikes the requests of the departing
component, and of nobody else, from the lists of the locks.  `Placed` ends with
the walk over an erased node (`server`).

**The messages**, for any set of components, keys and messages, from
`MessagesAssumption` (`MaxMessage` and `MaxMatch` are natural numbers):

| Theorem | Says |
|---|---|
| `MessagesInvariant` | `Spec => []IInv` |
| `MessagesTypeOK` | the type invariant |
| `MessageTablesAgree` | `TablesAgree` |
| `MessageHasOneCustodian` | `OneCustodian`: a message is on record once |
| `MessagesAreAccounted` | `ResponsesAccounted`: it stays there until it is answered, and is answered once |
| `TradesAreSettled` | `TradeSettled`, an action property |
| `Refinement` | `SzgMessages` implements `MessageService` |

`IInv` has the agreement of the two maps with the two lists and, for every
message on record, that it was given an ID, is there once and was not answered
(`Good`); that a match is used once (`Fresh`), without which a message could
meet the answer to an older one; that there are IDs for the records under way
(`Budget`, the bound of the model); and that what was accepted is on record or
answered (`Accounted`).  Each operator keeps `Good` and says what it does to the
record (`AddMessageGood`, `RemoveGood`, ...); `Serves` is what all handlers have
in common, and `FinishInv` shows once for all of them that the removal with which
a handler may end does no harm.  For the refinement a handler is a sequence of
abstract steps in one: it keeps the record, posts, answers or hands over
(`Keeps`, `Posts`, `Answers`, `HandsOver`), and then a component may depart.

**The kill notifications**, for any set of components and any number of
requests, from `KillsAssumption` (`MaxMatch` is a natural number, `NoRequest`
is not a record):

| Theorem | Says |
|---|---|
| `KillsInvariant` | `Spec => []IInv` |
| `KillsTypeCorrect` | the type invariant |
| `WatchersAreWatching` | `WatchTablesAgree` |
| `NoRequestLost` | `RequestsAccounted` |

`IInv` says the types, that the two maps agree (`Good`), that only connected
components are observed (`Observed`), that a match that was not given out yet
is nowhere (`Fresh`), and that each request of a connected component is in one
place (`Placed`).  `Placed` needs `Fresh`, or a new request might find itself
answered, and `Observed`, or the request would sit on a list that no removal
walks; `Observed` needs `Good`, because a departing observer is struck off the
lists that its own list names.  `RemoveGood` says what a removal does to the
tables, `ConsumeReady` what a handler may do with the request it consumes, and
`FinishInv` that the removal of its recipient then does no harm.

**The connection broker**, for any sets of components, services, networks and
blocks, from `ServicesAssumption` (`MaxMatch` is a natural number, a block is a
first port and a size, a service asks for one port at least, and the null values
are no requests and no records):

| Theorem | Says |
|---|---|
| `Invariance` | `Spec => []IInv` |
| `ServicesTypeOK` | the type invariant |
| `ServiceTables` | `ServiceTablesAgree` |
| `RequestsTracked` | `Spec => []Tracked` |
| `NoRequestLost` | `RequestsAccounted` |
| `PortsHeldApart` | `PortsInOnePlace`, as long as `RetriesServed` |
| `PortsOfOneBlock` | `PortsInOnePlace`, if all clients are configured with one block |
| `RetriesMoveOn` | `RetryMovesOn`, an action property, as long as `RetriesServed` |

*The tables.*  `IInv` says, service by service, that at most one of the two tables
knows it and which lists name it (`ServicesAgree`), and that nobody waits for a
service that is offered (`WaitersBut`, with an exception for the one that is being
confirmed: `RegisterSuccess` offers it and then answers those who wait, and no
other handler runs in between).  A temporary service has no list of those who
await its release.  That is part of the invariant because `confirmPorts` copies
the record: a list that came along would not be on the lists of the components.
`RetryPorts` must give back as many ports as it takes, also when the pool is
short, or the record would promise ports that nobody assigned; `RetryGood` shows
it from the arithmetic of the two lists.

*The removal* is a composition of three loops of the code.  Each has a lemma that
says what it does to one service and one component (`RemoveServicesMaps`,
`DropReleaseNotesMaps`, `ReturnPortsMaps`), and `RemoveComponentMaps` puts them
together.

*The requests.*  As for the locks: `Fresh`, `Placed`, and one request followed
through the tables.  There are eight places (`Place`), among them the request that
is `declined` or `ignored`: the code keeps no record of it and sends nothing.  The
first is a hazard of its own; the theorem does not hide that it happens.

*The lists of ports.*  What the code does with `list::remove` is `Only`, a recursive
function over the list.  What it leaves, for lists of any length, is proved
(`OnlyIsList`) without the library's induction theorems, which take an operator
that no installed prover instantiates: the statement becomes a set of numbers
(`AllNaturals`, from the least number outside of it), and that the recursion has
a solution at all is a first such set (`Solution`).

*The ports.*  A port is recorded up to five times: in the pool, in the record of a
service, in the list of its owner, and in the computer's lists of temporary and of
used ports.  `PortsAgree` says that no list repeats a port (`ListsApart`) and,
port by port, that these records tell one story (`PortAgrees`): at most one service has
it, its owner and the computer list it exactly then, and a port of the block is
available unless the computer lists it.  The ports that an unsuccessful request
took along are on the computer's list and nowhere else (`leaked`), which is why
they never come back.  When the block changes, ports of the old one stay in use;
they are on the same lists, so that a new pool can leave them out
(`ResizePorts`) and a removal throws them away (`RemovePortsAgree`).

`RetriesServed`, the hypothesis, says of each retry that is about to be consumed
that the pool and what goes back to it suffice; the run has the same operator as its
constraint.  Without it `PortsInOnePlace` is false: the record keeps numbers that
were given back.  Only a change of the block can violate it.  With
a single block a service's ports are of that block, all of them return to the
pool, and the hypothesis becomes a consequence of the invariant
(`OneBlockServes`); `PortsOfOneBlock` therefore needs none.  `RetryPortsAgree` also
shows that the new ports are the first of those that were available if there
were as many, which is what `RetriesMoveOn` says.

**The barrier**, for any finite number of clients, from `ClientAssumption`
(`Client` is finite, and no client is called `"local"`):

| Theorem | Says |
|---|---|
| `Invariance` | `Spec => []IInv` |
| `ActiveSocketsConnected` | `ActiveAreConnected` |
| `LastRecordIsOne` | `OneLastRecord`, an action property |
| `BarrierTypeOK` | the type invariant, with the bounds on `_totalWaiting` and `_numberConnected` |
| `RoundsAreCounted` | `Spec => [](IInv /\ Undisturbed)` |
| `Refinement` | `Barrier` implements `BarrierService` |

*The sockets.*  A client is made active by number, some time after it was found
in the database.  That it is still there follows from `_waitingLock`, which its
removal needs to end, but only if the answer that ends the server's wait is that
client's.  So `IInv` follows the answer: the offer is unread, or the client is
about to answer, or the answer is unread (`MayAnswer`); it is in one of these
places at most (`OneAnswer`), only while the server waits, and only for the head
of the list (`AnswersAwaited`); and the head is in the database or its removal
has begun and cannot end (`HeadPresent`, with `Exclusion`: `_waitingLock` has one
holder).  A client that has left and been removed before the offer never
answers, and nobody is made active in its place.  This holds through departures
and crashes.

*The last record.*  `LastSent` is part of `IInv`: who runs `stop()` exits, and
once `stop()` is past its second critical section `_finalSyncSent` is set.  A
`sync()` that saw `_exitProgram` unset may still send after it is set; it sets
the flag then, and `SendLast` finds it.  `OtherRecords` says that no other step
can be mistaken for the sending of a record.

*The bounds.*  After the first departure `_totalWaiting` is no longer tied to the
state of anyone, and yet it cannot grow without end: a record that is counted
was owed by somebody.  A client owes the records on their way to the server; if
it exits, the last one, unless it has sent it; otherwise one if it is outside of
the barrier, one for each release on its way or in its hands, and the one that
`stop()` sends (`Chances`, `Weight`); the local loop owes one for each time it is
let out (`LocalChances`), and a round
that is about to be released owes each active client one (`RoundChances`).
`Budget` is that the records counted and owed never exceed the
`2 * Cardinality(Client) + 1` owed at first.  A record that is read is counted and
no longer owed; the end of a round takes off what was counted, which is at least
the number of those who are let out in return; what dies owes nothing.  What is
owed altogether is the size of a set of tokens (`Tokens`), not a sum, so that no
induction over the clients is needed: `TokensKept`, `TokenSpent` and
`TokensGiven` say what a step does to it.  The bound is attained: TLC finds
`total = 5` with two clients.  `_numberConnected` is exactly the number of sockets in
the two lists, which are disjoint (`ConnectionsCounted`): a socket that died while
it was passive stays in its list and in the count.

*The rounds.*  `Undisturbed` says what holds until somebody leaves.  Each client
has one record or one release under way at most, and never both (`Orderly`);
whoever enters has been admitted, so that it is active before the server can
read its record, because the server reads no such record while it activates
(`Admitted`); and `_totalWaiting` is the number of active clients whose record was
read and that were not released, plus one for the local loop (`CountRight`).
Those who are counted are active, so when the numbers are equal the sets are
(`ReadyMeansEveryone`), and from the check to the end of `sendData` nothing enters
or leaves (`EveryoneIn`).  `SendTuning` and `EnterLocal` are `Enter`, `MoveSocket`
is `Join`, `SendRelease` is `EndRound`, all other steps change nothing the abstract
barrier sees, and each step after a departure is `Disturbed`.

**The queues of a client**, for any number of threads, matches, records and
messages, from `NoCallerAssumption` and `BoundsAssumption`:

| Theorem | Says |
|---|---|
| `QueuesTypeCorrect` | the type invariant |
| `NoWakeUpLost` | `Rendezvous`: who sleeps has nothing to wake up for, and who was told of a record finds it |

`IInv` rests on the discipline of matches: one belongs to a single thread
(`MatchesOwned`), so that nobody takes the record another one was told of.  Then, for
each caller, `_messageSync` names it for exactly the matches it registered and
has not struck off (`Registered`); who sleeps is registered for all the matches it
asked for, and was told if a record came or the queues were closed since
(`Asleep`); and a record it was told of stays where it is until it is fetched,
unless the queues are closed (`Announced`).

**The synchronised data**, for any number of clients, records and lives of the
server, from `SyncDataAssumption` (no client is called `"local"`; `MaxRecord` and
`SendLimit` are natural numbers, `MaxLife` one above zero):

| Theorem | Says |
|---|---|
| `SyncDataTypeOK` | the type invariant |
| `ReplicaFollowsHolds` | `ReplicaFollows`: an active client gets every record once and in order |
| `DisplaysAgreeHolds` | `DisplaysAgree`, an action property |

*The hypothesis.*  Each theorem is `Spec /\ RestartsNoticed => ...`: whenever a
server comes back, the barrier clients and the read threads have found their
connections with the last one closed.  The code does not see to that, and
without it the second server may activate the ID of a data connection with the
first (finding 3), where `ReplicaFollows` is false.  A behaviour without
a restart satisfies the hypothesis, and so does one in which the restart takes
longer than the clients' next read.

*The invariant* has four parts.  `Own` is about one client's threads: who may
hold a buffer when, and that the flags `_bufferSwapReady` and
`_dataAvailable` describe where the consumer is; `_firstConsumption` (`first`)
stays set until the first buffer is pushed.  `Schedule` is about the send thread: while
it holds `_queueLock` the back buffer is empty, and the active sockets are those
that were active before and those activated since.  `Connected` and
`Requesting` relate the two sides: a request for activation names the data
socket of the client that made it, and is the only one of that client.
`Pipeline` counts: of an active client, the buffers in the socket, in the read
thread's hand, on the stack and drawn but not shown, and one for standing in the
barrier, add up to one for each buffer that was sent in this round and one more
once the client is past its first buffer.  That equation is why a joining
client's read thread enters the barrier, why a buffer is never sent to a socket
that has two, and, with `Latest` (the last buffer sent is the front
buffer), why two displays in the barrier have drawn everything but that
one.  `Follows` is then the statement itself, for clients that are
waiting for their dump, too: their queues and replicas are empty (`Clean`).

*How it is proved.*  Buffers are sequences, and there are two of them at most
between a server and a screen; for queues of that length `FlattenSeq`, although
defined by recursion, is expanded by hand (`FlattenOne`, `FlattenTwo`), and
`ContentsSent`, `ContentsRead`, `ContentsPushed` and `ContentsDrawn` say that a
buffer that moves changes nothing.  `OneClient` and `EnterStep` deal with all
that a step of one client leaves alone; then there is a lemma for each action.

**Only model-checked.**  Liveness under its fairness, which includes that a
producer or a display is served again, and everything that needs ENABLED: they
are out of the prover's reach.  That is `HolderExitAnnounced`,
`OwnerExitAnswered`, `ExitAnnounced`, `ReleaseAnnounced`, `SyncReturns`,
`JoinCompletes`, `RecordsDrawn`, `ProducerResumes`, `DisconnectCompletes` and
`NobodyStranded`.  Every other property of the passing runs, invariant, action property or
refinement, has a theorem.

## 6. Not modelled, and why

- *The subsystems of the szgserver together.*  `Disconnect` stands for removals
  that start in another subsystem; no module shows one removal going through
  all tables in the code's order.  The product of the four state spaces is out
  of TLC's reach, and the tables do not refer to each other.
- *Writes that block, and a handshake that fails half way.*  A client that is
  alive and does not read blocks `ar_safeWrite`, and with it the whole
  szgserver; `_acceptConnection` may call `onDisconnect` without `_lockConsume`.
  How much a socket takes is up to the operating system; the hazards list both.
- *Of the sync data*: a client in the server's process (`_sendTaskLocal`), the
  mode without synchronisation, and a client's `stop()`.  *Of the barrier*:
  counting on after the first departure (finding 2 comes first).
- *The parameter database*: plain updates of maps by handlers that run one at a
  time.
- *szgd, `arAppLauncher`, the frameworks*: sequential users of locks, messages
  and kill notifications.  A module `Launch` on top of `MessageService` and
  `LockService`, with the time-outs of szgd and the election of a master by
  service name, is the next one worth writing.
- *Rendering, sound, drivers, file formats, mathematics, demos*: I/O or numerical
  code in one thread, most of the repository by lines.

Proofs worth having next: that the steps of `SyncData` implement
`BarrierService` as long as the server lives.
