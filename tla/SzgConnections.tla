--------------------------- MODULE SzgConnections ---------------------------
(***************************************************************************)
(* The connections of the szgserver: arDataServer's socket database and    *)
(* the read threads, one per connection, that feed dataConsumptionFunction.*)
(*                                                                         *)
(* A component is one connection.  Its ID comes from _nextID++ and is      *)
(* never used again, so a client that reconnects is another component.     *)
(*                                                                         *)
(* Handlers run one at a time under _lockConsume (atomicReceive), but the  *)
(* record a handler works on was read BEFORE that lock was taken.  Between *)
(* the two, another handler may have removed the component (AR_KILL, or a  *)
(* failed write): the record held by the read thread is then handled all   *)
(* the same, on behalf of a component that is no longer in the database.   *)
(***************************************************************************)
CONSTANTS Component,   \* the connections that may ever be made
          NoRequest    \* the read thread holds no record

VARIABLES link,    \* link[c]: "new", "open" (in _connectionIDs) or "gone"
          proc,    \* proc[c]: "up", "down" (exited) or "lost" (host crashed)
          held,    \* held[c]: the record c's read thread waits to consume
          server   \* "running", or "undefined" after undefined behaviour

connVars == <<link, proc, held, server>>

ConnTypeOK(Request) ==
  /\ link \in [Component -> {"new", "open", "gone"}]
  /\ proc \in [Component -> {"up", "down", "lost"}]
  /\ held \in [Component -> Request \cup {NoRequest}]
  /\ server \in {"running", "undefined"}

ConnInit ==
  /\ link = [c \in Component |-> "new"]
  /\ proc = [c \in Component |-> "up"]
  /\ held = [c \in Component |-> NoRequest]
  /\ server = "running"

(* The components getConnectedSocket finds.                                *)
Open == {c \in Component : link[c] = "open"}

(* The components a write to whose socket may fail.  A write to a closed   *)
(* peer may also succeed: the kernel accepts the bytes.                    *)
Broken == {c \in Open : proc[c] # "up"}

(* The components a handler may lose by writing to those in T.             *)
Hangups(T) == SUBSET (T \cap Broken)

Accept(c) ==
  /\ server = "running"
  /\ link[c] = "new"
  /\ link' = [link EXCEPT ![c] = "open"]
  /\ UNCHANGED <<proc, held, server>>

(* getDataCore returns a record to c's read thread, which now waits for    *)
(* _lockConsume.                                                           *)
Receive(c, r) ==
  /\ server = "running"
  /\ link[c] = "open" /\ proc[c] = "up"
  /\ held[c] = NoRequest
  /\ held' = [held EXCEPT ![c] = r]
  /\ UNCHANGED <<link, proc, server>>

(* The client process exits (its system closes the socket), or its host    *)
(* crashes and leaves the socket open.                                     *)
Leave(c, how) ==
  /\ link[c] = "open" /\ proc[c] = "up"
  /\ how \in {"down", "lost"}
  /\ proc' = [proc EXCEPT ![c] = how]
  /\ UNCHANGED <<link, held, server>>

(* c's read thread gets _lockConsume and consumes the record it holds,     *)
(* whether or not c is still connected.                                    *)
Consuming(c, kinds) ==
  /\ server = "running"
  /\ held[c] # NoRequest
  /\ held[c].kind \in kinds

Consumed(c) == held' = [held EXCEPT ![c] = NoRequest]

(* The read on c's socket fails: c is removed under both locks.            *)
ReadFails(c) ==
  /\ server = "running"
  /\ link[c] = "open" /\ proc[c] = "down"
  /\ held[c] = NoRequest

(* A write to c by a handler that is not modelled here fails.              *)
WriteFails(c) ==
  /\ server = "running"
  /\ c \in Broken

(* _deleteSocketFromDatabase, for the components in D.                     *)
Close(D) == link' = [c \in Component |-> IF c \in D THEN "gone" ELSE link[c]]
=============================================================================
