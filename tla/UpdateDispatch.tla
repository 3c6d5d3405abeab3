--------------------------- MODULE UpdateDispatch --------------------------
(***************************************************************************)
(* The way of a credential update from the watcher to the service: the     *)
(* watcher's buffer of pending updates, one per credential, its dispatch   *)
(* loop (internal/watcher/dispatcher.go), the bounded queue, and the       *)
(* service's consumer (sdk/cliproxy/service_auth.go), which drains the     *)
(* queue and keeps the last update of each credential.                     *)
(*                                                                         *)
(* An update is a credential and its new value; Gone stands for a delete,  *)
(* any other value for an add or a modify, which the consumer treats       *)
(* alike.  One action is one critical section of dispatchMu or one channel *)
(* operation.  The end of the watcher is not modelled.                     *)
(***************************************************************************)
EXTENDS Integers, SequencesExt

CONSTANTS
  Ids,       \* credential ids
  QueueCap   \* capacity of the service's queue (256 in the code)

ASSUME DispatchAssumption == IsFiniteSet(Ids) /\ QueueCap \in Nat \ {0}

VARIABLES
  pendingUpdates,  \* the buffered update of each credential, or None
  pendingOrder,    \* the order in which they were first buffered
  loop,            \* dispatchLoop: "check", "waiting" or "sending"
  batch,           \* the updates the loop has still to send
  queue,           \* Service.authUpdates
  consumer,        \* "idle" or "draining"
  drained,         \* the last update the consumer took of each credential
  applied          \* the value of each credential at the service

dispatchVars == <<pendingUpdates, pendingOrder, loop, batch>>
serviceVars == <<queue, consumer, drained, applied>>

Gone == 0    \* no such credential
None == -2   \* no update
Update(id, val) == [id |-> id, val |-> val]

DispatchInit ==
  /\ pendingUpdates = [id \in Ids |-> None]
  /\ pendingOrder = <<>>
  /\ loop = "check"
  /\ batch = <<>>
  /\ queue = <<>>
  /\ consumer = "idle"
  /\ drained = [id \in Ids |-> None]
  /\ applied = [id \in Ids |-> Gone]

Keys(new) == {id \in Ids : new[id] # None}

(* The buffer keeps one update per credential, the latest, in the place of *)
(* the first.                                                              *)
Buffer(new) ==
  LET fresh == {id \in Keys(new) : pendingUpdates[id] = None} IN
  /\ pendingUpdates' = [id \in Ids |->
       IF id \in Keys(new) THEN new[id] ELSE pendingUpdates[id]]
  /\ pendingOrder' = pendingOrder \o SetToSeq(fresh)
  /\ UNCHANGED batch

(* Seeded fault: an update that is buffered already is not replaced. *)
dispatchKeepsFirst(new) ==
  /\ Buffer([id \in Ids |-> IF pendingUpdates[id] = None THEN new[id]
                            ELSE pendingUpdates[id]])
  /\ loop' = IF loop = "waiting" /\ Keys(new) # {} THEN "check" ELSE loop

(* Seeded fault: nobody signals the waiting loop. *)
dispatchUnsignalled(new) == Buffer(new) /\ UNCHANGED loop

dispatchAuthUpdates(new) ==
  /\ Buffer(new)
  /\ loop' = IF loop = "waiting" /\ Keys(new) # {} THEN "check" ELSE loop

(* nextPendingBatch takes all that is buffered, or waits. *)
nextPendingBatch ==
  /\ loop = "check"
  /\ IF pendingOrder = <<>>
     THEN loop' = "waiting" /\ UNCHANGED <<pendingUpdates, pendingOrder, batch>>
     ELSE /\ loop' = "sending"
          /\ batch' = [i \in DOMAIN pendingOrder |->
               Update(pendingOrder[i], pendingUpdates[pendingOrder[i]])]
          /\ pendingUpdates' = [id \in Ids |-> None]
          /\ pendingOrder' = <<>>
  /\ UNCHANGED serviceVars

dispatchSend ==
  /\ loop = "sending"
  /\ Len(queue) < QueueCap
  /\ queue' = Append(queue, Head(batch))
  /\ batch' = Tail(batch)
  /\ loop' = IF Len(batch) = 1 THEN "check" ELSE loop
  /\ UNCHANGED <<pendingUpdates, pendingOrder, consumer, drained, applied>>

(* consumeAuthUpdates takes one update, then all that follow without       *)
(* waiting; of those coalesceAuthUpdates keeps the last per credential.    *)
consumeAuthUpdates ==
  /\ queue # <<>>
  /\ drained' = [drained EXCEPT ![Head(queue).id] = Head(queue).val]
  /\ queue' = Tail(queue)
  /\ consumer' = "draining"
  /\ UNCHANGED <<dispatchVars, applied>>

handleAuthUpdates ==
  /\ consumer = "draining"
  /\ queue = <<>>
  /\ applied' = [id \in Ids |->
                   IF drained[id] = None THEN applied[id] ELSE drained[id]]
  /\ drained' = [id \in Ids |-> None]
  /\ consumer' = "idle"
  /\ UNCHANGED <<dispatchVars, queue>>

DispatchStep == nextPendingBatch \/ dispatchSend
ConsumerStep == consumeAuthUpdates \/ handleAuthUpdates

(* No update is under way. *)
NothingUnderWay ==
  pendingOrder = <<>> /\ batch = <<>> /\ queue = <<>> /\ consumer = "idle"
=============================================================================
