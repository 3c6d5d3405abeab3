------------------------- MODULE HomeLifetimeProofs ------------------------
(***************************************************************************)
(* Proofs about HomeLifetime, for any number of requests, lifetimes and    *)
(* configurations.  Three inductive invariants, one per question: what     *)
(* becomes of a slot that Home booked (SlotInv), what is attached to a     *)
(* lifetime while it ends (AttachInv), and in which order configurations   *)
(* come into force (CommitInv).                                            *)
(***************************************************************************)
EXTENDS HomeLifetime, TLAPS

USE LifetimeAssumption DEF LifetimeAssumption

----------------------------------------------------------------------------
(* The slots Home has booked *)

RequestPlaces ==
  {"idle", "loaded", "begun", "issued", "slot", "plain", "garbled", "none", "lost",
   "running", "rejected", "refused", "over"}

(* Where a request cannot have a slot: before Home's answer, or after one  *)
(* that books none.                                                        *)
Slotless == {"idle", "loaded", "begun", "issued", "plain", "none"}

SlotTypes ==
  /\ req \in [Requests -> [at : RequestPlaces, life : Nat]]
  /\ life \in Nat
  /\ bundle \in Nat

Slot(r) == <<req[r].life, r>>

(* What is known of one request's slot *)
SlotKept(r) ==
  /\ req[r].at \in Slotless => Slot(r) \notin slots
  /\ req[r].at = "lost" => req[r].life \in fenced
  /\ Slot(r) \in slots =>
       \/ InRegistry(r)
       \/ Slot(r) \in released
       \/ req[r].life \in fenced \cup draining

SlotInv ==
  /\ SlotTypes
  /\ \A p \in slots : p[2] \in Requests /\ p = Slot(p[2])
  /\ \A r \in Requests : SlotKept(r)

(* A step of one request that leaves its lifetime, and the slots of the    *)
(* others, alone.                                                          *)
LEMMA SlotMoves ==
  ASSUME SlotInv, NEW r \in Requests, UNCHANGED <<life, bundle>>,
         NEW to \in RequestPlaces, req' = [req EXCEPT ![r].at = to],
         slots' = slots \/ slots' = slots \cup {Slot(r)},
         released \subseteq released', fenced \subseteq fenced', draining \subseteq draining',
         to \in Slotless => Slot(r) \notin slots',
         to = "lost" => req[r].life \in fenced',
         Slot(r) \in slots' =>
           \/ to \in {"slot", "garbled", "lost", "running", "rejected"}
           \/ Slot(r) \in released'
           \/ req[r].life \in fenced' \cup draining'
  PROVE  SlotInv'
<1>1. /\ req' \in [Requests -> [at : RequestPlaces, life : Nat]]
      /\ req'[r].at = to
      /\ \A q \in Requests : req'[q].life = req[q].life
      /\ \A q \in Requests : q # r => req'[q] = req[q]
  BY DEF SlotInv, SlotTypes
<1>2. SlotTypes'
  BY <1>1 DEF SlotInv, SlotTypes
<1>3. \A q \in Requests : Slot(q)' = Slot(q)
  BY <1>1 DEF Slot
<1>4. ASSUME NEW p \in slots' PROVE p[2] \in Requests /\ p = Slot(p[2])'
  <2>1. CASE p \in slots
    BY <1>3, <2>1 DEF SlotInv
  <2>2. CASE p = Slot(r)
    <3>1. p[2] = r
      BY <2>2 DEF Slot
    <3> QED
      BY <1>3, <2>2, <3>1
  <2> QED
    BY <2>1, <2>2
<1>5. SlotKept(r)'
  BY <1>1, <1>3 DEF SlotKept, InRegistry
<1>6. ASSUME NEW q \in Requests, q # r PROVE SlotKept(q)'
  <2>1. Slot(q) # Slot(r)
    BY <1>6 DEF Slot
  <2>2. Slot(q) \in slots' <=> Slot(q) \in slots
    BY <2>1
  <2>3. SlotKept(q) /\ req'[q] = req[q]
    BY <1>1, <1>6 DEF SlotInv
  <2> QED
    BY <1>3, <2>2, <2>3 DEF SlotKept, InRegistry
<1> QED
  BY <1>2, <1>4, <1>5, <1>6 DEF SlotInv

(* Steps that leave requests and slots alone; fences only come on. *)
LEMMA SlotRests ==
  ASSUME SlotInv, UNCHANGED <<req, slots, released>>,
         life' \in Nat, bundle' \in Nat,
         fenced \subseteq fenced', draining \subseteq draining'
  PROVE  SlotInv'
<1>1. \A r \in Requests : Slot(r)' = Slot(r)
  BY DEF Slot
<1>2. SlotTypes'
  BY DEF SlotInv, SlotTypes
<1>3. \A r \in Requests : SlotKept(r)'
  BY <1>1 DEF SlotInv, SlotKept, InRegistry
<1> QED
  BY <1>1, <1>2, <1>3 DEF SlotInv

(* The steps of a dispatch keep every slot accounted for. *)
LEMMA DispatchKeeps ==
  ASSUME SlotInv, NEW r \in Requests, Dispatch(r)
  PROVE  SlotInv'
<1>0. SlotKept(r) /\ SlotTypes /\ \A p \in slots : p[2] \in Requests /\ p = Slot(p[2])
  BY DEF SlotInv
<1>1. CASE LoadBundle(r)
  <2>1. /\ req[r].at = "idle"
        /\ req' = [req EXCEPT ![r] = [at |-> "loaded", life |-> bundle]]
        /\ UNCHANGED <<life, bundle, fenced, draining, slots, released>>
    BY <1>1 DEF LoadBundle, pubVars, clientVars
  <2>2. /\ req' \in [Requests -> [at : RequestPlaces, life : Nat]]
        /\ req'[r].at = "loaded"
        /\ \A q \in Requests : q # r => req'[q] = req[q]
    BY <1>0, <2>1 DEF SlotTypes, RequestPlaces
  <2>3. \A p \in slots : p[2] # r
    BY <1>0, <2>1 DEF SlotKept, Slotless
  <2>4. Slot(r)' \notin slots
    <3>1. Slot(r)'[2] = r
      BY DEF Slot
    <3> QED
      BY <2>3, <3>1
  <2>5. \A q \in Requests : q # r => Slot(q)' = Slot(q)
    BY <2>2 DEF Slot
  <2>6. SlotTypes'
    BY <1>0, <2>1, <2>2 DEF SlotTypes
  <2>7. \A p \in slots' : p[2] \in Requests /\ p = Slot(p[2])'
    BY <1>0, <2>1, <2>3, <2>5
  <2>8. SlotKept(r)'
    BY <2>1, <2>2, <2>4 DEF SlotKept
  <2>9. ASSUME NEW q \in Requests, q # r PROVE SlotKept(q)'
    BY <2>1, <2>2, <2>5, <2>9 DEF SlotInv, SlotKept, InRegistry
  <2> QED
    BY <2>6, <2>7, <2>8, <2>9 DEF SlotInv
<1> USE DEF Request, RequestPlaces, Slotless, pubVars, clientVars, AbortAmbiguousDispatch
<1>2. CASE BeginDispatch(r) \/ Issue(r) \/ NotIssued(r)
  <2>1. PICK to \in {"over", "begun", "issued"} :
          /\ req' = [req EXCEPT ![r].at = to] /\ req[r].at \in {"loaded", "begun"}
          /\ UNCHANGED <<life, bundle, fenced, draining, slots, released>>
    BY <1>2 DEF BeginDispatch, Issue, NotIssued
  <2> QED
    BY <1>0, <2>1, SlotMoves DEF SlotKept
<1>3. CASE HomeAnswers(r)
  <2>1. PICK answer \in {"slot", "plain", "garbled", "none"} :
          /\ req' = [req EXCEPT ![r].at = answer] /\ req[r].at = "issued"
          /\ slots' = IF answer \in {"plain", "none"} THEN slots ELSE slots \cup {Slot(r)}
          /\ UNCHANGED <<life, bundle, fenced, draining, released>>
    BY <1>3 DEF HomeAnswers, Slot
  <2> QED
    BY <1>0, <2>1, SlotMoves DEF SlotKept
<1>4. CASE AnswerLost(r) \/ Garbled(r)
  <2>1. /\ req' = [req EXCEPT ![r].at = "lost"]
        /\ fenced' = fenced \cup {req[r].life}
        /\ UNCHANGED <<life, bundle, draining, slots, released>>
    BY <1>4 DEF AnswerLost, Garbled
  <2> QED
    BY <2>1, SlotMoves
<1>5. CASE PendingEnds(r)
  <2>1. /\ req' = [req EXCEPT ![r].at = "over"] /\ req[r].at \in {"lost", "none"}
        /\ UNCHANGED <<life, bundle, fenced, draining, slots, released>>
    BY <1>5 DEF PendingEnds
  <2> QED
    BY <1>0, <2>1, SlotMoves DEF SlotKept
<1>6. CASE Install(r)
  <2>1. PICK to \in {"refused", "running"} :
          /\ req' = [req EXCEPT ![r].at = to]
          /\ to = "refused" => req[r].life \in draining
          /\ UNCHANGED <<life, bundle, fenced, draining, slots, released>>
    BY <1>6 DEF Install
  <2> QED
    BY <2>1, SlotMoves
<1>7. CASE Refused(r)
  <2>1. /\ req' = [req EXCEPT ![r].at = "over"]
        /\ fenced' = fenced \cup {req[r].life}
        /\ UNCHANGED <<life, bundle, draining, slots, released>>
    BY <1>7 DEF Refused
  <2> QED
    BY <2>1, SlotMoves
<1>8. CASE Rejected(r)
  <2>1. /\ req' = [req EXCEPT ![r].at = "rejected"]
        /\ fenced' = fenced \cup {req[r].life}
        /\ UNCHANGED <<life, bundle, draining, slots, released>>
    BY <1>8 DEF Rejected
  <2> QED
    BY <2>1, SlotMoves
<1>9. CASE EndScope(r)
  <2>1. /\ req' = [req EXCEPT ![r].at = "over"]
        /\ released' = released \cup ({Slot(r)} \cap slots)
        /\ UNCHANGED <<life, bundle, fenced, draining, slots>>
    BY <1>9 DEF EndScope, Slot
  <2> QED
    BY <2>1, SlotMoves
<1> QED
  BY <1>1, <1>2, <1>3, <1>4, <1>5, <1>6, <1>7, <1>8, <1>9 DEF Dispatch

(* So does every other step. *)
LEMMA SlotStep == SlotInv /\ [Next]_vars => SlotInv'
<1> SUFFICES ASSUME SlotInv, [Next]_vars PROVE SlotInv'
  OBVIOUS
<1>0. life \in Nat /\ bundle \in Nat
  BY DEF SlotInv, SlotTypes
<1> USE DEF Subscriber, pubVars, clientVars, reqVars
<1>1. CASE Subscribe
  <2>1. UNCHANGED <<req, slots, released>>
    BY <1>1 DEF Subscribe, BeginLifetime, GetConfig, Subscribed, ReceiveConfig,
       SubscriptionEnds, CancelLifetime, JoinWorker, JoinPublisher, Detach, ClearBundle,
       ClearCurrent, Drain, DrainDone, FlushDone, DrainOrFlushExpires, CloseLifetime,
       SubscriberReturns
  <2>2. life' \in Nat
    BY <1>0, <1>1 DEF Subscribe, BeginLifetime, GetConfig, Subscribed, ReceiveConfig,
       SubscriptionEnds, CancelLifetime, JoinWorker, JoinPublisher, Detach, ClearBundle,
       ClearCurrent, Drain, DrainDone, FlushDone, DrainOrFlushExpires, CloseLifetime,
       SubscriberReturns
  <2>3. bundle' \in Nat
    BY <1>0, <1>1 DEF Subscribe, BeginLifetime, GetConfig, Subscribed, ReceiveConfig,
       SubscriptionEnds, CancelLifetime, JoinWorker, JoinPublisher, Detach, ClearBundle,
       ClearCurrent, Drain, DrainDone, FlushDone, DrainOrFlushExpires, CloseLifetime,
       SubscriberReturns, None
  <2>4. fenced \subseteq fenced' /\ draining \subseteq draining'
    BY <1>1 DEF Subscribe, BeginLifetime, GetConfig, Subscribed, ReceiveConfig,
       SubscriptionEnds, CancelLifetime, JoinWorker, JoinPublisher, Detach, ClearBundle,
       ClearCurrent, Drain, DrainDone, FlushDone, DrainOrFlushExpires, CloseLifetime,
       SubscriberReturns
  <2> QED
    BY <2>1, <2>2, <2>3, <2>4, SlotRests
<1>2. CASE Work
  <2>1. UNCHANGED <<life, req, slots, released, fenced, draining>>
        /\ bundle' \in {bundle, life}
    BY <1>2 DEF Work, WorkerStops, WorkerReady, Dequeue, Stage, CommitCheck, CommitStore,
       ApplyRuntime, Finalize, StartPublisher
  <2> QED
    BY <1>0, <2>1, SlotRests
<1>3. CASE PublisherStops \/ CloseOnCancellation \/ Signal \/ RunReturns
           \/ CancelSupervisor \/ JoinSupervisor \/ UNCHANGED vars
  <2>1. /\ UNCHANGED <<life, req, slots, released, draining>> /\ fenced \subseteq fenced'
        /\ bundle' \in {bundle, 0}
    BY <1>3 DEF PublisherStops, CloseOnCancellation, Signal, RunReturns, CancelSupervisor,
       JoinSupervisor, vars, None
  <2> QED
    BY <1>0, <2>1, SlotRests
<1>4. CASE Report
  <2>1. PICK p \in released : released' = released \ {p} /\ slots' = slots \ {p}
    BY <1>4 DEF Report
  <2>2. UNCHANGED <<req, life, bundle, fenced, draining>>
    BY <1>4 DEF Report
  <2>3. \A r \in Requests : Slot(r)' = Slot(r)
    BY <2>2 DEF Slot
  <2>4. \A r \in Requests : SlotKept(r)'
    BY <2>1, <2>2, <2>3 DEF SlotInv, SlotKept, InRegistry
  <2> QED
    BY <2>1, <2>2, <2>3, <2>4 DEF SlotInv, SlotTypes
<1> QED
  BY <1>1, <1>2, <1>3, <1>4, DispatchKeeps DEF Next

(* A slot that Home has booked for a lifetime that goes on belongs to a    *)
(* dispatch under way or to a release that will be reported; whenever the  *)
(* gateway cannot know, the client is fenced (AbortAmbiguousDispatch) or   *)
(* the lifetime is draining.                                               *)
THEOREM SlotsSafe == Spec => []SlotsAccounted
<1>1. Init => SlotInv
  BY DEF Init, SlotInv, SlotTypes, SlotKept, RequestPlaces, None
<1>2. SlotInv => SlotsAccounted
  BY DEF SlotInv, SlotKept, SlotsAccounted, Slot
<1> QED
  BY <1>1, <1>2, SlotStep, PTL DEF Spec

----------------------------------------------------------------------------
(* What is attached to a lifetime *)

Serving == {"connect", "subscribe", "receive", "ended", "joinWorker"}
Off == {"drain", "draining", "flush", "close", "new", "done"}
SubPlaces == Serving \cup {"joinPublisher", "detach", "clearBundle", "clearCurrent"} \cup Off

(* The service's client, the manager's bundle and home.Current are set     *)
(* together by the worker of the lifetime, and taken down one after the    *)
(* other once worker and publisher are gone.                               *)
AttachInv ==
  /\ sub \in SubPlaces
  /\ sub \notin Serving => worker = "exit"
  /\ publisher = "running" => sub \in Serving \cup {"joinPublisher"}
  /\ current \in {None, life}
  /\ bundle # current => sub = "clearCurrent" /\ bundle = None
  /\ client # bundle => sub = "clearBundle"
  /\ sub \in {"clearBundle", "clearCurrent"} => client = None
  /\ sub = "clearCurrent" => bundle = None
  /\ sub \in Off => current = None

(* A step that moves neither the subscriber nor what is attached, nor      *)
(* brings the worker back.                                                 *)
LEMMA AttachRests ==
  ASSUME AttachInv, UNCHANGED <<sub, life, publisher, client, bundle, current>>,
         worker = "exit" => worker' = "exit"
  PROVE  AttachInv'
BY DEF AttachInv

(* The subscriber's own steps *)
LEMMA AttachSubscribe == AttachInv /\ Subscribe => AttachInv'
<1> SUFFICES ASSUME AttachInv, Subscribe PROVE AttachInv'
  OBVIOUS
<1> USE DEF Subscriber, pubVars, workVars, AttachInv, Serving, Off, SubPlaces
<1>1. CASE BeginLifetime
  BY <1>1 DEF BeginLifetime
<1>2. CASE GetConfig \/ ReceiveConfig
  BY <1>2 DEF GetConfig, ReceiveConfig, onConfig
<1>3. CASE Subscribed \/ SubscriptionEnds \/ CancelLifetime
  BY <1>3 DEF Subscribed, SubscriptionEnds, CancelLifetime
<1>4. CASE JoinWorker \/ JoinPublisher
  BY <1>4 DEF JoinWorker, JoinPublisher
<1>5. CASE Detach
  BY <1>5 DEF Detach
<1>6. CASE ClearBundle
  BY <1>6 DEF ClearBundle
<1>7. CASE ClearCurrent
  BY <1>7 DEF ClearCurrent
<1>8. CASE Drain \/ DrainDone \/ FlushDone \/ DrainOrFlushExpires \/ CloseLifetime
           \/ SubscriberReturns
  BY <1>8 DEF Drain, DrainDone, FlushDone, DrainOrFlushExpires, CloseLifetime,
              SubscriberReturns
<1> QED
  BY <1>1, <1>2, <1>3, <1>4, <1>5, <1>6, <1>7, <1>8 DEF Subscribe

(* The invariant is kept by every step. *)
LEMMA AttachStep == AttachInv /\ [Next]_vars => AttachInv'
<1> SUFFICES ASSUME AttachInv, [Next]_vars PROVE AttachInv'
  OBVIOUS
<1> USE DEF pubVars, workVars
<1>1. CASE Subscribe
  BY <1>1, AttachSubscribe
<1>2. CASE WorkerStops \/ WorkerReady \/ Dequeue \/ Stage \/ CommitCheck \/ CommitStore
           \/ ApplyRuntime
  BY <1>2, AttachRests DEF WorkerStops, WorkerReady, Dequeue, Stage, CommitCheck,
     CommitStore, ApplyRuntime, Worker
<1>3. CASE Finalize
  BY <1>3 DEF Finalize, Worker, AttachInv, Serving, Off
<1>4. CASE StartPublisher
  BY <1>4 DEF StartPublisher, Worker, AttachInv
<1>5. CASE PublisherStops
  BY <1>5 DEF PublisherStops, AttachInv
<1>6. ASSUME NEW r \in Requests, Dispatch(r) PROVE AttachInv'
  <2>1. UNCHANGED <<sub, life, worker, publisher, client, bundle, current>>
    BY <1>6 DEF Dispatch, LoadBundle, BeginDispatch, Issue, NotIssued, HomeAnswers,
       AnswerLost, Garbled, PendingEnds, Install, Refused, Rejected, EndScope, Request
  <2> QED
    BY <2>1, AttachRests
<1>7. CASE CloseOnCancellation \/ Report \/ Signal \/ RunReturns \/ CancelSupervisor
           \/ UNCHANGED vars
  BY <1>7, AttachRests DEF CloseOnCancellation, Report, Signal, RunReturns, CancelSupervisor, vars
<1>8. CASE JoinSupervisor
  BY <1>8 DEF JoinSupervisor, AttachInv, Off
<1> QED
  BY <1>1, <1>2, <1>3, <1>4, <1>5, <1>6, <1>7, <1>8 DEF Next, Work

(* What a lifetime was attached to is detached before it drains: no        *)
(* request finds it and no snapshot of it is published any more            *)
(* (detachHomeSubscriberLifetime after the joins of runHomeSubscriber).    *)
THEOREM Detached == Spec => []DetachedFromUse
<1>1. Init => AttachInv
  BY DEF Init, AttachInv, SubPlaces, Off, Serving
<1>2. AttachInv => DetachedFromUse
  BY DEF AttachInv, DetachedFromUse, Off, Serving
<1> QED
  BY <1>1, <1>2, AttachStep, PTL DEF Spec

----------------------------------------------------------------------------
(* The order of configurations *)

CommitTypes ==
  /\ received \in Nat /\ cfg \in Nat /\ work \in Nat
  /\ queue \in Seq(Nat)

(* Numbers wait in the order they came, all newer than what is in force. *)
QueueOrdered ==
  /\ \A i \in 1..Len(queue) : queue[i] <= received /\ queue[i] > cfg
  /\ \A i, j \in 1..Len(queue) : i < j => queue[i] < queue[j]

Applying == {"stage", "commit", "store"}

(* The one the worker is about to put in force lies between. *)
WorkOrdered ==
  worker \in Applying =>
    /\ work > cfg /\ work <= received
    /\ \A i \in 1..Len(queue) : queue[i] > work

(* The worker stores under homeConfigCommitMu, and Shutdown cancels under  *)
(* it.                                                                     *)
StoreLocked == worker = "store" => commitMu = "worker" /\ ~cancelled

CommitInv ==
  /\ CommitTypes /\ cfg <= received
  /\ QueueOrdered /\ WorkOrdered /\ StoreLocked

(* A step that moves no number and takes the worker no nearer to a store. *)
LEMMA CommitRests ==
  ASSUME CommitInv, UNCHANGED <<received, cfg, work, queue>>,
         worker' \in Applying => worker \in Applying, StoreLocked'
  PROVE  CommitInv'
BY DEF CommitInv, CommitTypes, QueueOrdered, WorkOrdered

(* A configuration that arrives is newer than all that wait. *)
LEMMA CommitReceives ==
  ASSUME CommitInv, onConfig, UNCHANGED <<cfg, cancelled>>
  PROVE  CommitInv'
<1> DEFINE n == received + 1
<1>1. /\ received' = n /\ queue' = Append(queue, n) /\ n \in Nat
      /\ UNCHANGED <<worker, work, commitMu, cfg>>
  BY DEF onConfig, CommitInv, CommitTypes
<1>2. /\ Len(queue) \in Nat /\ Len(queue') = Len(queue) + 1 /\ queue' \in Seq(Nat)
      /\ \A i \in 1..Len(queue) : queue'[i] = queue[i] /\ queue[i] \in Nat
      /\ queue'[Len(queue) + 1] = n
  BY <1>1 DEF CommitInv, CommitTypes
<1>3. \A i \in 1..Len(queue') : i \in 1..Len(queue) \/ i = Len(queue) + 1
  BY <1>2
<1>4. CommitTypes' /\ cfg' <= received'
  BY <1>1, <1>2 DEF CommitInv, CommitTypes
<1>5. QueueOrdered'
  <2>1. ASSUME NEW i \in 1..Len(queue') PROVE queue'[i] <= received' /\ queue'[i] > cfg'
    BY <1>1, <1>2, <1>3 DEF CommitInv, CommitTypes, QueueOrdered
  <2>2. ASSUME NEW i \in 1..Len(queue'), NEW j \in 1..Len(queue'), i < j
        PROVE  queue'[i] < queue'[j]
    <3>1. i \in 1..Len(queue)
      BY <1>2, <1>3, <2>2
    <3>2. queue[i] <= received /\ queue'[i] = queue[i] /\ queue[i] \in Nat
      BY <1>2, <3>1 DEF CommitInv, QueueOrdered
    <3>3. CASE j \in 1..Len(queue)
      BY <1>2, <2>2, <3>1, <3>3 DEF CommitInv, QueueOrdered
    <3>4. CASE j = Len(queue) + 1
      BY <1>2, <3>2, <3>4 DEF CommitInv, CommitTypes
    <3> QED
      BY <1>3, <3>3, <3>4
  <2> QED
    BY <2>1, <2>2 DEF QueueOrdered
<1>6. WorkOrdered'
  BY <1>1, <1>2, <1>3 DEF CommitInv, CommitTypes, WorkOrdered
<1>7. StoreLocked'
  BY <1>1 DEF CommitInv, StoreLocked
<1> QED
  BY <1>4, <1>5, <1>6, <1>7 DEF CommitInv

(* The worker takes the oldest. *)
LEMMA CommitDequeues == CommitInv /\ Dequeue => CommitInv'
<1> SUFFICES ASSUME CommitInv, Dequeue PROVE CommitInv'
  OBVIOUS
<1>1. /\ queue # <<>> /\ work' = Head(queue) /\ queue' = Tail(queue)
      /\ worker' = "stage" /\ UNCHANGED <<received, cfg>>
  BY DEF Dequeue, Worker, pubVars
<1>2. /\ Len(queue) \in Nat /\ Len(queue) >= 1 /\ work' = queue[1] /\ queue[1] \in Nat
      /\ queue' \in Seq(Nat) /\ Len(queue') = Len(queue) - 1
      /\ \A i \in 1..Len(queue') : queue'[i] = queue[i + 1] /\ i + 1 \in 1..Len(queue)
                                   /\ queue[i + 1] \in Nat
  BY <1>1 DEF CommitInv, CommitTypes
<1>3. CommitTypes' /\ cfg' <= received' /\ StoreLocked'
  BY <1>1, <1>2 DEF CommitInv, CommitTypes, StoreLocked
<1>4. QueueOrdered'
  <2>1. ASSUME NEW i \in 1..Len(queue') PROVE queue'[i] <= received' /\ queue'[i] > cfg'
    BY <1>1, <1>2 DEF CommitInv, QueueOrdered
  <2>2. ASSUME NEW i \in 1..Len(queue'), NEW j \in 1..Len(queue'), i < j
        PROVE  queue'[i] < queue'[j]
    <3>1. queue'[i] = queue[i + 1] /\ queue'[j] = queue[j + 1] /\ i + 1 < j + 1
          /\ i + 1 \in 1..Len(queue) /\ j + 1 \in 1..Len(queue)
      BY <1>2, <2>2
    <3> QED
      BY <3>1 DEF CommitInv, QueueOrdered
  <2> QED
    BY <2>1, <2>2 DEF QueueOrdered
<1>5. WorkOrdered'
  <2>1. work' > cfg' /\ work' <= received'
    BY <1>1, <1>2 DEF CommitInv, QueueOrdered
  <2>2. ASSUME NEW i \in 1..Len(queue') PROVE queue'[i] > work'
    <3>1. queue'[i] = queue[i + 1] /\ 1 < i + 1
          /\ i + 1 \in 1..Len(queue) /\ 1 \in 1..Len(queue) /\ queue[i + 1] \in Nat
      BY <1>2
    <3>2. queue[1] < queue[i + 1]
      BY <3>1 DEF CommitInv, QueueOrdered
    <3> QED
      BY <1>2, <3>1, <3>2
  <2> QED
    BY <2>1, <2>2 DEF WorkOrdered
<1> QED
  BY <1>3, <1>4, <1>5 DEF CommitInv

(* It puts it in force while it holds the mutex. *)
LEMMA CommitStores == CommitInv /\ CommitStore => CommitInv'
<1> SUFFICES ASSUME CommitInv, CommitStore PROVE CommitInv'
  OBVIOUS
<1>1. /\ worker = "store" /\ worker' = "apply" /\ cfg' = work
      /\ UNCHANGED <<queue, received, work>>
  BY DEF CommitStore, Worker
<1>2. work <= received /\ \A i \in 1..Len(queue) : queue[i] > work
  BY <1>1 DEF CommitInv, WorkOrdered, Applying
<1>3. CommitTypes' /\ cfg' <= received' /\ WorkOrdered' /\ StoreLocked'
  BY <1>1, <1>2 DEF CommitInv, CommitTypes, WorkOrdered, StoreLocked, Applying
<1>4. QueueOrdered'
  BY <1>1, <1>2 DEF CommitInv, QueueOrdered
<1> QED
  BY <1>3, <1>4 DEF CommitInv

(* The invariant is kept by every step. *)
LEMMA CommitStep == CommitInv /\ [Next]_vars => CommitInv'
<1> SUFFICES ASSUME CommitInv, [Next]_vars PROVE CommitInv'
  OBVIOUS
<1> USE DEF pubVars, workVars, ctxVars
<1>0. StoreLocked
  BY DEF CommitInv
<1>1. CASE BeginLifetime
  <2>1. /\ queue' = <<>> /\ worker' = "wait" /\ UNCHANGED <<received, work, cfg>>
    BY <1>1 DEF BeginLifetime
  <2> QED
    BY <2>1 DEF CommitInv, CommitTypes, QueueOrdered, WorkOrdered, StoreLocked, Applying
<1>2. CASE GetConfig \/ ReceiveConfig
  BY <1>2, CommitReceives DEF GetConfig, ReceiveConfig
<1>3. ASSUME UNCHANGED <<worker, commitMu, cancelled, received, cfg, work, queue>>
      PROVE  CommitInv'
  BY <1>0, <1>3, CommitRests DEF StoreLocked
<1>4. CASE Subscribed \/ SubscriptionEnds \/ CancelLifetime \/ JoinWorker \/ JoinPublisher
           \/ Detach \/ ClearBundle \/ ClearCurrent
  BY <1>3, <1>4 DEF Subscribed, SubscriptionEnds, CancelLifetime, JoinWorker,
     JoinPublisher, Detach, ClearBundle, ClearCurrent
<1>5. CASE Drain \/ DrainDone \/ FlushDone \/ DrainOrFlushExpires \/ CloseLifetime
           \/ SubscriberReturns
  BY <1>3, <1>5 DEF Drain, DrainDone, FlushDone, DrainOrFlushExpires, CloseLifetime,
     SubscriberReturns
<1>6. CASE WorkerStops \/ WorkerReady \/ ApplyRuntime \/ Finalize \/ StartPublisher
  <2>1. /\ worker' \in {"exit", "dequeue", "finalize", "start"}
        /\ UNCHANGED <<received, cfg, work, queue>>
    BY <1>6 DEF WorkerStops, WorkerReady, ApplyRuntime, Finalize, StartPublisher, Worker
  <2> QED
    BY <2>1, CommitRests DEF StoreLocked, Applying
<1>7. CASE Stage
  BY <1>7, CommitRests DEF Stage, Worker, StoreLocked, Applying
<1>8. CASE CommitCheck
  <2>1. /\ worker = "commit" /\ worker' = IF LifeDone THEN "exit" ELSE "store"
        /\ commitMu' = IF LifeDone THEN "free" ELSE "worker"
        /\ UNCHANGED <<cancelled, received, cfg, work, queue>>
    BY <1>8 DEF CommitCheck, Worker
  <2>2. StoreLocked'
    BY <2>1 DEF StoreLocked, LifeDone, HomeDone
  <2> QED
    BY <2>1, <2>2, CommitRests DEF Applying
<1>9. CASE Dequeue \/ CommitStore
  BY <1>9, CommitDequeues, CommitStores
<1>10. ASSUME NEW r \in Requests, Dispatch(r) PROVE CommitInv'
  <2>1. UNCHANGED <<worker, commitMu, cancelled, received, cfg, work, queue>>
    BY <1>10 DEF Dispatch, LoadBundle, BeginDispatch, Issue, NotIssued, HomeAnswers,
       AnswerLost, Garbled, PendingEnds, Install, Refused, Rejected, EndScope, Request
  <2> QED
    BY <1>3, <2>1
<1>11. CASE PublisherStops \/ CloseOnCancellation \/ Report \/ Signal \/ RunReturns \/ JoinSupervisor
            \/ UNCHANGED vars
  BY <1>3, <1>11 DEF PublisherStops, CloseOnCancellation, Report, Signal, RunReturns, JoinSupervisor, vars
<1>12. CASE CancelSupervisor
  <2>1. commitMu = "free" /\ UNCHANGED <<worker, commitMu, received, cfg, work, queue>>
    BY <1>12 DEF CancelSupervisor
  <2>2. worker # "store"
    BY <1>0, <2>1 DEF StoreLocked
  <2> QED
    BY <2>1, <2>2, CommitRests DEF StoreLocked
<1> QED
  BY <1>1, <1>2, <1>4, <1>5, <1>6, <1>7, <1>8, <1>9, <1>10, <1>11, <1>12
     DEF Next, Subscribe, Work

(* Configurations come into force in the order Home sent them, and none    *)
(* once Shutdown has cancelled the subscriber (runHomeConfigWorker,        *)
(* commitHomeConfig).                                                      *)
THEOREM CommitsOrdered == Spec => CommitsInOrder
<1>1. Init => CommitInv
  BY DEF Init, CommitInv, CommitTypes, QueueOrdered, WorkOrdered, StoreLocked, Applying
<1>2. CommitInv /\ [Next]_vars => [cfg' # cfg => cfg' > cfg /\ ~cancelled]_vars
  <2> SUFFICES ASSUME CommitInv, Next, cfg' # cfg PROVE cfg' > cfg /\ ~cancelled
    OBVIOUS
  <2>1. CommitStore
    <3> USE DEF pubVars
    <3>1. Subscribe => UNCHANGED cfg
      BY DEF Subscribe, BeginLifetime, GetConfig, Subscribed, ReceiveConfig,
         SubscriptionEnds, CancelLifetime, JoinWorker, JoinPublisher, Detach, ClearBundle,
         ClearCurrent, Drain, DrainDone, FlushDone, DrainOrFlushExpires, CloseLifetime,
         SubscriberReturns
    <3>2. \A r \in Requests : Dispatch(r) => UNCHANGED cfg
      BY DEF Dispatch, LoadBundle, BeginDispatch, Issue, NotIssued, HomeAnswers,
         AnswerLost, Garbled, PendingEnds, Install, Refused, Rejected, EndScope, Request
    <3>3. Work => UNCHANGED cfg \/ CommitStore
      BY DEF Work, WorkerStops, WorkerReady, Dequeue, Stage, CommitCheck, ApplyRuntime,
         Finalize, StartPublisher
    <3> QED
      BY <3>1, <3>2, <3>3 DEF Next, PublisherStops, CloseOnCancellation, Report, Signal, RunReturns,
         CancelSupervisor, JoinSupervisor
  <2> QED
    BY <2>1 DEF CommitStore, Worker, CommitInv, CommitTypes, WorkOrdered, StoreLocked,
                Applying
<1> QED
  BY <1>1, <1>2, CommitStep, PTL DEF Spec, CommitsInOrder

=============================================================================
