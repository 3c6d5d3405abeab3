--------------------------- MODULE HomeLifetime ---------------------------
(***************************************************************************)
(* The lifetimes of a Home connection (sdk/cliproxy/service_home.go): the  *)
(* subscriber goroutine opens one lifetime after the other, each with a    *)
(* client, a registry, a worker that applies configurations and a          *)
(* publisher of in-flight snapshots; requests dispatch through the         *)
(* lifetime that is published; Shutdown ends it all.                       *)
(*                                                                         *)
(* A dispatch asks Home for a slot.  When the answer is lost the gateway   *)
(* cannot know whether Home gave one: it fences the client, which ends the *)
(* lifetime and with it whatever Home has booked for it.                   *)
(*                                                                         *)
(* One action is one critical section, one channel operation or one call   *)
(* to Home.  The registry and the flusher are what ExecutionRegistry and   *)
(* ReleaseFlusher show them to be: Drain waits for tokens and scopes,      *)
(* Flush for reports.  The service starts one subscriber and never another *)
(* (Service.Run), so homeGeneration is constant while it runs.             *)
(***************************************************************************)
EXTENDS Naturals, Sequences

CONSTANTS
  Requests,     \* requests, each with one dispatch
  MaxLifetimes, \* bound: lifetimes
  MaxConfigs    \* bound: configurations received

ASSUME LifetimeAssumption ==
  /\ MaxLifetimes \in Nat \ {0}
  /\ MaxConfigs \in Nat

None == 0
Lifetimes == 1..MaxLifetimes

VARIABLES
  sub,       \* where the subscriber goroutine is
  life,      \* the number of its lifetime
  failed,    \* the lifetime did not drain or flush in time
  run,       \* the context of Service.Run is done
  cancelled, \* the supervisor's context was cancelled by Shutdown
  ended,     \* the lifetime's own context is done
  queue,     \* configurations the worker has yet to apply
  received,  \* number of configurations received
  ready,     \* the subscription is acknowledged
  worker,    \* where the configuration worker is
  work,      \* the configuration it applies
  commitMu,  \* homeConfigCommitMu: "free" or held by the "worker"
  published, \* this lifetime was published
  publisher, \* the in-flight publisher: "none", "running", "done"
  client,    \* Service.homeClient, homeRegistry and homeDispatchBundle
  bundle,    \* Manager.homeDispatchBundle, which requests read
  current,   \* home.Current
  cfg,       \* the configuration in force
  beat,      \* lifetimes whose client has a heartbeat
  fenced,    \* lifetimes whose client is fenced
  draining,  \* lifetimes whose registry does not accept dispatches
  req,       \* where each request is, and in which lifetime
  slots,     \* external: the slots Home has booked
  released,  \* scopes that ended and are not reported yet
  shutdown   \* where Shutdown is

ctxVars == <<run, cancelled, ended>>
workVars == <<queue, received, ready, worker, work, commitMu>>
pubVars == <<published, publisher, client, bundle, current, cfg>>
clientVars == <<beat, fenced, draining>>
reqVars == <<req, slots, released>>
vars == <<sub, life, failed, ctxVars, workVars, pubVars, clientVars, reqVars, shutdown>>

HomeDone == run \/ cancelled
LifeDone == HomeDone \/ ended

Init ==
  /\ sub = "new"
  /\ life = None
  /\ failed = FALSE
  /\ run = FALSE
  /\ cancelled = FALSE
  /\ ended = FALSE
  /\ queue = <<>>
  /\ received = 0
  /\ ready = FALSE
  /\ worker = "exit"
  /\ work = 0
  /\ commitMu = "free"
  /\ published = FALSE
  /\ publisher = "none"
  /\ client = None
  /\ bundle = None
  /\ current = None
  /\ cfg = 0
  /\ beat = {}
  /\ fenced = {}
  /\ draining = {}
  /\ req = [r \in Requests |-> [at |-> "idle", life |-> None]]
  /\ slots = {}
  /\ released = {}
  /\ shutdown = "off"

-----------------------------------------------------------------------------
(***************************************************************************)
(* runHomeSubscriber.                                                      *)
(***************************************************************************)
Subscriber(from, to) == sub = from /\ sub' = to

BeginLifetime ==
  /\ Subscriber("new", "connect")
  /\ ~HomeDone /\ life < MaxLifetimes
  /\ life' = life + 1
  /\ ended' = FALSE
  /\ queue' = <<>>
  /\ ready' = FALSE
  /\ worker' = "wait"
  /\ published' = FALSE
  /\ publisher' = "none"
  /\ UNCHANGED <<failed, run, cancelled, received, work, commitMu, client, bundle,
                 current, cfg, clientVars, reqVars, shutdown>>

\* The callback of RunConfigSubscriberLifetime for a valid payload.
onConfig ==
  /\ received < MaxConfigs
  /\ received' = received + 1
  /\ queue' = Append(queue, received')
  /\ UNCHANGED <<ready, worker, work, commitMu>>

\* GET config, then SUBSCRIBE, its acknowledgement and the probe.
GetConfig ==
  /\ Subscriber("connect", "subscribe")
  /\ onConfig
  /\ UNCHANGED <<life, failed, ctxVars, pubVars, clientVars, reqVars, shutdown>>

Subscribed ==
  /\ Subscriber("subscribe", "receive")
  /\ ready' = TRUE
  /\ beat' = beat \cup {life}
  /\ UNCHANGED <<life, failed, ctxVars, queue, received, worker, work, commitMu, pubVars,
                 fenced, draining, reqVars, shutdown>>

ReceiveConfig ==
  /\ Subscriber("receive", "receive")
  /\ onConfig
  /\ UNCHANGED <<life, failed, ctxVars, pubVars, clientVars, reqVars, shutdown>>

\* Home does not answer, the heartbeat is lost, the connections of a fenced
\* client are closed, or the context is done.
SubscriptionEnds ==
  /\ sub \in {"connect", "subscribe", "receive"}
  /\ sub' = "ended"
  /\ beat' = beat \ {life}
  /\ UNCHANGED <<life, failed, ctxVars, workVars, pubVars, fenced, draining, reqVars,
                 shutdown>>

CancelLifetime ==
  /\ Subscriber("ended", "joinWorker")
  /\ ended' = TRUE
  /\ UNCHANGED <<life, failed, run, cancelled, workVars, pubVars, clientVars, reqVars,
                 shutdown>>

\* Seeded fault: the lifetime goes on while its worker may still publish it.
JoinWorkerNot ==
  /\ Subscriber("joinWorker", "joinPublisher")
  /\ UNCHANGED <<life, failed, ctxVars, workVars, pubVars, clientVars, reqVars, shutdown>>

JoinWorker ==
  /\ Subscriber("joinWorker", "joinPublisher")
  /\ worker = "exit"
  /\ UNCHANGED <<life, failed, ctxVars, workVars, pubVars, clientVars, reqVars, shutdown>>

JoinPublisher ==
  /\ Subscriber("joinPublisher", "detach")
  /\ publisher # "running"
  /\ UNCHANGED <<life, failed, ctxVars, workVars, pubVars, clientVars, reqVars, shutdown>>

\* detachHomeSubscriberLifetime: under homeMu, then the two atomics, each only
\* if it is still this lifetime's.
Detach ==
  /\ Subscriber("detach", IF client = life THEN "clearBundle" ELSE "clearCurrent")
  /\ client' = IF client = life THEN None ELSE client
  /\ UNCHANGED <<life, failed, ctxVars, workVars, published, publisher, bundle, current,
                 cfg, clientVars, reqVars, shutdown>>

ClearBundle ==
  /\ Subscriber("clearBundle", "clearCurrent")
  /\ bundle' = IF bundle = life THEN None ELSE bundle
  /\ UNCHANGED <<life, failed, ctxVars, workVars, published, publisher, client, current,
                 cfg, clientVars, reqVars, shutdown>>

ClearCurrent ==
  /\ Subscriber("clearCurrent", "drain")
  /\ current' = IF current = life THEN None ELSE current
  /\ UNCHANGED <<life, failed, ctxVars, workVars, published, publisher, client, bundle,
                 cfg, clientVars, reqVars, shutdown>>

\* Drain refuses new dispatches and waits for tokens and scopes, up to a bound.
Drain ==
  /\ Subscriber("drain", "draining")
  /\ draining' = draining \cup {life}
  /\ UNCHANGED <<life, failed, ctxVars, workVars, pubVars, beat, fenced, reqVars, shutdown>>

InRegistry(r) ==
  req[r].at \in {"begun", "issued", "slot", "plain", "garbled", "none", "lost", "running",
                "rejected"}

DrainDone ==
  /\ Subscriber("draining", "flush")
  /\ \A r \in Requests : req[r].life = life => ~InRegistry(r)
  /\ UNCHANGED <<life, failed, ctxVars, workVars, pubVars, clientVars, reqVars, shutdown>>

FlushDone ==
  /\ Subscriber("flush", "close")
  /\ \A p \in released : p[1] # life
  /\ UNCHANGED <<life, failed, ctxVars, workVars, pubVars, clientVars, reqVars, shutdown>>

\* The bound passes first.  (A release is never reported through a fenced
\* client, so this is how a fenced lifetime with unreported releases ends.)
DrainOrFlushExpires ==
  /\ sub \in {"draining", "flush"}
  /\ sub' = "close"
  /\ failed' = TRUE
  /\ UNCHANGED <<life, ctxVars, workVars, pubVars, clientVars, reqVars, shutdown>>

\* client.Close; a lifetime that did not end cleanly stops the service.
CloseLifetime ==
  /\ Subscriber("close", IF failed THEN "done" ELSE "new")
  /\ fenced' = fenced \cup {life}
  /\ beat' = beat \ {life}
  /\ run' = (run \/ failed)
  /\ UNCHANGED <<life, failed, cancelled, ended, workVars, pubVars, draining, reqVars,
                 shutdown>>

SubscriberReturns ==
  /\ Subscriber("new", "done")
  /\ HomeDone
  /\ UNCHANGED <<life, failed, ctxVars, workVars, pubVars, clientVars, reqVars, shutdown>>

-----------------------------------------------------------------------------
(***************************************************************************)
(* runHomeConfigWorker.                                                    *)
(***************************************************************************)
Worker(from, to) == worker = from /\ worker' = to

\* Seeded fault: staging is retried whether or not the context is done.
WorkerStopsLate ==
  /\ LifeDone
  /\ worker \in {"wait", "dequeue", "apply", "finalize"}
  /\ worker' = "exit"
  /\ UNCHANGED <<sub, life, failed, ctxVars, queue, received, ready, work, commitMu,
                 pubVars, clientVars, reqVars, shutdown>>

\* Every wait of the worker ends with the context; so do staging, applying and
\* finalising.
WorkerStops ==
  /\ LifeDone
  /\ worker \in {"wait", "dequeue", "stage", "apply", "finalize"}
  /\ worker' = "exit"
  /\ UNCHANGED <<sub, life, failed, ctxVars, queue, received, ready, work, commitMu,
                 pubVars, clientVars, reqVars, shutdown>>

WorkerReady ==
  /\ Worker("wait", "dequeue")
  /\ ready
  /\ UNCHANGED <<sub, life, failed, ctxVars, queue, received, ready, work, commitMu,
                 pubVars, clientVars, reqVars, shutdown>>

Dequeue ==
  /\ Worker("dequeue", "stage")
  /\ ~LifeDone /\ queue # <<>>
  /\ work' = Head(queue)
  /\ queue' = Tail(queue)
  /\ UNCHANGED <<sub, life, failed, ctxVars, received, ready, commitMu, pubVars,
                 clientVars, reqVars, shutdown>>

\* Staging fails and is retried until it succeeds.
Stage ==
  /\ Worker("stage", "commit")
  /\ ~LifeDone
  /\ UNCHANGED <<sub, life, failed, ctxVars, queue, received, ready, work, commitMu,
                 pubVars, clientVars, reqVars, shutdown>>

\* commitHomeConfig looks at the contexts under homeConfigCommitMu ...
CommitCheck ==
  /\ Worker("commit", IF LifeDone THEN "exit" ELSE "store")
  /\ commitMu = "free"
  /\ commitMu' = IF LifeDone THEN "free" ELSE "worker"
  /\ UNCHANGED <<sub, life, failed, ctxVars, queue, received, ready, work, pubVars,
                 clientVars, reqVars, shutdown>>

\* ... and stores the configuration before it unlocks.
CommitStore ==
  /\ Worker("store", "apply")
  /\ cfg' = work
  /\ commitMu' = "free"
  /\ UNCHANGED <<sub, life, failed, ctxVars, queue, received, ready, work, published,
                 publisher, client, bundle, current, clientVars, reqVars, shutdown>>

ApplyRuntime ==
  /\ Worker("apply", "finalize")
  /\ ~LifeDone
  /\ UNCHANGED <<sub, life, failed, ctxVars, queue, received, ready, work, commitMu,
                 pubVars, clientVars, reqVars, shutdown>>

\* finalizeHomePluginWorkUntilDone; the first configuration publishes the
\* lifetime, under homeMu.
Finalize ==
  /\ Worker("finalize", IF published THEN "dequeue" ELSE "start")
  /\ ~LifeDone
  /\ published' = TRUE
  /\ client' = IF published THEN client ELSE life
  /\ bundle' = IF published THEN bundle ELSE life
  /\ current' = IF published THEN current ELSE life
  /\ UNCHANGED <<sub, life, failed, ctxVars, queue, received, ready, work, commitMu,
                 publisher, cfg, clientVars, reqVars, shutdown>>

\* closeHomeClientOnCancellation: the end of the context closes the client
\* while a configuration is finalised.
CloseOnCancellation ==
  /\ worker = "finalize" /\ LifeDone
  /\ fenced' = fenced \cup {life}
  /\ beat' = beat \ {life}
  /\ UNCHANGED <<sub, life, failed, ctxVars, workVars, pubVars, draining, reqVars, shutdown>>

StartPublisher ==
  /\ Worker("start", "dequeue")
  /\ publisher' = "running"
  /\ UNCHANGED <<sub, life, failed, ctxVars, queue, received, ready, work, commitMu,
                 published, client, bundle, current, cfg, clientVars, reqVars, shutdown>>

PublisherStops ==
  /\ publisher = "running" /\ LifeDone
  /\ publisher' = "done"
  /\ UNCHANGED <<sub, life, failed, ctxVars, workVars, published, client, bundle,
                 current, cfg, clientVars, reqVars, shutdown>>

-----------------------------------------------------------------------------
(***************************************************************************)
(* Requests: pickHomeDispatchSelection.                                    *)
(***************************************************************************)
Request(r, from, to) ==
  /\ req[r].at = from
  /\ req' = [req EXCEPT ![r].at = to]
  /\ UNCHANGED <<sub, life, failed, ctxVars, workVars, pubVars, shutdown>>

\* The bundle is read and its heartbeat looked at; a heartbeat once lost does
\* not come back.
LoadBundle(r) ==
  /\ req[r].at = "idle" /\ bundle # None /\ bundle \in beat
  /\ req' = [req EXCEPT ![r] = [at |-> "loaded", life |-> bundle]]
  /\ UNCHANGED <<sub, life, failed, ctxVars, workVars, pubVars, clientVars, slots,
                 released, shutdown>>

BeginDispatch(r) ==
  /\ Request(r, "loaded", IF req[r].life \in draining THEN "over" ELSE "begun")
  /\ UNCHANGED <<clientVars, slots, released>>

\* RPopAuth: the fence, the connection and a probe are looked at before the
\* command is issued; a failure here is not ambiguous.
Issue(r) ==
  /\ Request(r, "begun", "issued")
  /\ req[r].life \notin fenced
  /\ UNCHANGED <<clientVars, slots, released>>

NotIssued(r) ==
  /\ Request(r, "begun", "over")
  /\ UNCHANGED <<clientVars, slots, released>>

\* Home answers with a credential and a slot for it, with a credential it does
\* not account for, with a slot the gateway cannot read, or with neither: an
\* error, or text that is no JSON.  For such text nothing is fenced, so Home
\* is taken to book a slot only in an answer that says so.
HomeAnswers(r) ==
  /\ \E answer \in {"slot", "plain", "garbled", "none"} :
       /\ Request(r, "issued", answer)
       /\ slots' = IF answer \in {"plain", "none"} THEN slots
                   ELSE slots \cup {<<req[r].life, r>>}
  /\ UNCHANGED <<clientVars, released>>

AbortAmbiguousDispatch(l) ==
  /\ fenced' = fenced \cup {l}
  /\ beat' = beat \ {l}
  /\ UNCHANGED draining

\* Seeded fault: a lost answer counts as a refusal.
AnswerLostIgnored(r) ==
  /\ req[r].at \in {"issued", "slot", "plain", "garbled", "none"}
  /\ Request(r, req[r].at, "lost")
  /\ UNCHANGED <<clientVars, slots, released>>

\* The connection breaks or the caller goes away before the answer is read:
\* whether Home booked a slot is not known.
AnswerLost(r) ==
  /\ req[r].at \in {"issued", "slot", "plain", "garbled", "none"}
  /\ Request(r, req[r].at, "lost")
  /\ AbortAmbiguousDispatch(req[r].life)
  /\ UNCHANGED <<slots, released>>

Garbled(r) ==
  /\ Request(r, "garbled", "lost")
  /\ AbortAmbiguousDispatch(req[r].life)
  /\ UNCHANGED <<slots, released>>

\* pending.End.
PendingEnds(r) ==
  /\ req[r].at \in {"lost", "none"}
  /\ Request(r, req[r].at, "over")
  /\ UNCHANGED <<clientVars, slots, released>>

\* A registry that drains takes the token back by itself; only then the client
\* is fenced.
Install(r) ==
  /\ req[r].at \in {"slot", "plain"}
  /\ Request(r, req[r].at, IF req[r].life \in draining THEN "refused" ELSE "running")
  /\ UNCHANGED <<clientVars, slots, released>>

Refused(r) ==
  /\ Request(r, "refused", "over")
  /\ AbortAmbiguousDispatch(req[r].life)
  /\ UNCHANGED <<slots, released>>

\* The slot is for another model than the one dispatched, or came with an error.
Rejected(r) ==
  /\ <<req[r].life, r>> \in slots
  /\ Request(r, "running", "rejected")
  /\ AbortAmbiguousDispatch(req[r].life)
  /\ UNCHANGED <<slots, released>>

\* The scope ends, after an answer that is no use or after the execution; if it
\* has a slot its release is counted.
EndScope(r) ==
  /\ req[r].at \in {"running", "rejected"}
  /\ Request(r, req[r].at, "over")
  /\ released' = released \cup ({<<req[r].life, r>>} \cap slots)
  /\ UNCHANGED <<clientVars, slots>>

\* The flusher reports a release, unless the client is fenced or Run is over.
Report ==
  /\ sub \notin {"close", "new", "done"}
  /\ life \notin fenced
  /\ \E p \in released :
       /\ p[1] = life
       /\ released' = released \ {p}
       /\ slots' = slots \ {p}
  /\ UNCHANGED <<sub, life, failed, ctxVars, workVars, pubVars, clientVars, req, shutdown>>

-----------------------------------------------------------------------------
(***************************************************************************)
(* Service.Run and Shutdown.                                               *)
(***************************************************************************)
\* The process is told to stop: the context of Run, and all derived from it.
Signal ==
  /\ ~run
  /\ run' = TRUE
  /\ UNCHANGED <<sub, life, failed, cancelled, ended, workVars, pubVars, clientVars,
                 reqVars, shutdown>>

\* Run returns, because its context is done or because the server fails, and
\* calls Shutdown; so may whoever embeds the service, at any time.
RunReturns ==
  /\ shutdown = "off"
  /\ shutdown' = "begin"
  /\ UNCHANGED <<sub, life, failed, ctxVars, workVars, pubVars, clientVars, reqVars>>

\* Seeded fault: the supervisor is cancelled without the mutex.
CancelSupervisorUnlocked ==
  /\ shutdown = "begin"
  /\ cancelled' = TRUE
  /\ shutdown' = "join"
  /\ UNCHANGED <<sub, life, failed, run, ended, workVars, pubVars, clientVars, reqVars>>

CancelSupervisor ==
  /\ shutdown = "begin" /\ commitMu = "free"
  /\ cancelled' = TRUE
  /\ shutdown' = "join"
  /\ UNCHANGED <<sub, life, failed, run, ended, workVars, pubVars, clientVars, reqVars>>

\* The subscriber is awaited; then whatever is still published is taken down.
JoinSupervisor ==
  /\ shutdown = "join" /\ sub = "done"
  /\ shutdown' = "closed"
  /\ client' = None
  /\ bundle' = IF bundle = client THEN None ELSE bundle
  /\ current' = IF current = client THEN None ELSE current
  /\ UNCHANGED <<sub, life, failed, ctxVars, workVars, published, publisher, cfg,
                 clientVars, reqVars>>

-----------------------------------------------------------------------------
Subscribe ==
  \/ BeginLifetime \/ GetConfig \/ Subscribed \/ ReceiveConfig \/ SubscriptionEnds
  \/ CancelLifetime \/ JoinWorker \/ JoinPublisher
  \/ Detach \/ ClearBundle \/ ClearCurrent
  \/ Drain \/ DrainDone \/ FlushDone \/ DrainOrFlushExpires
  \/ CloseLifetime \/ SubscriberReturns

Work ==
  \/ WorkerStops \/ WorkerReady \/ Dequeue \/ Stage
  \/ CommitCheck \/ CommitStore \/ ApplyRuntime \/ Finalize \/ StartPublisher

Dispatch(r) ==
  \/ LoadBundle(r) \/ BeginDispatch(r) \/ Issue(r) \/ NotIssued(r) \/ HomeAnswers(r)
  \/ AnswerLost(r) \/ Garbled(r) \/ PendingEnds(r) \/ Install(r) \/ Refused(r)
  \/ Rejected(r) \/ EndScope(r)

Next ==
  \/ Subscribe
  \/ Work
  \/ CloseOnCancellation \/ PublisherStops
  \/ \E r \in Requests : Dispatch(r)
  \/ Report
  \/ Signal \/ RunReturns \/ CancelSupervisor \/ JoinSupervisor

Spec == Init /\ [][Next]_vars

\* Goroutines go on; a wait with a bound ends; nothing else is forced.  A
\* subscription ends in the end if its client is fenced or its context done.
SubscriberGoesOn ==
  \/ CancelLifetime \/ JoinWorker \/ JoinPublisher \/ Detach \/ ClearBundle
  \/ ClearCurrent \/ Drain \/ DrainDone \/ FlushDone \/ DrainOrFlushExpires
  \/ CloseLifetime \/ SubscriberReturns
  \/ (LifeDone \/ life \in fenced) /\ SubscriptionEnds

FairSpec ==
  /\ Spec
  /\ WF_vars(SubscriberGoesOn)
  /\ WF_vars(Work)
  /\ WF_vars(PublisherStops)
  /\ WF_vars(CancelSupervisor)
  /\ WF_vars(JoinSupervisor)

-----------------------------------------------------------------------------
\* A slot that Home has booked for a living lifetime belongs to a dispatch that
\* is still going on or to a release that will be reported: else the client is
\* fenced, so that Home gets the slot back with the lifetime.
SlotsAccounted ==
  \A p \in slots :
    \/ req[p[2]].life = p[1] /\ InRegistry(p[2])
    \/ p \in released
    \/ p[1] \in fenced \cup draining

\* When a lifetime drains, no further request takes it up (one that loaded the
\* bundle before may still be under way) and no snapshot of it is published any
\* more.
DetachedFromUse ==
  sub \in {"drain", "draining", "flush", "close", "new", "done"} =>
    /\ bundle = None /\ client = None /\ current = None
    /\ publisher # "running"

\* Configurations are put in force in the order Home sent them, and none after
\* Shutdown has cancelled the subscriber.
CommitsInOrder == [][cfg' # cfg => cfg' > cfg /\ ~cancelled]_vars

\* Shutdown returns, and a fenced lifetime gives way to another one or to the
\* end of the service.
LifetimesEnd ==
  /\ shutdown = "begin" ~> shutdown = "closed"
  /\ \A l \in Lifetimes : (l \in fenced) ~> (l # life \/ sub \in {"new", "done"})
=============================================================================
