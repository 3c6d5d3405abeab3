# A TLA+ model of the provider gateway

The repository is a Go gateway (CLIProxyAPI) that serves OpenAI-, Claude- and
Gemini-style requests with a pool of upstream credentials. This directory
models the parts of it whose correctness depends on the order in which
goroutines, upstream answers, file events and restarts happen: the life of a
credential and the requests that use it (`sdk/cliproxy/auth`), the way files
and configuration reach it (`internal/watcher`, `service_auth.go`), the model
registry, the relay to browser sessions (`internal/wsrelay`), and the
accounting of executions towards a Home control plane
(`sdk/cliproxy/executionregistry`, `internal/home`, `service_home.go`).

## 1. Inventory

Each line: the state, the operations, what is hard, what must hold.

**Execution registry** (`sdk/cliproxy/executionregistry`). State: accepting /
draining / closed, maps of pending dispatches and scopes, release sequences per
group (credential, model), a release sink, the barrier revisions. Operations:
BeginDispatch, End, Install, Bind, EndWithRelease, SetReleaseSink, Drain, Close,
ObserveBarrier, FreezeInFlight. Hard: resources close on their own goroutines,
sinks are called outside the mutex, Drain waits on a channel that is replaced
on every change, Close may be called twice. Must hold: a release is counted
once, only after its resource is closed, and reaches the sink; a finished Drain
leaves nothing behind; no waiter is forgotten; a published barrier covers every
earlier dispatch.

**Release flusher** (`internal/home/concurrency_release.go`). State: latest and
acknowledged sequence and waiters per group, wake and force channels, Run's
backoff. Operations: MarkDirty, Run, flush, Flush. Hard: marks out of order,
lost frames and acknowledgements, Flush racing both. Must hold: a completed
ticket and a clean Flush say the truth about Home; every ticket completes.

**Home subscriber lifetime** (`sdk/cliproxy/service_home.go`,
`internal/home/client.go`, `conductor_home.go`). State: the lifetime's client
and registry, the published client, bundle and current client, a configuration
queue with one worker, the in-flight publisher, the commit lock, the slots Home
has booked. Operations: subscribe, receive a configuration, stage, commit,
publish, dispatch, fence, cancel, join, detach, drain, flush, Shutdown. Hard:
answers of Home get lost after Home booked a slot, the worker may publish while
the lifetime is taken down, Shutdown cancels between check and commit. Must
hold: no booked slot is forgotten, a lifetime that drains is out of use,
configurations are committed in order and never after the cancel, a fenced
lifetime and a shutdown end, and a lifetime that ends cleanly leaves Home
exactly informed.

**Cooldown state** (`conductor_cooldown.go`, `cooldown_state.go`,
`selector.go`). State: per model and per credential unavailability, retry time,
last error, quota window and backoff level; records in a store. Operations:
MarkResult, ResetQuota, configuration changes, RestoreCooldownStates,
persistCooldownStates, isAuthBlockedForModel. Hard: results of concurrent
requests arrive in any order, the aggregate is read later than computed,
records are saved outside the lock, restarts. Must hold: the aggregate agrees
with the models, the ladder is climbed once per window, a persisted block is in
the store until it ends, and a starting process puts what is in the store in
force.

**Auth manager** (`conductor_lifecycle.go`, `conductor_refresh.go`,
`conductor_selection.go`) **and scheduler** (`scheduler.go`). State: the record
of each credential under `m.mu`, its scheduler entry under `s.mu`, its models
in the model registry, its file. Operations: Register, Update, Remove,
MarkResult, ResetQuota, picks, rebuilds, refreshAuthForRequest, and the
watcher's updates through `service_auth.go`. Hard: the scheduler is told after
`m.mu` is unlocked, copies taken before a call upstream are written back, a
credential is removed while requests use it. Must hold: the scheduler offers
what the record allows, a removed credential stays away, an added one is
visible, one rejected token is refreshed once.

**Auto refresh loop** (`auto_refresh_loop.go`). State: a queue by time, dirty
marks, a wake token, a timer, a bounded job channel, workers. Hard: marks race
the drain and the rebuild, the loop blocks on a full channel, changes that do
not reschedule. Must hold: no mark is slept on, no credential is lost, what is
due is handled.

**Request execution** (`conductor_execution.go`, `conductor_stream.go`,
`conductor_models.go`) **over the scheduler with several credentials**
(`scheduler.go`). State: per request the round, tried and attempted
credentials, the model pool, the last error; per model view the ready
credentials by priority and the cursors. Hard: other requests change blocks and
cursors between two steps, streams fail before or after their first bytes, a
401 is answered by a refresh, waits end when blocks do. Must hold: every answer
is recorded, the caller hears the upstream error, credentials take turns, the
best priority is served, every request ends.

**Model registry** (`internal/registry/model_registry.go`). State: per model
the number of clients, also per provider, quota and suspension marks, its info;
what each client lists; a cache of the available models. Hard: clients register
again with other copies or another provider, marks come from MarkResult after
its lock is gone, a reader looks at the cache and fills it in two critical
sections. Must hold: counts are what clients list; the cache never differs from
a fresh list.

**Watcher** (`internal/watcher`) **and auth updates** (`service_auth.go`).
State: file hashes and contents, remembered configuration hash, current and
runtime credentials, pending updates with their order, the queue, the service's
view. Hard: partial writes, removes that are replacements; events, reloads and
reports overlap, and each hands its updates over after unlocking; merging of
updates before a full queue. Must hold: when everything is handled the service
is in step with disk and sessions, but for the races that the code leaves open,
and that happens.

**WebSocket relay** (`internal/wsrelay`). State: a session with its pending
map, closed channel and cleanup, per request a bounded channel and its closer.
Hard: requests are stored while cleanup walks the map, messages are dropped
when a channel is full, contexts end at any time. Must hold: no caller waits on
a channel nobody will close.

**Not modelled yet, planned**: session affinity, websocket sessions over Home,
encoding and sending of in-flight snapshots, failover of the Home client, usage
queue and accounting.
**Left out**: translators, thinking and signature handling (pure conversions of
large documents), executors (one exchange each), token stores, HTTP routing,
access control, TUI, logging, configuration parsing, the plugin ABI. The list
with reasons is `components` in PROJECT.json; `hazards` lists what is hard to
test, at its line.

Interactions: an execution begins with a dispatch token and ends with a release
that the flusher reports to Home; the lifetime decides which client and
registry a dispatch may use. A request picks a credential from the scheduler
and ends in MarkResult, which changes the record, then the scheduler, then the
model registry. The watcher's updates pass the dispatcher and the service;
they, the management API and the refresh loop change records through Register,
Update and Remove, each of which tells the scheduler and the refresh loop
afterwards.

## 2. Plan

Done: `ExecutionRegistry`, `ReleaseFlusher`, `HomeReleasePath` against
`ReleaseLedger`, `HomeLifetime`; `CooldownState`, `AuthCooldown`,
`AuthManager`, `RefreshLoop`; `AuthScheduler`, `RequestExecution`;
`ModelRegistry`, `UpdateDispatch`, `Watcher`, `WatcherRaces`, `WsRelay`. Proofs of every
invariant, every action property and the refinement that the runs check
(section 5).

Next, in this order:
1. Session affinity in front of `AuthScheduler`; websocket sessions over
   `HomeLifetime`; the inline path of the update service with two consumers.
2. Usage queue and accounting, failover of the Home client.

## 3. Modules and code

| Module | Models | One action is |
|---|---|---|
| `ExecutionRegistry` | registry.go, observation.go | one critical section of the registry's mutex, one sink call, one channel wait |
| `ReleaseFlusher` | concurrency_release.go | one critical section, one send, one channel operation |
| `ReleaseLedger` | what Home is promised (abstract) | a release or a report |
| `HomeReleasePath` | runHomeSubscriber composing the two | a step of a component or of the lifetime |
| `CooldownState` | the functions on one credential's record (operators only) | - |
| `AuthCooldown` | the record, its store, the configuration, restarts | one critical section of m.mu, one save, one load |
| `AuthManager` | record, scheduler entry, registry models, file | one critical section of m.mu or s.mu, one file write |
| `RefreshLoop` | auto_refresh_loop.go and its callers | one critical section of l.mu or m.mu, one channel operation |
| `AuthScheduler` | the views and picks of scheduler.go for several credentials (operators only) | - |
| `RequestExecution` | the loops of Execute, ExecuteCount, ExecuteStream over it | one pick, one call, one answer, one recorded result |
| `ModelRegistry` | model_registry.go and the calls of MarkResult | one critical section of r.mutex |
| `UpdateDispatch` | the merging dispatcher and the service's consumer | one critical section of dispatchMu, one channel operation |
| `Watcher` | events, reloads, rescans and runtime updates over `UpdateDispatch` | one critical section of clientsMutex, one read of a file, one event |
| `WatcherRaces` | the same with a record of the races that put things out of step, and the properties | a step of `Watcher` |
| `WsRelay` | session.go, manager.go, http.go | one channel or sync.Map operation, one frame |
| `HomeLifetime` | runHomeSubscriber, its worker and publisher, dispatches, Shutdown | one critical section, one atomic store, one frame, one join |

`MC*` modules only add symmetry sets and the values of structured constants.
`*Proofs` modules extend the modules they are about with invariants, lemmas and
theorems (section 5). Some are about two components, and for their sake the
specifications of `ModelRegistry` and `Watcher` are called `RegistrySpec` and
`WatcherSpec`, with `RegistryInit`, `WatcherNext` and so on. Definitions marked
"Seeded fault" are plausible bugs that no specification uses; each is put in the
place of the definition that follows it to see that a property notices.

Abstractions worth knowing:
- Time is a number of ticks and 0 is the zero time; durations are constants of
  which only the order matters.
- Failures are classes (`FailureClass`), one for each branch of MarkResult.
- `AuthManager` and `AuthCooldown` take a set `Environments`, of which a
  behaviour has one: which classes of failures occur, whether operations
  overlap, whether other credentials are always ready (then no pick fails and
  no rebuild happens), whether an operator toggles and deletes, whether there is
  a cooldown store. One run covers several environments.
- `AuthManager` follows one credential. Register and Update hand the scheduler
  the very record they store; such a pointer is `Live` until the record is
  replaced.
- `AuthScheduler` keeps of a block its kind and the time left, of which ticks
  take away one; `RequestExecution` records and upserts a result in one step,
  and picks and rebuilds in one step. What the two can do apart is
  `AuthManager`'s subject. Other requests are `OtherPick` and `OtherResult`,
  as many as `MaxOthers` says. `AtPositions` lists the entries of a sequence
  that pass a test, in order: what a loop with `append` does, said without
  recursion so that it can be reasoned about.
- `ModelRegistry` counts copies of a model that a client lists twice, as the
  code does; the metadata of a model is one member of a set.
- `Watcher` versions stand for contents and hashes; two contents with the same
  hash do not occur. Nothing keeps events, reloads and reports apart: each timer
  that fires has its own goroutine (`Reloads`), as has each report (`Reporters`).
  Four history variables of `WatcherRaces` record for which credentials a race
  has happened; they guard nothing and are read by the properties only.
- `WsRelay` messages are kinds; a channel is a sequence of at most `Cap`.
- `HomeLifetime` follows the slots by their owner: a release is reported or
  not; how a report survives lost frames is `ReleaseFlusher`'s subject.
- Credential files carry a token and the disabled flag; runtime state is not in
  them, so a restarted process has fresh records. `AuthManager` has the watcher
  read a file and the service take the report up later (`ServiceRead`,
  `ServiceTake`); how reports are merged and queued in between is
  `UpdateDispatch`'s subject.
- `RefreshLoop` merges the pending reschedules of one credential (marking is
  idempotent), stores the heap as a function, and forgets `loopNow` and `timer`
  where the code no longer reads them. Its `resetTimer` measures from the
  moment the round began, as the code does.
- Home keeps the highest sequence it received: frames are cumulative.

## 4. Runs

Bounds are named constants: `MaxDispatch`, `MaxBarrier`, `MaxRevision`,
`MaxSeq`, `MaxNow`, `MaxToken`, `MaxChanges`, `MaxOthers`, `MaxCopies`,
`MaxClock`, `MaxVersion`, `MaxConfig`, `MaxChunks`, `MaxLifetimes`,
`MaxConfigs`, and `until` of an environment.

| Run | Bounds | Shows |
|---|---|---|
| registry_release | 2 dispatches, 1 group, 2 sinks, 1 barrier, 1 snapshot | counts, sink hand-over, close before count; the barrier covers earlier dispatches |
| registry_lifecycle | 2 dispatches, 1 Drain, 2 Closes, fair | drains are final, closed resources; Drain and Close return |
| flusher | 2 groups, sequences to 2, fair | tickets and Flush are truthful; tickets complete |
| release_path | 2 dispatches, 1 group, one lifetime, one shutdown | Home exactly informed; implements `ReleaseLedger` |
| lifetime | 2 lifetimes, 2 configurations, 2 dispatches, one shutdown, fair | slots accounted for, detached before the drain, commits in order; lifetimes and Shutdown end |
| cooldown | 2 models and all classes without a store, or 1 model and results without a model with a store, 3 ticks | aggregate agrees; blocks are in the store once persisted and in force again once restored; one rung of the ladder per window |
| manager | 2 callers and the service, 2 tokens; overlapping with other credentials ready, or one operation at a time with the operator's | a removed credential is not offered, an added one is visible, a good token is not refreshed, the scheduler offers what the record allows |
| refresh | 1 credential, 1 worker, 1 tick, 2 changes, fair | marks are not slept on, nobody who can be refreshed again is lost between queue, timer, marks, jobs and workers; what is due is handled |
| execution | 3 credentials, 2 providers, 2 priorities, a pool of 2 models, 1 request in full, 2 steps of others | answers recorded, errors told, turns, best priority, ends |
| model_registry | 2 clients, 2 providers, up to 2 copies, 1 model, 3 ticks | counts agree; the cache is fresh |
| watcher | 1 file with 2 versions, 1 runtime credential, 2 configurations, 2 changes, 2 reloads and 1 report at a time, queue of 1, fair | in step when settled, but for the recorded races; catches up |
| relay | 1 session, 1 request of either kind, channel of 2, 2 chunks, fair | no orphaned caller; callers return |

Two dispatches, sinks, callers, models, clients or lifetimes are the least with
which one overtakes another, and every overtaking the properties speak of is
between two. For `SettledInStep` alone, instances of `watcher` with two reporters
and with three changes were once run to the end, too, without an error. Two ticks separate "still blocked" from "recovered"; the ladder
needs the sum of its windows. A relay with two requests is beyond the time a
run should take and adds no case: requests share the pending map and the closed
channel only, the reader never blocks on one of them, and the map is walked
while one is stored either way. In `execution` the second request is reduced to
picks and results, which is all one request sees of another. Symmetry is used
where callers, sinks, models or clients are only compared, and in no run with a
liveness property. CHECK_DEADLOCK is off where the system may come to rest:
release_path and lifetime (a service ends), refresh and watcher
(nothing left to do), execution, relay (requests are over), model_registry (the clock is
bounded).

Fairness. Registry: owners end what they began, resources close, Drain and Close
calls go on; nothing forces dispatches, barriers or timeouts. Flusher: Run is a
goroutine in a timer loop (weak), and a group sent again and again is
acknowledged again and again (strong: Home is reachable now and then). Refresh
loop: goroutines run and refreshes return (weak), the clock ticks, and a timer
that stays due is taken in the end (strong, since Go's select picks among ready
cases at random). `DueIsHandled` excuses only a timer that lies beyond the
bounded clock, and the changes it names. Relay: goroutines with something to do
do it; the browser, the network and the contexts owe nothing. Watcher:
goroutines and the reload timer go on, a writer finishes its file; nobody owes a
change. Lifetime: subscriber, worker, publisher and Shutdown go on, waits with a
bound end, and a subscription ends if its client is fenced or its context done;
Home owes nothing.

Conditions. Some properties hold only under conditions that are part of their
statement, and the theorems state the same ones:
- `CooldownsDurable` speaks of what a persist has saved and a restore has read. A
  crash before the save loses the block, as does a store that cannot be read, and
  a restored block lasts until the watcher's first event for its credential
  (below).
- `SettledInStep` and `CatchesUp` leave out what one of the four races of
  `WatcherRaces` has hit and no later step has put right: two goroutines held
  updates of one credential at a time, or a reload forgot its value without an
  update (`overtaken`); a reload installed a reading of a file that is not the
  one whose hash is kept (`unseen`); a removal was dropped by the debounce
  (`debounced`); the configuration was written while it was reloaded (`missed`).
  Everything else the code must get right, whatever overlaps.
- `SlotsAccounted` assumes that Home books a slot only in an answer that says
  so: an answer that cannot be decoded is one without a slot (`HomeAnswers`).
- `AggregateAgrees` speaks of credentials without a cooldown store: a restored
  record brings back the block of the credential as a whole, whatever its models
  did since it was saved.
- `LadderPaced` leaves out Cloudflare challenges, which climb at once, and
  upstreams whose Retry-After is shorter than the longest window: such an answer
  replaces the window, so the next failure climbs before the ladder's own window
  has passed.
- `RemovedNotOffered` and `VisibleWhenSettled` under overlap leave out the
  operator's calls, and the latter also rebuilds (section 4, below).
- `SchedulerInSync` speaks of operations that do not overlap.

`RequestsEnd` is termination without fairness: every step of a request lowers
`Distance` (rounds left, credentials left to try, models left, refresh and
bootstrap left, place in the code), whatever the upstreams answer and others do.
Waits end because they are timers.

### Comments the code does not keep

Two sentences do not hold. `InStep` excuses both as races. With the excuse taken
out, TLC finds the second on the instance of `watcher`, and the first, as told
here, on one with a third change (one reload at a time and one version will do).

- docs/sdk-watcher.md:12, "Updates are coalesced per credential identifier. If
  multiple changes occur before dispatch (e.g., write followed by delete), only
  the final action is sent downstream": the final action is settled under
  `clientsMutex` and the order of the buffer under `dispatchMu`, and the watcher
  unlocks the one before it locks the other (dispatcher.go:68-77, 125-143). A
  reload that sends everything again (184) has unlocked, a session ends and its
  Delete is dispatched, and then the reload's Modify: the service keeps the
  credential of a session that is gone. This is so until the next update of the
  credential, all files at rest (`overtaken`).
- config_reload.go:2, "detects material changes and reloads clients when the
  config changes": reloadConfigIfChanged remembers the hash of a reading it makes
  after the load (75-82). If the file is written in between, the timer of that
  write finds equal hashes and does nothing (`missed`).

Two more hold only under conditions that the passing runs state.

- scheduler.go:173, "upsertAuth incrementally synchronizes one auth into the
  scheduler": MarkResult copies under `m.mu` and upserts after unlocking
  (conductor_cooldown.go:852), so two results may arrive in the opposite order
  and the scheduler offers a model the record blocks until the next change.
  An environment of `AuthManager` with overlap and quota failures shows it for
  `SchedulerInSync`; `manager` states it for operations that do not overlap.
- conductor_refresh.go:38, "evaluates auth freshness every few seconds and
  triggers refresh operations when required": a credential whose LastError is a
  401 leaves the queue (auto_refresh_loop.go:287); a later result that clears
  the error does not bring it back. `DueIsHandled` leaves that case out
  (`disturbed`).

### Behaviours the models have and no run states

They follow from the actions and a reader of the code should know them; the
constants say under which conditions the passing runs stay clear of them.

- After a 429 a late 408, 5xx or unclassified error replaces NextRetryAfter: the
  model is offered inside its quota window (`MarkFailure`).
- A model-support error blocks for 12 h with cooling disabled too
  (`MarkFailure`).
- The watcher's first event for a credential resets what RestoreCooldownStates
  restored for supported models (`WatcherUpdate`, `Reconcile`), so that a restored
  block may be in force for a moment only.
- Where other credentials are not always ready, a rebuild from an older copy of
  the credentials drops one that was just added, until the next rebuild or
  update (`syncSnapshot`, `rebuild`). The overlapping environment of `manager`
  checks `VisibleWhenSettled` without rebuilds.
- With the operator's calls overlapping, a late result re-enters a credential
  that was deleted through the management API; its models are still registered
  and the watcher's Remove returns early. `RemovedNotOffered` is checked under
  overlap for removals through the watcher.
- A refresh under way writes back a copy from before the credential was disabled
  (`RefreshUpdate`), and a late success sets StatusActive on a disabled
  credential, which stays unscheduled because `upsertAuth` looks at Disabled.
- Remove's late unschedule takes a credential off the refresh queue that was
  registered again meanwhile (conductor_lifecycle.go:186, `Unschedule`).

Model registry:
- After a 429 a client is both over its quota and suspended, so that a count of
  available clients subtracts it twice (conductor_cooldown.go:861-867,
  model_registry.go:1071), although GetModelCount "returns the number of
  available clients for a specific model" (model_registry.go:1047).
- A client with a 401 and then a 429 is counted as over its quota and as
  suspended for another reason: with two clients a model that the healthy one
  serves leaves the list (model_registry.go:846-882).
- A late SuspendClientModel or SetModelQuotaExceeded after UnregisterClient
  leaves the mark of a client that is gone (692-752), and the info of a model
  stays that of the last client that brought one.

Relay:
- The dispatcher drops what a full channel has no room for and cleanup closes
  it: a streaming caller may take a cut stream for a complete one
  (session.go:109-111, http.go:58-66, while message.go:19 says that stream_end
  "marks the completion of a streaming response").
- Reader and cleanup may send on a channel that a context watcher has closed,
  which panics; `panic` is a state of the model. So is the missing entry at
  session.go:148-149.
- A session that ends before its onConnected is run leaves a credential for a
  session that is gone; one whose first heartbeat fails before it is inserted
  stays in the table (`HeartbeatFails`).

Watcher:
- A file event between a reload's reading of the files and its dispatch is
  overtaken by the older state (dispatcher.go:131, 142): its hash is remembered
  and the credential is that of the older reading (`unseen`), although "updates
  continue to be merged, so the latest state is eventually applied"
  (docs/sdk-watcher.md:23).
- A second remove of a file within a second is debounced and the credential
  stays (events.go:96, 180; `debounced`).
- Reloads overlap if one takes longer than the debounce of the next; an older
  configuration may be committed last (`missed`).

Request execution:
- An interceptor that ends a stream counts as a failure of the credential and
  the next one is tried (conductor_stream.go:199-202,
  conductor_execution.go:632-649); elsewhere it ends the request.
- A stream with only blank chunks counts as a success (conductor_stream.go:290);
  a stream reopened after a refresh records a cancelled client as a failure
  (259-287); failures midway lose their Retry-After (120).
- closestCooldownWait does not look at pins: a pinned request may wait for
  somebody else's cooldown.
- A failed pick and a change of the strategy rebuild the scheduler and reset all
  its cursors. A credential
  that goes and comes back shifts the turns of the others; `FairTurns` speaks of
  stretches in which the same credentials are ready.

Home lifetime:
- A fenced client can push no release, so a fenced lifetime with unreported
  releases fails its Flush and stops the service (service_home.go:573-578).
- A client that goes away while Home is asked for a credential makes the
  dispatch ambiguous and thereby ends the lifetime (client.go:1157-1163).
- A configuration published between GET and SUBSCRIBE is missed until Home sends
  another one (`GetConfig`, `Subscribed`).
- Outside the model: the failover alternates between two of three addresses
  (client.go:734-755), the usage forwarder of an old lifetime is not joined
  (service_home.go:334-369), and the usage queue checks, publishes and enqueues
  in separate steps (redisqueue/queue.go:43-76).

## 5. Proofs

Eight modules hold theorems. Each holds for every value of the constants that
the named assumption of the module allows, and nothing else is assumed; the
assumptions are evaluated by the runs.

| Proof module | Theorems | From |
|---|---|---|
| `HomeReleasePathProofs` | registry: `TypeCorrect`, `DrainSafe`, `CloseSafe`, `ReleaseSafe`, `SinksInformed`, `ResourcesClosed`, `BarrierSafe`; path: `RegistryRuns`, `FlusherRuns`, `PathInvariance`, `SettledReported`, `LedgerKept` | `RegistryAssumption`, `FlusherAssumption`, `PathAssumption` |
| `ReleaseFlusherProofs` | `TypeCorrect`, `TicketsTrue`, `FlushTrue` | `FlusherAssumption` |
| `HomeLifetimeProofs` | `SlotsSafe`, `Detached`, `CommitsOrdered` | `LifetimeAssumption` |
| `AuthCooldownProofs` | `TypeCorrect`, `AggregateTrue`, `CooldownsKept`, `LadderKeepsPace` | `CooldownAssumption`, `AuthCooldownAssumption` |
| `AuthManagerProofs` | `TokensGood`, `RemovedGone`, `VisibleSettled`, `InSync` | the first of these, `AuthManagerAssumption` |
| `AuthServicesProofs` | refresh loop: `AllMarksSeen`, `AlwaysArmed`, `NobodyEverForgotten`; model registry: `CountsAlwaysAgree`, `CacheAlwaysFresh` | `RefreshLoopAssumption`, the registry's `RegistryAssumption` |
| `RequestExecutionProofs` | `AnswersAlwaysRecorded`, `UpstreamErrorAlwaysTold`, `Boundedness`, `RequestsAlwaysEnd`, `AlwaysBestFirst`, `AlwaysFairTurns` | `SchedulerAssumption`, `ExecutionAssumption` |
| `AuthSourcesProofs` | relay: `NobodyOrphaned`; watcher: `WatcherInStep` | `RelayAssumption`; `DispatchAssumption`, `WatcherAssumption` |

`PROJECT.json` pairs each theorem with the property it states. Where there is a
theorem `Invariance` it says that the inductive invariant `IInv` holds; the
results follow from it. Every inductive invariant was first checked by TLC on
the instance of its run. `WatcherInStep` has no condition on the environment:
what the races of section 4 put out of step is part of `SettledInStep`. Sets of
clients and of credential ids are finite, which the
assumptions say and sums and the order of a buffer need.

**Execution registry.** The properties are not inductive alone; `IInv` adds
- `OpenResourcesInScope`: an open or closing resource belongs to a scope that is
  not counted yet, which is why a count implies a closed resource;
- `NotifiedCalled`: who is past the notification has called its sink, so removal
  cannot hide an unreported release;
- `BarrierMemory`: which token number the observed barrier stands for, and that
  the published barrier is not ahead of the observed one;
- `CloseProgressed`: from its snapshot on, a Close call holds every resource
  that is not closed.

Each conjunct has a step lemma with one case per action that can disturb it;
`Frames` says once what the groups of actions leave alone. `SequenceIsCount`
needs the library's cardinality facts: a step either leaves the counted scopes
of a group alone or adds exactly one.

**Flusher.** A completed ticket is true because a ticket leaves the waiters only
when its sequence is acknowledged (`TicketsKept`), what is acknowledged has been
received (`AckedReceived`), and the sequence about to be acknowledged is the one
that was sent and not the one marked meanwhile (`SentReceived`). `FlushTrue` is
an action property and needs `MarksKept`: what was marked is still to be sent or
acknowledged.

**Release path.** The argument composes the components. Every step of the path
is a step of the registry or leaves it alone (`RegistryRuns`), so the registry's
invariant holds; it bounds the sequences a sink is called with, so every step is
also one of the flusher (`FlusherRuns`), whose invariant then holds under the
substitution `FP`. What is left is the wiring, `PathInv`: the flusher is the
sink from before the first dispatch on, a finished call has marked its sequence,
nothing on the way to Home is ahead of the registry, and a Flush follows a
complete Drain, after which nobody counts any more.
`LedgerKept` is the refinement of `ReleaseLedger`: the initial states map to its
initial states, a step of the registry that counts is its release, a frame that
Home receives is its report, and every other step is a stutter.

**Home lifetime.** Three invariants, one per question. `SlotInv`: a booked slot
is in the registry, released, or of a fenced or draining lifetime, and before
Home's answer there is none. `AttachInv`: service client, bundle and current
client go down one after the other, and only after worker and publisher are
joined. `CommitInv`: the queue is ordered and newer than what is in force, what
the worker applies lies between, and a store happens under `homeConfigCommitMu`,
where Shutdown has not cancelled.

**Cooldowns.** The facts about one record (`CooldownState`) come first: what
each of MarkResult's branches, resets, restores and reconciles does to types,
aggregate, records and ladder. `IInv` then has seven parts: `Kinds` (types, and a
credential that nobody disables), `Phases` (who may be saving when),
`Aggregates` (the aggregate blocks only if all models do, and from the last
reconciliation on only as long as they do), `Held` (a block is in the store, in a
snapshot that is being saved, or `due`), `Boots` (a starting process leaves
credential and store alone until it has restored what it loaded), `Single` (no
two records of one model are written) and `Pace` (a level in memory or in any
copy of the records has its windows behind it). `Boots` and `Single` make a
restart give back what was saved: every record is applied, and to a fresh
credential. `Pace` must cover the copies
because a crash may bring any of them back. Two facts are about recursive
functions, that `Shift` doubles and that the ladder ends below `Quota`'s
bounds; they are proved from the least counterexample, since the induction
theorems of the library cannot be instantiated here.

**Manager.** The lemmas on `CooldownState` are taken over by `CP`, an instance of
`AuthCooldownProofs`; they do not mention its variables. `IInv` follows the
copies between `m.mu` and `s.mu`. `Holdings` says which goroutine has one and
what for; `Tokens`, that no copy is ahead of the upstream and that who refreshes
holds a rejected token (`GoodTokenKept`); `Removal`, who may bring a removed
credential back, and that without the operator the scheduler then has no entry
that a pick could ready (`RemovedNotOffered`); `Visible`, that without rebuilds
every copy is of an enabled credential and the scheduler has the models of the
registry whenever the service is between two updates; `Alone`, that of one
operation at a time nothing is left to tell the scheduler at its end
(`VisibleWhenSettled` and `SchedulerInSync`). The scheduler's entry may lawfully
differ from the record after a reset it was not told of; `InStep` says that the
record is then free of blocks, so that the difference only hides.

**Request execution.** Four arguments.
- `IInv`: a request owes one answer exactly between the call of an upstream and
  the recorded result (`OwesOne`), and a round that has reached an upstream keeps
  an error of an upstream (`ErrorKept`). Neither depends on whom the scheduler
  serves, and the picks stay unexpanded.
- `Bounded`: requests are well formed (`AllGoing`: attempts up to `LastAttempt`,
  one refresh, a credential while a call goes on) and so is the scheduler
  (`IsSched`). On top of
  it every action takes a request on in one of the ways of `Toward`, and each of
  these lowers `Distance` in the order of its first difference, which is what
  `RequestsEnd` says.
- `BestFirst`: a view lists ready credentials of its provider and priority
  (`FlatEntries`), so a pick at the highest priority that has somebody serves one
  of them; the shards are brought up to date before, so nobody who is not blocked
  is missed (`Chosen`, for a single provider, several, and a pin).
- `FairTurns` is part of `IsSched` in the form `Rotates`: in each bucket the `k`
  entries last served, counted back from the cursor, have had exactly one turn
  more than the others. A pick that passes over `o` entries takes the same number
  of places from the end of the rotation to its beginning (`RotationMoves`), so
  that `k` grows by `o + 1`, modulo the size of the bucket, when all have had
  their turn. A re-index keeps the rotation of a bucket with the same entries, be
  the cursor cut or not, and a bucket with other entries begins a new one.

`EnsureAll` runs over a list of any length; it is followed from the least
position at which it would fail.

**Relay.** `NoOrphan` says nothing about the time before the map is emptied.
`IInv` therefore follows a request from its first check of `session.closed` on:
its entry is in the map while its channel is open, and once Range has begun the
request is one of those that Range still visits or closes itself.

**Refresh loop.** `LoopInv` is about the one place each credential may be in.
`EveryoneHeld` says that whoever can be refreshed again is in the queue, marked,
in the round, in a job or with a worker (`Held`), and `SleepsArmed` that the loop
does not sleep on a queue without its timer; together they are
`NobodyForgotten`. This is not inductive alone, since a round decides what to do
with a credential before it does it: `DroppedMarked` says that somebody it is
about to drop, although a refresh would now be possible, has been marked since,
and `RemovalsSeen` that a credential which is there again while its removal is
still on the way to the loop is one of the exceptions `NobodyForgotten` makes
(`disturbed`). `LoopPlaced` says which part of the state means something at which
place of the code.

**Model registry.** The count of a registration is a sum over clients, and a
registration is the part of one client and that of the others (`Part`). What an
operation does to the one is a fact about one registration and a few numbers
(`RemovePart`, `AddPart`, `ReconcilePart`); the other's stays (`OthersStay`). The
sums need a few laws (one element more or less, equal summands, a part of the
set), which are about a fold over a finite set of any size and are each proved
from a smallest counterexample. `CacheFresh`: an entry is the list of some time up to
now (`FilledFrom`), every operation that changes a list empties the cache, and
between two changes the list of a time is that of now until the first mark
expires (`RecoveriesAreLater`, `UsableIsFresh`).

**Watcher.** `SettledInStep` says nothing about the time before everything is
handled; `WatchInv` says at every moment what is still to happen.
- `Comes(id, v)`: the service will hold `v` once all that is under way has
  arrived, which looks at the buffer, then the batch, then the queue (the last
  update of `id` in each), then what the consumer has drained. Every step of the
  dispatcher and the consumer keeps it, and `dispatchAuthUpdates` makes it true
  of what it is given. The buffer's order holds each buffered id once
  (`OrderInv`).
- `Delivered(id)`: unless `id` is overtaken, at most one goroutine holds an
  update of it; that one, or else what `Comes`, has the watcher's value.
- `Agrees(f)`: unless a reload has installed an outdated reading (`unseen`), the
  watcher's value of a file is the one whose hash is kept, and a client is
  listed exactly with a hash, but for the moment in which `addOrUpdateClient` is
  between the two.
- `Looked(f)`: a file whose content is not the one whose hash is kept was
  `debounced` or is `Noticed`: it is being written, has an event in the queue
  that will not be debounced, or is in the handler's hands. `Ordered(f)`: a
  file that is gone has its removal queued behind any write of it.
- `ConfigKept`: unless a write was missed, a version that is not the remembered
  one has its timer or a reload that has still to read it, and the remembered
  one is in force or about to be.
- `HandlerPlaced`, `ReloadPlaced(r)` and `OrderInv` say which part of the state
  means something at which place of the code.

Each action has a step lemma, built from one fact for each way of touching an
update: taken, posted, forgotten or left alone (`DeliveryTaken`,
`DeliveryPosted`, `DeliveryForgotten`, `DeliveryRests`). At rest these parts
together are `InStep` (`Settles`).

Only model-checked: liveness and everything that rests on fairness or ENABLED,
which the prover does not reach. These are that Drain, Close, tickets, lifetimes,
Shutdown and relayed calls complete, that what is due is refreshed, and that the
watcher catches up.

## 6. Not modelled

Left out of modelled components, and why:
- Torn reads of records that are read without their lock: `AuthManager` keeps
  the aliasing but reads whole records.
- The order of two writes of one credential file, batching of model
  registrations, plugin-made credentials, uploads through the management API,
  cancellation of the refresh loop.
- Home mode inside request execution, the antigravity credits fallback, alias
  rewriting, the plugin scheduler and the legacy selectors: each is another
  source of the same picks and results. Disabled and removed credentials are
  `AuthManager`'s subject.
- Watcher: dispatchPersistedAuthUpdate, invalid configurations, credentials made
  from the configuration, Stop, replacing the queue, and the inline application
  of an update when the queue is missing or full. The first races the others as a
  report does, with a file's credential.
- Relay: two sessions of one name. The service sets no ProviderFactory
  (service_auth.go:199-206), so that names are random.
- Home lifetime: startHomeSubscriber is called once (Service.Run), so that the
  generation is constant; log and usage forwarders; websocket sessions.

Left out altogether: most of the repository by size is conversion of documents
between provider formats (`internal/translator`, `internal/thinking`,
`internal/signature`), executors that make one HTTP exchange each
(`internal/runtime/executor`), HTTP handlers and management lists, plugin ABI
and examples, TUI, login commands, configuration parsing and logging. It has
little state of its own and no order of events to get wrong; modelling it would
repeat it. Token stores are file and database I/O. Session affinity and usage
accounting are planned (section 2). `components` in PROJECT.json has the list,
`hazards` what is hard to test, each at its line.
