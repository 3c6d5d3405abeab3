------------------------- MODULE ExecutionRegistry -------------------------
(***************************************************************************)
(* The registry of Home-dispatched executions of one subscriber lifetime   *)
(* (sdk/cliproxy/executionregistry).  A request goroutine (the owner of a  *)
(* dispatch) reserves a token, installs it as a scope, binds the resource  *)
(* it opened and finally ends the scope; other goroutines drain or close   *)
(* the registry, replace the release sink, observe barriers and freeze     *)
(* snapshots.                                                              *)
(*                                                                         *)
(* One action is one critical section of Registry.mu (or one atomic        *)
(* operation on Registry.state).  BeginDispatch, Install and Bind read the *)
(* atomic state while they hold mu and Drain and Close change it without   *)
(* mu; the write of an operation commutes with a state change that falls   *)
(* between its check and its write, because Drain and Close take mu before *)
(* they look at anything else, so check and write are one action here.     *)
(***************************************************************************)
EXTENDS Naturals, FiniteSets

CONSTANTS
  Groups,        \* release groups: one per accounted (credential, model)
  Unaccounted,   \* the "group" of a scope whose spec is not Accounted
  Sinks,         \* release sinks a caller may set
  NoSink,        \* a nil release sink
  Drainers,      \* goroutines that call Drain
  Closers,       \* goroutines that call Close
  MaxDispatch,   \* bound: dispatches begun in the lifetime
  MaxBarrier,    \* bound: highest observation barrier Home announces
  MaxRevision    \* bound: snapshots frozen

ASSUME RegistryAssumption ==
  /\ Unaccounted \notin Groups
  /\ NoSink \notin Sinks
  /\ MaxDispatch \in Nat
  /\ MaxBarrier \in Nat
  /\ MaxRevision \in Nat

Dispatches == 1..MaxDispatch

VARIABLES
  state,                   \* Registry.state
  next,                    \* Registry.next
  pending,                 \* keys of Registry.pending
  scopes,                  \* keys of Registry.scopes
  releaseSequences,        \* Registry.releaseSequences
  releaseSink,             \* Registry.releaseSink
  observedBarrier,         \* Registry.observedBarrier
  pendingBarrierSequence,  \* Registry.pendingBarrierSequence
  publishedBarrier,        \* Registry.publishedBarrier
  snapshotRevision,        \* Registry.snapshotRevision
  owner,        \* where the owner of each dispatch is
  group,        \* ScopeSpec of each installed dispatch, as its release group
  resource,     \* closeFn and closeDone of each scope
  ticket,       \* the sink and sequence EndWithRelease captured under mu
  replay,       \* sink calls SetReleaseSink still has to make
  calls,        \* sink calls made: <<sink, group, sequence>>
  drain,        \* where each Drain call is
  drainSet,     \* scopes each Drain call has still to start closing
  close,        \* where each Close call is
  closeSet,     \* scopes each Close call has still to close
  closeCur,     \* the scope each Close call is waiting for (0: none)
  closeStarted, \* Registry.closeStarted
  closeDone,    \* Registry.closeDone has been closed
  barrierAt     \* history: Registry.next when each barrier was observed

ownerVars   == <<owner, group, resource, ticket>>
sinkVars    == <<releaseSequences, releaseSink, replay, calls>>
drainVars   == <<drain, drainSet>>
closeVars   == <<close, closeSet, closeCur, closeStarted, closeDone>>
barrierVars == <<observedBarrier, pendingBarrierSequence, publishedBarrier,
                 snapshotRevision, barrierAt>>
tableVars   == <<next, pending, scopes>>
vars == <<state, tableVars, ownerVars, sinkVars, drainVars, closeVars, barrierVars>>

(***************************************************************************)
(* The owner's program counter:                                            *)
(*   "none"      the dispatch has not begun                                *)
(*   "pending"   it holds a PendingDispatch                                *)
(*   "refused"   the token was ended, or Install refused it                *)
(*   "installed" it holds an active Scope                                  *)
(*   "ending"    EndWithRelease made the scope inactive                    *)
(*   "closing"   ... started the close of its resource and waits for it    *)
(*   "marked"    ... took its release sequence and the sink                *)
(*   "notified"  ... called the sink                                       *)
(*   "done"      ... removed the scope                                     *)
(***************************************************************************)
OwnerState == {"none", "pending", "refused", "installed", "ending", "closing",
               "marked", "notified", "done"}
InScope    == {"installed", "ending", "closing", "marked", "notified"}
Counted    == {"marked", "notified", "done"}
NoTicket   == [sink |-> NoSink, seq |-> 0]
DrainState == {"idle", "snapshot", "closing", "check", "blocked", "woken",
               "drained", "timedout", "rejected"}
CloseState == {"idle", "store", "snapshot", "closing", "awaiting", "waiting", "closed"}

TableTypes ==
  /\ state \in {"accepting", "draining", "closed"}
  /\ next \in 0..MaxDispatch
  /\ pending \subseteq Dispatches
  /\ scopes \subseteq Dispatches

OwnerTypes ==
  /\ owner \in [Dispatches -> OwnerState]
  /\ group \in [Dispatches -> Groups \cup {Unaccounted}]
  /\ resource \in [Dispatches -> {"none", "bound", "closing", "closed"}]
  /\ ticket \in [Dispatches -> [sink : Sinks \cup {NoSink}, seq : Nat]]
  /\ \A i \in Dispatches : ticket[i].sink # NoSink => group[i] \in Groups

SinkTypes ==
  /\ releaseSequences \in [Groups -> Nat]
  /\ releaseSink \in Sinks \cup {NoSink}
  /\ replay \subseteq Sinks \X Groups \X Nat
  /\ calls \subseteq Sinks \X Groups \X Nat

DrainTypes ==
  /\ drain \in [Drainers -> DrainState]
  /\ drainSet \in [Drainers -> SUBSET Dispatches]

CloseTypes ==
  /\ close \in [Closers -> CloseState]
  /\ closeSet \in [Closers -> SUBSET Dispatches]
  /\ closeCur \in [Closers -> 0..MaxDispatch]
  /\ closeStarted \in BOOLEAN
  /\ closeDone \in BOOLEAN

BarrierTypes ==
  /\ observedBarrier \in 0..MaxBarrier
  /\ pendingBarrierSequence \in Nat
  /\ publishedBarrier \in 0..MaxBarrier
  /\ snapshotRevision \in 0..MaxRevision
  /\ barrierAt \in [1..MaxBarrier -> Nat]

\* Every variable stays in its range, and a ticket with a sink belongs to an
\* accounted scope.
TypeOK ==
  /\ TableTypes
  /\ OwnerTypes
  /\ SinkTypes
  /\ DrainTypes
  /\ CloseTypes
  /\ BarrierTypes

\* New: an accepting registry with no sink.
Init ==
  /\ state = "accepting"
  /\ next = 0
  /\ pending = {}
  /\ scopes = {}
  /\ releaseSequences = [g \in Groups |-> 0]
  /\ releaseSink = NoSink
  /\ observedBarrier = 0
  /\ pendingBarrierSequence = 0
  /\ publishedBarrier = 0
  /\ snapshotRevision = 0
  /\ owner = [i \in Dispatches |-> "none"]
  /\ group = [i \in Dispatches |-> Unaccounted]
  /\ resource = [i \in Dispatches |-> "none"]
  /\ ticket = [i \in Dispatches |-> NoTicket]
  /\ replay = {}
  /\ calls = {}
  /\ drain = [d \in Drainers |-> "idle"]
  /\ drainSet = [d \in Drainers |-> {}]
  /\ close = [c \in Closers |-> "idle"]
  /\ closeSet = [c \in Closers |-> {}]
  /\ closeCur = [c \in Closers |-> 0]
  /\ closeStarted = FALSE
  /\ closeDone = FALSE
  /\ barrierAt = [b \in 1..MaxBarrier |-> 0]

(***************************************************************************)
(* Operators shared by several operations.                                 *)
(***************************************************************************)
Advance(i, from, to) ==
  /\ owner[i] = from
  /\ owner' = [owner EXCEPT ![i] = to]

\* signalLocked closes the channel every blocked Drain captured under mu.
signalLocked ==
  drain' = [d \in Drainers |-> IF drain[d] = "blocked" THEN "woken" ELSE drain[d]]

\* startBoundResourceClose: the first caller takes closeFn and runs it.
startBoundResourceClose(i) ==
  resource' = [resource EXCEPT ![i] = IF @ = "bound" THEN "closing" ELSE @]

\* A wait on closeDone returns: there is no resource, or its close returned.
ResourceReleased(i) == resource[i] \in {"none", "closed"}
-----------------------------------------------------------------------------
(***************************************************************************)
(* The owner of a dispatch.                                                *)
(***************************************************************************)
\* BeginDispatch reserves a token; a registry that is not accepting refuses.
BeginDispatch ==
  /\ next < MaxDispatch
  /\ state = "accepting"
  /\ next' = next + 1
  /\ pending' = pending \cup {next + 1}
  /\ Advance(next + 1, "none", "pending")
  /\ UNCHANGED <<state, scopes, group, resource, ticket, sinkVars, drainVars,
                 closeVars, barrierVars>>

\* PendingDispatch.End of a token that was not installed.
EndPending(i) ==
  /\ Advance(i, "pending", "refused")
  /\ pending' = pending \ {i}
  /\ signalLocked
  /\ UNCHANGED <<state, next, scopes, group, resource, ticket, sinkVars,
                 drainSet, closeVars, barrierVars>>

\* Seeded fault: the refused Install drops the token without a signal.
InstallSilentRefusal(i, g) ==
  /\ pending' = pending \ {i}
  /\ UNCHANGED drain
  /\ \/ /\ state # "accepting"
        /\ Advance(i, "pending", "refused")
        /\ UNCHANGED <<scopes, group>>
     \/ /\ state = "accepting"
        /\ Advance(i, "pending", "installed")
        /\ scopes' = scopes \cup {i}
        /\ group' = [group EXCEPT ![i] = g]
  /\ UNCHANGED <<state, next, resource, ticket, sinkVars, drainSet, closeVars,
                 barrierVars>>

\* Install turns a token into a scope, or drops it once draining has begun.
Install(i, g) ==
  /\ pending' = pending \ {i}
  /\ signalLocked
  /\ \/ /\ state # "accepting"
        /\ Advance(i, "pending", "refused")
        /\ UNCHANGED <<scopes, group>>
     \/ /\ state = "accepting"
        /\ Advance(i, "pending", "installed")
        /\ scopes' = scopes \cup {i}
        /\ group' = [group EXCEPT ![i] = g]
  /\ UNCHANGED <<state, next, resource, ticket, sinkVars, drainSet, closeVars,
                 barrierVars>>

\* Bind attaches the one resource of an active scope.
Bind(i) ==
  /\ owner[i] = "installed"
  /\ state = "accepting"
  /\ resource[i] = "none"
  /\ resource' = [resource EXCEPT ![i] = "bound"]
  /\ UNCHANGED <<state, tableVars, owner, group, ticket, sinkVars, drainVars,
                 closeVars, barrierVars>>

\* The goroutine of startBoundResourceClose: closeFn returns, closeDone closes.
ResourceCloses(i) ==
  /\ resource[i] = "closing"
  /\ resource' = [resource EXCEPT ![i] = "closed"]
  /\ UNCHANGED <<state, tableVars, owner, group, ticket, sinkVars, drainVars,
                 closeVars, barrierVars>>

\* EndWithRelease, first critical section: the scope becomes inactive.
EndBegin(i) ==
  /\ Advance(i, "installed", "ending")
  /\ UNCHANGED <<state, tableVars, group, resource, ticket, sinkVars,
                 drainVars, closeVars, barrierVars>>

\* ... waitForBoundResourceClose starts the close unless it is under way.
EndStartClose(i) ==
  /\ Advance(i, "ending", "closing")
  /\ startBoundResourceClose(i)
  /\ UNCHANGED <<state, tableVars, group, ticket, sinkVars, drainVars,
                 closeVars, barrierVars>>

\* Seeded fault: the sink is captured for scopes that are not accounted too.
markReleasedUnaccounted(i) ==
  IF group[i] = Unaccounted
  THEN /\ ticket' = [ticket EXCEPT ![i] = [sink |-> releaseSink, seq |-> 0]]
       /\ UNCHANGED releaseSequences
  ELSE /\ releaseSequences' = [releaseSequences EXCEPT ![group[i]] = @ + 1]
       /\ ticket' = [ticket EXCEPT ![i] =
                       [sink |-> releaseSink, seq |-> releaseSequences[group[i]] + 1]]

\* Seeded fault: the sequence handed to the sink is one ahead of the count.
markReleasedAhead(i) ==
  IF group[i] = Unaccounted
  THEN /\ ticket' = [ticket EXCEPT ![i] = NoTicket]
       /\ UNCHANGED releaseSequences
  ELSE /\ releaseSequences' = [releaseSequences EXCEPT ![group[i]] = @ + 1]
       /\ ticket' = [ticket EXCEPT ![i] =
                       [sink |-> releaseSink, seq |-> releaseSequences[group[i]] + 2]]

\* markReleasedLocked: count the release of an accounted scope and capture
\* the sink that must hear of it.
markReleasedLocked(i) ==
  IF group[i] = Unaccounted
  THEN /\ ticket' = [ticket EXCEPT ![i] = NoTicket]
       /\ UNCHANGED releaseSequences
  ELSE /\ releaseSequences' = [releaseSequences EXCEPT ![group[i]] = @ + 1]
       /\ ticket' = [ticket EXCEPT ![i] =
                       [sink |-> releaseSink, seq |-> releaseSequences[group[i]] + 1]]

\* Seeded fault: the release is counted while the resource is still closing.
EndMarkEarly(i) ==
  /\ Advance(i, "closing", "marked")
  /\ markReleasedLocked(i)
  /\ UNCHANGED <<state, tableVars, group, resource, releaseSink, replay, calls,
                 drainVars, closeVars, barrierVars>>

\* Seeded fault: without the Once, two End calls count one scope twice.
EndMarkTwice(i) ==
  /\ ResourceReleased(i)
  /\ Advance(i, "closing", "marked") \/ Advance(i, "marked", "marked")
  /\ markReleasedLocked(i)
  /\ UNCHANGED <<state, tableVars, group, resource, releaseSink, replay, calls,
                 drainVars, closeVars, barrierVars>>

\* ... once the close returned, the release is counted under mu.
EndMark(i) ==
  /\ ResourceReleased(i)
  /\ Advance(i, "closing", "marked")
  /\ markReleasedLocked(i)
  /\ UNCHANGED <<state, tableVars, group, resource, releaseSink, replay, calls,
                 drainVars, closeVars, barrierVars>>

\* The call a captured ticket asks for; none without a sink or a sequence.
CallOf(i) ==
  IF ticket[i].sink = NoSink THEN {}
  ELSE {<<ticket[i].sink, group[i], ticket[i].seq>>}

\* ... the captured sink is called with mu released.
EndNotify(i) ==
  /\ Advance(i, "marked", "notified")
  /\ calls' = calls \cup CallOf(i)
  /\ UNCHANGED <<state, tableVars, group, resource, ticket, releaseSequences,
                 releaseSink, replay, drainVars, closeVars, barrierVars>>

\* ... the scope leaves the registry and blocked Drain calls wake.
EndRemove(i) ==
  /\ Advance(i, "notified", "done")
  /\ scopes' = scopes \ {i}
  /\ signalLocked
  /\ UNCHANGED <<state, next, pending, group, resource, ticket, sinkVars,
                 drainSet, closeVars, barrierVars>>

-----------------------------------------------------------------------------
(***************************************************************************)
(* The release sink.                                                       *)
(***************************************************************************)
\* Seeded fault: a new sink is not told of the releases before it.
SetReleaseSinkNoReplay(k) ==
  /\ releaseSink' = k
  /\ UNCHANGED <<replay, state, tableVars, ownerVars, releaseSequences, calls,
                 drainVars, closeVars, barrierVars>>

\* SetReleaseSink installs a sink and copies the sequences to replay, under mu.
SetReleaseSink(k) ==
  /\ releaseSink' = k
  /\ replay' = replay \cup
       (IF k = NoSink THEN {}
        ELSE {<<k, g, releaseSequences[g]>> :
                g \in {h \in Groups : releaseSequences[h] > 0}})
  /\ UNCHANGED <<state, tableVars, ownerVars, releaseSequences, calls,
                 drainVars, closeVars, barrierVars>>

\* ... and makes the replay calls one by one with mu released.
ReplayCall(call) ==
  /\ call \in replay
  /\ replay' = replay \ {call}
  /\ calls' = calls \cup {call}
  /\ UNCHANGED <<state, tableVars, ownerVars, releaseSequences, releaseSink,
                 drainVars, closeVars, barrierVars>>

-----------------------------------------------------------------------------
(***************************************************************************)
(* Drain and Close.                                                        *)
(***************************************************************************)
MoveDrain(d, from, to) ==
  /\ drain[d] = from
  /\ drain' = [drain EXCEPT ![d] = to]

\* The compare-and-swap from Accepting; a closed registry refuses.
DrainBegin(d) ==
  /\ MoveDrain(d, "idle", IF state = "closed" THEN "rejected" ELSE "snapshot")
  /\ state' = IF state = "accepting" THEN "draining" ELSE state
  /\ UNCHANGED <<tableVars, ownerVars, sinkVars, drainSet, closeVars, barrierVars>>

DrainSnapshot(d) ==
  /\ MoveDrain(d, "snapshot", "closing")
  /\ drainSet' = [drainSet EXCEPT ![d] = scopes]
  /\ UNCHANGED <<state, tableVars, ownerVars, sinkVars, closeVars, barrierVars>>

\* Drain starts the close of each scope of its snapshot without waiting.
DrainStartClose(d, i) ==
  /\ drain[d] = "closing"
  /\ i \in drainSet[d]
  /\ drainSet' = [drainSet EXCEPT ![d] = @ \ {i}]
  /\ startBoundResourceClose(i)
  /\ UNCHANGED <<state, tableVars, owner, group, ticket, sinkVars, drain,
                 closeVars, barrierVars>>

DrainAllStarted(d) ==
  /\ drainSet[d] = {}
  /\ MoveDrain(d, "closing", "check")
  /\ UNCHANGED <<state, tableVars, ownerVars, sinkVars, drainSet, closeVars,
                 barrierVars>>

\* Seeded fault: Drain only waits for scopes.
DrainCheckScopesOnly(d) ==
  /\ drain[d] = "check"
  /\ IF scopes = {}
     THEN /\ state' = "closed"
          /\ MoveDrain(d, "check", "drained")
     ELSE /\ MoveDrain(d, "check", "blocked")
          /\ UNCHANGED state
  /\ UNCHANGED <<tableVars, ownerVars, sinkVars, drainSet, closeVars, barrierVars>>

\* Under mu: nothing is left and the registry is closed, or the caller
\* captures the change channel and blocks on it.
DrainCheck(d) ==
  /\ drain[d] = "check"
  /\ IF pending = {} /\ scopes = {}
     THEN /\ state' = "closed"
          /\ MoveDrain(d, "check", "drained")
     ELSE /\ MoveDrain(d, "check", "blocked")
          /\ UNCHANGED state
  /\ UNCHANGED <<tableVars, ownerVars, sinkVars, drainSet, closeVars, barrierVars>>

DrainWake(d) ==
  /\ MoveDrain(d, "woken", "check")
  /\ UNCHANGED <<state, tableVars, ownerVars, sinkVars, drainSet, closeVars,
                 barrierVars>>

\* ctx.Done wins the select, also against a change that already happened.
DrainTimeout(d) ==
  /\ drain[d] \in {"blocked", "woken"}
  /\ drain' = [drain EXCEPT ![d] = "timedout"]
  /\ UNCHANGED <<state, tableVars, ownerVars, sinkVars, drainSet, closeVars,
                 barrierVars>>

MoveClose(c, from, to) ==
  /\ close[c] = from
  /\ close' = [close EXCEPT ![c] = to]

\* Under closeMu: wait for a Close under way, return from a closed registry,
\* or become the one that closes.
CloseBegin(c) ==
  /\ MoveClose(c, "idle", IF closeStarted THEN "waiting"
                          ELSE IF state = "closed" THEN "closed" ELSE "store")
  /\ closeStarted' = (closeStarted \/ state # "closed")
  /\ UNCHANGED <<state, tableVars, ownerVars, sinkVars, drainVars, closeSet,
                 closeCur, closeDone, barrierVars>>

\* The compare-and-swap loop ends with a closed state.
CloseStore(c) ==
  /\ MoveClose(c, "store", "snapshot")
  /\ state' = "closed"
  /\ UNCHANGED <<tableVars, ownerVars, sinkVars, drainVars, closeSet, closeCur,
                 closeStarted, closeDone, barrierVars>>

CloseSnapshot(c) ==
  /\ MoveClose(c, "snapshot", "closing")
  /\ closeSet' = [closeSet EXCEPT ![c] = scopes]
  /\ UNCHANGED <<state, tableVars, ownerVars, sinkVars, drainVars, closeCur,
                 closeStarted, closeDone, barrierVars>>

\* Close starts one close and waits for it before it takes the next scope.
CloseStartClose(c, i) ==
  /\ i \in closeSet[c]
  /\ MoveClose(c, "closing", "awaiting")
  /\ closeCur' = [closeCur EXCEPT ![c] = i]
  /\ startBoundResourceClose(i)
  /\ UNCHANGED <<state, tableVars, owner, group, ticket, sinkVars, drainVars,
                 closeSet, closeStarted, closeDone, barrierVars>>

\* Seeded fault: Close goes on without waiting for the close it started.
CloseNoWait(c) ==
  /\ MoveClose(c, "awaiting", "closing")
  /\ closeSet' = [closeSet EXCEPT ![c] = @ \ {closeCur[c]}]
  /\ closeCur' = [closeCur EXCEPT ![c] = 0]
  /\ UNCHANGED <<state, tableVars, ownerVars, sinkVars, drainVars, closeStarted,
                 closeDone, barrierVars>>

CloseAwaited(c) ==
  /\ MoveClose(c, "awaiting", "closing")
  /\ ResourceReleased(closeCur[c])
  /\ closeSet' = [closeSet EXCEPT ![c] = @ \ {closeCur[c]}]
  /\ closeCur' = [closeCur EXCEPT ![c] = 0]
  /\ UNCHANGED <<state, tableVars, ownerVars, sinkVars, drainVars, closeStarted,
                 closeDone, barrierVars>>

\* Seeded fault: closeDone is left open, and callers that joined stay there.
CloseFinishSilent(c) ==
  /\ closeSet[c] = {}
  /\ MoveClose(c, "closing", "closed")
  /\ UNCHANGED <<state, tableVars, ownerVars, sinkVars, drainVars, closeSet,
                 closeCur, closeStarted, closeDone, barrierVars>>

\* Every bound resource is closed: closeDone lets the joined callers return.
CloseFinish(c) ==
  /\ closeSet[c] = {}
  /\ MoveClose(c, "closing", "closed")
  /\ closeDone' = TRUE
  /\ UNCHANGED <<state, tableVars, ownerVars, sinkVars, drainVars, closeSet,
                 closeCur, closeStarted, barrierVars>>

CloseJoin(c) ==
  /\ closeDone
  /\ MoveClose(c, "waiting", "closed")
  /\ UNCHANGED <<state, tableVars, ownerVars, sinkVars, drainVars, closeSet,
                 closeCur, closeStarted, closeDone, barrierVars>>

-----------------------------------------------------------------------------
(***************************************************************************)
(* Observation of the executions in flight.                                *)
(***************************************************************************)
\* ObserveBarrier records a newer barrier and the dispatches begun before it.
ObserveBarrier(b) ==
  /\ b > observedBarrier
  /\ observedBarrier' = b
  /\ pendingBarrierSequence' = next
  /\ barrierAt' = [barrierAt EXCEPT ![b] = next]
  /\ UNCHANGED <<state, tableVars, ownerVars, sinkVars, drainVars, closeVars,
                 publishedBarrier, snapshotRevision>>

\* Seeded fault: the token whose sequence equals the barrier's is overlooked.
BarrierPassedOffByOne == \A i \in pending : i >= pendingBarrierSequence

\* No dispatch begun before the observed barrier is still pending.
BarrierPassed == \A i \in pending : i > pendingBarrierSequence

\* The snapshot lists the scopes of this moment; the barrier moves on if it
\* can.
FreezeInFlight ==
  /\ snapshotRevision < MaxRevision
  /\ snapshotRevision' = snapshotRevision + 1
  /\ publishedBarrier' = IF observedBarrier > publishedBarrier /\ BarrierPassed
                         THEN observedBarrier ELSE publishedBarrier
  /\ UNCHANGED <<state, tableVars, ownerVars, sinkVars, drainVars, closeVars,
                 observedBarrier, pendingBarrierSequence, barrierAt>>

-----------------------------------------------------------------------------
EndStep(i) ==
  \/ EndStartClose(i)
  \/ EndMark(i)
  \/ EndNotify(i)
  \/ EndRemove(i)

OwnerStep ==
  \/ BeginDispatch
  \/ \E i \in Dispatches :
       \/ EndPending(i)
       \/ \E g \in Groups \cup {Unaccounted} : Install(i, g)
       \/ Bind(i)
       \/ ResourceCloses(i)
       \/ EndBegin(i)
       \/ EndStep(i)

SinkStep ==
  \/ \E k \in Sinks \cup {NoSink} : SetReleaseSink(k)
  \/ \E call \in replay : ReplayCall(call)

DrainProgress(d) ==
  \/ DrainSnapshot(d)
  \/ \E i \in Dispatches : DrainStartClose(d, i)
  \/ DrainAllStarted(d)
  \/ DrainCheck(d)
  \/ DrainWake(d)

DrainStep ==
  \E d \in Drainers : DrainBegin(d) \/ DrainProgress(d) \/ DrainTimeout(d)

CloseProgress(c) ==
  \/ CloseStore(c)
  \/ CloseSnapshot(c)
  \/ \E i \in Dispatches : CloseStartClose(c, i)
  \/ CloseAwaited(c)
  \/ CloseFinish(c)
  \/ CloseJoin(c)

CloseStep == \E c \in Closers : CloseBegin(c) \/ CloseProgress(c)

ObserveStep == (\E b \in 1..MaxBarrier : ObserveBarrier(b)) \/ FreezeInFlight

Next == OwnerStep \/ SinkStep \/ DrainStep \/ CloseStep \/ ObserveStep

Spec == Init /\ [][Next]_vars

(***************************************************************************)
(* Fairness: goroutines run.  An owner ends its pending token or its scope *)
(* (its request finishes or its resource is closed under it), a closeFn    *)
(* returns, and started Drain and Close calls go on.  Nothing forces a new *)
(* dispatch, a barrier, a new sink or a timeout.                           *)
(***************************************************************************)
Fairness ==
  /\ \A i \in Dispatches :
       /\ WF_vars(EndPending(i))
       /\ WF_vars(EndBegin(i))
       /\ WF_vars(EndStep(i))
       /\ WF_vars(ResourceCloses(i))
  /\ \A d \in Drainers : WF_vars(DrainProgress(d))
  /\ \A c \in Closers : WF_vars(CloseProgress(c))

FairSpec == Spec /\ Fairness

-----------------------------------------------------------------------------
(***************************************************************************)
(* Properties.                                                             *)
(***************************************************************************)

\* The maps of the registry hold exactly the dispatches whose owners are
\* between BeginDispatch and the end: nothing leaks, nothing is dropped.
TablesMatchOwners ==
  /\ pending = {i \in Dispatches : owner[i] = "pending"}
  /\ scopes = {i \in Dispatches : owner[i] \in InScope}
  /\ \A i \in Dispatches : owner[i] = "none" <=> i > next

\* EndWithRelease counts a release only after the resource bound to the scope
\* was closed, and no resource is bound to a scope that has been counted.
CountedResourcesClosed ==
  \A i \in Dispatches : owner[i] \in Counted => ResourceReleased(i)

\* "Drain rejects new work ... and waits for all owners to end": once a Drain
\* has returned nil nothing is pending or in scope, and nothing ever will be.
DrainedIsEmpty ==
  (\E d \in Drainers : drain[d] = "drained") =>
     pending = {} /\ scopes = {} /\ state = "closed"

\* A Drain call that sleeps on the change channel has something to wait for:
\* the last owner to leave cannot forget to wake it.
NoLostWakeup ==
  \A d \in Drainers : drain[d] = "blocked" => pending # {} \/ scopes # {}

\* "Close ... closes every currently bound resource": when a Close call has
\* returned, whichever way, no resource is open or still closing.
CloseClosesResources ==
  (\E c \in Closers : close[c] = "closed") =>
     \A i \in Dispatches : ResourceReleased(i)

\* The cumulative sequence of a group is the number of its scopes that have
\* been counted: two concurrent ends cannot take the same sequence.
SequenceIsCount ==
  \A g \in Groups :
    releaseSequences[g] =
      Cardinality({i \in Dispatches : owner[i] \in Counted /\ group[i] = g})

\* The sink in force has been told the latest sequence of every group, or a
\* goroutine is on its way to tell it: replacing the sink while scopes end
\* loses no release.
SinkLearnsLatest ==
  releaseSink # NoSink =>
    \A g \in Groups : releaseSequences[g] > 0 =>
      LET latest == <<releaseSink, g, releaseSequences[g]>> IN
        \/ latest \in calls
        \/ latest \in replay
        \/ \E i \in Dispatches : owner[i] = "marked" /\ latest \in CallOf(i)

\* A scope leaves the snapshots of FreezeInFlight only after its release was
\* handed to the sink it captured: Home never misses it in both places.
ReleasedBeforeInvisible ==
  \A i \in Dispatches \ scopes : owner[i] = "done" => CallOf(i) \subseteq calls

\* A snapshot lists the scopes and carries the published barrier: no dispatch
\* that was begun before that barrier was observed is missing from it because
\* it still awaits its installation.
BarrierCoversDispatches ==
  publishedBarrier > 0 => \A i \in pending : i > barrierAt[publishedBarrier]

\* A Drain call in progress returns (nil or its context's error) once owners
\* end their dispatches.
DrainTerminates ==
  \A d \in Drainers :
    drain[d] = "snapshot" ~> drain[d] \in {"drained", "timedout"}

\* Every Close call returns, also one that joined another.
CloseTerminates ==
  \A c \in Closers : close[c] \in {"store", "waiting"} ~> close[c] = "closed"
=============================================================================
