----------------------- MODULE HomeReleasePathProofs -----------------------
(***************************************************************************)
(* The execution registry, for any number of dispatches, groups, sinks and *)
(* callers, and the release path of a Home subscriber lifetime that is     *)
(* built on it: what Home is told implements the ledger it is promised,    *)
(* and a lifetime that drained and flushed cleanly has told all.           *)
(*                                                                         *)
(* The argument composes the two components.  Every step of the path is a  *)
(* step of the registry (RegistryRuns), so the registry's invariant holds  *)
(* here; it bounds the sequences the sink is called with, so every step is *)
(* also a step of the flusher (FlusherRuns), and the flusher's invariant   *)
(* holds too.  What is left is how the two are wired together (PathInv).   *)
(***************************************************************************)
EXTENDS HomeReleasePath, FiniteSetTheorems, TLAPS

----------------------------------------------------------------------------
(* The registry on its own *)

\* A scope is installed, and so given its group, before it takes a ticket.
TicketsCounted ==
  \A i \in Dispatches : ticket[i].sink # NoSink => owner[i] \in Counted

Typed == TypeOK /\ TicketsCounted

USE RegistryAssumption DEF RegistryAssumption

\* A new registry is well typed (New).
LEMMA InitTyped == Init => Typed
<1> SUFFICES ASSUME Init PROVE Typed
  OBVIOUS
<1>1. TableTypes
  BY DEF Init, TableTypes
<1>2. OwnerTypes
  BY DEF Init, OwnerTypes, OwnerState, NoTicket
<1>3. SinkTypes
  BY DEF Init, SinkTypes
<1>4. DrainTypes
  BY DEF Init, DrainTypes, DrainState
<1>5. CloseTypes
  <2>1. closeCur \in [Closers -> 0..MaxDispatch] /\ closeSet \in [Closers -> SUBSET Dispatches]
    BY DEF Init
  <2>2. close \in [Closers -> CloseState]
    BY DEF Init, CloseState
  <2>3. closeStarted \in BOOLEAN /\ closeDone \in BOOLEAN
    BY DEF Init
  <2> QED
    BY <2>1, <2>2, <2>3, Zenon DEF CloseTypes
<1>6. BarrierTypes
  BY DEF Init, BarrierTypes
<1>7. TicketsCounted
  BY DEF Init, TicketsCounted, NoTicket
<1> QED
  BY <1>1, <1>2, <1>3, <1>4, <1>5, <1>6, <1>7 DEF Typed, TypeOK

\* The parts of the state an action leaves alone keep their types.
LEMMA UnchangedTypes ==
  /\ TableTypes /\ UNCHANGED <<state, tableVars>> => TableTypes'
  /\ OwnerTypes /\ UNCHANGED ownerVars => OwnerTypes'
  /\ TicketsCounted /\ UNCHANGED ownerVars => TicketsCounted'
  /\ SinkTypes /\ UNCHANGED sinkVars => SinkTypes'
  /\ DrainTypes /\ UNCHANGED drainVars => DrainTypes'
  /\ CloseTypes /\ UNCHANGED closeVars => CloseTypes'
  /\ BarrierTypes /\ UNCHANGED barrierVars => BarrierTypes'
<1>1. TableTypes /\ UNCHANGED <<state, tableVars>> => TableTypes'
  BY DEF TableTypes, tableVars
<1>2. OwnerTypes /\ UNCHANGED ownerVars => OwnerTypes'
  BY DEF OwnerTypes, ownerVars
<1>3. SinkTypes /\ UNCHANGED sinkVars => SinkTypes'
  BY DEF SinkTypes, sinkVars
<1>4. DrainTypes /\ UNCHANGED drainVars => DrainTypes'
  BY DEF DrainTypes, drainVars
<1>5. CloseTypes /\ UNCHANGED closeVars => CloseTypes'
  BY DEF CloseTypes, closeVars
<1>6. BarrierTypes /\ UNCHANGED barrierVars => BarrierTypes'
  BY DEF BarrierTypes, barrierVars
<1>7. TicketsCounted /\ UNCHANGED ownerVars => TicketsCounted'
  BY DEF TicketsCounted, ownerVars
<1> QED
  BY <1>1, <1>2, <1>3, <1>4, <1>5, <1>6, <1>7

\* The steps of a request's owner keep the types: BeginDispatch, End, Install,
\* Bind, the resource's close and EndWithRelease.
LEMMA OwnerStepTyped == Typed /\ OwnerStep => Typed'
<1> SUFFICES ASSUME Typed, OwnerStep PROVE Typed'
  OBVIOUS
<1> USE UnchangedTypes DEF Typed, TypeOK
<1>1. CASE BeginDispatch
  <2>1. TableTypes'
    BY <1>1 DEF BeginDispatch, TableTypes, Dispatches
  <2>2. OwnerTypes' /\ TicketsCounted'
    BY <1>1 DEF BeginDispatch, Advance, OwnerTypes, OwnerState, TicketsCounted, Counted
  <2> QED
    BY <1>1, <2>1, <2>2 DEF BeginDispatch
<1>2. ASSUME NEW i \in Dispatches, EndPending(i) PROVE Typed'
  <2>1. TableTypes'
    BY <1>2 DEF EndPending, TableTypes
  <2>2. OwnerTypes' /\ TicketsCounted'
    BY <1>2 DEF EndPending, Advance, OwnerTypes, OwnerState, TicketsCounted, Counted
  <2>3. DrainTypes'
    BY <1>2 DEF EndPending, signalLocked, DrainTypes, DrainState
  <2> QED
    BY <1>2, <2>1, <2>2, <2>3 DEF EndPending
<1>3. ASSUME NEW i \in Dispatches, NEW g \in Groups \cup {Unaccounted}, Install(i, g)
      PROVE Typed'
  <2>1. TableTypes'
    BY <1>3 DEF Install, TableTypes
  <2>2. OwnerTypes' /\ TicketsCounted'
    BY <1>3 DEF Install, Advance, OwnerTypes, OwnerState, TicketsCounted, Counted
  <2>3. DrainTypes'
    BY <1>3 DEF Install, signalLocked, DrainTypes, DrainState
  <2> QED
    BY <1>3, <2>1, <2>2, <2>3 DEF Install
<1>4. ASSUME NEW i \in Dispatches, Bind(i) \/ ResourceCloses(i) PROVE Typed'
  <2>1. OwnerTypes' /\ TicketsCounted'
    BY <1>4 DEF Bind, ResourceCloses, OwnerTypes, TicketsCounted
  <2> QED
    BY <1>4, <2>1 DEF Bind, ResourceCloses
<1>5. ASSUME NEW i \in Dispatches, EndBegin(i) \/ EndStartClose(i) PROVE Typed'
  <2>1. OwnerTypes' /\ TicketsCounted'
    BY <1>5 DEF EndBegin, EndStartClose, Advance, startBoundResourceClose, OwnerTypes,
                OwnerState, TicketsCounted, Counted
  <2> QED
    BY <1>5, <2>1 DEF EndBegin, EndStartClose
<1>6. ASSUME NEW i \in Dispatches, EndMark(i) PROVE Typed'
  <2>1. OwnerTypes' /\ TicketsCounted' /\ SinkTypes'
    BY <1>6 DEF EndMark, Advance, markReleasedLocked, NoTicket, OwnerTypes, OwnerState,
                TicketsCounted, Counted, SinkTypes
  <2> QED
    BY <1>6, <2>1 DEF EndMark
<1>7. ASSUME NEW i \in Dispatches, EndNotify(i) PROVE Typed'
  <2>1. OwnerTypes' /\ TicketsCounted'
    BY <1>7 DEF EndNotify, Advance, OwnerTypes, OwnerState, TicketsCounted, Counted
  <2>2. CallOf(i) \subseteq Sinks \X Groups \X Nat
    BY DEF CallOf, OwnerTypes
  <2>3. SinkTypes'
    BY <1>7, <2>2 DEF EndNotify, SinkTypes
  <2> QED
    BY <1>7, <2>1, <2>3 DEF EndNotify
<1>8. ASSUME NEW i \in Dispatches, EndRemove(i) PROVE Typed'
  <2>1. TableTypes'
    BY <1>8 DEF EndRemove, TableTypes
  <2>2. OwnerTypes' /\ TicketsCounted'
    BY <1>8 DEF EndRemove, Advance, OwnerTypes, OwnerState, TicketsCounted, Counted
  <2>3. DrainTypes'
    BY <1>8 DEF EndRemove, signalLocked, DrainTypes, DrainState
  <2> QED
    BY <1>8, <2>1, <2>2, <2>3 DEF EndRemove
<1> QED
  BY <1>1, <1>2, <1>3, <1>4, <1>5, <1>6, <1>7, <1>8 DEF OwnerStep, EndStep

\* So do SetReleaseSink, Drain, Close and the observations.
LEMMA OtherStepTyped ==
  Typed /\ (SinkStep \/ DrainStep \/ CloseStep \/ ObserveStep) => Typed'
<1> SUFFICES ASSUME Typed, SinkStep \/ DrainStep \/ CloseStep \/ ObserveStep PROVE Typed'
  OBVIOUS
<1> USE UnchangedTypes DEF Typed, TypeOK
<1>1. CASE SinkStep
  <2>1. SinkTypes'
    BY <1>1 DEF SinkStep, SetReleaseSink, ReplayCall, SinkTypes
  <2> QED
    BY <1>1, <2>1 DEF SinkStep, SetReleaseSink, ReplayCall
<1>2. ASSUME NEW d \in Drainers, NEW i \in Dispatches, DrainStartClose(d, i) PROVE Typed'
  <2>1. OwnerTypes' /\ TicketsCounted'
    BY <1>2 DEF DrainStartClose, startBoundResourceClose, OwnerTypes, TicketsCounted
  <2>2. DrainTypes'
    BY <1>2 DEF DrainStartClose, DrainTypes
  <2> QED
    BY <1>2, <2>1, <2>2 DEF DrainStartClose
<1>3. ASSUME NEW d \in Drainers,
             \/ DrainBegin(d) \/ DrainSnapshot(d) \/ DrainAllStarted(d) \/ DrainCheck(d)
             \/ DrainWake(d) \/ DrainTimeout(d)
      PROVE Typed'
  <2>1. TableTypes'
    BY <1>3 DEF DrainBegin, DrainSnapshot, DrainAllStarted, DrainCheck, DrainWake,
                DrainTimeout, TableTypes, tableVars
  <2>2. DrainTypes'
    BY <1>3 DEF DrainBegin, DrainSnapshot, DrainAllStarted, DrainCheck, DrainWake,
                DrainTimeout, MoveDrain, DrainTypes, DrainState, TableTypes
  <2>3. UNCHANGED <<ownerVars, sinkVars, closeVars, barrierVars>>
    BY <1>3 DEF DrainBegin, DrainSnapshot, DrainAllStarted, DrainCheck, DrainWake,
                DrainTimeout
  <2> QED
    BY <2>1, <2>2, <2>3
<1>4. ASSUME NEW c \in Closers, NEW i \in Dispatches, CloseStartClose(c, i) PROVE Typed'
  <2>1. OwnerTypes' /\ TicketsCounted'
    BY <1>4 DEF CloseStartClose, startBoundResourceClose, OwnerTypes, TicketsCounted
  <2>2. CloseTypes'
    BY <1>4 DEF CloseStartClose, MoveClose, CloseTypes, CloseState, Dispatches
  <2> QED
    BY <1>4, <2>1, <2>2 DEF CloseStartClose
<1>5. ASSUME NEW c \in Closers,
             \/ CloseBegin(c) \/ CloseStore(c) \/ CloseSnapshot(c) \/ CloseAwaited(c)
             \/ CloseFinish(c) \/ CloseJoin(c)
      PROVE Typed'
  <2>1. TableTypes'
    BY <1>5 DEF CloseBegin, CloseStore, CloseSnapshot, CloseAwaited, CloseFinish,
                CloseJoin, TableTypes, tableVars
  <2>2. CASE CloseBegin(c)
    <3>1. close' \in [Closers -> CloseState]
      BY <2>2 DEF CloseBegin, MoveClose, CloseTypes, CloseState
    <3>2. closeStarted' \in BOOLEAN
      BY <2>2 DEF CloseBegin, CloseTypes
    <3> QED
      BY <2>2, <3>1, <3>2, <2>1 DEF CloseBegin, CloseTypes
  <2>3. CASE CloseStore(c) \/ CloseSnapshot(c) \/ CloseAwaited(c) \/ CloseFinish(c) \/ CloseJoin(c)
    <3>1. close' \in [Closers -> CloseState] /\ closeCur' \in [Closers -> 0..MaxDispatch]
      BY <2>3 DEF CloseStore, CloseSnapshot, CloseAwaited, CloseFinish, CloseJoin,
                  MoveClose, CloseTypes, CloseState
    <3>2. closeSet' \in [Closers -> SUBSET Dispatches]
      BY <2>3 DEF CloseStore, CloseSnapshot, CloseAwaited, CloseFinish, CloseJoin,
                  CloseTypes, TableTypes
    <3>3. closeStarted' \in BOOLEAN /\ closeDone' \in BOOLEAN
      BY <2>3, Zenon DEF CloseStore, CloseSnapshot, CloseAwaited, CloseFinish, CloseJoin,
                         CloseTypes
    <3>4. CloseTypes'
      BY <3>1, <3>2, <3>3, Zenon DEF CloseTypes
    <3> QED
      BY <2>1, <2>3, <3>4 DEF CloseStore, CloseSnapshot, CloseAwaited, CloseFinish, CloseJoin
  <2> QED
    BY <1>5, <2>2, <2>3
<1>6. CASE ObserveStep
  <2>1. BarrierTypes'
    <3>1. ASSUME NEW b \in 1..MaxBarrier, ObserveBarrier(b) PROVE BarrierTypes'
      BY <3>1 DEF ObserveBarrier, BarrierTypes, TableTypes
    <3>2. CASE FreezeInFlight
      <4>1. publishedBarrier' \in 0..MaxBarrier
        BY <3>2 DEF FreezeInFlight, BarrierTypes
      <4> QED
        BY <3>2, <4>1 DEF FreezeInFlight, BarrierTypes
    <3> QED
      BY <1>6, <3>1, <3>2 DEF ObserveStep
  <2> QED
    BY <1>6, <2>1 DEF ObserveStep, ObserveBarrier, FreezeInFlight
<1> QED
  BY <1>1, <1>2, <1>3, <1>4, <1>5, <1>6
  DEF DrainStep, DrainProgress, CloseStep, CloseProgress

\* Every reachable state of the registry is well typed, for any number of
\* dispatches, groups, sinks and callers.
THEOREM TypeCorrect == Spec => []TypeOK
<1>1. Typed /\ [Next]_vars => Typed'
  <2>1. Typed /\ UNCHANGED vars => Typed'
    BY UnchangedTypes DEF Typed, TypeOK, vars
  <2> QED
    BY <2>1, OwnerStepTyped, OtherStepTyped DEF Next
<1>2. Typed => TypeOK
  BY DEF Typed
<1> QED
  BY InitTyped, <1>1, <1>2, PTL DEF Spec

-----------------------------------------------------------------------------
(***************************************************************************)
(* The inductive invariant behind the safety properties.                   *)
(***************************************************************************)
Unreleased == {i \in Dispatches : ~ResourceReleased(i)}

\* A resource that is open, or still closing, belongs to a scope whose end
\* has not been counted.
OpenResourcesInScope ==
  \A i \in Dispatches : ~ResourceReleased(i) => owner[i] \in {"installed", "ending", "closing"}

\* The ticket of a scope that called its sink has reached the calls.
NotifiedCalled ==
  \A i \in Dispatches : owner[i] \in {"notified", "done"} => CallOf(i) \subseteq calls

\* What the registry remembers about barriers.
BarrierMemory ==
  /\ observedBarrier > 0 => pendingBarrierSequence = barrierAt[observedBarrier]
  /\ \A b \in 1..MaxBarrier : barrierAt[b] <= next
  /\ publishedBarrier <= observedBarrier

\* How far each Close call has got.
CloseProgressed ==
  /\ state = "closed" /\ ~closeStarted => scopes = {}
  /\ closeDone => state = "closed" /\ Unreleased = {}
  /\ \A c \in Closers :
       /\ close[c] = "store" => closeStarted
       /\ close[c] \in {"snapshot", "closing", "awaiting", "closed"} => state = "closed"
       /\ close[c] \in {"closing", "awaiting"} => Unreleased \subseteq closeSet[c]
       /\ close[c] = "closed" => Unreleased = {}

\* What each group of actions leaves alone.
LEMMA Frames ==
  /\ SinkStep => UNCHANGED <<state, tableVars, ownerVars, drainVars, closeVars, barrierVars>>
  /\ DrainStep => UNCHANGED <<tableVars, owner, group, ticket, sinkVars, closeVars, barrierVars>>
  /\ CloseStep => UNCHANGED <<tableVars, owner, group, ticket, sinkVars, drainVars, barrierVars>>
  /\ ObserveStep => UNCHANGED <<state, tableVars, ownerVars, sinkVars, drainVars, closeVars>>
  /\ OwnerStep => UNCHANGED <<state, releaseSink, replay, drainSet, closeVars, barrierVars>>
<1>1. SinkStep => UNCHANGED <<state, tableVars, ownerVars, drainVars, closeVars, barrierVars>>
  BY DEF SinkStep, SetReleaseSink, ReplayCall
<1>2. DrainStep => UNCHANGED <<tableVars, owner, group, ticket, sinkVars, closeVars, barrierVars>>
  BY DEF DrainStep, DrainBegin, DrainProgress, DrainSnapshot, DrainStartClose,
         DrainAllStarted, DrainCheck, DrainWake, DrainTimeout, ownerVars
<1>3. CloseStep => UNCHANGED <<tableVars, owner, group, ticket, sinkVars, drainVars, barrierVars>>
  BY DEF CloseStep, CloseBegin, CloseProgress, CloseStore, CloseSnapshot, CloseStartClose,
         CloseAwaited, CloseFinish, CloseJoin, ownerVars
<1>4. ObserveStep => UNCHANGED <<state, tableVars, ownerVars, sinkVars, drainVars, closeVars>>
  BY DEF ObserveStep, ObserveBarrier, FreezeInFlight
<1>5. OwnerStep => UNCHANGED <<state, releaseSink, replay, drainSet, closeVars, barrierVars>>
  BY DEF OwnerStep, BeginDispatch, EndPending, Install, Bind, ResourceCloses, EndBegin,
         EndStep, EndStartClose, EndMark, EndNotify, EndRemove, sinkVars, drainVars
<1> QED
  BY <1>1, <1>2, <1>3, <1>4, <1>5

\* Every step keeps the pending and scope maps in line with the owners.
LEMMA TablesStep == Typed /\ TablesMatchOwners /\ [Next]_vars => TablesMatchOwners'
<1> SUFFICES ASSUME Typed, TablesMatchOwners, [Next]_vars PROVE TablesMatchOwners'
  OBVIOUS
<1> USE DEF TablesMatchOwners
<1>1. CASE UNCHANGED <<tableVars, owner>>
  BY <1>1 DEF tableVars
<1>2. CASE BeginDispatch
  BY <1>2 DEF BeginDispatch, Advance, Typed, TypeOK, TableTypes, OwnerTypes, InScope,
              Dispatches
<1>3. ASSUME NEW i \in Dispatches, EndPending(i) PROVE TablesMatchOwners'
  BY <1>3 DEF EndPending, Advance, Typed, TypeOK, OwnerTypes, InScope
<1>4. ASSUME NEW i \in Dispatches, NEW g, Install(i, g) PROVE TablesMatchOwners'
  BY <1>4 DEF Install, Advance, Typed, TypeOK, OwnerTypes, InScope
<1>5. ASSUME NEW i \in Dispatches,
             EndBegin(i) \/ EndStartClose(i) \/ EndMark(i) \/ EndNotify(i)
      PROVE TablesMatchOwners'
  BY <1>5 DEF EndBegin, EndStartClose, EndMark, EndNotify, Advance, Typed, TypeOK,
              OwnerTypes, InScope, tableVars
<1>6. ASSUME NEW i \in Dispatches, EndRemove(i) PROVE TablesMatchOwners'
  BY <1>6 DEF EndRemove, Advance, Typed, TypeOK, OwnerTypes, InScope
<1>7. ASSUME NEW i \in Dispatches, Bind(i) \/ ResourceCloses(i)
      PROVE UNCHANGED <<tableVars, owner>>
  BY <1>7 DEF Bind, ResourceCloses
<1> QED
  BY <1>1, <1>2, <1>3, <1>4, <1>5, <1>6, <1>7, Frames
  DEF Next, OwnerStep, EndStep, vars, ownerVars

\* Every step keeps counted releases behind the close of their resource.
LEMMA ResourcesStep ==
  Typed /\ OpenResourcesInScope /\ [Next]_vars => OpenResourcesInScope'
<1> SUFFICES ASSUME Typed, OpenResourcesInScope, [Next]_vars PROVE OpenResourcesInScope'
  OBVIOUS
<1> USE DEF OpenResourcesInScope, ResourceReleased, Typed, TypeOK, OwnerTypes
<1>1. CASE UNCHANGED <<owner, resource>>
  BY <1>1
<1>2. CASE BeginDispatch
  BY <1>2 DEF BeginDispatch, Advance
<1>3. ASSUME NEW i \in Dispatches, NEW g, EndPending(i) \/ Install(i, g)
      PROVE OpenResourcesInScope'
  BY <1>3 DEF EndPending, Install, Advance
<1>4. ASSUME NEW i \in Dispatches, Bind(i) \/ ResourceCloses(i)
      PROVE OpenResourcesInScope'
  BY <1>4 DEF Bind, ResourceCloses
<1>5. ASSUME NEW i \in Dispatches,
             EndBegin(i) \/ EndStartClose(i) \/ EndMark(i) \/ EndNotify(i) \/ EndRemove(i)
      PROVE OpenResourcesInScope'
  BY <1>5 DEF EndBegin, EndStartClose, EndMark, EndNotify, EndRemove, Advance,
              startBoundResourceClose
<1>6. CASE DrainStep
  BY <1>6 DEF DrainStep, DrainBegin, DrainProgress, DrainSnapshot, DrainStartClose,
              DrainAllStarted, DrainCheck, DrainWake, DrainTimeout, ownerVars,
              startBoundResourceClose
<1>7. CASE CloseStep
  BY <1>7 DEF CloseStep, CloseBegin, CloseProgress, CloseStore, CloseSnapshot,
              CloseStartClose, CloseAwaited, CloseFinish, CloseJoin, ownerVars,
              startBoundResourceClose
<1> QED
  BY <1>1, <1>2, <1>3, <1>4, <1>5, <1>6, <1>7, Frames
  DEF Next, OwnerStep, EndStep, vars, ownerVars

\* A scope is only past its notification once the captured sink was called.
LEMMA NotifiedStep == Typed /\ NotifiedCalled /\ [Next]_vars => NotifiedCalled'
<1> SUFFICES ASSUME Typed, NotifiedCalled, [Next]_vars PROVE NotifiedCalled'
  OBVIOUS
<1> USE DEF NotifiedCalled, CallOf, Typed, TypeOK, OwnerTypes
<1>1. CASE UNCHANGED <<owner, group, ticket>> /\ calls \subseteq calls'
  BY <1>1
<1>2. CASE BeginDispatch
  BY <1>2 DEF BeginDispatch, Advance, sinkVars
<1>3. ASSUME NEW i \in Dispatches, NEW g, EndPending(i) \/ Install(i, g)
      PROVE NotifiedCalled'
  BY <1>3 DEF EndPending, Install, Advance, sinkVars
<1>4. ASSUME NEW i \in Dispatches, EndBegin(i) \/ EndStartClose(i) \/ EndRemove(i)
      PROVE NotifiedCalled'
  BY <1>4 DEF EndBegin, EndStartClose, EndRemove, Advance, sinkVars
<1>5. ASSUME NEW i \in Dispatches, EndMark(i) PROVE NotifiedCalled'
  BY <1>5 DEF EndMark, markReleasedLocked, Advance
<1>6. ASSUME NEW i \in Dispatches, EndNotify(i) PROVE NotifiedCalled'
  BY <1>6 DEF EndNotify, Advance
<1>7. ASSUME NEW i \in Dispatches, Bind(i) \/ ResourceCloses(i)
      PROVE UNCHANGED <<owner, group, ticket, calls>>
  BY <1>7 DEF Bind, ResourceCloses, sinkVars
<1>8. SinkStep => calls \subseteq calls'
  BY DEF SinkStep, SetReleaseSink, ReplayCall
<1> QED
  BY <1>1, <1>2, <1>3, <1>4, <1>5, <1>6, <1>7, <1>8, Frames
  DEF Next, OwnerStep, EndStep, vars, ownerVars, sinkVars

\* The marked owners of a state keep their tickets.
MarkedKept ==
  \A j \in Dispatches : owner[j] = "marked" =>
     owner'[j] = "marked" /\ group'[j] = group[j] /\ ticket'[j] = ticket[j]

\* Every step leaves the sink in force told, or about to be told, of each
\* group's latest count.
LEMMA SinkLearnsStep == Typed /\ SinkLearnsLatest /\ [Next]_vars => SinkLearnsLatest'
<1> SUFFICES ASSUME Typed, SinkLearnsLatest, [Next]_vars PROVE SinkLearnsLatest'
  OBVIOUS
<1> USE DEF Typed, TypeOK, OwnerTypes, SinkTypes
<1>0. MarkedKept => \A j \in Dispatches : owner[j] = "marked" =>
                       owner'[j] = "marked" /\ CallOf(j)' = CallOf(j)
  BY DEF MarkedKept, CallOf
<1>1. ASSUME UNCHANGED sinkVars, MarkedKept PROVE SinkLearnsLatest'
  BY <1>0, <1>1 DEF SinkLearnsLatest, sinkVars
<1>2. UNCHANGED <<owner, group, ticket>> => MarkedKept
  BY DEF MarkedKept
<1>3. ASSUME BeginDispatch PROVE UNCHANGED sinkVars /\ MarkedKept
  BY <1>3 DEF BeginDispatch, Advance, MarkedKept
<1>4. ASSUME NEW i \in Dispatches, NEW h, EndPending(i) \/ Install(i, h)
      PROVE UNCHANGED sinkVars /\ MarkedKept
  BY <1>4 DEF EndPending, Install, Advance, MarkedKept
<1>5. ASSUME NEW i \in Dispatches, EndBegin(i) \/ EndStartClose(i) \/ EndRemove(i)
      PROVE UNCHANGED sinkVars /\ MarkedKept
  BY <1>5 DEF EndBegin, EndStartClose, EndRemove, Advance, MarkedKept
<1>6. ASSUME NEW i \in Dispatches, EndMark(i) PROVE SinkLearnsLatest'
  <2> SUFFICES ASSUME releaseSink' # NoSink, NEW h \in Groups, releaseSequences'[h] > 0
               PROVE  \/ <<releaseSink', h, releaseSequences'[h]>> \in calls'
                      \/ <<releaseSink', h, releaseSequences'[h]>> \in replay'
                      \/ \E j \in Dispatches :
                           /\ owner'[j] = "marked"
                           /\ <<releaseSink', h, releaseSequences'[h]>> \in CallOf(j)'
    BY DEF SinkLearnsLatest
  <2>1. CASE group[i] = h
    <3>1. /\ releaseSink' = releaseSink /\ group' = group /\ owner'[i] = "marked"
          /\ releaseSequences'[h] = releaseSequences[h] + 1
          /\ ticket'[i] = [sink |-> releaseSink, seq |-> releaseSequences[h] + 1]
      BY <1>6, <2>1 DEF EndMark, markReleasedLocked, Advance
    <3>2. CallOf(i)' = {<<releaseSink', h, releaseSequences'[h]>>}
      BY <2>1, <3>1 DEF CallOf
    <3> QED
      BY <3>1, <3>2
  <2>2. CASE group[i] # h
    <3>1. /\ releaseSink' = releaseSink /\ calls' = calls /\ replay' = replay
          /\ releaseSequences'[h] = releaseSequences[h]
      BY <1>6, <2>2 DEF EndMark, markReleasedLocked
    <3>2. MarkedKept
      BY <1>6 DEF EndMark, markReleasedLocked, Advance, MarkedKept
    <3> QED
      BY <1>0, <3>1, <3>2 DEF SinkLearnsLatest
  <2> QED
    BY <2>1, <2>2
<1>7. ASSUME NEW i \in Dispatches, EndNotify(i) PROVE SinkLearnsLatest'
  BY <1>7 DEF EndNotify, Advance, SinkLearnsLatest, CallOf
<1>8. ASSUME NEW i \in Dispatches, Bind(i) \/ ResourceCloses(i)
      PROVE UNCHANGED <<owner, group, ticket, sinkVars>>
  BY <1>8 DEF Bind, ResourceCloses
<1>9. ASSUME NEW k \in Sinks \cup {NoSink}, SetReleaseSink(k) PROVE SinkLearnsLatest'
  BY <1>9 DEF SetReleaseSink, SinkLearnsLatest
<1>10. ASSUME NEW call \in replay, ReplayCall(call) PROVE SinkLearnsLatest'
  BY <1>10 DEF ReplayCall, ownerVars, SinkLearnsLatest, CallOf
<1> QED
  BY <1>1, <1>2, <1>3, <1>4, <1>5, <1>6, <1>7, <1>8, <1>9, <1>10, Frames
  DEF Next, OwnerStep, SinkStep, EndStep, vars, ownerVars

\* Every step keeps the published barrier ahead of the dispatches it covers.
LEMMA BarrierStep ==
  /\ Typed /\ BarrierMemory /\ BarrierCoversDispatches /\ [Next]_vars
  => BarrierMemory' /\ BarrierCoversDispatches'
<1> SUFFICES ASSUME Typed, BarrierMemory, BarrierCoversDispatches, [Next]_vars
             PROVE  BarrierMemory' /\ BarrierCoversDispatches'
  OBVIOUS
<1> USE DEF BarrierMemory, BarrierCoversDispatches, Typed, TypeOK, TableTypes, BarrierTypes,
            Dispatches
<1>1. CASE UNCHANGED barrierVars /\ next' = next /\ pending' \subseteq pending
  BY <1>1 DEF barrierVars
<1>2. CASE BeginDispatch
  BY <1>2 DEF BeginDispatch, barrierVars
<1>3. ASSUME NEW b \in 1..MaxBarrier, ObserveBarrier(b)
      PROVE BarrierMemory' /\ BarrierCoversDispatches'
  BY <1>3 DEF ObserveBarrier, tableVars
<1>4. CASE FreezeInFlight
  <2>1. CASE observedBarrier > publishedBarrier /\ BarrierPassed
    BY <1>4, <2>1 DEF FreezeInFlight, BarrierPassed, tableVars
  <2>2. CASE ~(observedBarrier > publishedBarrier /\ BarrierPassed)
    BY <1>4, <2>2 DEF FreezeInFlight, tableVars
  <2> QED
    BY <2>1, <2>2
<1>5. OwnerStep => BeginDispatch \/ (next' = next /\ pending' \subseteq pending)
  BY DEF OwnerStep, EndPending, Install, Bind, ResourceCloses, EndBegin,
         EndStep, EndStartClose, EndMark, EndNotify, EndRemove, tableVars
<1> QED
  BY <1>1, <1>2, <1>3, <1>4, <1>5, Frames DEF Next, ObserveStep, vars, tableVars

\* Every step keeps a finished Drain final and a waiting one awakeable.
LEMMA DrainStepSafe ==
  /\ Typed /\ TablesMatchOwners /\ DrainedIsEmpty /\ NoLostWakeup /\ [Next]_vars
  => DrainedIsEmpty' /\ NoLostWakeup'
<1> SUFFICES ASSUME Typed, TablesMatchOwners, DrainedIsEmpty, NoLostWakeup, [Next]_vars
             PROVE  DrainedIsEmpty' /\ NoLostWakeup'
  OBVIOUS
<1> USE DEF DrainedIsEmpty, NoLostWakeup, Typed, TypeOK, DrainTypes, DrainState
<1>1. CASE UNCHANGED <<pending, scopes, drain>> /\ (state = "closed" => state' = "closed")
  BY <1>1
<1>2. CASE BeginDispatch
  BY <1>2 DEF BeginDispatch, drainVars
<1>3. ASSUME NEW i \in Dispatches, NEW g, EndPending(i) \/ Install(i, g) \/ EndRemove(i)
      PROVE DrainedIsEmpty' /\ NoLostWakeup'
  BY <1>3 DEF EndPending, Install, EndRemove, Advance, signalLocked, TablesMatchOwners
<1>4. ASSUME NEW i \in Dispatches,
             \/ EndBegin(i) \/ EndStartClose(i) \/ EndMark(i) \/ EndNotify(i)
             \/ Bind(i) \/ ResourceCloses(i)
      PROVE UNCHANGED <<state, pending, scopes, drain>>
  BY <1>4 DEF EndBegin, EndStartClose, EndMark, EndNotify, Bind, ResourceCloses,
              tableVars, drainVars
<1>5. CASE DrainStep
  BY <1>5 DEF DrainStep, DrainBegin, DrainProgress, DrainSnapshot, DrainStartClose,
              DrainAllStarted, DrainCheck, DrainWake, DrainTimeout, MoveDrain, tableVars
<1>6. CloseStep => (state = "closed" => state' = "closed")
  BY DEF CloseStep, CloseBegin, CloseProgress, CloseStore, CloseSnapshot, CloseStartClose,
         CloseAwaited, CloseFinish, CloseJoin
<1> QED
  BY <1>1, <1>2, <1>3, <1>4, <1>5, <1>6, Frames
  DEF Next, OwnerStep, EndStep, vars, tableVars, drainVars

\* Every step keeps the closes that Close has passed behind it.
LEMMA CloseStepSafe ==
  /\ Typed /\ TablesMatchOwners /\ OpenResourcesInScope /\ CloseProgressed /\ [Next]_vars
  => CloseProgressed'
<1> SUFFICES ASSUME Typed, TablesMatchOwners, OpenResourcesInScope, CloseProgressed,
                    [Next]_vars
             PROVE  CloseProgressed'
  OBVIOUS
<1> USE DEF CloseProgressed, Typed, TypeOK, CloseTypes, CloseState
<1>1. Unreleased \subseteq scopes
  BY DEF Unreleased, OpenResourcesInScope, TablesMatchOwners, InScope
<1>2. ASSUME UNCHANGED closeVars, state' = state,
             state = "closed" => scopes' \subseteq scopes /\ Unreleased' \subseteq Unreleased
      PROVE CloseProgressed'
  BY <1>2 DEF closeVars
<1>3. OwnerStep => (state = "closed" => scopes' \subseteq scopes)
  BY DEF OwnerStep, BeginDispatch, EndPending, Install, Bind, ResourceCloses, EndBegin,
         EndStep, EndStartClose, EndMark, EndNotify, EndRemove, tableVars
<1>4. ASSUME NEW i, startBoundResourceClose(i) PROVE Unreleased' = Unreleased
  BY <1>4 DEF Unreleased, ResourceReleased, startBoundResourceClose, OwnerTypes
<1>5. ASSUME NEW i, ResourceCloses(i) PROVE Unreleased' \subseteq Unreleased
  BY <1>5 DEF Unreleased, ResourceReleased, ResourceCloses, OwnerTypes
<1>6. UNCHANGED resource => Unreleased' = Unreleased
  BY DEF Unreleased, ResourceReleased
<1>7. CASE OwnerStep
  <2>1. state = "closed" => Unreleased' \subseteq Unreleased
    BY <1>4, <1>5, <1>6, <1>7
    DEF OwnerStep, BeginDispatch, EndPending, Install, Bind, EndBegin,
        EndStep, EndStartClose, EndMark, EndNotify, EndRemove, ownerVars
  <2> QED
    BY <1>2, <1>3, <1>7, <2>1, Frames
<1>8. CASE DrainStep
  <2>1. Unreleased' = Unreleased
    BY <1>4, <1>6, <1>8 DEF DrainStep, DrainBegin, DrainProgress, DrainSnapshot,
              DrainStartClose, DrainAllStarted, DrainCheck, DrainWake, DrainTimeout, ownerVars
  <2>2. UNCHANGED <<scopes, closeVars>>
    BY <1>8, Frames DEF tableVars
  <2>3. state' = state \/ (state # "closed" /\ state' = "draining")
                      \/ (state' = "closed" /\ scopes = {})
    BY <1>8 DEF DrainStep, DrainBegin, DrainProgress, DrainSnapshot, DrainStartClose,
                DrainAllStarted, DrainCheck, DrainWake, DrainTimeout
  <2> QED
    BY <1>1, <2>1, <2>2, <2>3 DEF closeVars
<1>9. ASSUME NEW c \in Closers, CloseBegin(c) PROVE CloseProgressed'
  BY <1>1, <1>6, <1>9 DEF CloseBegin, MoveClose, tableVars, ownerVars
<1>10. ASSUME NEW c \in Closers, CloseStore(c) \/ CloseSnapshot(c) PROVE CloseProgressed'
  BY <1>1, <1>6, <1>10 DEF CloseStore, CloseSnapshot, MoveClose, tableVars, ownerVars
<1>11. ASSUME NEW c \in Closers, NEW i \in Dispatches, CloseStartClose(c, i)
       PROVE CloseProgressed'
  BY <1>4, <1>11 DEF CloseStartClose, MoveClose, tableVars
<1>12. ASSUME NEW c \in Closers, CloseAwaited(c) PROVE CloseProgressed'
  <2>1. closeCur[c] \notin Unreleased
    BY <1>12 DEF CloseAwaited, Unreleased
  <2> QED
    BY <1>6, <1>12, <2>1 DEF CloseAwaited, MoveClose, tableVars, ownerVars
<1>13. ASSUME NEW c \in Closers, CloseFinish(c) \/ CloseJoin(c) PROVE CloseProgressed'
  BY <1>6, <1>13 DEF CloseFinish, CloseJoin, MoveClose, tableVars, ownerVars
<1>14. CASE SinkStep \/ ObserveStep \/ UNCHANGED vars
  BY <1>2, <1>6, <1>14, Frames DEF vars, ownerVars, tableVars
<1> QED
  BY <1>7, <1>8, <1>9, <1>10, <1>11, <1>12, <1>13, <1>14
  DEF Next, CloseStep, CloseProgress

\* The scopes of group g whose release has been counted.
CountedIn(g) == {i \in Dispatches : owner[i] \in Counted /\ group[i] = g}

\* Every step keeps a group's sequence equal to its counted scopes.
LEMMA CountStep == Typed /\ SequenceIsCount /\ [Next]_vars => SequenceIsCount'
<1> SUFFICES ASSUME Typed, SequenceIsCount, [Next]_vars, NEW g \in Groups
             PROVE  releaseSequences'[g] = Cardinality(CountedIn(g)')
  BY DEF SequenceIsCount, CountedIn
<1>1. releaseSequences[g] = Cardinality(CountedIn(g))
  BY DEF SequenceIsCount, CountedIn
<1> USE DEF Typed, TypeOK, OwnerTypes
<1>2. UNCHANGED <<owner, group>> => CountedIn(g)' = CountedIn(g)
  BY DEF CountedIn
<1>3. BeginDispatch => CountedIn(g)' = CountedIn(g) /\ UNCHANGED releaseSequences
  BY DEF BeginDispatch, Advance, CountedIn, Counted, sinkVars
<1>4. ASSUME NEW i \in Dispatches, NEW h, EndPending(i) \/ Install(i, h)
      PROVE CountedIn(g)' = CountedIn(g) /\ UNCHANGED releaseSequences
  BY <1>4 DEF EndPending, Install, Advance, CountedIn, Counted, sinkVars
<1>5. ASSUME NEW i \in Dispatches,
             EndBegin(i) \/ EndStartClose(i) \/ EndNotify(i) \/ EndRemove(i)
      PROVE CountedIn(g)' = CountedIn(g) /\ UNCHANGED releaseSequences
  BY <1>5 DEF EndBegin, EndStartClose, EndNotify, EndRemove, Advance, CountedIn, Counted,
              sinkVars
<1>6. ASSUME NEW i \in Dispatches, EndMark(i)
      PROVE releaseSequences'[g] = Cardinality(CountedIn(g)')
  <2>1. CASE group[i] = g
    <3>1. CountedIn(g)' = CountedIn(g) \cup {i} /\ i \notin CountedIn(g)
      BY <1>6, <2>1 DEF EndMark, Advance, CountedIn, Counted
    <3>2. releaseSequences'[g] = releaseSequences[g] + 1
      BY <1>6, <2>1 DEF EndMark, markReleasedLocked, SinkTypes
    <3>3. IsFiniteSet(CountedIn(g))
      <4>1. IsFiniteSet(Dispatches)
        BY FS_Interval DEF Dispatches
      <4> QED
        BY <4>1, FS_Subset DEF CountedIn
    <3>4. Cardinality(CountedIn(g) \cup {i}) = Cardinality(CountedIn(g)) + 1
      BY <3>1, <3>3, FS_AddElement
    <3> QED
      BY <1>1, <3>1, <3>2, <3>4
  <2>2. CASE group[i] # g
    <3>1. CountedIn(g)' = CountedIn(g)
      BY <1>6, <2>2 DEF EndMark, Advance, CountedIn, Counted
    <3>2. releaseSequences'[g] = releaseSequences[g]
      BY <1>6, <2>2 DEF EndMark, markReleasedLocked, SinkTypes
    <3> QED
      BY <1>1, <3>1, <3>2
  <2> QED
    BY <2>1, <2>2
<1>7. ASSUME NEW i \in Dispatches, Bind(i) \/ ResourceCloses(i)
      PROVE UNCHANGED <<owner, group, releaseSequences>>
  BY <1>7 DEF Bind, ResourceCloses, sinkVars
<1>8. SinkStep => UNCHANGED releaseSequences
  BY DEF SinkStep, SetReleaseSink, ReplayCall
<1> QED
  BY <1>1, <1>2, <1>3, <1>4, <1>5, <1>6, <1>7, <1>8, Frames
  DEF Next, OwnerStep, EndStep, vars, ownerVars, sinkVars

-----------------------------------------------------------------------------
IInv ==
  /\ Typed
  /\ TablesMatchOwners
  /\ OpenResourcesInScope
  /\ NotifiedCalled
  /\ SinkLearnsLatest
  /\ SequenceIsCount
  /\ BarrierMemory
  /\ BarrierCoversDispatches
  /\ DrainedIsEmpty
  /\ NoLostWakeup
  /\ CloseProgressed

\* A new registry satisfies the whole invariant.
LEMMA InitIInv == Init => IInv
<1> SUFFICES ASSUME Init PROVE IInv
  OBVIOUS
<1>1. TablesMatchOwners
  BY DEF Init, TablesMatchOwners, InScope, Dispatches
<1>2. OpenResourcesInScope /\ Unreleased = {}
  BY DEF Init, OpenResourcesInScope, ResourceReleased, Unreleased
<1>3. NotifiedCalled /\ SinkLearnsLatest
  BY DEF Init, NotifiedCalled, SinkLearnsLatest
<1>4. SequenceIsCount
  <2> SUFFICES ASSUME NEW g \in Groups
               PROVE releaseSequences[g] =
                 Cardinality({i \in Dispatches : owner[i] \in Counted /\ group[i] = g})
    BY DEF SequenceIsCount
  <2>1. {i \in Dispatches : owner[i] \in Counted /\ group[i] = g} = {}
    BY DEF Init, Counted
  <2> QED
    BY <2>1, FS_EmptySet DEF Init
<1>5. BarrierMemory /\ BarrierCoversDispatches
  BY DEF Init, BarrierMemory, BarrierCoversDispatches
<1>6. DrainedIsEmpty /\ NoLostWakeup
  BY DEF Init, DrainedIsEmpty, NoLostWakeup
<1>7. CloseProgressed
  BY DEF Init, CloseProgressed
<1> QED
  BY <1>1, <1>2, <1>3, <1>4, <1>5, <1>6, <1>7, InitTyped DEF IInv

\* The conjunction above is an invariant: each part is preserved by every
\* step from a state that satisfies all of them.
THEOREM Invariance == Spec => []IInv
<1>1. IInv /\ [Next]_vars => IInv'
  <2>1. Typed /\ UNCHANGED vars => Typed'
    BY UnchangedTypes DEF Typed, TypeOK, vars
  <2> QED
    BY <2>1, OwnerStepTyped, OtherStepTyped, TablesStep, ResourcesStep, NotifiedStep,
       SinkLearnsStep, CountStep, BarrierStep, DrainStepSafe, CloseStepSafe
    DEF IInv, Next
<1> QED
  BY InitIInv, <1>1, PTL DEF Spec

\* A Drain that returned nil left nothing behind and nothing can follow it.
THEOREM DrainSafe == Spec => [](DrainedIsEmpty /\ NoLostWakeup)
<1>1. IInv => DrainedIsEmpty /\ NoLostWakeup
  BY DEF IInv
<1> QED
  BY <1>1, Invariance, PTL

\* When a Close call has returned, every bound resource has been closed.
THEOREM CloseSafe == Spec => []CloseClosesResources
<1>1. IInv => CloseClosesResources
  BY DEF IInv, CloseProgressed, CloseClosesResources, Unreleased
<1> QED
  BY <1>1, Invariance, PTL

\* A release is counted once, after its resource is closed; the sink in force
\* hears of the latest count, and a scope is visible until then.
THEOREM ReleaseSafe ==
  Spec => [](/\ SequenceIsCount /\ SinkLearnsLatest
             /\ ReleasedBeforeInvisible /\ CountedResourcesClosed)
<1>1. IInv => /\ SequenceIsCount /\ SinkLearnsLatest
              /\ ReleasedBeforeInvisible /\ CountedResourcesClosed
  BY DEF IInv, NotifiedCalled, ReleasedBeforeInvisible, OpenResourcesInScope,
         CountedResourcesClosed, Counted
<1> QED
  BY <1>1, Invariance, PTL

\* SetReleaseSink replays the counts it missed: whatever the order of sink
\* changes and releases, the sink in force was told or is about to be told the
\* latest count of every group.
THEOREM SinksInformed == Spec => []SinkLearnsLatest
<1> QED
  BY ReleaseSafe, PTL

\* End counts a release only after the close of the bound resource returned.
THEOREM ResourcesClosed == Spec => []CountedResourcesClosed
<1> QED
  BY ReleaseSafe, PTL

\* A published barrier covers every dispatch begun before it was observed.
THEOREM BarrierSafe == Spec => []BarrierCoversDispatches
<1>1. IInv => BarrierCoversDispatches
  BY DEF IInv
<1> QED
  BY <1>1, Invariance, PTL

----------------------------------------------------------------------------
(* The path *)

FP == INSTANCE ReleaseFlusherProofs WITH NoGroup <- Unaccounted, MaxSeq <- MaxDispatch

USE RegistryAssumption, PathAssumption DEF RegistryAssumption, PathAssumption

----------------------------------------------------------------------------
(* The registry inside the path *)

(* The registry moves as on its own, or rests. *)
LEMMA RegistryStep == [PathNext]_allVars => [Next]_vars
<1> SUFFICES ASSUME [PathNext]_allVars PROVE [Next]_vars
  OBVIOUS
<1>1. CASE Start
  BY <1>1 DEF Start, Next, SinkStep
<1>2. CASE OwnerMoves
  BY <1>2 DEF OwnerMoves, Next, OwnerStep, EndStep
<1>3. ASSUME NEW i \in Dispatches, Notify(i) PROVE Next
  BY <1>3 DEF Notify, Next, OwnerStep, EndStep
<1>4. CASE EndLifetime \/ DrainMoves
  BY <1>4 DEF EndLifetime, DrainMoves, Next, DrainStep
<1>5. CASE DrainReturns \/ FlushMoves \/ FlushReturns \/ RunMoves \/ CancelRun
  BY <1>5 DEF DrainReturns, FlushMoves, FlushReturns, RunMoves, CancelRun
<1>6. CASE UNCHANGED allVars
  BY <1>6 DEF allVars
<1> QED
  BY <1>1, <1>2, <1>3, <1>4, <1>5, <1>6 DEF PathNext

(* The registry of a subscriber lifetime behaves as a registry. *)
THEOREM RegistryRuns == PathSpec => Spec
<1>1. PathInit => Init
  BY DEF PathInit
<1> QED
  BY <1>1, RegistryStep, PTL DEF PathSpec, Spec

(* The sequence a release took is one of its group's, and the group's are  *)
(* at most the dispatches of the lifetime.                                 *)
TicketBound ==
  \A i \in Dispatches : ticket[i].sink # NoSink =>
    ticket[i].seq >= 1 /\ ticket[i].seq <= releaseSequences[group[i]]

(* A sequence counts scopes, so it is at most the number of dispatches. *)
LEMMA SequenceBound ==
  IInv => \A g \in Groups : releaseSequences[g] \in 0..MaxDispatch
<1> SUFFICES ASSUME IInv, NEW g \in Groups PROVE releaseSequences[g] \in 0..MaxDispatch
  OBVIOUS
<1>1. IsFiniteSet(Dispatches) /\ Cardinality(Dispatches) = MaxDispatch
  <2>1. MaxDispatch \in Int /\ MaxDispatch >= 0
    OBVIOUS
  <2>2. /\ IsFiniteSet(1..MaxDispatch)
        /\ Cardinality(1..MaxDispatch) = IF 1 > MaxDispatch THEN 0 ELSE MaxDispatch - 1 + 1
    BY <2>1, FS_Interval
  <2> QED
    BY <2>1, <2>2 DEF Dispatches
<1>2. CountedIn(g) \subseteq Dispatches
  BY DEF CountedIn
<1>3. /\ Cardinality(CountedIn(g)) <= MaxDispatch
      /\ Cardinality(CountedIn(g)) \in Nat
  BY <1>1, <1>2, FS_Subset, FS_CardinalityType
<1>4. releaseSequences[g] = Cardinality(CountedIn(g))
  BY DEF IInv, SequenceIsCount, CountedIn
<1> QED
  BY <1>3, <1>4

(* Sequences grow by one at the end of a scope and never otherwise. *)
LEMMA SequenceGrows ==
  ASSUME Typed, [Next]_vars
  PROVE  \/ UNCHANGED releaseSequences
         \/ \E g \in Groups :
              releaseSequences' = [releaseSequences EXCEPT ![g] = @ + 1]
<1>1. ASSUME NEW i \in Dispatches, EndMark(i)
      PROVE  \/ UNCHANGED releaseSequences
             \/ \E g \in Groups :
                  releaseSequences' = [releaseSequences EXCEPT ![g] = @ + 1]
  BY <1>1 DEF EndMark, markReleasedLocked, Typed, TypeOK, OwnerTypes
<1>2. ASSUME NEW i \in Dispatches, NEW h,
             \/ EndPending(i) \/ Install(i, h) \/ Bind(i) \/ ResourceCloses(i)
             \/ EndBegin(i) \/ EndStartClose(i) \/ EndNotify(i) \/ EndRemove(i)
      PROVE  UNCHANGED releaseSequences
  BY <1>2 DEF EndPending, Install, Bind, ResourceCloses, EndBegin, EndStartClose,
              EndNotify, EndRemove, sinkVars
<1>3. BeginDispatch \/ SinkStep => UNCHANGED releaseSequences
  BY DEF BeginDispatch, SinkStep, SetReleaseSink, ReplayCall, sinkVars
<1>4. UNCHANGED vars \/ DrainStep \/ CloseStep \/ ObserveStep => UNCHANGED releaseSequences
  BY Frames DEF vars, sinkVars
<1> QED
  BY <1>1, <1>2, <1>3, <1>4 DEF Next, OwnerStep, EndStep

(* A ticket is cut for the count of its moment, which only grows. *)
LEMMA TicketStep == Typed /\ TicketBound /\ [Next]_vars => TicketBound'
<1> SUFFICES ASSUME Typed, TicketBound, [Next]_vars PROVE TicketBound'
  OBVIOUS
<1>0. /\ releaseSequences \in [Groups -> Nat]
      /\ ticket \in [Dispatches -> [sink : Sinks \cup {NoSink}, seq : Nat]]
      /\ \A i \in Dispatches : ticket[i].sink # NoSink =>
           group[i] \in Groups /\ owner[i] \in Counted
      /\ group \in [Dispatches -> Groups \cup {Unaccounted}]
      /\ owner \in [Dispatches -> OwnerState]
  BY DEF Typed, TypeOK, SinkTypes, OwnerTypes, TicketsCounted
<1>1. \A g \in Groups : releaseSequences[g] <= releaseSequences'[g]
                        /\ releaseSequences'[g] \in Nat
  BY <1>0, SequenceGrows
<1>2. ASSUME UNCHANGED <<group, ticket>> PROVE TicketBound'
  BY <1>0, <1>1, <1>2 DEF TicketBound
<1>3. ASSUME NEW i \in Dispatches, NEW h, Install(i, h) PROVE TicketBound'
  <2>1. UNCHANGED ticket /\ owner[i] = "pending"
        /\ \A j \in Dispatches : j # i => group'[j] = group[j]
    BY <1>0, <1>3 DEF Install, Advance
  <2>2. ticket[i].sink = NoSink
    BY <1>0, <2>1 DEF Counted
  <2> QED
    BY <1>0, <1>1, <2>1, <2>2 DEF TicketBound
<1>4. ASSUME NEW i \in Dispatches, EndMark(i) PROVE TicketBound'
  <2>1. UNCHANGED group /\ \A j \in Dispatches : j # i => ticket'[j] = ticket[j]
    BY <1>0, <1>4 DEF EndMark, markReleasedLocked
  <2>2. ticket'[i].sink # NoSink =>
          /\ group[i] \in Groups
          /\ ticket'[i].seq = releaseSequences[group[i]] + 1
          /\ releaseSequences'[group[i]] = releaseSequences[group[i]] + 1
    BY <1>0, <1>4 DEF EndMark, markReleasedLocked, NoTicket
  <2> QED
    BY <1>0, <1>1, <2>1, <2>2 DEF TicketBound
<1>5. ASSUME NEW i \in Dispatches,
             \/ EndPending(i) \/ Bind(i) \/ ResourceCloses(i)
             \/ EndBegin(i) \/ EndStartClose(i) \/ EndNotify(i) \/ EndRemove(i)
      PROVE  UNCHANGED <<group, ticket>>
  BY <1>5 DEF EndPending, Bind, ResourceCloses, EndBegin, EndStartClose,
              EndNotify, EndRemove
<1>6. BeginDispatch \/ SinkStep \/ DrainStep \/ CloseStep \/ ObserveStep \/ UNCHANGED vars
        => UNCHANGED <<group, ticket>>
  BY Frames DEF BeginDispatch, vars, ownerVars
<1> QED
  BY <1>2, <1>3, <1>4, <1>5, <1>6 DEF Next, OwnerStep, EndStep

(* Throughout a lifetime the registry's invariant and the bound hold. *)
LEMMA RegistryInv == PathSpec => [](IInv /\ TicketBound)
<1>1. PathInit => TicketBound
  BY DEF PathInit, Init, NoTicket, TicketBound
<1>2. IInv /\ TicketBound /\ [PathNext]_allVars => TicketBound'
  BY RegistryStep, TicketStep DEF IInv
<1>3. PathSpec => []IInv
  BY RegistryRuns, Invariance, PTL
<1> QED
  BY <1>1, <1>2, <1>3, PTL DEF PathSpec

----------------------------------------------------------------------------
(* The flusher inside the path *)

(* What the flusher's proofs assume of its constants holds of the ones it  *)
(* is given here.                                                          *)
LEMMA FlusherConstants ==
  /\ Unaccounted \notin Groups
  /\ FlushInterval \in Nat \ {0}
  /\ MaxBackoff \in Nat
  /\ MaxBackoff >= FlushInterval
  /\ MaxDispatch \in Nat
OBVIOUS

(* The flusher the path runs is the one the proofs are about. *)
LEMMA SameSteps ==
  /\ F!Init => FP!Init
  /\ pathVars' = pathVars <=> UNCHANGED FP!vars
  /\ \A g, n : F!MarkDirty(g, n) => FP!MarkDirty(g, n)
  /\ F!RunStep => FP!RunStep
  /\ F!RunStops => FP!RunStops
  /\ F!FlushBegin => FP!FlushBegin
  /\ F!FlushIdle => FP!FlushIdle
  /\ F!FlushExpires => FP!FlushExpires
<1> USE DEF F!flusherVars, FP!flusherVars, F!runVars, FP!runVars
<1>1. F!Init => FP!Init
  BY DEF F!Init, FP!Init
<1>2. pathVars' = pathVars <=> UNCHANGED FP!vars
  BY DEF pathVars, FP!vars
<1>3. \A g, n : F!MarkDirty(g, n) => FP!MarkDirty(g, n)
  BY DEF F!MarkDirty, FP!MarkDirty
<1>4. F!RunStep => FP!RunStep
  <2>1. F!RunWake => FP!RunWake
    BY DEF F!RunWake, FP!RunWake
  <2>2. F!RunFlush => FP!RunFlush
    BY DEF F!RunFlush, FP!RunFlush, F!Dirty, FP!Dirty
  <2>3. \A g \in Groups : F!SendAcknowledged(g) => FP!SendAcknowledged(g)
    BY DEF F!SendAcknowledged, FP!SendAcknowledged, F!HomeReceives, FP!HomeReceives,
           F!MaxOf, FP!MaxOf
  <2>4. \A g \in Groups : F!SendFails(g) => FP!SendFails(g)
    BY DEF F!SendFails, FP!SendFails, F!HomeReceives, FP!HomeReceives, F!MaxOf, FP!MaxOf
  <2>5. F!RecordAck => FP!RecordAck
    BY DEF F!RecordAck, FP!RecordAck, F!Acknowledge, FP!Acknowledge
  <2>6. F!RunFlushed => FP!RunFlushed
    BY DEF F!RunFlushed, FP!RunFlushed, F!NextDelay, FP!NextDelay, F!MinOf, FP!MinOf,
           F!MaxOf, FP!MaxOf
  <2> QED
    BY <2>1, <2>2, <2>3, <2>4, <2>5, <2>6 DEF F!RunStep, FP!RunStep
<1>5. F!RunStops => FP!RunStops
  BY DEF F!RunStops, FP!RunStops
<1>6. F!FlushBegin => FP!FlushBegin
  BY DEF F!FlushBegin, FP!FlushBegin
<1>7. F!FlushIdle => FP!FlushIdle
  BY DEF F!FlushIdle, FP!FlushIdle, F!Dirty, FP!Dirty
<1>8. F!FlushExpires => FP!FlushExpires
  BY DEF F!FlushExpires, FP!FlushExpires
<1> QED
  BY <1>1, <1>2, <1>3, <1>4, <1>5, <1>6, <1>7, <1>8

(* The flusher moves as on its own, or rests: the sink is called with a    *)
(* sequence of its group.                                                  *)
LEMMA FlusherStep ==
  IInv /\ TicketBound /\ [PathNext]_allVars => [FP!Next]_(FP!vars)
<1> SUFFICES ASSUME IInv, TicketBound, [PathNext]_allVars
             PROVE  FP!Next \/ UNCHANGED FP!vars
  OBVIOUS
<1>1. CASE UNCHANGED pathVars
  BY <1>1, SameSteps
<1>2. ASSUME NEW i \in Dispatches, Notify(i) PROVE FP!Next \/ UNCHANGED FP!vars
  <2>1. CASE CallOf(i) = {}
    BY <1>1, <1>2, <2>1 DEF Notify
  <2>2. CASE CallOf(i) # {}
    <3>1. ticket[i].sink # NoSink
      BY <2>2 DEF CallOf
    <3>2. group[i] \in Groups /\ ticket[i].seq \in Nat
      BY <3>1 DEF IInv, Typed, TypeOK, OwnerTypes
    <3>3. ticket[i].seq \in 1..MaxDispatch
      BY <3>1, <3>2, SequenceBound DEF TicketBound
    <3>4. FP!MarkDirty(group[i], ticket[i].seq)
      BY <1>2, <2>2, SameSteps DEF Notify
    <3> QED
      BY <3>2, <3>3, <3>4 DEF FP!Next
  <2> QED
    BY <2>1, <2>2
<1>3. CASE DrainReturns
  BY <1>1, <1>3, SameSteps DEF DrainReturns, FP!Next
<1>4. CASE FlushMoves \/ RunMoves \/ CancelRun
  BY <1>4, SameSteps DEF FlushMoves, RunMoves, CancelRun, FP!Next
<1>5. Start \/ OwnerMoves \/ EndLifetime \/ DrainMoves \/ FlushReturns \/ UNCHANGED allVars
        => UNCHANGED pathVars
  BY DEF Start, OwnerMoves, EndLifetime, DrainMoves, FlushReturns, allVars
<1> QED
  BY <1>1, <1>2, <1>3, <1>4, <1>5 DEF PathNext

(* The flusher of a subscriber lifetime behaves as a flusher. *)
THEOREM FlusherRuns == PathSpec => FP!Spec
<1>1. PathInit => FP!Init
  BY SameSteps DEF PathInit
<1> QED
  BY <1>1, FlusherStep, RegistryInv, PTL DEF PathSpec, FP!Spec

----------------------------------------------------------------------------
(* How the two are wired together *)

(* The flusher is the sink from the start on, before any dispatch, so      *)
(* there is nothing to replay.                                             *)
SinkWired ==
  /\ replay = {}
  /\ lifetime = "starting" => \A i \in Dispatches : owner[i] = "none"
  /\ lifetime # "starting" => releaseSink = Flusher

(* Every call of the sink has marked its group. *)
CallsMarked == \A call \in calls : <<call[2], call[3]>> \in issued

(* Nothing on the way to Home is ahead of what was released. *)
NotAhead ==
  \A g \in Groups :
    /\ latest[g] <= releaseSequences[g]
    /\ batch[g] <= releaseSequences[g]
    /\ homeSeq[g] <= releaseSequences[g]

(* The releases are flushed after Drain returned nil, and a Flush that     *)
(* returned nil found Home informed of each of them.                       *)
FlushedLast ==
  /\ flush # "idle" => drain[Subscriber] = "drained" /\ lifetime # "starting"
  /\ flush = "flushed" => \A g \in Groups : homeSeq[g] = releaseSequences[g]
  /\ lifetime = "settled" => flush = "flushed"

PathInv == SinkWired /\ CallsMarked /\ NotAhead /\ FlushedLast

(* The invariants of the two components *)
PartsInv == IInv /\ TicketBound /\ FP!IInv

(* Types of what the path connects, from the components' invariants *)
LEMMA PathTypes ==
  PartsInv =>
    /\ releaseSequences \in [Groups -> Nat]
    /\ latest \in [Groups -> Nat] /\ batch \in [Groups -> Nat]
    /\ homeSeq \in [Groups -> Nat] /\ acked \in [Groups -> Nat]
    /\ owner \in [Dispatches -> OwnerState]
    /\ drain \in [Drainers -> DrainState]
<1> SUFFICES ASSUME PartsInv
             PROVE  /\ releaseSequences \in [Groups -> Nat]
                    /\ latest \in [Groups -> Nat] /\ batch \in [Groups -> Nat]
                    /\ homeSeq \in [Groups -> Nat] /\ acked \in [Groups -> Nat]
                    /\ owner \in [Dispatches -> OwnerState]
                    /\ drain \in [Drainers -> DrainState]
  OBVIOUS
<1>1. /\ latest \in [Groups -> 0..MaxDispatch] /\ batch \in [Groups -> 0..MaxDispatch]
      /\ homeSeq \in [Groups -> 0..MaxDispatch] /\ acked \in [Groups -> 0..MaxDispatch]
  BY DEF PartsInv, FP!IInv, FP!TypeOK
<1>2. /\ releaseSequences \in [Groups -> Nat]
      /\ owner \in [Dispatches -> OwnerState] /\ drain \in [Drainers -> DrainState]
  BY DEF PartsInv, IInv, Typed, TypeOK, SinkTypes, OwnerTypes, DrainTypes
<1> QED
  BY <1>1, <1>2

(* Once a Drain returned nil every scope has been counted. *)
LEMMA DrainedCounted ==
  ASSUME PartsInv, drain[Subscriber] = "drained"
  PROVE  \A i \in Dispatches : owner[i] \in {"none", "refused", "done"}
<1>1. pending = {} /\ scopes = {}
  BY DEF PartsInv, IInv, DrainedIsEmpty
<1>2. \A i \in Dispatches : owner[i] # "pending" /\ owner[i] \notin InScope
  BY <1>1 DEF PartsInv, IInv, TablesMatchOwners
<1> QED
  BY <1>2, PathTypes DEF OwnerState, InScope

(* Once a Drain returned nil the sink has been told the latest count of    *)
(* every group that released anything.                                     *)
LEMMA DrainedMarked ==
  ASSUME PartsInv, PathInv, drain[Subscriber] = "drained", lifetime # "starting",
         NEW g \in Groups, releaseSequences[g] > 0
  PROVE  <<g, releaseSequences[g]>> \in issued
<1>1. releaseSink = Flusher /\ Flusher # NoSink /\ replay = {}
  BY DEF PathInv, SinkWired
<1>2. <<Flusher, g, releaseSequences[g]>> \in calls
  BY <1>1, DrainedCounted DEF PartsInv, IInv, SinkLearnsLatest
<1> QED
  BY <1>2, PathTypes DEF PathInv, CallsMarked

----------------------------------------------------------------------------
(* The steps, seen from Home and from the lifetime *)

(* Only a send changes what Home knows; the registry rests meanwhile. *)
LEMMA HomeStep ==
  ASSUME PartsInv, [PathNext]_allVars
  PROVE  \/ UNCHANGED homeSeq
         \/ /\ UNCHANGED <<vars, lifetime>>
            /\ \E g \in Groups :
                 /\ batch[g] > 0
                 /\ homeSeq' = [homeSeq EXCEPT
                       ![g] = IF homeSeq[g] > batch[g] THEN homeSeq[g] ELSE batch[g]]
<1> USE DEF F!flusherVars, F!runVars
<1>1. CASE UNCHANGED pathVars
  BY <1>1 DEF pathVars
<1>2. ASSUME NEW i \in Dispatches, Notify(i) PROVE UNCHANGED homeSeq
  BY <1>2 DEF Notify, F!MarkDirty, pathVars
<1>3. CASE DrainReturns
  BY <1>3 DEF DrainReturns, F!FlushBegin, pathVars
<1>4. CASE FlushMoves \/ CancelRun
  BY <1>4 DEF FlushMoves, CancelRun, F!FlushIdle, F!FlushExpires, F!RunStops
<1>5. CASE RunMoves
  <2>1. ASSUME NEW g \in Groups, F!SendAcknowledged(g) \/ F!SendFails(g)
        PROVE  \/ UNCHANGED homeSeq
               \/ /\ batch[g] > 0
                  /\ homeSeq' = [homeSeq EXCEPT
                       ![g] = IF homeSeq[g] > batch[g] THEN homeSeq[g] ELSE batch[g]]
    BY <2>1 DEF F!SendAcknowledged, F!SendFails, F!HomeReceives, F!MaxOf
  <2>2. F!RunWake \/ F!RunFlush \/ F!RecordAck \/ F!RunFlushed => UNCHANGED homeSeq
    BY DEF F!RunWake, F!RunFlush, F!RecordAck, F!RunFlushed
  <2> QED
    BY <1>5, <2>1, <2>2 DEF RunMoves, F!RunStep
<1>6. Start \/ OwnerMoves \/ EndLifetime \/ DrainMoves \/ FlushReturns \/ UNCHANGED allVars
        => UNCHANGED pathVars
  BY DEF Start, OwnerMoves, EndLifetime, DrainMoves, FlushReturns, allVars
<1> QED
  BY <1>1, <1>2, <1>3, <1>4, <1>5, <1>6 DEF PathNext

(* What Home knows of a group never decreases. *)
LEMMA HomeGrows ==
  ASSUME PartsInv, [PathNext]_allVars
  PROVE  \A g \in Groups : homeSeq[g] <= homeSeq'[g] /\ homeSeq'[g] \in Nat
BY HomeStep, PathTypes

(* A Drain that returned nil has returned. *)
LEMMA DrainedStays ==
  ASSUME PartsInv, [Next]_vars, drain[Subscriber] = "drained"
  PROVE  drain'[Subscriber] = "drained"
<1>0. drain \in [Drainers -> DrainState]
  BY PathTypes
<1>1. CASE UNCHANGED drain
  BY <1>1
<1>2. signalLocked => drain'[Subscriber] = "drained"
  BY <1>0 DEF signalLocked
<1>3. ASSUME NEW i \in Dispatches, NEW h,
             \/ Bind(i) \/ ResourceCloses(i) \/ EndBegin(i) \/ EndStartClose(i)
             \/ EndMark(i) \/ EndNotify(i)
      PROVE  UNCHANGED drain
  BY <1>3 DEF Bind, ResourceCloses, EndBegin, EndStartClose, EndMark, EndNotify, drainVars
<1>4. ASSUME NEW i \in Dispatches, NEW h, EndPending(i) \/ Install(i, h) \/ EndRemove(i)
      PROVE  signalLocked
  BY <1>4 DEF EndPending, Install, EndRemove
<1>5. BeginDispatch \/ SinkStep \/ CloseStep \/ ObserveStep \/ UNCHANGED vars
        => UNCHANGED drain
  BY Frames DEF BeginDispatch, vars, drainVars
<1>6. ASSUME NEW d \in Drainers,
             DrainBegin(d) \/ DrainProgress(d) \/ DrainTimeout(d)
      PROVE  drain'[Subscriber] = "drained"
  <2>1. CASE d = Subscriber
    BY <1>6, <2>1 DEF DrainBegin, DrainProgress, DrainTimeout, DrainSnapshot,
       DrainStartClose, DrainAllStarted, DrainCheck, DrainWake, MoveDrain
  <2>2. CASE d # Subscriber
    BY <1>0, <1>6, <2>2 DEF DrainBegin, DrainProgress, DrainTimeout, DrainSnapshot,
       DrainStartClose, DrainAllStarted, DrainCheck, DrainWake, MoveDrain
  <2> QED
    BY <2>1, <2>2
<1> QED
  BY <1>1, <1>2, <1>3, <1>4, <1>5, <1>6 DEF Next, OwnerStep, EndStep, DrainStep

(* After that nothing is counted any more. *)
LEMMA DrainedCountsNothing ==
  ASSUME PartsInv, [Next]_vars, drain[Subscriber] = "drained"
  PROVE  UNCHANGED releaseSequences
<1>1. \A i \in Dispatches : ~EndMark(i)
  BY DrainedCounted DEF EndMark, Advance
<1>2. ASSUME NEW i \in Dispatches, NEW h,
             \/ EndPending(i) \/ Install(i, h) \/ Bind(i) \/ ResourceCloses(i)
             \/ EndBegin(i) \/ EndStartClose(i) \/ EndNotify(i) \/ EndRemove(i)
      PROVE  UNCHANGED releaseSequences
  BY <1>2 DEF EndPending, Install, Bind, ResourceCloses, EndBegin, EndStartClose,
              EndNotify, EndRemove, sinkVars
<1>3. BeginDispatch \/ SinkStep => UNCHANGED releaseSequences
  BY DEF BeginDispatch, SinkStep, SetReleaseSink, ReplayCall, sinkVars
<1>4. UNCHANGED vars \/ DrainStep \/ CloseStep \/ ObserveStep => UNCHANGED releaseSequences
  BY Frames DEF vars, sinkVars
<1> QED
  BY <1>1, <1>2, <1>3, <1>4 DEF Next, OwnerStep, EndStep

(* Before the first dispatch no group has a sequence. *)
LEMMA NothingCounted ==
  ASSUME PartsInv, \A i \in Dispatches : owner[i] = "none", NEW g \in Groups
  PROVE  releaseSequences[g] = 0
<1>1. {i \in Dispatches : owner[i] \in Counted /\ group[i] = g} = {}
  BY DEF Counted
<1> QED
  BY <1>1, FS_EmptySet DEF PartsInv, IInv, SequenceIsCount

----------------------------------------------------------------------------
(* Every step keeps the wiring *)

(* The flusher stays the sink, and the sink stays the flusher. *)
LEMMA SinkWiredStep ==
  ASSUME PartsInv, SinkWired, [PathNext]_allVars
  PROVE  SinkWired'
<1>1. CASE Start
  <2>1. \A g \in Groups : releaseSequences[g] = 0
    BY <1>1, NothingCounted DEF Start, MoveLifetime, SinkWired
  <2>2. replay' = {} /\ releaseSink' = Flusher /\ lifetime' = "serving"
    BY <1>1, <2>1 DEF Start, MoveLifetime, SetReleaseSink, SinkWired
  <2> QED
    BY <2>2 DEF SinkWired
<1>2. ASSUME lifetime # "starting", lifetime' # "starting", UNCHANGED <<releaseSink, replay>>
      PROVE  SinkWired'
  BY <1>2 DEF SinkWired
<1>3. ASSUME UNCHANGED <<releaseSink, replay, owner, lifetime>> PROVE SinkWired'
  BY <1>3 DEF SinkWired
<1>4. CASE OwnerMoves
  <2>1. lifetime # "starting" /\ UNCHANGED lifetime
    BY <1>4 DEF OwnerMoves
  <2>2. OwnerStep \/ CloseStep
    BY <1>4 DEF OwnerMoves, OwnerStep, EndStep
  <2>3. UNCHANGED <<releaseSink, replay>>
    BY <2>2, Frames DEF sinkVars
  <2> QED
    BY <1>2, <2>1, <2>3
<1>5. ASSUME NEW i \in Dispatches, Notify(i) PROVE SinkWired'
  <2>1. owner[i] = "marked" /\ UNCHANGED <<lifetime, releaseSink, replay>>
    BY <1>5 DEF Notify, EndNotify, Advance
  <2>2. lifetime # "starting"
    BY <2>1 DEF SinkWired
  <2> QED
    BY <1>2, <2>1, <2>2
<1>6. CASE EndLifetime \/ DrainMoves
  <2>1. lifetime # "starting" /\ lifetime' # "starting"
    BY <1>6 DEF EndLifetime, DrainMoves, MoveLifetime
  <2>2. DrainStep
    BY <1>6 DEF EndLifetime, DrainMoves, DrainStep
  <2>3. UNCHANGED <<releaseSink, replay>>
    BY <2>2, Frames DEF sinkVars
  <2> QED
    BY <1>2, <2>1, <2>3
<1>7. CASE DrainReturns \/ FlushReturns
  BY <1>2, <1>7 DEF DrainReturns, FlushReturns, MoveLifetime, vars, sinkVars
<1>8. CASE FlushMoves \/ RunMoves \/ CancelRun \/ UNCHANGED allVars
  BY <1>3, <1>8 DEF FlushMoves, RunMoves, CancelRun, allVars, vars, sinkVars, ownerVars
<1> QED
  BY <1>1, <1>4, <1>5, <1>6, <1>7, <1>8 DEF PathNext

(* EndNotify and MarkDirty are one step: the call is made by marking. *)
LEMMA CallsMarkedStep ==
  ASSUME PartsInv, CallsMarked, [PathNext]_allVars
  PROVE  CallsMarked'
<1> USE DEF F!flusherVars
<1>1. ASSUME UNCHANGED <<calls, issued>> PROVE CallsMarked'
  BY <1>1 DEF CallsMarked
<1>2. ASSUME NEW i \in Dispatches, Notify(i) PROVE CallsMarked'
  <2>1. calls' = calls \cup CallOf(i)
    BY <1>2 DEF Notify, EndNotify
  <2>2. CASE CallOf(i) = {}
    BY <1>1, <1>2, <2>1, <2>2 DEF Notify, pathVars
  <2>3. CASE CallOf(i) # {}
    <3>1. CallOf(i) = {<<ticket[i].sink, group[i], ticket[i].seq>>}
      BY <2>3 DEF CallOf
    <3>2. issued' = issued \cup {<<group[i], ticket[i].seq>>}
      BY <1>2, <2>3 DEF Notify, F!MarkDirty
    <3>3. ASSUME NEW call \in calls' PROVE <<call[2], call[3]>> \in issued'
      <4>1. CASE call \in calls
        BY <3>2, <4>1 DEF CallsMarked
      <4>2. CASE call = <<ticket[i].sink, group[i], ticket[i].seq>>
        <5>1. call[2] = group[i] /\ call[3] = ticket[i].seq
          BY <4>2
        <5> QED
          BY <3>2, <5>1
      <4> QED
        BY <2>1, <3>1, <4>1, <4>2
    <3> QED
      BY <3>3 DEF CallsMarked
  <2> QED
    BY <2>2, <2>3
<1>3. CASE Start \/ OwnerMoves \/ EndLifetime \/ DrainMoves \/ FlushReturns
  <2>1. UNCHANGED issued
    BY <1>3 DEF Start, OwnerMoves, EndLifetime, DrainMoves, FlushReturns, pathVars
  <2>2. UNCHANGED calls
    <3>1. Start => UNCHANGED calls
      BY DEF Start, SetReleaseSink
    <3>2. OwnerMoves => UNCHANGED calls
      <4>1. ASSUME NEW i \in Dispatches, NEW h,
                   \/ EndPending(i) \/ Install(i, h) \/ Bind(i) \/ ResourceCloses(i)
                   \/ EndBegin(i) \/ EndStartClose(i) \/ EndMark(i) \/ EndRemove(i)
            PROVE  UNCHANGED calls
        BY <4>1 DEF EndPending, Install, Bind, ResourceCloses, EndBegin, EndStartClose,
                    EndMark, EndRemove, sinkVars
      <4>2. BeginDispatch => UNCHANGED calls
        BY DEF BeginDispatch, sinkVars
      <4>3. CloseStep => UNCHANGED calls
        BY Frames DEF sinkVars
      <4> QED
        BY <4>1, <4>2, <4>3 DEF OwnerMoves
    <3>3. EndLifetime \/ DrainMoves => DrainStep
      BY DEF EndLifetime, DrainMoves, DrainStep
    <3> QED
      BY <1>3, <3>1, <3>2, <3>3, Frames DEF FlushReturns, vars, sinkVars
  <2> QED
    BY <1>1, <2>1, <2>2
<1>4. CASE DrainReturns \/ FlushMoves \/ RunMoves \/ CancelRun \/ UNCHANGED allVars
  <2>1. UNCHANGED calls
    BY <1>4 DEF DrainReturns, FlushMoves, RunMoves, CancelRun, allVars, vars, sinkVars
  <2>2. UNCHANGED issued
    <3>1. F!FlushBegin \/ F!FlushIdle \/ F!FlushExpires \/ F!RunStops => UNCHANGED issued
      BY DEF F!FlushBegin, F!FlushIdle, F!FlushExpires, F!RunStops
    <3>2. F!RunStep => UNCHANGED issued
      BY DEF F!RunStep, F!RunWake, F!RunFlush, F!SendAcknowledged, F!SendFails,
             F!RecordAck, F!RunFlushed
    <3> QED
      BY <1>4, <3>1, <3>2
         DEF DrainReturns, FlushMoves, RunMoves, CancelRun, allVars, pathVars
  <2> QED
    BY <1>1, <2>1, <2>2
<1> QED
  BY <1>2, <1>3, <1>4 DEF PathNext

(* The latest mark, the batch and Home follow the count, in that order. *)
LEMMA NotAheadStep ==
  ASSUME PartsInv, NotAhead, [PathNext]_allVars
  PROVE  NotAhead'
<1> USE DEF F!flusherVars, F!runVars
<1>0. /\ releaseSequences \in [Groups -> Nat]
      /\ latest \in [Groups -> Nat] /\ batch \in [Groups -> Nat]
      /\ homeSeq \in [Groups -> Nat]
  BY PathTypes
<1>1. \A g \in Groups : releaseSequences[g] <= releaseSequences'[g]
                        /\ releaseSequences'[g] \in Nat
  BY <1>0, RegistryStep, SequenceGrows DEF PartsInv, IInv
<1>2. ASSUME UNCHANGED <<latest, batch, homeSeq>> PROVE NotAhead'
  BY <1>0, <1>1, <1>2 DEF NotAhead
<1>3. ASSUME NEW i \in Dispatches, Notify(i) PROVE NotAhead'
  <2>1. CASE CallOf(i) = {}
    BY <1>2, <1>3, <2>1 DEF Notify, pathVars
  <2>2. CASE CallOf(i) # {}
    <3>1. ticket[i].sink # NoSink
      BY <2>2 DEF CallOf
    <3>2. /\ group[i] \in Groups /\ ticket[i].seq \in Nat
          /\ ticket[i].seq <= releaseSequences[group[i]]
      BY <3>1 DEF PartsInv, IInv, Typed, TypeOK, OwnerTypes, TicketBound
    <3>3. F!MarkDirty(group[i], ticket[i].seq)
      BY <1>3, <2>2 DEF Notify
    <3>4. /\ UNCHANGED <<batch, homeSeq>>
          /\ \A g \in Groups : latest'[g] = latest[g] \/
                               (g = group[i] /\ latest'[g] = ticket[i].seq)
      BY <1>0, <3>3 DEF F!MarkDirty
    <3> QED
      BY <1>0, <1>1, <3>2, <3>4 DEF NotAhead
  <2> QED
    BY <2>1, <2>2
<1>4. CASE RunMoves
  <2>1. ASSUME NEW g \in Groups, F!SendAcknowledged(g) PROVE NotAhead'
    <3>1. UNCHANGED <<latest, batch>>
          /\ \A h \in Groups : homeSeq'[h] = homeSeq[h] \/ homeSeq'[h] = batch[h]
      BY <1>0, <2>1 DEF F!SendAcknowledged, F!HomeReceives, F!MaxOf
    <3> QED
      BY <1>0, <1>1, <3>1 DEF NotAhead
  <2>2. ASSUME NEW g \in Groups, F!SendFails(g) PROVE NotAhead'
    <3>1. /\ UNCHANGED latest
          /\ \A h \in Groups : homeSeq'[h] = homeSeq[h] \/ homeSeq'[h] = batch[h]
          /\ \A h \in Groups : batch'[h] = batch[h] \/ batch'[h] = 0
      BY <1>0, <2>2 DEF F!SendFails, F!HomeReceives, F!MaxOf
    <3> QED
      BY <1>0, <1>1, <3>1 DEF NotAhead
  <2>3. CASE F!RunFlush
    <3>1. /\ UNCHANGED <<latest, homeSeq>>
          /\ \A h \in Groups : batch'[h] = latest[h] \/ batch'[h] = 0
      BY <2>3 DEF F!RunFlush
    <3> QED
      BY <1>0, <1>1, <3>1 DEF NotAhead
  <2>4. CASE F!RecordAck
    <3>1. /\ UNCHANGED <<latest, homeSeq>>
          /\ \A h \in Groups : batch'[h] = batch[h] \/ batch'[h] = 0
      BY <1>0, <2>4 DEF F!RecordAck
    <3> QED
      BY <1>0, <1>1, <3>1 DEF NotAhead
  <2>5. CASE F!RunWake \/ F!RunFlushed
    BY <1>2, <2>5 DEF F!RunWake, F!RunFlushed
  <2> QED
    BY <1>4, <2>1, <2>2, <2>3, <2>4, <2>5 DEF RunMoves, F!RunStep
<1>5. F!FlushBegin \/ F!FlushIdle \/ F!FlushExpires \/ F!RunStops
        => UNCHANGED <<latest, batch, homeSeq>>
  BY DEF F!FlushBegin, F!FlushIdle, F!FlushExpires, F!RunStops
<1>6. CASE DrainReturns \/ FlushMoves \/ CancelRun
  BY <1>2, <1>5, <1>6 DEF DrainReturns, FlushMoves, CancelRun, pathVars
<1>7. CASE Start \/ OwnerMoves \/ EndLifetime \/ DrainMoves \/ FlushReturns
           \/ UNCHANGED allVars
  BY <1>2, <1>7 DEF Start, OwnerMoves, EndLifetime, DrainMoves, FlushReturns, allVars,
                    pathVars
<1> QED
  BY <1>3, <1>4, <1>6, <1>7 DEF PathNext

(* The end of the lifetime: Drain, then Flush, then the verdict. *)
LEMMA FlushedLastStep ==
  ASSUME PartsInv, PartsInv', PathInv, NotAhead', [PathNext]_allVars
  PROVE  FlushedLast'
<1>0. /\ releaseSequences \in [Groups -> Nat] /\ latest \in [Groups -> Nat]
      /\ homeSeq \in [Groups -> Nat] /\ acked \in [Groups -> Nat]
  BY PathTypes
<1>1. drain[Subscriber] = "drained" =>
        drain'[Subscriber] = "drained" /\ UNCHANGED releaseSequences
  BY RegistryStep, DrainedStays, DrainedCountsNothing
<1>2. lifetime # "starting" => lifetime' # "starting"
  BY DEF PathNext, Start, OwnerMoves, Notify, EndLifetime, DrainMoves, DrainReturns,
         FlushMoves, FlushReturns, RunMoves, CancelRun, MoveLifetime, allVars
<1>3. flush = "flushed" => \A g \in Groups : homeSeq'[g] = releaseSequences'[g]
  <2> SUFFICES ASSUME flush = "flushed", NEW g \in Groups
               PROVE  homeSeq'[g] = releaseSequences'[g]
    OBVIOUS
  <2>1. homeSeq[g] = releaseSequences[g] /\ UNCHANGED releaseSequences
    BY <1>1 DEF PathInv, FlushedLast
  <2>2. homeSeq[g] <= homeSeq'[g] /\ homeSeq'[g] \in Nat
    BY HomeGrows
  <2>3. homeSeq'[g] <= releaseSequences'[g]
    BY DEF NotAhead
  <2> QED
    BY <1>0, <2>1, <2>2, <2>3
<1>4. ASSUME UNCHANGED flush, lifetime' = "settled" => lifetime = "settled"
      PROVE  FlushedLast'
  BY <1>1, <1>2, <1>3, <1>4 DEF PathInv, FlushedLast
<1>5. CASE DrainReturns
  <2>1. CASE drain[Subscriber] = "drained" /\ F!FlushBegin /\ lifetime' = "flushing"
    BY <1>1, <2>1 DEF F!FlushBegin, FlushedLast
  <2>2. CASE lifetime' = "abandoned" /\ UNCHANGED pathVars
    BY <1>4, <2>2 DEF pathVars
  <2> QED
    BY <1>5, <2>1, <2>2 DEF DrainReturns, MoveLifetime
<1>6. CASE FlushMoves
  <2>1. /\ flush = "polling" /\ flush' \in {"flushed", "expired"}
        /\ UNCHANGED <<releaseSequences, homeSeq, lifetime>>
    BY <1>6 DEF FlushMoves, F!FlushIdle, F!FlushExpires, vars, sinkVars
  <2>2. drain[Subscriber] = "drained" /\ lifetime # "starting" /\ lifetime # "settled"
    BY <2>1 DEF PathInv, FlushedLast
  <2>3. ASSUME flush' = "flushed", NEW g \in Groups PROVE homeSeq[g] = releaseSequences[g]
    <3>1. ~(latest[g] > acked[g])
      BY <1>6, <2>3 DEF FlushMoves, F!FlushIdle, F!FlushExpires, F!Dirty
    <3>2. homeSeq[g] <= releaseSequences[g] /\ acked[g] <= homeSeq[g]
      BY DEF PathInv, NotAhead, PartsInv, FP!IInv, FP!AckedReceived
    <3>3. CASE releaseSequences[g] = 0
      BY <1>0, <3>2, <3>3
    <3>4. CASE releaseSequences[g] > 0
      <4>1. <<g, releaseSequences[g]>> \in issued
        BY <2>2, <3>4, DrainedMarked
      <4>2. releaseSequences[g] \in 1..MaxDispatch
        BY <1>0, <3>4, SequenceBound DEF PartsInv
      <4>3. releaseSequences[g] <= latest[g] \/ releaseSequences[g] <= acked[g]
        BY <4>1, <4>2 DEF PartsInv, FP!IInv, FP!MarksKept
      <4> QED
        BY <1>0, <3>1, <3>2, <4>3
    <3> QED
      BY <1>0, <3>3, <3>4
  <2> QED
    BY <1>1, <1>2, <2>1, <2>2, <2>3 DEF FlushedLast
<1>7. CASE FlushReturns
  <2>1. UNCHANGED flush /\ (lifetime' = "settled" => flush = "flushed")
    BY <1>7 DEF FlushReturns, MoveLifetime, pathVars
  <2> QED
    BY <1>1, <1>2, <1>3, <2>1 DEF PathInv, FlushedLast
<1>8. ASSUME NEW i \in Dispatches, Notify(i) PROVE FlushedLast'
  BY <1>4, <1>8 DEF Notify, F!MarkDirty, pathVars
<1>9. CASE RunMoves \/ CancelRun
  <2>1. F!RunStep \/ F!RunStops => UNCHANGED flush
    BY DEF F!RunStep, F!RunWake, F!RunFlush, F!SendAcknowledged, F!SendFails,
           F!RecordAck, F!RunFlushed, F!RunStops
  <2> QED
    BY <1>4, <1>9, <2>1 DEF RunMoves, CancelRun
<1>10. CASE Start \/ OwnerMoves \/ EndLifetime \/ DrainMoves \/ UNCHANGED allVars
  BY <1>4, <1>10 DEF Start, OwnerMoves, EndLifetime, DrainMoves, MoveLifetime, allVars,
                     pathVars
<1> QED
  BY <1>5, <1>6, <1>7, <1>8, <1>9, <1>10 DEF PathNext

----------------------------------------------------------------------------

(* Every state of a subscriber lifetime satisfies the registry's, the      *)
(* flusher's and the wiring's invariants.                                  *)
THEOREM PathInvariance == PathSpec => [](PartsInv /\ PathInv)
<1>1. PathSpec => []PartsInv
  <2>1. PathSpec => []FP!IInv
    BY FlusherRuns, FP!Invariance, FlusherConstants, PTL
  <2> QED
    BY <2>1, RegistryInv, PTL DEF PartsInv
<1>2. PathInit => PathInv
  <2> SUFFICES ASSUME PathInit PROVE PathInv
    OBVIOUS
  <2>1. SinkWired /\ CallsMarked
    BY DEF PathInit, Init, SinkWired, CallsMarked
  <2>2. NotAhead
    BY DEF PathInit, Init, F!Init, NotAhead
  <2>3. FlushedLast
    BY DEF PathInit, F!Init, FlushedLast
  <2> QED
    BY <2>1, <2>2, <2>3 DEF PathInv
<1>3. PartsInv /\ PartsInv' /\ PathInv /\ [PathNext]_allVars => PathInv'
  BY SinkWiredStep, CallsMarkedStep, NotAheadStep, FlushedLastStep DEF PathInv
<1> QED
  BY <1>1, <1>2, <1>3, PTL DEF PathSpec

(* A lifetime that drained and flushed cleanly leaves Home exactly         *)
(* informed: one release per accounted scope that was installed            *)
(* (runHomeSubscriber's Drain and Flush, EndWithRelease, MarkDirty).       *)
THEOREM SettledReported == PathSpec => []SettledMeansReported
<1>1. PartsInv /\ PathInv => SettledMeansReported
  <2> SUFFICES ASSUME PartsInv, PathInv, lifetime = "settled", NEW g \in Groups
               PROVE  homeSeq[g] = Cardinality(Admitted(g))
    BY DEF SettledMeansReported
  <2>1. homeSeq[g] = releaseSequences[g] /\ drain[Subscriber] = "drained"
    BY DEF PathInv, FlushedLast
  <2>2. \A i \in Dispatches : owner[i] \in {"none", "refused", "done"}
    BY <2>1, DrainedCounted
  <2>3. Admitted(g) = {i \in Dispatches : owner[i] \in Counted /\ group[i] = g}
    BY <2>2 DEF Admitted, Counted
  <2> QED
    BY <2>1, <2>3 DEF PartsInv, IInv, SequenceIsCount
<1> QED
  BY <1>1, PathInvariance, PTL

(* The path implements the ledger Home is promised: a count of releases    *)
(* that goes up one by one, and a report that only moves forward and never *)
(* ahead of it, whatever is lost, repeated or reordered on the way.        *)
THEOREM LedgerKept == PathSpec => LedgerSpec
<1>1. PathInit => Ledger!Init
  BY DEF PathInit, Init, F!Init, Ledger!Init
<1>2. PartsInv /\ PathInv /\ [PathNext]_allVars => [Ledger!Next]_(Ledger!vars)
  <2> SUFFICES ASSUME PartsInv, PathInv, [PathNext]_allVars
               PROVE  Ledger!Next \/ UNCHANGED Ledger!vars
    OBVIOUS
  <2>0. homeSeq \in [Groups -> Nat] /\ releaseSequences \in [Groups -> Nat]
        /\ batch \in [Groups -> Nat]
    BY PathTypes
  <2>1. CASE UNCHANGED homeSeq
    <3>1. \/ UNCHANGED releaseSequences
          \/ \E g \in Groups :
               releaseSequences' = [releaseSequences EXCEPT ![g] = @ + 1]
      BY RegistryStep, SequenceGrows DEF PartsInv, IInv
    <3> QED
      BY <2>1, <3>1 DEF Ledger!Next, Ledger!Release, Ledger!vars
  <2>2. ASSUME UNCHANGED vars, NEW g \in Groups, batch[g] > 0,
               homeSeq' = [homeSeq EXCEPT
                  ![g] = IF homeSeq[g] > batch[g] THEN homeSeq[g] ELSE batch[g]]
        PROVE  Ledger!Next \/ UNCHANGED Ledger!vars
    <3>1. UNCHANGED releaseSequences
      BY <2>2 DEF vars, sinkVars
    <3>2. batch[g] <= releaseSequences[g] /\ batch[g] \in 1..releaseSequences[g]
      BY <2>0, <2>2 DEF PathInv, NotAhead
    <3>3. CASE batch[g] > homeSeq[g]
      <4>0. ~(homeSeq[g] > batch[g])
        BY <2>0, <3>3
      <4>1. homeSeq' = [homeSeq EXCEPT ![g] = batch[g]]
        BY <2>2, <4>0
      <4>2. Ledger!Report(g, batch[g])
        BY <3>1, <3>2, <3>3, <4>1 DEF Ledger!Report
      <4> QED
        BY <3>2, <4>2 DEF Ledger!Next
    <3>4. CASE ~(batch[g] > homeSeq[g])
      <4>1. UNCHANGED homeSeq
        BY <2>0, <2>2, <3>4
      <4> QED
        BY <3>1, <4>1 DEF Ledger!vars
    <3> QED
      BY <3>3, <3>4
  <2> QED
    BY <2>1, <2>2, HomeStep
<1> QED
  BY <1>1, <1>2, PathInvariance, PTL DEF PathSpec, LedgerSpec, Ledger!Spec

=============================================================================
