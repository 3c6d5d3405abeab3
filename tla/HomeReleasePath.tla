-------------------------- MODULE HomeReleasePath --------------------------
(***************************************************************************)
(* One Home subscriber lifetime (runHomeSubscriber in                      *)
(* sdk/cliproxy/service_home.go): the execution registry whose release     *)
(* sink is the flusher's MarkDirty, the flusher's Run goroutine, and the   *)
(* end of the lifetime, which drains the registry, flushes the releases    *)
(* and cancels Run.                                                        *)
(***************************************************************************)
EXTENDS ExecutionRegistry

CONSTANTS
  Subscriber,    \* the drainer that ends the lifetime
  Flusher,       \* the sink: releaseFlusher.MarkDirty
  FlushInterval, MaxBackoff

ASSUME PathAssumption ==
  /\ Sinks = {Flusher}
  /\ Subscriber \in Drainers
  /\ FlushInterval \in Nat \ {0}
  /\ MaxBackoff \in Nat
  /\ MaxBackoff >= FlushInterval

VARIABLES
  latest, acked, waiters, issued, wake, force, run, batch, cur, failed, delay,
  backingOff, flush, homeSeq,  \* the flusher's state, and Home's
  lifetime                     \* where runHomeSubscriber is

F == INSTANCE ReleaseFlusher WITH NoGroup <- Unaccounted, MaxSeq <- MaxDispatch

pathVars == <<latest, acked, waiters, issued, wake, force, run, batch, cur, failed,
              delay, backingOff, flush, homeSeq>>
allVars == <<vars, pathVars, lifetime>>

\* "starting" before SetReleaseSink; "serving" while the subscription runs;
\* then Drain, Flush, and "settled" if both returned nil, else "abandoned".
PathInit == Init /\ F!Init /\ lifetime = "starting"

MoveLifetime(from, to) == lifetime = from /\ lifetime' = to

\* registry.SetReleaseSink(releaseFlusher.MarkDirty)
Start ==
  /\ MoveLifetime("starting", "serving")
  /\ SetReleaseSink(Flusher)
  /\ UNCHANGED pathVars

\* EndWithRelease calls the sink it captured: the flusher marks the group.
Notify(i) ==
  /\ EndNotify(i)
  /\ IF CallOf(i) = {} THEN UNCHANGED pathVars
     ELSE F!MarkDirty(group[i], ticket[i].seq)
  /\ UNCHANGED lifetime

\* Request owners, resources and the Close of a shutdown.  Snapshots read the
\* registry only and are left to ExecutionRegistry.
OwnerMoves ==
  /\ lifetime # "starting"
  /\ \/ BeginDispatch
     \/ \E i \in Dispatches :
          \/ EndPending(i)
          \/ \E g \in Groups \cup {Unaccounted} : Install(i, g)
          \/ Bind(i)
          \/ ResourceCloses(i)
          \/ EndBegin(i)
          \/ EndStartClose(i)
          \/ EndMark(i)
          \/ EndRemove(i)
     \/ CloseStep
  /\ UNCHANGED <<pathVars, lifetime>>

\* The subscription ended: runHomeSubscriber calls Drain.
EndLifetime ==
  /\ MoveLifetime("serving", "draining")
  /\ DrainBegin(Subscriber)
  /\ UNCHANGED pathVars

DrainMoves ==
  /\ lifetime = "draining"
  /\ DrainProgress(Subscriber) \/ DrainTimeout(Subscriber)
  /\ UNCHANGED <<pathVars, lifetime>>

\* Seeded fault: the releases are flushed although Drain failed.
DrainReturnsAnyway ==
  /\ drain[Subscriber] \in {"drained", "timedout", "rejected"}
  /\ MoveLifetime("draining", "flushing")
  /\ F!FlushBegin
  /\ UNCHANGED vars

\* errDrain == nil: Flush runs; otherwise the releases are not flushed.
DrainReturns ==
  /\ \/ /\ drain[Subscriber] = "drained"
        /\ MoveLifetime("draining", "flushing")
        /\ F!FlushBegin
     \/ /\ drain[Subscriber] \in {"timedout", "rejected"}
        /\ MoveLifetime("draining", "abandoned")
        /\ UNCHANGED pathVars
  /\ UNCHANGED vars

FlushMoves ==
  /\ F!FlushIdle \/ F!FlushExpires
  /\ UNCHANGED <<vars, lifetime>>

FlushReturns ==
  /\ \/ flush = "flushed" /\ MoveLifetime("flushing", "settled")
     \/ flush = "expired" /\ MoveLifetime("flushing", "abandoned")
  /\ UNCHANGED <<vars, pathVars>>

RunMoves ==
  /\ F!RunStep
  /\ UNCHANGED <<vars, lifetime>>

\* releaseCancel: Run's context is cancelled once the outcome is known.
CancelRun ==
  /\ lifetime \in {"settled", "abandoned"}
  /\ F!RunStops
  /\ UNCHANGED <<vars, lifetime>>

PathNext ==
  \/ Start
  \/ OwnerMoves
  \/ \E i \in Dispatches : Notify(i)
  \/ EndLifetime
  \/ DrainMoves
  \/ DrainReturns
  \/ FlushMoves
  \/ FlushReturns
  \/ RunMoves
  \/ CancelRun

PathSpec == PathInit /\ [][PathNext]_allVars

-----------------------------------------------------------------------------

\* Accounted scopes of group g that were ever installed.
Admitted(g) ==
  {i \in Dispatches : group[i] = g /\ owner[i] \notin {"none", "pending", "refused"}}

\* A lifetime that drained and flushed cleanly leaves Home exactly informed:
\* for each group Home knows of one release per accounted scope installed.
SettledMeansReported ==
  lifetime = "settled" =>
    \A g \in Groups : homeSeq[g] = Cardinality(Admitted(g))

\* The path implements the ledger Home is promised.
Ledger == INSTANCE ReleaseLedger WITH released <- releaseSequences, reported <- homeSeq

LedgerSpec == Ledger!Spec
=============================================================================
