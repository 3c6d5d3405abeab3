-------------------------- MODULE ReleaseFlusher ---------------------------
(***************************************************************************)
(* The release flusher (internal/home/concurrency_release.go): it keeps    *)
(* the latest cumulative release sequence of each group and pushes it to   *)
(* Home until Home acknowledges it.  Scope owners call MarkDirty from any  *)
(* goroutine, one goroutine runs Run, and the subscriber calls Flush at    *)
(* the end of its lifetime.  One action is one critical section of         *)
(* releaseFlusher.mu, one channel operation or one send.                   *)
(*                                                                         *)
(* Home is external: it keeps the highest sequence it has received for a   *)
(* group.  A frame may be lost, and its acknowledgement may be lost after  *)
(* Home applied the frame.                                                 *)
(***************************************************************************)
EXTENDS Naturals

CONSTANTS
  Groups,         \* release groups
  NoGroup,        \* no group
  FlushInterval,  \* ReleaseFlushInterval, in ticks
  MaxBackoff,     \* ReleaseMaxBackoff, in ticks
  MaxSeq          \* bound: highest sequence a caller marks

ASSUME FlusherAssumption ==
  /\ NoGroup \notin Groups
  /\ FlushInterval \in Nat \ {0}
  /\ MaxBackoff \in Nat
  /\ MaxBackoff >= FlushInterval
  /\ MaxSeq \in Nat

VARIABLES
  latest,      \* releaseState.Latest of each group
  acked,       \* releaseState.Acked of each group
  waiters,     \* keys of releaseState.waiters of each group
  issued,      \* history: tickets MarkDirty returned, <<group, sequence>>
  wake,        \* the wake channel (capacity 1) is full
  force,       \* the force channel (capacity 1) is full
  run,         \* where Run is: "select", "flushing", "acking", "stopped"
  batch,       \* sequences this flush has still to settle (0: none)
  cur,         \* the group whose acknowledgement is being recorded
  failed,      \* a send of this flush failed
  delay,       \* Run's delay
  backingOff,  \* Run's backingOff
  flush,       \* where Flush is: "idle", "polling", "flushed", "expired"
  homeSeq      \* external: the highest sequence Home received

flusherVars == <<latest, acked, waiters, issued>>
runVars     == <<run, batch, cur, failed, delay, backingOff>>
vars == <<flusherVars, wake, force, runVars, flush, homeSeq>>

MaxOf(a, b) == IF a > b THEN a ELSE b
MinOf(a, b) == IF a < b THEN a ELSE b

TypeOK ==
  /\ latest \in [Groups -> 0..MaxSeq]
  /\ acked \in [Groups -> 0..MaxSeq]
  /\ waiters \in [Groups -> SUBSET (1..MaxSeq)]
  /\ issued \subseteq Groups \X (1..MaxSeq)
  /\ wake \in BOOLEAN
  /\ force \in BOOLEAN
  /\ run \in {"select", "flushing", "acking", "stopped"}
  /\ batch \in [Groups -> 0..MaxSeq]
  /\ cur \in Groups \cup {NoGroup}
  /\ failed \in BOOLEAN
  /\ delay \in FlushInterval..MaxBackoff
  /\ backingOff \in BOOLEAN
  /\ flush \in {"idle", "polling", "flushed", "expired"}
  /\ homeSeq \in [Groups -> 0..MaxSeq]

Init ==
  /\ latest = [g \in Groups |-> 0]
  /\ acked = [g \in Groups |-> 0]
  /\ waiters = [g \in Groups |-> {}]
  /\ issued = {}
  /\ wake = FALSE
  /\ force = FALSE
  /\ run = "select"
  /\ batch = [g \in Groups |-> 0]
  /\ cur = NoGroup
  /\ failed = FALSE
  /\ delay = FlushInterval
  /\ backingOff = FALSE
  /\ flush = "idle"
  /\ homeSeq = [g \in Groups |-> 0]

\* Seeded fault: an already acknowledged sequence still waits.
MarkDirtyAckedWaits(g, n) ==
  /\ issued' = issued \cup {<<g, n>>}
  /\ waiters' = [waiters EXCEPT ![g] = @ \cup {n}]
  /\ latest' = [latest EXCEPT ![g] = IF n > @ THEN n ELSE @]
  /\ wake' = TRUE
  /\ UNCHANGED <<acked, force, runVars, flush, homeSeq>>

\* Seeded fault: a late smaller sequence replaces the latest one.
MarkDirtyOverwrites(g, n) ==
  /\ issued' = issued \cup {<<g, n>>}
  /\ IF n <= acked[g]
     THEN UNCHANGED <<waiters, latest>>
     ELSE /\ waiters' = [waiters EXCEPT ![g] = @ \cup {n}]
          /\ latest' = [latest EXCEPT ![g] = n]
  /\ wake' = TRUE
  /\ UNCHANGED <<acked, force, runVars, flush, homeSeq>>

\* MarkDirty records a cumulative sequence, whatever the order of the calls,
\* and returns a ticket: completed at once if Home has acknowledged as much.
MarkDirty(g, n) ==
  /\ issued' = issued \cup {<<g, n>>}
  /\ IF n <= acked[g]
     THEN UNCHANGED <<waiters, latest>>
     ELSE /\ waiters' = [waiters EXCEPT ![g] = @ \cup {n}]
          /\ latest' = [latest EXCEPT ![g] = IF n > @ THEN n ELSE @]
  /\ wake' = TRUE
  /\ UNCHANGED <<acked, force, runVars, flush, homeSeq>>

\* Run takes a wake-up; it only shortens the timer, which may fire anyway.
RunWake ==
  /\ run = "select"
  /\ wake
  /\ wake' = FALSE
  /\ UNCHANGED <<flusherVars, force, runVars, flush, homeSeq>>

Dirty == {g \in Groups : latest[g] > acked[g]}

\* The timer fires, or a forced flush is taken: flush copies the dirty groups.
RunFlush ==
  /\ run = "select"
  /\ force' \in {FALSE, force}
  /\ run' = "flushing"
  /\ batch' = [g \in Groups |-> IF g \in Dirty THEN latest[g] ELSE 0]
  /\ UNCHANGED <<flusherVars, wake, cur, failed, delay, backingOff, flush, homeSeq>>

\* Home keeps the highest sequence: frames are cumulative.
HomeReceives(g) == homeSeq' = [homeSeq EXCEPT ![g] = MaxOf(@, batch[g])]

\* send returns nil: Home received the frame and said so.
SendAcknowledged(g) ==
  /\ run = "flushing"
  /\ batch[g] > 0
  /\ HomeReceives(g)
  /\ cur' = g
  /\ run' = "acking"
  /\ UNCHANGED <<flusherVars, wake, force, batch, failed, delay, backingOff, flush>>

\* send returns an error, before or after Home applied the frame.
SendFails(g) ==
  /\ run = "flushing"
  /\ batch[g] > 0
  /\ HomeReceives(g) \/ UNCHANGED homeSeq
  /\ batch' = [batch EXCEPT ![g] = 0]
  /\ failed' = TRUE
  /\ UNCHANGED <<flusherVars, wake, force, run, cur, delay, backingOff, flush>>

\* acked and the waiters of g once sequence n is known to be acknowledged.
Acknowledge(g, n) ==
  IF n > acked[g]
  THEN /\ acked' = [acked EXCEPT ![g] = n]
       /\ waiters' = [waiters EXCEPT ![g] = {m \in @ : m > n}]
  ELSE UNCHANGED <<acked, waiters>>

\* Seeded fault: the acknowledgement covers whatever is latest by now.
RecordAckLatest ==
  /\ run = "acking"
  /\ Acknowledge(cur, latest[cur])
  /\ batch' = [batch EXCEPT ![cur] = 0]
  /\ cur' = NoGroup
  /\ run' = "flushing"
  /\ UNCHANGED <<latest, issued, wake, force, failed, delay, backingOff, flush, homeSeq>>

\* Under mu the sent sequence, not the latest one, becomes acknowledged and
\* the tickets up to it complete.
RecordAck ==
  /\ run = "acking"
  /\ Acknowledge(cur, batch[cur])
  /\ batch' = [batch EXCEPT ![cur] = 0]
  /\ cur' = NoGroup
  /\ run' = "flushing"
  /\ UNCHANGED <<latest, issued, wake, force, failed, delay, backingOff, flush, homeSeq>>

\* nextDelay: back to the interval after success, else doubled and clamped.
NextDelay ==
  /\ delay' = IF failed THEN MinOf(MaxOf(2 * delay, FlushInterval), MaxBackoff)
              ELSE FlushInterval
  /\ backingOff' = failed

RunFlushed ==
  /\ run = "flushing"
  /\ \A g \in Groups : batch[g] = 0
  /\ NextDelay
  /\ run' = "select"
  /\ failed' = FALSE
  /\ UNCHANGED <<flusherVars, wake, force, batch, cur, flush, homeSeq>>

\* The context of Run is cancelled.
RunStops ==
  /\ run = "select"
  /\ run' = "stopped"
  /\ UNCHANGED <<flusherVars, wake, force, batch, cur, failed, delay, backingOff,
                 flush, homeSeq>>

\* Flush asks for a forced flush without blocking, then polls.
FlushBegin ==
  /\ flush = "idle"
  /\ force' = TRUE
  /\ flush' = "polling"
  /\ UNCHANGED <<flusherVars, wake, runVars, homeSeq>>

FlushIdle ==
  /\ flush = "polling"
  /\ Dirty = {}
  /\ flush' = "flushed"
  /\ UNCHANGED <<flusherVars, wake, force, runVars, homeSeq>>

FlushExpires ==
  /\ flush = "polling"
  /\ flush' = "expired"
  /\ UNCHANGED <<flusherVars, wake, force, runVars, homeSeq>>

RunStep ==
  \/ RunWake
  \/ RunFlush
  \/ \E g \in Groups : SendAcknowledged(g) \/ SendFails(g)
  \/ RecordAck
  \/ RunFlushed

Next ==
  \/ \E g \in Groups, n \in 1..MaxSeq : MarkDirty(g, n)
  \/ RunStep
  \/ RunStops
  \/ FlushBegin
  \/ FlushIdle
  \/ FlushExpires

Spec == Init /\ [][Next]_vars

(***************************************************************************)
(* Run keeps going: its timer fires, flush walks its batch, acks are       *)
(* recorded.  Home is reachable again and again: a group that is sent      *)
(* infinitely often is acknowledged infinitely often (SF).  Nothing forces *)
(* the Flush call, its deadline or the end of Run.                         *)
(***************************************************************************)
Fairness ==
  /\ WF_vars(RunFlush)
  /\ WF_vars(RecordAck)
  /\ WF_vars(RunFlushed)
  /\ \A g \in Groups : WF_vars(SendAcknowledged(g) \/ SendFails(g))
  /\ \A g \in Groups : SF_vars(SendAcknowledged(g))

FairSpec == Spec /\ Fairness

-----------------------------------------------------------------------------
\* A completed release ticket is true: Home has received at least that
\* sequence ("a ticket completed when Home acknowledges that sequence").
CompletedTicketsReceived ==
  \A t \in issued : t[2] \notin waiters[t[1]] => t[2] <= homeSeq[t[1]]

\* When Flush returned nil, Home knows every sequence marked before: nothing
\* marked is above what Home has, unless it was marked after the check.
FlushReported ==
  flush' = "flushed" /\ flush = "polling" =>
    \A t \in issued : t[2] <= homeSeq[t[1]]

\* FlushReported holds of every step.
FlushReportsAll == [][FlushReported]_vars

\* Every ticket completes unless the flusher is stopped first.
TicketsComplete ==
  \A g \in Groups, n \in 1..MaxSeq :
    (n \in waiters[g]) ~> (n \notin waiters[g] \/ run = "stopped")
=============================================================================
