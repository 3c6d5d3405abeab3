----------------------- MODULE ReleaseFlusherProofs ------------------------
(***************************************************************************)
(* What a release ticket and a successful Flush mean, for every number of  *)
(* groups, every length of a lifetime and every back-off.                  *)
(*                                                                         *)
(* A completed ticket is true because three things are: a ticket leaves    *)
(* the waiters only when its sequence is acknowledged (TicketsKept), what  *)
(* is acknowledged has been received (AckedReceived), and the sequence     *)
(* that is about to be acknowledged is the one Home was sent, not the one  *)
(* marked meanwhile (SentReceived).                                        *)
(***************************************************************************)
EXTENDS ReleaseFlusher, TLAPS

USE FlusherAssumption DEF FlusherAssumption

AckedReceived == \A g \in Groups : acked[g] <= homeSeq[g]

SentReceived ==
  run = "acking" => cur \in Groups /\ batch[cur] <= homeSeq[cur]

TicketsKept ==
  \A g \in Groups : \A n \in 1..MaxSeq :
    <<g, n>> \in issued => n \in waiters[g] \/ n <= acked[g]

(* A mark is not forgotten: a later, smaller one does not replace it. *)
MarksKept ==
  \A g \in Groups : \A n \in 1..MaxSeq :
    <<g, n>> \in issued => n <= latest[g] \/ n <= acked[g]

IInv == TypeOK /\ AckedReceived /\ SentReceived /\ TicketsKept /\ MarksKept

----------------------------------------------------------------------------

(* Home's sequence of a group never goes back, and covers what was sent. *)
LEMMA Receiving ==
  ASSUME TypeOK, NEW g \in Groups, HomeReceives(g)
  PROVE  /\ homeSeq' \in [Groups -> 0..MaxSeq]
         /\ \A h \in Groups : homeSeq[h] <= homeSeq'[h]
         /\ batch[g] <= homeSeq'[g]
BY DEF TypeOK, HomeReceives, MaxOf

(* nextDelay stays between the flush interval and the maximal back-off. *)
LEMMA DelayInRange ==
  ASSUME TypeOK, NextDelay
  PROVE  delay' \in FlushInterval..MaxBackoff /\ backingOff' \in BOOLEAN
BY DEF TypeOK, NextDelay, MinOf, MaxOf

(* What MarkDirty does to the tickets *)
LEMMA MarkKeeps ==
  ASSUME IInv, NEW g \in Groups, NEW n \in 1..MaxSeq, MarkDirty(g, n)
  PROVE  IInv'
<1>1. /\ UNCHANGED <<acked, force, runVars, flush, homeSeq>> /\ wake' = TRUE
      /\ issued' = issued \cup {<<g, n>>}
  BY DEF MarkDirty
<1>2. /\ latest' \in [Groups -> 0..MaxSeq]
      /\ waiters' \in [Groups -> SUBSET (1..MaxSeq)]
      /\ \A h \in Groups : latest[h] <= latest'[h] /\ waiters[h] \subseteq waiters'[h]
      /\ n <= acked[g] \/ (n \in waiters'[g] /\ n <= latest'[g])
  <2>1. CASE n <= acked[g]
    BY <2>1 DEF MarkDirty, IInv, TypeOK
  <2>2. CASE ~(n <= acked[g])
    <3>1. latest' = [latest EXCEPT ![g] = IF n > latest[g] THEN n ELSE latest[g]]
          /\ waiters' = [waiters EXCEPT ![g] = waiters[g] \cup {n}]
      BY <2>2 DEF MarkDirty
    <3>2. (IF n > latest[g] THEN n ELSE latest[g]) \in 0..MaxSeq
      BY DEF IInv, TypeOK
    <3> QED
      BY <3>1, <3>2 DEF IInv, TypeOK
  <2> QED
    BY <2>1, <2>2
<1>3. issued' \subseteq Groups \X (1..MaxSeq)
  BY <1>1 DEF IInv, TypeOK
<1>4. TypeOK'
  BY <1>1, <1>2, <1>3 DEF IInv, TypeOK, runVars
<1>5. AckedReceived' /\ SentReceived'
  BY <1>1 DEF IInv, AckedReceived, SentReceived, runVars
<1>6. ASSUME NEW h \in Groups, NEW m \in 1..MaxSeq, <<h, m>> \in issued'
      PROVE  /\ m \in waiters'[h] \/ m <= acked'[h]
             /\ m <= latest'[h] \/ m <= acked'[h]
  <2>1. CASE <<h, m>> \in issued
    <3>1. /\ m \in waiters[h] \/ m <= acked[h]
          /\ m <= latest[h] \/ m <= acked[h]
      BY <2>1 DEF IInv, TicketsKept, MarksKept
    <3>2. latest[h] \in Nat /\ latest'[h] \in Nat
      BY <1>2 DEF IInv, TypeOK
    <3> QED
      BY <1>1, <1>2, <3>1, <3>2
  <2>2. CASE <<h, m>> = <<g, n>>
    <3>1. h = g /\ m = n
      BY <2>2
    <3> QED
      BY <1>1, <1>2, <3>1
  <2> QED
    BY <1>1, <1>6, <2>1, <2>2
<1>7. TicketsKept' /\ MarksKept'
  BY <1>6 DEF TicketsKept, MarksKept
<1> QED
  BY <1>4, <1>5, <1>7 DEF IInv

(* What the acknowledgement of the sent sequence does to the tickets *)
LEMMA AckKeeps == IInv /\ RecordAck => IInv'
<1> SUFFICES ASSUME IInv, RecordAck PROVE IInv'
  OBVIOUS
<1> DEFINE n == batch[cur]
<1>1. /\ cur \in Groups /\ n \in 0..MaxSeq /\ n <= homeSeq[cur]
      /\ batch \in [Groups -> 0..MaxSeq]
      /\ acked \in [Groups -> 0..MaxSeq] /\ homeSeq \in [Groups -> 0..MaxSeq]
  BY DEF RecordAck, IInv, SentReceived, TypeOK
<1>2. /\ UNCHANGED <<latest, issued, wake, force, failed, delay, backingOff, flush, homeSeq>>
      /\ batch' = [batch EXCEPT ![cur] = 0]
      /\ cur' = NoGroup /\ run' = "flushing"
  BY DEF RecordAck
<1>3. /\ acked' \in [Groups -> 0..MaxSeq]
      /\ waiters' \in [Groups -> SUBSET (1..MaxSeq)]
      /\ \A g \in Groups : acked[g] <= acked'[g] /\ acked'[g] <= homeSeq[g]
      /\ \A g \in Groups : \A m \in waiters[g] : m \in waiters'[g] \/ m <= acked'[g]
  <2>1. CASE n > acked[cur]
    <3>1. /\ acked' = [acked EXCEPT ![cur] = n]
          /\ waiters' = [waiters EXCEPT ![cur] = {m \in waiters[cur] : m > n}]
      BY <2>1 DEF RecordAck, Acknowledge
    <3>2. \A m \in {k \in waiters[cur] : k > n} : m \in 1..MaxSeq
      BY <1>1 DEF IInv, TypeOK
    <3> HIDE DEF n
    <3>3. /\ acked' \in [Groups -> 0..MaxSeq]
          /\ \A g \in Groups : acked[g] <= acked'[g] /\ acked'[g] <= homeSeq[g]
      BY <1>1, <2>1, <3>1 DEF IInv, AckedReceived
    <3>4. /\ waiters' \in [Groups -> SUBSET (1..MaxSeq)]
          /\ \A g \in Groups : \A m \in waiters[g] : m \in waiters'[g] \/ m <= acked'[g]
      BY <1>1, <3>1, <3>2 DEF IInv, TypeOK
    <3> QED
      BY <3>3, <3>4
  <2>2. CASE ~(n > acked[cur])
    BY <1>1, <2>2 DEF RecordAck, Acknowledge, IInv, TypeOK, AckedReceived
  <2> QED
    BY <2>1, <2>2
<1> HIDE DEF n
<1>4. batch' \in [Groups -> 0..MaxSeq]
  BY <1>1, <1>2
<1>5. TypeOK'
  BY <1>2, <1>3, <1>4 DEF IInv, TypeOK
<1>6. AckedReceived' /\ SentReceived'
  BY <1>2, <1>3 DEF AckedReceived, SentReceived
<1>7. ASSUME NEW g \in Groups, NEW m \in 1..MaxSeq, <<g, m>> \in issued'
      PROVE  /\ m \in waiters'[g] \/ m <= acked'[g]
             /\ m <= latest'[g] \/ m <= acked'[g]
  <2>1. /\ m \in waiters[g] \/ m <= acked[g]
        /\ m <= latest[g] \/ m <= acked[g]
    BY <1>2, <1>7 DEF IInv, TicketsKept, MarksKept
  <2>2. acked[g] \in Nat /\ acked'[g] \in Nat
    BY <1>1, <1>3
  <2> QED
    BY <1>2, <1>3, <2>1, <2>2
<1>8. TicketsKept' /\ MarksKept'
  BY <1>7 DEF TicketsKept, MarksKept
<1> QED
  BY <1>5, <1>6, <1>8 DEF IInv

(* The steps that touch no ticket: they move sequences to Home at most. *)
LEMMA OtherSteps ==
  ASSUME IInv, UNCHANGED flusherVars, TypeOK', SentReceived',
         \A g \in Groups : homeSeq[g] <= homeSeq'[g]
  PROVE  IInv'
<1>1. AckedReceived'
  BY DEF IInv, TypeOK, AckedReceived, flusherVars
<1>2. TicketsKept' /\ MarksKept'
  BY DEF IInv, TicketsKept, MarksKept, flusherVars
<1> QED
  BY <1>1, <1>2 DEF IInv

(* Every state of the flusher satisfies the invariant. *)
THEOREM Invariance == Spec => []IInv
<1>1. Init => IInv
  <2> SUFFICES ASSUME Init PROVE IInv
    OBVIOUS
  <2>1. FlushInterval \in FlushInterval..MaxBackoff /\ 0 \in 0..MaxSeq
    OBVIOUS
  <2>2. TypeOK
    BY <2>1 DEF Init, TypeOK
  <2>3. AckedReceived /\ SentReceived /\ TicketsKept /\ MarksKept
    BY DEF Init, AckedReceived, SentReceived, TicketsKept, MarksKept
  <2> QED
    BY <2>2, <2>3 DEF IInv
<1>2. IInv /\ [Next]_vars => IInv'
  <2> SUFFICES ASSUME IInv, [Next]_vars PROVE IInv'
    OBVIOUS
  <2>0. homeSeq \in [Groups -> 0..MaxSeq]
    BY DEF IInv, TypeOK
  <2>1. ASSUME NEW g \in Groups, NEW n \in 1..MaxSeq, MarkDirty(g, n) PROVE IInv'
    BY <2>1, MarkKeeps
  <2>2. CASE RunWake
    <3>1. TypeOK' /\ SentReceived'
      BY <2>2 DEF RunWake, runVars, flusherVars, IInv, TypeOK, SentReceived
    <3>2. UNCHANGED <<flusherVars, homeSeq>>
      BY <2>2 DEF RunWake
    <3> QED
      BY <2>0, <3>1, <3>2, OtherSteps
  <2>3. CASE RunFlush
    <3>1. TypeOK'
      <4>1. batch' \in [Groups -> 0..MaxSeq]
        BY <2>3 DEF RunFlush, IInv, TypeOK
      <4>2. force' \in BOOLEAN
        BY <2>3, Zenon DEF RunFlush, IInv, TypeOK
      <4> QED
        BY <2>3, <4>1, <4>2 DEF RunFlush, flusherVars, IInv, TypeOK
    <3>2. UNCHANGED <<flusherVars, homeSeq>> /\ run' = "flushing"
      BY <2>3 DEF RunFlush
    <3> QED
      BY <2>0, <3>1, <3>2, OtherSteps DEF SentReceived
  <2>4. ASSUME NEW g \in Groups, SendAcknowledged(g) PROVE IInv'
    <3>1. /\ homeSeq' \in [Groups -> 0..MaxSeq]
          /\ \A h \in Groups : homeSeq[h] <= homeSeq'[h]
          /\ batch[g] <= homeSeq'[g]
      BY <2>4, Receiving DEF SendAcknowledged, IInv
    <3>2. /\ UNCHANGED <<flusherVars, wake, force, batch, failed, delay, backingOff, flush>>
          /\ cur' = g /\ run' = "acking"
      BY <2>4 DEF SendAcknowledged
    <3>3. TypeOK'
      BY <3>1, <3>2 DEF IInv, TypeOK, flusherVars
    <3>4. SentReceived'
      BY <3>1, <3>2 DEF SentReceived
    <3> QED
      BY <3>1, <3>2, <3>3, <3>4, OtherSteps
  <2>5. ASSUME NEW g \in Groups, SendFails(g) PROVE IInv'
    <3>1. /\ homeSeq' \in [Groups -> 0..MaxSeq]
          /\ \A h \in Groups : homeSeq[h] <= homeSeq'[h]
      BY <2>0, <2>5, Receiving DEF SendFails, IInv
    <3>2. /\ UNCHANGED <<flusherVars, wake, force, run, cur, delay, backingOff, flush>>
          /\ batch' = [batch EXCEPT ![g] = 0] /\ failed' = TRUE
          /\ run = "flushing"
      BY <2>5 DEF SendFails
    <3>3. TypeOK'
      BY <3>1, <3>2 DEF IInv, TypeOK, flusherVars
    <3>4. SentReceived'
      BY <3>2 DEF SentReceived
    <3> QED
      BY <3>1, <3>2, <3>3, <3>4, OtherSteps
  <2>6. CASE RecordAck
    BY <2>6, AckKeeps
  <2>7. CASE RunFlushed
    <3>1. /\ UNCHANGED <<flusherVars, wake, force, batch, cur, flush, homeSeq>>
          /\ run' = "select" /\ failed' = FALSE
      BY <2>7 DEF RunFlushed
    <3>2. TypeOK'
      BY <2>7, <3>1, DelayInRange DEF RunFlushed, IInv, TypeOK, flusherVars
    <3> QED
      BY <2>0, <3>1, <3>2, OtherSteps DEF SentReceived
  <2>8. CASE RunStops
    BY <2>0, <2>8, OtherSteps DEF RunStops, flusherVars, IInv, TypeOK, SentReceived
  <2>9. CASE FlushBegin \/ FlushIdle \/ FlushExpires
    <3>1. TypeOK' /\ SentReceived'
      BY <2>9 DEF FlushBegin, FlushIdle, FlushExpires, flusherVars, runVars,
                  IInv, TypeOK, SentReceived
    <3>2. UNCHANGED <<flusherVars, homeSeq>>
      BY <2>9 DEF FlushBegin, FlushIdle, FlushExpires
    <3> QED
      BY <2>0, <3>1, <3>2, OtherSteps
  <2>10. CASE UNCHANGED vars
    BY <2>0, <2>10, OtherSteps DEF vars, flusherVars, runVars, IInv, TypeOK, SentReceived
  <2> QED
    BY <2>1, <2>2, <2>3, <2>4, <2>5, <2>6, <2>7, <2>8, <2>9, <2>10 DEF Next, RunStep
<1> QED
  BY <1>1, <1>2, PTL DEF Spec

(* The flusher's variables keep their types; in particular the delay of    *)
(* nextDelay stays between the flush interval and the maximal back-off.    *)
THEOREM TypeCorrect == Spec => []TypeOK
<1>1. IInv => TypeOK
  BY DEF IInv
<1> QED
  BY <1>1, Invariance, PTL

(* A ticket that MarkDirty returned and that is completed is true: Home    *)
(* has received at least its sequence, in whatever order marks, sends,     *)
(* lost frames and acknowledgements meet (releaseFlusher.flush).           *)
THEOREM TicketsTrue == Spec => []CompletedTicketsReceived
<1>1. IInv => CompletedTicketsReceived
  <2> SUFFICES ASSUME IInv, NEW t \in issued, t[2] \notin waiters[t[1]]
               PROVE  t[2] <= homeSeq[t[1]]
    BY DEF CompletedTicketsReceived
  <2>1. t[1] \in Groups /\ t[2] \in 1..MaxSeq /\ t = <<t[1], t[2]>>
    BY DEF IInv, TypeOK
  <2>2. t[2] <= acked[t[1]]
    BY <2>1 DEF IInv, TicketsKept
  <2>3. acked[t[1]] \in Nat /\ homeSeq[t[1]] \in Nat /\ acked[t[1]] <= homeSeq[t[1]]
    BY <2>1 DEF IInv, TypeOK, AckedReceived
  <2> QED
    BY <2>1, <2>2, <2>3
<1> QED
  BY <1>1, Invariance, PTL

(* A Flush that returns nil returns it when Home has every sequence that   *)
(* was marked before its last look at the groups (releaseFlusher.Flush).   *)
THEOREM FlushTrue == Spec => FlushReportsAll
<1>1. IInv /\ [Next]_vars => [FlushReported]_vars
  <2> SUFFICES ASSUME IInv, Next, flush = "polling", flush' = "flushed",
                      NEW t \in issued
               PROVE  t[2] <= homeSeq[t[1]]
    BY DEF FlushReported
  <2>1. FlushIdle
    BY DEF Next, RunStep, MarkDirty, RunWake, RunFlush, SendAcknowledged, SendFails,
           RecordAck, RunFlushed, RunStops, FlushBegin, FlushExpires
  <2>2. t[1] \in Groups /\ t[2] \in 1..MaxSeq /\ t = <<t[1], t[2]>>
    BY DEF IInv, TypeOK
  <2>3. ~(latest[t[1]] > acked[t[1]])
    BY <2>1, <2>2 DEF FlushIdle, Dirty
  <2>4. t[2] <= latest[t[1]] \/ t[2] <= acked[t[1]]
    BY <2>2 DEF IInv, MarksKept
  <2>5. /\ latest[t[1]] \in Nat /\ acked[t[1]] \in Nat /\ homeSeq[t[1]] \in Nat
        /\ acked[t[1]] <= homeSeq[t[1]]
    BY <2>2 DEF IInv, TypeOK, AckedReceived
  <2> QED
    BY <2>2, <2>3, <2>4, <2>5
<1> QED
  BY <1>1, Invariance, PTL DEF Spec, FlushReportsAll

=============================================================================
