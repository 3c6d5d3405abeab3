---------------------------- MODULE RefreshLoop ----------------------------
(***************************************************************************)
(* authAutoRefreshLoop (sdk/cliproxy/auth/auto_refresh_loop.go): a loop    *)
(* with a queue of credentials ordered by the time of their next check, a  *)
(* set of credentials to look at again, and workers that refresh what the  *)
(* loop puts on a bounded channel.  The queue is guarded by l.mu, the      *)
(* credentials by Manager.mu; every operation that changes a credential    *)
(* reschedules it after it has unlocked Manager.mu.                        *)
(*                                                                         *)
(* Credentials whose Runtime decides itself (RefreshEvaluator) and API     *)
(* keys, which are never refreshed, are left out.  The heap is a function  *)
(* from credentials to times.                                              *)
(***************************************************************************)
EXTENDS Naturals, Sequences, FiniteSetsExt

CONSTANTS
  Auths,          \* credentials
  WithExecutor,   \* credentials whose provider has an executor
  Workers,        \* refresh workers
  None,           \* no time, no credential
  JobBuffer,      \* capacity of the job channel
  Lifetime,       \* from a refresh to the next one (expiry minus lead)
  Interval,       \* refreshCheckInterval
  PendingPause,   \* refreshPendingBackoff
  FailurePause,   \* refreshFailureBackoff
  IdlePause,      \* refreshIneffectiveBackoff
  MayUnauthorize, \* whether upstream answers with 401
  MaxNow,         \* bound: the last tick of the clock
  MaxChanges      \* bound: changes made to credentials from outside the loop

ASSUME RefreshLoopAssumption ==
  /\ JobBuffer \in Nat \ {0}
  /\ {Lifetime, Interval, PendingPause, FailurePause, IdlePause} \subseteq Nat \ {0}
  /\ WithExecutor \subseteq Auths
  /\ MayUnauthorize \in BOOLEAN
  /\ {MaxNow, MaxChanges} \subseteq Nat
  /\ None \notin Nat \cup Auths

VARIABLES
  now,      \* the clock
  auths,    \* Manager.auths, as far as refreshing goes
  queue,    \* the time of each queued credential's check
  dirty,    \* credentials to look at again
  wake,     \* a token in wakeCh
  owed,     \* credentials whose reschedule is still to come
  unqueue,  \* removed credentials still to be taken off the queue
  ring,     \* a reschedule has marked its credential and not sent the token
  timer,    \* when the timer fires
  pc,       \* where the loop is
  loopNow,  \* the time the loop read when it woke
  entries,  \* what rebuild has read
  todo,     \* credentials of this round
  plan,     \* what it read about one of them
  jobs,     \* the job channel
  working,  \* the credential each worker refreshes
  changes,  \* changes made so far
  disturbed \* history: credentials changed behind the loop's back

auxVars == <<owed, unqueue, ring>>
loopVars == <<timer, pc, loopNow, entries, todo, plan>>
changeVars == <<changes, disturbed>>
vars == <<now, auths, queue, dirty, wake, auxVars, loopVars, jobs, working, changeVars>>

NoPlan == [auth |-> None, op |-> "none", next |-> 0]

Init ==
  /\ now = 0
  /\ auths \in [Auths -> [present : BOOLEAN, unauthorized : {FALSE}, dueAt : {0},
                          backoff : {0}]]
  /\ queue = [a \in Auths |-> None]
  /\ dirty = {} /\ wake = FALSE
  /\ owed = {} /\ unqueue = {} /\ ring = FALSE
  /\ timer = None
  /\ pc = "rebuild"
  /\ loopNow = 0
  /\ entries = [a \in Auths |-> None]
  /\ todo = {}
  /\ plan = NoPlan
  /\ jobs = <<>>
  /\ working = [w \in Workers |-> None]
  /\ changes = 0 /\ disturbed = {}

-----------------------------------------------------------------------------
(***************************************************************************)
(* Decisions about one credential.                                         *)
(***************************************************************************)
Schedulable(a) == auths[a].present /\ ~auths[a].unauthorized

\* nextRefreshCheckAt for a schedulable credential.  It agrees with
\* shouldRefresh on who is due, since the lead of every provider is positive;
\* with a lead of zero it would be earlier.
nextRefreshCheckAt(a, t) ==
  CASE auths[a].backoff > t -> auths[a].backoff
    [] auths[a].backoff <= t /\ auths[a].dueAt <= t -> t
    [] OTHER -> auths[a].dueAt

shouldRefresh(a, t) ==
  Schedulable(a) /\ auths[a].backoff <= t /\ auths[a].dueAt <= t

Check(a, t) ==
  IF Schedulable(a) THEN [auth |-> a, op |-> "upsert", next |-> nextRefreshCheckAt(a, t)]
  ELSE [auth |-> a, op |-> "remove", next |-> 0]

\* upsert and remove.
Requeued(p) ==
  CASE p.op = "upsert" -> [queue EXCEPT ![p.auth] = p.next]
    [] p.op = "remove" -> [queue EXCEPT ![p.auth] = None]
    [] OTHER -> queue

-----------------------------------------------------------------------------
(***************************************************************************)
(* The loop.                                                               *)
(***************************************************************************)
\* Seeded fault: rebuild forgets what was marked while it read.
RebuildInstallClears ==
  /\ pc = "install"
  /\ queue' = entries
  /\ dirty' = {}
  /\ entries' = [a \in Auths |-> None]
  /\ pc' = "start"
  /\ UNCHANGED <<now, auths, wake, auxVars, timer, loopNow, todo, plan, jobs, working,
                 changeVars>>

\* rebuild, when the manager already names this loop: it reads the
\* credentials and then replaces the queue.
RebuildRead ==
  /\ pc = "rebuild"
  /\ loopNow' = now
  /\ entries' = [a \in Auths |-> IF Schedulable(a) THEN nextRefreshCheckAt(a, now) ELSE None]
  /\ pc' = "install"
  /\ UNCHANGED <<now, auths, queue, dirty, wake, auxVars, timer, todo, plan, jobs,
                 working, changeVars>>

RebuildInstall ==
  /\ pc = "install"
  /\ queue' = entries
  /\ entries' = [a \in Auths |-> None]
  /\ pc' = "start"
  /\ UNCHANGED <<now, auths, dirty, wake, auxVars, timer, loopNow, todo, plan, jobs,
                 working, changeVars>>

\* The goroutine starts; the first timer is set from here.
LoopStarts ==
  /\ pc = "start"
  /\ loopNow' = now
  /\ pc' = "arm"
  /\ UNCHANGED <<now, auths, queue, dirty, wake, auxVars, timer, entries, todo, plan, jobs,
                 working, changeVars>>

\* Seeded fault: only what was not yet due when the round began arms the timer.
resetTimerAhead ==
  /\ pc = "arm"
  /\ timer' = LET times == {queue[a] : a \in Auths} \ {None}
                 ahead == {t \in times : t > loopNow} IN
                IF ahead = {} THEN None ELSE now + (Min(ahead) - loopNow)
  /\ pc' = "select"
  /\ loopNow' = 0
  /\ UNCHANGED <<now, auths, queue, dirty, wake, auxVars, entries, todo, plan, jobs,
                 working, changeVars>>

\* resetTimer waits from now on for as long as the first credential was away
\* when the round began, so a round that took long makes the timer late.
resetTimer ==
  /\ pc = "arm"
  /\ timer' = LET times == {queue[a] : a \in Auths} \ {None} IN
                IF times = {} THEN None
                ELSE now + (Max({Min(times), loopNow}) - loopNow)
  /\ pc' = "select"
  /\ loopNow' = 0
  /\ UNCHANGED <<now, auths, queue, dirty, wake, auxVars, entries, todo, plan, jobs,
                 working, changeVars>>

\* A token wakes the loop; resetTimer stops the timer before it sets it again.
Woken ==
  /\ pc = "select" /\ wake
  /\ wake' = FALSE
  /\ timer' = None
  /\ loopNow' = now
  /\ pc' = "drain"
  /\ UNCHANGED <<now, auths, queue, dirty, auxVars, entries, todo, plan, jobs,
                 working, changeVars>>

\* The timer fires; popDue takes what is due off the queue.
TimerFires ==
  /\ pc = "select" /\ timer # None /\ timer <= now
  /\ timer' = None
  /\ loopNow' = now
  /\ todo' = {a \in Auths : queue[a] # None /\ queue[a] <= now}
  /\ queue' = [a \in Auths |-> IF a \in todo' THEN None ELSE queue[a]]
  /\ pc' = "due"
  /\ UNCHANGED <<now, auths, dirty, wake, auxVars, entries, plan, jobs, working, changeVars>>

\* handleDueAuth reads the credential under Manager.mu ...
DueRead(a) ==
  /\ pc = "due" /\ a \in todo
  /\ todo' = todo \ {a}
  /\ plan' = CASE ~auths[a].present -> [auth |-> a, op |-> "drop", next |-> 0]
               [] shouldRefresh(a, loopNow) ->
                    IF a \in WithExecutor THEN [auth |-> a, op |-> "mark", next |-> 0]
                    ELSE [auth |-> a, op |-> "upsert", next |-> loopNow + Interval]
               [] OTHER -> Check(a, loopNow)
  /\ pc' = "dueAct"
  /\ UNCHANGED <<now, auths, queue, dirty, wake, auxVars, timer, loopNow, entries,
                 jobs, working, changeVars>>

\* ... and queues it again, drops it, or claims it with markRefreshPending,
\* which fails if somebody else has just refreshed it.
DueAct ==
  /\ pc = "dueAct"
  /\ LET a == plan.auth
         claims == plan.op = "mark" /\ auths[a].present /\ auths[a].backoff <= loopNow
     IN IF claims
        THEN /\ auths' = [auths EXCEPT ![a].backoff = loopNow + PendingPause]
             /\ pc' = "claimed"
             /\ UNCHANGED <<queue, plan>>
        ELSE /\ queue' = Requeued(IF plan.op = "mark" THEN Check(a, loopNow) ELSE plan)
             /\ plan' = NoPlan
             /\ pc' = "due"
             /\ UNCHANGED auths
  /\ UNCHANGED <<now, dirty, wake, auxVars, timer, loopNow, entries, todo, jobs,
                 working, changeVars>>

\* markRefreshPending reschedules the credential it has claimed; the loop
\* itself does this, so nobody can look between the mark and the token.
ClaimMarked ==
  /\ pc = "claimed"
  /\ dirty' = dirty \cup {plan.auth}
  /\ wake' = TRUE
  /\ pc' = "send"
  /\ UNCHANGED <<now, auths, queue, auxVars, timer, loopNow, entries, todo, plan, jobs,
                 working, changeVars>>

\* The send blocks while the channel is full.
SendJob ==
  /\ pc = "send" /\ Len(jobs) < JobBuffer
  /\ jobs' = Append(jobs, plan.auth)
  /\ plan' = NoPlan
  /\ pc' = "due"
  /\ UNCHANGED <<now, auths, queue, dirty, wake, auxVars, timer, loopNow, entries,
                 todo, working, changeVars>>

DueDone ==
  /\ pc = "due" /\ todo = {}
  /\ pc' = "drain"
  /\ UNCHANGED <<now, auths, queue, dirty, wake, auxVars, timer, loopNow, entries,
                 todo, plan, jobs,
                 working, changeVars>>

drainDirty ==
  /\ pc = "drain"
  /\ todo' = dirty
  /\ dirty' = {}
  /\ pc' = "dirty"
  /\ UNCHANGED <<now, auths, queue, wake, auxVars, timer, loopNow, entries, plan, jobs,
                 working, changeVars>>

\* applyDirty reads each credential under Manager.mu, then changes the queue.
DirtyRead(a) ==
  /\ pc = "dirty" /\ a \in todo
  /\ todo' = todo \ {a}
  /\ plan' = Check(a, loopNow)
  /\ pc' = "dirtyAct"
  /\ UNCHANGED <<now, auths, queue, dirty, wake, auxVars, timer, loopNow, entries,
                 jobs, working, changeVars>>

DirtyAct ==
  /\ pc = "dirtyAct"
  /\ queue' = Requeued(plan)
  /\ plan' = NoPlan
  /\ pc' = "dirty"
  /\ UNCHANGED <<now, auths, dirty, wake, auxVars, timer, loopNow, entries, todo, jobs,
                 working, changeVars>>

DirtyDone ==
  /\ pc = "dirty" /\ todo = {}
  /\ pc' = "arm"
  /\ UNCHANGED <<now, auths, queue, dirty, wake, auxVars, timer, loopNow, entries,
                 todo, plan, jobs,
                 working, changeVars>>

-----------------------------------------------------------------------------
(***************************************************************************)
(* Rescheduling: queueReschedule marks the credential, then wakes the loop *)
(* unless a token is already in the channel.                               *)
(***************************************************************************)
\* Seeded fault: a loop whose timer is set is left to wake by itself.
MarkDirtyQuietly(a) ==
  /\ a \in owed
  /\ owed' = owed \ {a}
  /\ dirty' = dirty \cup {a}
  /\ ring' = (ring \/ timer = None)
  /\ UNCHANGED <<now, auths, queue, wake, unqueue, loopVars, jobs, working, changeVars>>

MarkDirty(a) ==
  /\ a \in owed
  /\ owed' = owed \ {a}
  /\ dirty' = dirty \cup {a}
  /\ ring' = TRUE
  /\ UNCHANGED <<now, auths, queue, wake, unqueue, loopVars, jobs, working, changeVars>>

Ring ==
  /\ ring
  /\ ring' = FALSE
  /\ wake' = TRUE
  /\ UNCHANGED <<now, auths, queue, dirty, owed, unqueue, loopVars, jobs, working, changeVars>>

\* queueRefreshUnschedule
Unschedule(a) ==
  /\ a \in unqueue
  /\ unqueue' = unqueue \ {a}
  /\ queue' = [queue EXCEPT ![a] = None]
  /\ UNCHANGED <<now, auths, dirty, wake, owed, ring, loopVars, jobs, working, changeVars>>

-----------------------------------------------------------------------------
(***************************************************************************)
(* Refreshes, results and changes of the credentials.                      *)
(***************************************************************************)
\* What refreshAuthForRequest leaves behind: a new token, a token that is
\* still due for a refresh, an error, or a final rejection; nothing if the
\* call was cancelled.
Refreshed(r) ==
  {[r EXCEPT !.unauthorized = FALSE, !.dueAt = now + Lifetime, !.backoff = 0],
   [r EXCEPT !.unauthorized = FALSE, !.dueAt = now, !.backoff = now + IdlePause],
   [r EXCEPT !.unauthorized = FALSE, !.backoff = now + FailurePause],
   r} \cup
  (IF MayUnauthorize THEN {[r EXCEPT !.unauthorized = TRUE, !.backoff = 0]} ELSE {})

\* The worker's refresh finds neither a removed credential nor an executor
\* that is not there.
AfterRefresh(a) ==
  IF auths[a].present /\ a \in WithExecutor
  THEN {[auths EXCEPT ![a] = r] : r \in Refreshed(auths[a])}
  ELSE {auths}

TakeJob(w) ==
  /\ working[w] = None /\ jobs # <<>>
  /\ working' = [working EXCEPT ![w] = Head(jobs)]
  /\ jobs' = Tail(jobs)
  /\ UNCHANGED <<now, auths, queue, dirty, wake, auxVars, loopVars, changeVars>>

\* The worker reschedules the credential whatever came of it.
WorkerDone(w) ==
  /\ working[w] # None
  /\ LET a == working[w] IN
       /\ auths' \in AfterRefresh(a)
       /\ owed' = owed \cup {a}
  /\ working' = [working EXCEPT ![w] = None]
  /\ UNCHANGED <<now, queue, dirty, wake, unqueue, ring, loopVars, jobs, changeVars>>

\* One of the bounded changes from outside, which leaves D out of the loop's
\* sight.
Change(D) ==
  /\ changes < MaxChanges
  /\ changes' = changes + 1
  /\ disturbed' = disturbed \cup D

\* A request refreshes the credential after a 401; it is not rescheduled if
\* the call was cancelled, when nothing has changed.
RequestRefresh(a) ==
  /\ auths[a].present /\ a \in WithExecutor
  /\ \E r \in Refreshed(auths[a]) \ {auths[a]} : auths' = [auths EXCEPT ![a] = r]
  /\ owed' = owed \cup {a}
  /\ Change({})
  /\ UNCHANGED <<now, queue, dirty, wake, unqueue, ring, loopVars, jobs, working>>

\* MarkResult: a 401 becomes the credential's LastError, a later success (or
\* another error) takes it away; neither reschedules the credential.
ResultUnauthorized(a) ==
  /\ MayUnauthorize /\ auths[a].present
  /\ auths' = [auths EXCEPT ![a].unauthorized = TRUE]
  /\ Change({})
  /\ UNCHANGED <<now, queue, dirty, wake, auxVars, loopVars, jobs, working>>

ResultSuccess(a) ==
  /\ auths[a].present /\ auths[a].unauthorized
  /\ auths' = [auths EXCEPT ![a].unauthorized = FALSE]
  /\ Change({a})
  /\ UNCHANGED <<now, queue, dirty, wake, auxVars, loopVars, jobs, working>>

\* Register or Update with a credential whose refresh is due at once or later.
RegisterAuth(a) ==
  /\ \E due \in {now, now + Lifetime} :
       auths' = [auths EXCEPT ![a] = [present |-> TRUE, unauthorized |-> FALSE,
                                      dueAt |-> due, backoff |-> 0]]
  /\ owed' = owed \cup {a}
  /\ Change({a} \cap unqueue)
  /\ UNCHANGED <<now, queue, dirty, wake, unqueue, ring, loopVars, jobs, working>>

RemoveAuth(a) ==
  /\ auths[a].present
  /\ auths' = [auths EXCEPT ![a].present = FALSE]
  /\ unqueue' = unqueue \cup {a}
  /\ Change({})
  /\ UNCHANGED <<now, queue, dirty, wake, owed, ring, loopVars, jobs, working>>

Tick ==
  /\ now < MaxNow
  /\ now' = now + 1
  /\ UNCHANGED <<auths, queue, dirty, wake, auxVars, loopVars, jobs, working, changeVars>>

-----------------------------------------------------------------------------
Loop ==
  \/ RebuildRead \/ RebuildInstall \/ LoopStarts \/ resetTimer \/ Woken
  \/ \E a \in Auths : DueRead(a) \/ DirtyRead(a)
  \/ DueAct \/ ClaimMarked \/ SendJob \/ DueDone \/ drainDirty \/ DirtyAct \/ DirtyDone

Next ==
  \/ Loop
  \/ TimerFires
  \/ \E a \in Auths :
       \/ MarkDirty(a) \/ Unschedule(a)
       \/ RequestRefresh(a) \/ ResultUnauthorized(a) \/ ResultSuccess(a)
       \/ RegisterAuth(a) \/ RemoveAuth(a)
  \/ Ring
  \/ \E w \in Workers : TakeJob(w) \/ WorkerDone(w)
  \/ Tick

Spec == Init /\ [][Next]_vars

\* Goroutines that can run do; select chooses among ready cases at random, so
\* a timer that stays due is not passed over for ever; refreshes return; time
\* passes.
FairSpec ==
  /\ Spec
  /\ WF_vars(Loop)
  /\ SF_vars(TimerFires)
  /\ WF_vars(Ring)
  /\ WF_vars(Tick)
  /\ \A a \in Auths : WF_vars(MarkDirty(a)) /\ WF_vars(Unschedule(a))
  /\ \A w \in Workers : WF_vars(TakeJob(w)) /\ WF_vars(WorkerDone(w))

-----------------------------------------------------------------------------
\* A mark never waits for a loop that sleeps or is about to: the token is in
\* the channel or will be, or the loop has yet to drain the marks.
MarksAreSeen ==
  dirty # {} => \/ wake
                \/ ring
                \/ pc \in {"due", "dueAct", "claimed", "send", "drain"}

\* Where a credential is that will be looked at again: in a queue the loop
\* does not sleep on without a timer, among the marks, in the round under way,
\* with a worker, or on its way back.
Tracked(a) ==
  \/ queue[a] # None /\ (pc = "select" => timer # None)
  \/ a \in dirty \cup owed \cup todo
  \/ plan.auth = a /\ plan.op \in {"upsert", "mark"}
  \/ \E i \in DOMAIN jobs : jobs[i] = a
  \/ \E w \in Workers : working[w] = a
  \/ pc = "rebuild"
  \/ pc = "install" /\ entries[a] # None

\* A credential that is to be refreshed one day is never lost between the
\* queue and its timer, the marks, the jobs and the workers, unless a request
\* lifted its 401 or it was replaced while its removal went on
\* (queueReschedule, rebuild, resetTimer, popDue, handleDueAuth, applyDirty,
\* the workers).
NobodyForgotten ==
  \A a \in Auths : Schedulable(a) /\ a \notin disturbed => Tracked(a)

\* The loop waits for a time the bounded clock does not reach.
Beyond == timer # None /\ timer > MaxNow

\* "a background loop that evaluates auth freshness every few seconds and
\* triggers refresh operations when required": a credential that is due is
\* claimed, refreshed or changed, unless the timer is past the bounded clock,
\* or a request lifted its 401 or it was replaced while its removal went on,
\* neither of which reaches the loop.
DueIsHandled ==
  \A a \in WithExecutor :
    shouldRefresh(a, now) ~> (~shouldRefresh(a, now) \/ Beyond \/ a \in disturbed)
=============================================================================
