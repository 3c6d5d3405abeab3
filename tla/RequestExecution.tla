-------------------------- MODULE RequestExecution --------------------------
(***************************************************************************)
(* Execute, ExecuteCount and ExecuteStream of the auth Manager without     *)
(* Home (conductor_execution.go, conductor_stream.go, and the retry rules  *)
(* of conductor_selection.go): rounds over credentials, the upstream       *)
(* models of a credential, one refresh after a 401, the first bytes of a   *)
(* stream, cooldown waits between rounds, and a client that goes away.     *)
(* Requests run concurrently and share the manager's records and the       *)
(* scheduler of AuthScheduler.                                             *)
(*                                                                         *)
(* Upstreams, plugins and clients are external: any answer may come.  What *)
(* a refresh does besides clearing 401 blocks is left to AuthManager, the  *)
(* ladder behind QuotaPause to CooldownState.                              *)
(***************************************************************************)
EXTENDS AuthScheduler

CONSTANTS
  Requests,
  Calls,            \* what requests are called with: kind, list, pin and ws
  Pool,             \* the upstream models of each credential
  Refreshable,      \* credentials with a refresh token
  RetryOf,          \* request_retry, or a credential's own override
  MaxCredentials,   \* max_retry_credentials; 0 is no limit
  MaxWait,          \* max_retry_interval
  QuotaPause, AuthPause, TransientPause,
  Hints,            \* Retry-After of a 429; 0 is none
  Classes,          \* the failures upstreams answer with
  Strategies,
  MaxOthers         \* bound: steps of other requests and reloads

ASSUME ExecutionAssumption ==
  /\ Calls \subseteq [kind : {"execute", "count", "stream"}, list : Lists,
                      pin : Auths \cup {NoAuth}, ws : BOOLEAN]
  /\ Classes \subseteq {"quota", "unauthorized", "transient", "invalid", "neutral", "other"}
  /\ \A a \in Auths : Pool[a] \in Seq(Models) \ {<<>>} /\ RetryOf[a] \in Nat
  /\ MaxWait \in Nat /\ MaxOthers \in Nat /\ 0 \notin {QuotaPause, AuthPause}

VARIABLES
  auths,     \* Manager.auths: the blocks of each credential and model
  sched,     \* the scheduler's index
  strategy,  \* its built-in strategy
  offset,    \* modelPoolOffsets, modulo the size of the pool
  req,       \* where each request is
  others     \* the steps of other requests and reloads so far

vars == <<auths, sched, strategy, offset, req, others>>

NoErr == [class |-> "none", hint |-> 0]
Err(c) == [class |-> c, hint |-> 0]
PickErrors == {"notFound", "cooldown", "unavailable"}

\* The errors upstreams answer with.
Failures(kind) ==
  {Err(c) : c \in Classes \ (IF kind = "count" THEN {} ELSE {"neutral"})}
  \cup {[class |-> "quota", hint |-> h] : h \in IF "quota" \in Classes THEN Hints ELSE {}}

NoCall == [kind |-> "none", list |-> <<>>, pin |-> NoAuth, ws |-> FALSE]

\* A request: where it is, what it was called with, its round, the
\* credential it is using and the call it is making.  result is what its
\* caller was told; called and owed are kept for the properties: an upstream
\* was called in this round, and the answers that nobody recorded.
At0(pc) ==
  [pc |-> pc, call |-> NoCall, gone |-> FALSE,
   attempt |-> 0, wait |-> 0, tried |-> {}, attempted |-> {}, err |-> NoErr,
   auth |-> NoAuth, models |-> <<>>, refreshed |-> FALSE, blank |-> FALSE,
   rebooted |-> FALSE, opened |-> FALSE, answer |-> NoErr,
   result |-> "none", called |-> FALSE, owed |-> 0]

\* Between two credentials, with the last error.
AtHead(q, e, owed) ==
  [q EXCEPT !.pc = "head", !.err = e, !.owed = owed, !.auth = NoAuth, !.models = <<>>,
            !.refreshed = FALSE, !.blank = FALSE, !.rebooted = FALSE,
            !.opened = FALSE, !.answer = NoErr]

Init ==
  /\ auths = [a \in Auths |-> [m \in Models |-> Free]]
  /\ sched = rebuild
  /\ strategy = "round-robin"
  /\ offset = [a \in Auths |-> 0]
  /\ req = [r \in Requests |-> At0("new")]
  /\ others = 0

At(r, pc) == req[r].pc = pc
Model(r) == Head(req[r].models)

\* A request calls, with or without a pin and a websocket downstream.
Begin(r) ==
  /\ At(r, "new")
  /\ \E call \in Calls : req' = [req EXCEPT ![r] = [At0("head") EXCEPT !.call = call]]
  /\ UNCHANGED <<auths, sched, strategy, offset, others>>

-----------------------------------------------------------------------------
\* The answers nobody recorded, after this step: Mark records one.
Owed(r) == req[r].owed - (IF At(r, "mark") THEN 1 ELSE 0)

\* The end of a request: its caller gets a response or an error.
Return(r, class) ==
  req' = [req EXCEPT ![r] = [At0("done") EXCEPT
    !.result = IF class \in PickErrors THEN "noCredential"
               ELSE IF class \in {"ok", "cancelled"} THEN class ELSE "failed",
    !.called = class \in PickErrors /\ req[r].called,
    !.owed = Owed(r)]]

InList(r, a) == \E i \in DOMAIN req[r].call.list : req[r].call.list[i] = ProviderOf[a]

\* Seeded fault: the number of rounds is not looked at.
closestUnlimited(r) ==
  {auths[a][Route].left : a \in {b \in Auths : InList(r, b) /\ auths[b][Route].left > 0}}

\* The waits that end a block of a credential with retries left.
closestCooldownWait(r) ==
  {auths[a][Route].left :
     a \in {b \in Auths : /\ InList(r, b)
                          /\ req[r].attempt < RetryOf[b]
                          /\ isAuthBlockedForModel(auths[b], Route)}}

retryAllowed(r) == \E a \in Auths : InList(r, a) /\ req[r].attempt < RetryOf[a]

\* The waits after which error e is retried: one or none.
shouldRetryAfterError(r, e) ==
  LET waits == closestCooldownWait(r)
  IN IF MaxWait = 0 \/ e.class = "invalid" THEN {}
     ELSE IF waits # {} THEN {Min(waits)} \cap 0 .. MaxWait
     ELSE IF e.class \in {"quota", "cooldown"} /\ retryAllowed(r)
          THEN {e.hint} \cap 1 .. MaxWait
     ELSE {}

\* A round failed with e: another one after a wait, or the end.
EndRound(r, e) ==
  LET waits == IF e.class \in {"terminated", "cancelled"} THEN {}
               ELSE shouldRetryAfterError(r, e)
  IN IF waits = {} THEN Return(r, e.class)
     ELSE req' = [req EXCEPT ![r] = [At0("waiting") EXCEPT
            !.call = req[r].call, !.gone = req[r].gone,
            !.attempt = req[r].attempt, !.owed = Owed(r),
            !.wait = CHOOSE w \in waits : TRUE]]

\* waitForCooldown; the jitter is the timer's delay.
WaitDone(r) ==
  /\ At(r, "waiting")
  /\ IF req[r].gone THEN Return(r, "cancelled")
     ELSE /\ req[r].wait = 0
          /\ req' = [req EXCEPT ![r].pc = "head", ![r].attempt = @ + 1]
  /\ UNCHANGED <<auths, sched, strategy, offset, others>>

-----------------------------------------------------------------------------
\* The limit on credentials of one round is reached.
LimitReached(r) ==
  /\ At(r, "head")
  /\ MaxCredentials > 0 /\ Cardinality(req[r].attempted) >= MaxCredentials
  /\ EndRound(r, IF req[r].err = NoErr THEN Err("notFound") ELSE req[r].err)
  /\ UNCHANGED <<auths, sched, strategy, offset, others>>

nextModelPoolOffset(a) == offset' = [offset EXCEPT ![a] = (@ + 1) % Len(Pool[a])]

rotateStrings(seq, n) == SubSeq(seq, n + 1, Len(seq)) \o SubSeq(seq, 1, n)

\* The models of a credential that are not blocked, from the pool's offset on.
Candidates(a) ==
  LET pool == rotateStrings(Pool[a], offset[a])
  IN AtPositions(pool, {i \in DOMAIN Pool[a] : ~isAuthBlockedForModel(auths[a], pool[i])})

\* A credential was served: it is tried, with the models that are its
\* candidates.
Take(r, a) ==
  LET models == Candidates(a)
      q == [req[r] EXCEPT !.tried = @ \cup {a}]
  IN /\ req' = [req EXCEPT ![r] =
          IF models = <<>> THEN q
          ELSE [q EXCEPT !.pc = "prepare", !.attempted = @ \cup {a}, !.auth = a,
                         !.models = models, !.refreshed = FALSE]]
     /\ nextModelPoolOffset(a)

\* When nobody is served the scheduler is rebuilt from the records and asked
\* again.
retrySchedulerPick(first, list, pin, ws, tried) ==
  IF first.auth # NoAuth THEN first
  ELSE pickCredential(rebuild, auths, list, pin, ws, strategy, tried)

pickNextMixed(list, pin, ws, tried) ==
  retrySchedulerPick(pickCredential(sched, auths, list, pin, ws, strategy, tried),
                     list, pin, ws, tried)

\* Seeded fault: the error of the pick hides what the upstreams answered.
PickHides(r) ==
  /\ At(r, "head")
  /\ MaxCredentials = 0 \/ Cardinality(req[r].attempted) < MaxCredentials
  /\ LET q == req[r] IN
     \E p \in {pickNextMixed(q.call.list, q.call.pin, q.call.ws, q.tried)} :
        /\ sched' = p.sched
        /\ IF p.auth # NoAuth THEN Take(r, p.auth)
           ELSE /\ EndRound(r, Err(unavailableError(p.sched, auths, q.call.list, q.call.pin, q.tried)))
                /\ UNCHANGED offset
  /\ UNCHANGED <<auths, strategy, others>>

\* The next credential of the round; without one the round ends with the last
\* error of an upstream, if there is one.
Pick(r) ==
  /\ At(r, "head")
  /\ MaxCredentials = 0 \/ Cardinality(req[r].attempted) < MaxCredentials
  /\ LET q == req[r] IN
     \E p \in {pickNextMixed(q.call.list, q.call.pin, q.call.ws, q.tried)} :
        /\ sched' = p.sched
        /\ IF p.auth # NoAuth THEN Take(r, p.auth)
           ELSE /\ EndRound(r, IF q.err # NoErr THEN q.err
                               ELSE Err(unavailableError(p.sched, auths, q.call.list, q.call.pin,
                                                         q.tried)))
                /\ UNCHANGED offset
  /\ UNCHANGED <<auths, strategy, others>>

-----------------------------------------------------------------------------
\* prepareRequestAuth: the credential is ready to be used, or its failure is
\* recorded for the routed model and the next credential's turn comes.
Prepare(r) ==
  /\ At(r, "prepare")
  /\ \/ req' = [req EXCEPT ![r].pc = "call"]
     \/ \E e \in Failures("execute") :
          req' = [req EXCEPT ![r] = [@ EXCEPT !.pc = "unready", !.models = <<>>,
                                              !.answer = e]]
  /\ UNCHANGED <<auths, sched, strategy, offset, others>>

\* The request interceptor ends the request: a stream goes on with the next
\* credential, everybody else returns.
Terminate(r) ==
  /\ At(r, "call")
  /\ IF req[r].call.kind # "stream" THEN EndRound(r, Err("terminated"))
     ELSE IF req[r].gone THEN EndRound(r, Err("cancelled"))
     ELSE req' = [req EXCEPT ![r] = AtHead(@, Err("terminated"), @.owed)]
  /\ UNCHANGED <<auths, sched, strategy, offset, others>>

\* The call goes upstream; a stream looks at its context first.
Call(r) ==
  /\ At(r, "call")
  /\ IF req[r].call.kind = "stream" /\ req[r].gone THEN EndRound(r, Err("cancelled"))
     ELSE req' = [req EXCEPT ![r] = [req[r] EXCEPT
            !.pc = "sent", !.called = TRUE, !.owed = @ + 1,
            !.blank = FALSE, !.rebooted = FALSE, !.opened = FALSE]]
  /\ UNCHANGED <<auths, sched, strategy, offset, others>>

\* A failed call: nothing is recorded once the client is gone; a first 401 is
\* answered by a refresh; everything else is recorded.
Failed(r, e, booting) ==
  IF req[r].gone THEN EndRound(r, Err("cancelled"))
  ELSE req' = [req EXCEPT ![r] = [@ EXCEPT
         !.rebooted = booting,
         !.pc = IF /\ e.class = "unauthorized" /\ ~req[r].refreshed
                   /\ req[r].auth \in Refreshable
                THEN "refresh" ELSE "mark",
         !.answer = e]]

Answer(r) ==
  /\ At(r, "sent")
  /\ \/ \E e \in Failures(req[r].call.kind) : Failed(r, e, req[r].rebooted)
     \/ req' = [req EXCEPT ![r].pc = IF req[r].call.kind = "stream" THEN "bootstrap" ELSE "mark",
                           ![r].answer = NoErr]
  /\ UNCHANGED <<auths, sched, strategy, offset, others>>

\* tryRefreshAfterUnauthorized: the same call again with a new token, or the
\* 401 is recorded.  A success clears the blocks that 401s caused.
Refresh(r) ==
  /\ At(r, "refresh")
  /\ LET a == req[r].auth
         cleared == [m \in Models |->
                       IF auths[a][m].why = "unauthorized" THEN Free ELSE auths[a][m]]
     IN \/ /\ auths' = [auths EXCEPT ![a] = cleared]
           /\ sched' = upsertAuth(sched, a, auths[a], cleared)
           /\ req' = [req EXCEPT ![r] = [@ EXCEPT !.pc = "sent", !.refreshed = TRUE]]
        \/ /\ req' = [req EXCEPT ![r].pc = "mark"]
           /\ UNCHANGED <<auths, sched>>
  /\ UNCHANGED <<strategy, offset, others>>

-----------------------------------------------------------------------------
\* readStreamBootstrap: chunks without payload are buffered; the first
\* payload opens the stream.
Bootstrap(r) ==
  /\ At(r, "bootstrap")
  /\ \/ req' = [req EXCEPT ![r].pc = "streaming"]
     \/ ~req[r].blank /\ req' = [req EXCEPT ![r].blank = TRUE]
     \/ req' = [req EXCEPT ![r].pc = "mark",
                           ![r].answer = IF req[r].blank THEN NoErr ELSE Err("empty")]
  /\ UNCHANGED <<auths, sched, strategy, offset, others>>

\* Seeded fault: a stream that fails before its first bytes is not recorded.
BootstrapFailsQuietly(r) ==
  /\ At(r, "bootstrap")
  /\ \E e \in Failures("stream") :
       req' = [req EXCEPT ![r] = AtHead(@, e, @.owed)]
  /\ UNCHANGED <<auths, sched, strategy, offset, others>>

\* An error comes before the first payload.  A stream opened again after a
\* refresh does not look at its context any more.
BootstrapFails(r) ==
  /\ At(r, "bootstrap")
  /\ \E e \in Failures("stream") \cup (IF req[r].gone THEN {Err("other")} ELSE {}) :
       IF req[r].rebooted
       THEN req' = [req EXCEPT ![r] = [@ EXCEPT !.pc = "mark", !.answer = e]]
       ELSE Failed(r, e, TRUE)
  /\ UNCHANGED <<auths, sched, strategy, offset, others>>

\* wrapStreamResult: the stream ends well, fails, or its reader is gone.
StreamEnds(r) ==
  /\ At(r, "streaming")
  /\ \/ \E e \in {NoErr} \cup {Err(x.class) : x \in Failures("stream")} :
          req' = [req EXCEPT ![r] = [@ EXCEPT !.pc = "mark", !.opened = TRUE,
                                              !.answer = e]]
     \/ req[r].gone /\ Return(r, "cancelled")
  /\ UNCHANGED <<auths, sched, strategy, offset, others>>
-----------------------------------------------------------------------------
\* What a result leaves of the block of its model: a success or an error
\* without a rule of its own lifts it, an invalid request changes nothing.
Block(old, e) ==
  CASE e.class \in {"invalid", "neutral"} -> old
    [] e.class = "quota" ->
         [why |-> "quota", left |-> IF e.hint > 0 THEN e.hint ELSE QuotaPause]
    [] e.class = "unauthorized" -> [why |-> "unauthorized", left |-> AuthPause]
    [] e.class = "transient" /\ TransientPause > 0 ->
         [why |-> "transient", left |-> TransientPause]
    [] OTHER -> Free

\* What shouldRetryAfterError will tell apart of the last error.
Kept(e) == IF e.class \in {"quota", "invalid"} THEN e ELSE Err("failed")

\* The rest of the loops once a result is recorded: return, the next model of
\* the credential, or the next credential.
Proceed(r) ==
  LET q == req[r]
      e == q.answer
  IN IF e = NoErr THEN Return(r, "ok")
     ELSE IF q.opened THEN Return(r, e.class)
     ELSE IF e.class = "invalid" THEN EndRound(r, e)
     ELSE IF Len(q.models) > 1
          THEN req' = [req EXCEPT ![r] = [q EXCEPT !.pc = "call", !.models = Tail(@),
                         !.owed = Owed(r), !.answer = NoErr, !.blank = FALSE,
                         !.rebooted = FALSE]]
     ELSE req' = [req EXCEPT ![r] = AtHead(@, Kept(e), Owed(r))]

\* MarkResult and the scheduler's upsert after it, which a failure that says
\* nothing about availability leaves out.
MarkResult(a, m, e) ==
  LET blocks == [auths[a] EXCEPT ![m] = Block(@, e)]
  IN /\ auths' = [auths EXCEPT ![a] = blocks]
     /\ sched' = IF e.class = "neutral" THEN sched
                 ELSE upsertAuth(sched, a, auths[a], blocks)

Mark(r) ==
  /\ At(r, "mark")
  /\ MarkResult(req[r].auth, Model(r), req[r].answer)
  /\ Proceed(r)
  /\ UNCHANGED <<strategy, offset, others>>

\* A failed preparation counts against the routed model; the next credential's
\* turn comes, whatever the error.
MarkUnready(r) ==
  /\ At(r, "unready")
  /\ MarkResult(req[r].auth, Route, req[r].answer)
  /\ req' = [req EXCEPT ![r] = AtHead(@, Kept(req[r].answer), @.owed)]
  /\ UNCHANGED <<strategy, offset, others>>

-----------------------------------------------------------------------------
Other == others < MaxOthers /\ others' = others + 1

\* The other requests, any number of them: they are served credentials, and
\* record what their upstreams answered, at any time.
OtherPick ==
  /\ Other
  /\ \E c \in Calls :
       \E p \in {pickNextMixed(c.list, c.pin, c.ws, {})} :
          /\ sched' = p.sched
          /\ IF p.auth = NoAuth THEN UNCHANGED offset ELSE nextModelPoolOffset(p.auth)
  /\ UNCHANGED <<auths, strategy, req>>

OtherResult ==
  /\ Other
  /\ \E a \in Auths, e \in {NoErr} \cup Failures("execute") :
       \E i \in DOMAIN Pool[a] : MarkResult(a, Pool[a][i], e)
  /\ UNCHANGED <<strategy, offset, req>>

-----------------------------------------------------------------------------
\* The client of a running request goes away.
Cancel(r) ==
  /\ req[r].pc \notin {"new", "done"} /\ ~req[r].gone
  /\ req' = [req EXCEPT ![r].gone = TRUE]
  /\ UNCHANGED <<auths, sched, strategy, offset, others>>

\* A config reload chooses another strategy and rebuilds the scheduler.
SetSelector ==
  /\ Other
  /\ \E s \in Strategies \ {strategy} : strategy' = s
  /\ sched' = rebuild
  /\ UNCHANGED <<auths, offset, req>>

Aged(blocks) ==
  [m \in Models |-> IF blocks[m].left <= 1 THEN Free ELSE [blocks[m] EXCEPT !.left = @ - 1]]

\* Time passes.
Tick ==
  /\ \/ \E a \in Auths : Aged(auths[a]) # auths[a]
     \/ \E r \in Requests : req[r].wait > 0
  /\ auths' = [a \in Auths |-> Aged(auths[a])]
  /\ req' = [r \in Requests |-> [req[r] EXCEPT !.wait = IF @ = 0 THEN 0 ELSE @ - 1]]
  /\ UNCHANGED <<sched, strategy, offset, others>>

Step(r) ==
  \/ WaitDone(r)
  \/ LimitReached(r)
  \/ Pick(r)
  \/ Prepare(r)
  \/ Terminate(r)
  \/ Call(r)
  \/ Answer(r)
  \/ Refresh(r)
  \/ Bootstrap(r)
  \/ BootstrapFails(r)
  \/ StreamEnds(r)
  \/ Mark(r)
  \/ MarkUnready(r)

Next ==
  \/ \E r \in Requests : Begin(r) \/ Step(r) \/ Cancel(r)
  \/ OtherPick
  \/ OtherResult
  \/ SetSelector
  \/ Tick

Spec == Init /\ [][Next]_vars

-----------------------------------------------------------------------------
\* Every answer of an upstream has been recorded with MarkResult when its
\* request is over, unless the client went away first.
AnswersRecorded ==
  \A r \in Requests :
    At(r, "done") /\ req[r].result # "cancelled" => req[r].owed = 0

\* A request whose last round reached an upstream tells its caller that
\* upstream's error, not that no credential is available.
UpstreamErrorTold ==
  \A r \in Requests :
    At(r, "done") /\ req[r].result = "noCredential" => ~req[r].called

\* Credentials of one bucket take turns: as long as the same credentials are
\* ready nobody has two turns before another one has his, whatever is recorded
\* of the provider's other credentials, by pins and by several requests.
FairTurns ==
  \A a \in sched.ready : \A b \in Bucket(sched.ready, a) :
    sched.turns[a] <= sched.turns[b] + 1

\* A credential that is served has the highest priority of those the request
\* may still use and whose model is not blocked, as far as the scheduler
\* knows, unless the request prefers websockets.
ServedIsBest ==
  \A r \in Requests : \A a \in req'[r].tried \ req[r].tried :
    ~req[r].call.ws =>
      \A b \in Auths \ req[r].tried :
        InList(r, b) /\ req[r].call.pin \in {NoAuth, b}
          /\ ~isAuthBlockedForModel(auths[b], Route)
        => PriorityOf[b] <= PriorityOf[a]

\* ServedIsBest holds of every step.
BestFirst == [][ServedIsBest]_vars

\* No credential allows a retry after more attempts.
LastAttempt == Max({0} \cup {RetryOf[a] : a \in Auths})

\* How far a request is from its end: rounds left, credentials left, models
\* left, the refresh, the stage of the call, the first chunk.
Distance(q) ==
  LET place == [mark |-> 1, unready |-> 2, refresh |-> 3, streaming |-> 4, bootstrap |-> 5,
                sent |-> 6, call |-> 7, prepare |-> 8]
      bit(b) == IF b THEN 0 ELSE 1
  IN IF q.pc = "done" THEN <<0, 0, 0, 0, 0, 0>>
     ELSE <<LastAttempt + 1 - q.attempt,
            IF q.pc = "waiting" THEN 0 ELSE 1 + Cardinality(Auths \ q.tried),
            IF q.pc = "head" THEN 0 ELSE 1 + Len(q.models),
            bit(q.refreshed),
            IF q.pc \in DOMAIN place THEN place[q.pc] ELSE 0,
            bit(q.blank)>>

Nearer(x, y) ==
  \E i \in DOMAIN y : x[i] < y[i] /\ \A j \in 1 .. i - 1 : x[j] = y[j]

\* Every step of a running request brings it nearer to its end, so that
\* rounds, credentials, models and refreshes are all bounded, whatever the
\* upstreams answer and the other requests do to the blocks it waits for.
RequestsEnd ==
  [][\A r \in Requests :
       LET moved == [req'[r] EXCEPT !.gone = req[r].gone, !.wait = req[r].wait] # req[r]
       IN ~At(r, "new") /\ moved =>
            /\ req'[r].attempt <= LastAttempt
            /\ Nearer(Distance(req'[r]), Distance(req[r]))]_vars
=============================================================================
