----------------------- MODULE RequestExecutionProofs -----------------------
(***************************************************************************)
(* Proofs about RequestExecution, for every set of requests, credentials,  *)
(* models and upstream answers, every order of priorities and every number *)
(* of rounds: what a request owes the manager's records when it is over,   *)
(* which error its caller is told, that it is served the best credential   *)
(* it may use, that credentials take turns, and that every step brings it  *)
(* nearer to its end.                                                      *)
(*                                                                         *)
(* The first two do not depend on whom the scheduler serves: pickCredential*)
(* and the candidates of a credential stay unexpanded there.  For the      *)
(* others, the picks are shown to answer with a credential that may be     *)
(* used, of the highest priority, and to keep the rotation of each bucket: *)
(* the place of its cursor tells who has had a turn (Rotates).  Induction  *)
(* over numbers is by the least counterexample: the library's induction    *)
(* theorems cannot be instantiated, its theorem on well-founded orders can.*)
(***************************************************************************)
EXTENDS RequestExecution, FiniteSetTheorems, WellFoundedInduction, TLAPS
-----------------------------------------------------------------------------
(*************************************************************************)
(* What a request owes, and what its caller is told.                     *)
(*************************************************************************)

\* The stages at which an upstream has been called and its answer is still to
\* be recorded.
Answering == {"sent", "refresh", "bootstrap", "streaming", "mark"}
Stages == Answering \cup {"new", "head", "waiting", "prepare", "unready", "call", "done"}

AnswerClasses == {"none", "quota", "unauthorized", "transient", "invalid", "neutral",
                  "other", "empty"}
UpstreamClasses == AnswerClasses \cup {"failed", "terminated"}

Errs(C) == [class : C, hint : Hints \cup {0}]

\* The fields of a request, and the types of those the two properties are
\* about.
Fields == {"pc", "call", "gone", "attempt", "wait", "tried", "attempted", "err", "auth",
           "models", "refreshed", "blank", "rebooted", "opened", "answer", "result",
           "called", "owed"}

Typed(q) ==
  /\ q = [f \in Fields |-> q[f]]
  /\ q.pc \in Stages
  /\ q.owed \in Nat
  /\ q.called \in BOOLEAN
  /\ q.err \in Errs(UpstreamClasses)
  /\ q.answer \in Errs(AnswerClasses)

\* One answer is owed exactly while a call is going on; what a request that is
\* over still owes it owes because it was cancelled.
OwesOne(q) ==
  /\ q.pc \in Answering => q.owed = 1
  /\ q.pc \notin Answering \cup {"done"} => q.owed = 0
  /\ q.pc = "done" /\ q.result # "cancelled" => q.owed = 0

\* Between credentials, a round that has reached an upstream has an error of
\* an upstream to tell.
ErrorKept(q) ==
  /\ q.pc = "head" /\ q.called => q.err # NoErr
  /\ q.pc = "waiting" => ~q.called /\ q.err = NoErr
  /\ q.pc = "done" /\ q.result = "noCredential" => ~q.called

Good(q) == Typed(q) /\ OwesOne(q) /\ ErrorKept(q)

IInv ==
  /\ req = [r \in Requests |-> req[r]]
  /\ \A r \in Requests : Good(req[r])

-----------------------------------------------------------------------------
\* No error is an error of either kind.
LEMMA NoErrTyped == NoErr \in Errs(UpstreamClasses) /\ NoErr \in Errs(AnswerClasses)
BY DEF NoErr, Errs, UpstreamClasses, AnswerClasses

\* The record of a new request.
LEMMA At0Good ==
  ASSUME NEW pc \in {"new", "head", "waiting", "done"}
  PROVE  Good(At0(pc))
BY DEF Good, Typed, OwesOne, ErrorKept, At0, Fields, Stages, Answering, Errs,
       AnswerClasses, UpstreamClasses, NoErr

\* A step of one request keeps the others as they are.
LEMMA OneMoves ==
  ASSUME IInv, NEW r \in Requests, NEW q, Good(q), req' = [req EXCEPT ![r] = q]
  PROVE  IInv'
BY DEF IInv

\* A request begins with nothing called and nothing owed.
LEMMA BeginGood ==
  ASSUME IInv, NEW r \in Requests, Begin(r)
  PROVE  IInv'
<1>1. PICK call \in Calls : req' = [req EXCEPT ![r] = [At0("head") EXCEPT !.call = call]]
  BY DEF Begin
<1>2. Good([At0("head") EXCEPT !.call = call])
  BY DEF Good, Typed, OwesOne, ErrorKept, At0, Fields, Stages, Answering, Errs,
       AnswerClasses, UpstreamClasses, NoErr
<1> QED BY <1>1, <1>2, OneMoves

\* The end of a request, when it owes nothing or was cancelled, and when the
\* error of a pick is told only if no upstream was reached.
LEMMA ReturnGood ==
  ASSUME IInv, NEW r \in Requests, NEW class, Return(r, class),
         Owed(r) \in Nat, Owed(r) = 0 \/ class = "cancelled",
         class \in PickErrors => ~req[r].called
  PROVE  IInv'
<1> DEFINE told == IF class \in PickErrors THEN "noCredential"
                   ELSE IF class \in {"ok", "cancelled"} THEN class ELSE "failed"
           q == [At0("done") EXCEPT !.result = told,
                                    !.called = class \in PickErrors /\ req[r].called,
                                    !.owed = Owed(r)]
<1>1. req' = [req EXCEPT ![r] = q]
  BY DEF Return
<1>2. told = "cancelled" \/ Owed(r) = 0
  BY DEF PickErrors
<1>3. ~(class \in PickErrors /\ req[r].called)
  OBVIOUS
<1>4. Good(q)
  <2> HIDE DEF told
  <2> QED BY <1>2, <1>3 DEF Good, Typed, OwesOne, ErrorKept, At0, Fields, Stages, Answering, Errs,
       AnswerClasses, UpstreamClasses, NoErr
<1> QED BY <1>1, <1>4, OneMoves

\* The end of a round: a request that waits for the next one starts afresh.
LEMMA EndRoundGood ==
  ASSUME IInv, NEW r \in Requests, NEW e, EndRound(r, e),
         Owed(r) \in Nat, Owed(r) = 0 \/ e.class = "cancelled",
         e.class \in PickErrors => ~req[r].called
  PROVE  IInv'
<1> DEFINE waits == IF e.class \in {"terminated", "cancelled"} THEN {}
                    ELSE shouldRetryAfterError(r, e)
           pause == CHOOSE w \in waits : TRUE
           q == [At0("waiting") EXCEPT !.call = req[r].call, !.gone = req[r].gone,
                   !.attempt = req[r].attempt, !.owed = Owed(r), !.wait = pause]
<1>1. CASE waits = {}
  <2>1. Return(r, e.class)
    BY <1>1 DEF EndRound
  <2> QED BY <2>1, ReturnGood
<1>2. CASE waits # {}
  <2>1. req' = [req EXCEPT ![r] = q]
    BY <1>2 DEF EndRound
  <2>2. Owed(r) = 0
    BY <1>2
  <2>3. Good(q)
    <3> HIDE DEF pause, waits
    <3>1. /\ q = [f \in Fields |-> q[f]]
          /\ q.pc = "waiting" /\ q.owed = Owed(r) /\ q.called = FALSE
          /\ q.err = NoErr /\ q.answer = NoErr
      BY DEF At0, Fields
    <3> HIDE DEF q
    <3> QED BY <2>2, <3>1, NoErrTyped DEF Good, Typed, OwesOne, ErrorKept, Stages, Answering
  <2> QED BY <2>1, <2>3, OneMoves
<1> QED BY <1>1, <1>2

-----------------------------------------------------------------------------
\* One lemma per step of a request.
LEMMA WaitDoneGood ==
  ASSUME IInv, NEW r \in Requests, WaitDone(r)
  PROVE  IInv'
<1>1. Good(req[r]) /\ req[r].pc = "waiting"
  BY DEF IInv, WaitDone, At
<1>2. Owed(r) = 0
  BY <1>1 DEF Good, OwesOne, Owed, At, Answering
<1>3. CASE req[r].gone
  <2>1. Return(r, "cancelled")
    BY <1>3 DEF WaitDone
  <2> QED BY <2>1, <1>2, ReturnGood DEF PickErrors
<1>4. CASE ~req[r].gone
  <2> DEFINE q == [req[r] EXCEPT !.pc = "head", !.attempt = @ + 1]
  <2>1. req' = [req EXCEPT ![r] = q]
    BY <1>4 DEF WaitDone, IInv
  <2>2. Good(q)
    BY <1>1 DEF Good, Typed, OwesOne, ErrorKept, Fields, Stages, Answering
  <2> QED BY <2>1, <2>2, OneMoves
<1> QED BY <1>3, <1>4

\* The limit on credentials of a round is reached: the error that is told is
\* an upstream's if one was called.
LEMMA LimitReachedGood ==
  ASSUME IInv, NEW r \in Requests, LimitReached(r)
  PROVE  IInv'
<1> DEFINE e == IF req[r].err = NoErr THEN Err("notFound") ELSE req[r].err
<1>1. Good(req[r]) /\ req[r].pc = "head"
  BY DEF IInv, LimitReached, At
<1>2. Owed(r) = 0
  BY <1>1 DEF Good, OwesOne, Owed, At, Answering
<1>3. e.class \in PickErrors => ~req[r].called
  BY <1>1 DEF Good, Typed, ErrorKept, PickErrors, Errs, UpstreamClasses, AnswerClasses, Err
<1>4. EndRound(r, e)
  BY DEF LimitReached
<1> QED BY <1>2, <1>3, <1>4, EndRoundGood

\* The next credential is taken, or the round ends with the error of an
\* upstream if one was called.
LEMMA PickGood ==
  ASSUME IInv, NEW r \in Requests, Pick(r)
  PROVE  IInv'
<1>1. Good(req[r]) /\ req[r].pc = "head"
  BY DEF IInv, Pick, At
<1>2. Owed(r) = 0
  BY <1>1 DEF Good, OwesOne, Owed, At, Answering
<1> DEFINE q == req[r]
           lost(p) == Err(unavailableError(p.sched, auths, q.call.list, q.call.pin, q.tried))
           e(p) == IF q.err # NoErr THEN q.err ELSE lost(p)
<1>3. PICK p : IF p.auth # NoAuth THEN Take(r, p.auth) ELSE EndRound(r, e(p))
  BY DEF Pick
<1>4. CASE p.auth # NoAuth
  <2> DEFINE taken == [q EXCEPT !.tried = @ \cup {p.auth}]
             used == [taken EXCEPT !.pc = "prepare", !.attempted = @ \cup {p.auth},
                         !.auth = p.auth, !.models = Candidates(p.auth), !.refreshed = FALSE]
             new == IF Candidates(p.auth) = <<>> THEN taken ELSE used
  <2>0. Take(r, p.auth)
    BY <1>3, <1>4
  <2>1. req' = [req EXCEPT ![r] = new]
    BY <2>0 DEF Take
  <2>2. Good(taken) /\ Good(used)
    BY <1>1 DEF Good, Typed, OwesOne, ErrorKept, Fields, Stages, Answering
  <2>3. Good(new)
    BY <2>2
  <2> HIDE DEF new
  <2> QED BY <2>1, <2>3, OneMoves
<1>5. CASE p.auth = NoAuth
  <2>1. EndRound(r, e(p))
    BY <1>3, <1>5
  <2>2. e(p).class \in PickErrors => ~req[r].called
    BY <1>1 DEF Good, Typed, ErrorKept, PickErrors, Errs, UpstreamClasses, AnswerClasses
  <2> HIDE DEF e
  <2> QED BY <2>1, <2>2, <1>2, EndRoundGood
<1> QED BY <1>4, <1>5

\* The answers of upstreams.
LEMMA FailuresTyped ==
  ASSUME NEW kind, NEW e \in Failures(kind)
  PROVE  e \in Errs(AnswerClasses)
BY ExecutionAssumption DEF Failures, Err, Errs, AnswerClasses

\* The preparation of a credential calls no upstream.
LEMMA PrepareGood ==
  ASSUME IInv, NEW r \in Requests, Prepare(r)
  PROVE  IInv'
<1>1. Good(req[r]) /\ req[r].pc = "prepare"
  BY DEF IInv, Prepare, At
<1>2. CASE req' = [req EXCEPT ![r].pc = "call"]
  <2> DEFINE q == [req[r] EXCEPT !.pc = "call"]
  <2>1. req' = [req EXCEPT ![r] = q]
    BY <1>2
  <2>2. Good(q)
    BY <1>1 DEF Good, Typed, OwesOne, ErrorKept, Fields, Stages, Answering
  <2> QED BY <2>1, <2>2, OneMoves
<1>3. ASSUME NEW e \in Failures("execute"),
             req' = [req EXCEPT ![r] = [@ EXCEPT !.pc = "unready", !.models = <<>>,
                                                 !.answer = e]]
      PROVE  IInv'
  <2> DEFINE q == [req[r] EXCEPT !.pc = "unready", !.models = <<>>, !.answer = e]
  <2>1. req' = [req EXCEPT ![r] = q]
    BY <1>3
  <2>2. e \in Errs(AnswerClasses)
    BY FailuresTyped
  <2>3. Good(q)
    BY <1>1, <2>2 DEF Good, Typed, OwesOne, ErrorKept, Fields, Stages, Answering
  <2> QED BY <2>1, <2>3, OneMoves
<1> QED BY <1>2, <1>3 DEF Prepare

\* A request at the head of its round, after a credential that failed with an
\* error of its own.
LEMMA AtHeadGood ==
  ASSUME NEW q, Typed(q), NEW e \in Errs(UpstreamClasses), e # NoErr
  PROVE  Good(AtHead(q, e, 0))
<1> DEFINE h == AtHead(q, e, 0)
<1>1. /\ h = [f \in Fields |-> h[f]]
      /\ h.pc = "head" /\ h.owed = 0 /\ h.called = q.called
      /\ h.err = e /\ h.answer = NoErr
  BY DEF AtHead, Typed, Fields
<1> HIDE DEF h
<1>2. Good(h)
  BY <1>1, NoErrTyped DEF Good, Typed, OwesOne, ErrorKept, Stages, Answering
<1> QED BY <1>2 DEF h

\* An interceptor that ends a request does so before the call.
LEMMA TerminateGood ==
  ASSUME IInv, NEW r \in Requests, Terminate(r)
  PROVE  IInv'
<1>1. Good(req[r]) /\ req[r].pc = "call"
  BY DEF IInv, Terminate, At
<1>2. Owed(r) = 0 /\ req[r].owed = 0
  BY <1>1 DEF Good, OwesOne, Owed, At, Answering
<1>3. /\ Err("terminated").class \notin PickErrors
      /\ Err("cancelled").class \notin PickErrors
      /\ Err("terminated") # NoErr
      /\ Err("terminated") \in Errs(UpstreamClasses)
  BY DEF Err, PickErrors, NoErr, Errs, UpstreamClasses, AnswerClasses
<1>4. CASE EndRound(r, Err("terminated")) \/ EndRound(r, Err("cancelled"))
  BY <1>2, <1>3, <1>4, EndRoundGood
<1>5. CASE req' = [req EXCEPT ![r] = AtHead(req[r], Err("terminated"), req[r].owed)]
  <2>1. Good(AtHead(req[r], Err("terminated"), 0))
    BY <1>1, <1>3, AtHeadGood DEF Good
  <2> QED BY <1>2, <1>5, <2>1, OneMoves
<1> QED BY <1>4, <1>5 DEF Terminate

\* A call that goes upstream owes one answer.
LEMMA CallGood ==
  ASSUME IInv, NEW r \in Requests, Call(r)
  PROVE  IInv'
<1>1. Good(req[r]) /\ req[r].pc = "call"
  BY DEF IInv, Call, At
<1>2. Owed(r) = 0 /\ req[r].owed = 0
  BY <1>1 DEF Good, OwesOne, Owed, At, Answering
<1>3. CASE EndRound(r, Err("cancelled"))
  <2>1. Err("cancelled").class \notin PickErrors
    BY DEF Err, PickErrors
  <2> QED BY <1>2, <1>3, <2>1, EndRoundGood
<1> DEFINE q == [req[r] EXCEPT !.pc = "sent", !.called = TRUE, !.owed = @ + 1,
                               !.blank = FALSE, !.rebooted = FALSE, !.opened = FALSE]
<1>4. CASE req' = [req EXCEPT ![r] = q]
  <2>1. /\ q = [f \in Fields |-> q[f]]
        /\ q.pc = "sent" /\ q.owed = req[r].owed + 1 /\ q.called \in BOOLEAN
        /\ q.err = req[r].err /\ q.answer = req[r].answer
    BY <1>1 DEF Good, Typed, Fields
  <2> HIDE DEF q
  <2>2. Good(q)
    BY <1>1, <1>2, <2>1 DEF Good, Typed, OwesOne, ErrorKept, Stages, Answering
  <2> QED BY <1>4, <2>2, OneMoves
<1> QED BY <1>3, <1>4 DEF Call

\* A request that goes from one stage of a call to another stays as it should
\* be if its answer does.
LEMMA StageGood ==
  ASSUME NEW q, Good(q), q.pc \in Answering,
         NEW n, n = [f \in Fields |-> n[f]], n.pc \in Answering,
         n.owed = q.owed, n.called = q.called, n.err = q.err,
         n.answer \in Errs(AnswerClasses)
  PROVE  Good(n)
BY DEF Good, Typed, OwesOne, ErrorKept, Stages, Answering

\* A failed call goes on to its refresh or its result, and is dropped only
\* once the client is gone.
LEMMA FailedGood ==
  ASSUME IInv, NEW r \in Requests, req[r].pc \in {"sent", "bootstrap"},
         NEW e \in Errs(AnswerClasses), NEW booting, Failed(r, e, booting)
  PROVE  IInv'
<1>1. Good(req[r]) /\ req[r].pc \in Answering
  BY DEF IInv, Answering
<1>2. CASE req[r].gone
  <2>1. Owed(r) \in Nat
    BY <1>1 DEF Good, OwesOne, Owed, At, Answering
  <2>2. Err("cancelled").class = "cancelled" /\ "cancelled" \notin PickErrors
    BY DEF Err, PickErrors
  <2>3. EndRound(r, Err("cancelled"))
    BY <1>2 DEF Failed
  <2> QED BY <2>1, <2>2, <2>3, EndRoundGood
<1>3. CASE ~req[r].gone
  <2> DEFINE pc == IF /\ e.class = "unauthorized" /\ ~req[r].refreshed
                      /\ req[r].auth \in Refreshable
                   THEN "refresh" ELSE "mark"
             q == [req[r] EXCEPT !.rebooted = booting, !.pc = pc, !.answer = e]
  <2>1. req' = [req EXCEPT ![r] = q]
    BY <1>3 DEF Failed
  <2>2. pc \in Answering
    BY DEF Answering
  <2> HIDE DEF pc
  <2>3. /\ q = [f \in Fields |-> q[f]]
        /\ q.pc = pc /\ q.owed = req[r].owed /\ q.called = req[r].called
        /\ q.err = req[r].err /\ q.answer = e
    BY <1>1 DEF Good, Typed, Fields
  <2> HIDE DEF q
  <2>4. Good(q)
    BY <1>1, <2>2, <2>3, StageGood
  <2> QED BY <2>1, <2>4, OneMoves
<1> QED BY <1>2, <1>3

\* An answer goes on to the first bytes of a stream, a refresh or its result.
LEMMA AnswerGood ==
  ASSUME IInv, NEW r \in Requests, Answer(r)
  PROVE  IInv'
<1>1. Good(req[r]) /\ req[r].pc = "sent"
  BY DEF IInv, Answer, At
<1>2. CASE \E e \in Failures(req[r].call.kind) : Failed(r, e, req[r].rebooted)
  BY <1>1, <1>2, FailuresTyped, FailedGood
<1> DEFINE pc == IF req[r].call.kind = "stream" THEN "bootstrap" ELSE "mark"
<1>3. CASE req' = [req EXCEPT ![r].pc = pc, ![r].answer = NoErr]
  <2> DEFINE q == [req[r] EXCEPT !.pc = pc, !.answer = NoErr]
  <2>1. pc \in Answering /\ req[r].pc \in Answering
    BY <1>1 DEF Answering
  <2> HIDE DEF pc
  <2>2. req' = [req EXCEPT ![r] = q]
    BY <1>3 DEF IInv
  <2>3. /\ q = [f \in Fields |-> q[f]]
        /\ q.pc = pc /\ q.owed = req[r].owed /\ q.called = req[r].called
        /\ q.err = req[r].err /\ q.answer = NoErr
    BY <1>1 DEF Good, Typed, Fields
  <2> HIDE DEF q
  <2>4. Good(q)
    BY <1>1, <2>1, <2>3, StageGood, NoErrTyped
  <2> QED BY <2>2, <2>4, OneMoves
<1> QED BY <1>2, <1>3 DEF Answer

\* After a refresh the call goes out again, or its 401 is recorded.
LEMMA RefreshGood ==
  ASSUME IInv, NEW r \in Requests, Refresh(r)
  PROVE  IInv'
<1>1. Good(req[r]) /\ req[r].pc = "refresh" /\ req[r].pc \in Answering
  BY DEF IInv, Refresh, At, Answering
<1> DEFINE sent == [req[r] EXCEPT !.pc = "sent", !.refreshed = TRUE]
           mark == [req[r] EXCEPT !.pc = "mark"]
<1>2. req' = [req EXCEPT ![r] = sent] \/ req' = [req EXCEPT ![r] = mark]
  BY DEF Refresh
<1>3. \A q \in {sent, mark} :
        /\ q = [f \in Fields |-> q[f]]
        /\ q.pc \in Answering /\ q.owed = req[r].owed /\ q.called = req[r].called
        /\ q.err = req[r].err /\ q.answer = req[r].answer
  BY <1>1 DEF Good, Typed, Fields, Answering
<1>4. req[r].answer \in Errs(AnswerClasses)
  BY <1>1 DEF Good, Typed
<1> HIDE DEF sent, mark
<1>5. Good(sent) /\ Good(mark)
  BY <1>1, <1>3, <1>4, StageGood
<1> QED BY <1>2, <1>5, OneMoves

\* The first chunks of a stream: none of them ends the call unrecorded.
LEMMA BootstrapGood ==
  ASSUME IInv, NEW r \in Requests, Bootstrap(r)
  PROVE  IInv'
<1>1. Good(req[r]) /\ req[r].pc = "bootstrap" /\ req[r].pc \in Answering
  BY DEF IInv, Bootstrap, At, Answering
<1> DEFINE e == IF req[r].blank THEN NoErr ELSE Err("empty")
           open == [req[r] EXCEPT !.pc = "streaming"]
           blank == [req[r] EXCEPT !.blank = TRUE]
           mark == [req[r] EXCEPT !.pc = "mark", !.answer = e]
<1>2. \/ req' = [req EXCEPT ![r] = open]
      \/ req' = [req EXCEPT ![r] = blank]
      \/ req' = [req EXCEPT ![r] = mark]
  BY DEF Bootstrap, IInv
<1>3. e \in Errs(AnswerClasses) /\ req[r].answer \in Errs(AnswerClasses)
  BY <1>1, NoErrTyped DEF Good, Typed, Err, Errs, AnswerClasses
<1> HIDE DEF e
<1>4. \A q \in {open, blank, mark} :
        /\ q = [f \in Fields |-> q[f]]
        /\ q.pc \in Answering /\ q.owed = req[r].owed /\ q.called = req[r].called
        /\ q.err = req[r].err /\ q.answer \in {e, req[r].answer}
  BY <1>1 DEF Good, Typed, Fields, Answering
<1> HIDE DEF open, blank, mark
<1>5. Good(open) /\ Good(blank) /\ Good(mark)
  BY <1>1, <1>3, <1>4, StageGood
<1> QED BY <1>2, <1>5, OneMoves

\* A stream that fails before its first bytes is refreshed or recorded.
LEMMA BootstrapFailsGood ==
  ASSUME IInv, NEW r \in Requests, BootstrapFails(r)
  PROVE  IInv'
<1>1. Good(req[r]) /\ req[r].pc = "bootstrap" /\ req[r].pc \in Answering
  BY DEF IInv, BootstrapFails, At, Answering
<1>2. PICK e \in Failures("stream") \cup (IF req[r].gone THEN {Err("other")} ELSE {}) :
         IF req[r].rebooted
         THEN req' = [req EXCEPT ![r] = [@ EXCEPT !.pc = "mark", !.answer = e]]
         ELSE Failed(r, e, TRUE)
  BY DEF BootstrapFails
<1>3. e \in Errs(AnswerClasses)
  <2>1. Err("other") \in Errs(AnswerClasses)
    BY DEF Err, Errs, AnswerClasses
  <2> QED BY <2>1, FailuresTyped
<1>4. CASE ~req[r].rebooted
  BY <1>1, <1>2, <1>3, <1>4, FailedGood
<1>5. CASE req[r].rebooted
  <2> DEFINE q == [req[r] EXCEPT !.pc = "mark", !.answer = e]
  <2>1. req' = [req EXCEPT ![r] = q]
    BY <1>2, <1>5
  <2>2. /\ q = [f \in Fields |-> q[f]]
        /\ q.pc = "mark" /\ q.owed = req[r].owed /\ q.called = req[r].called
        /\ q.err = req[r].err /\ q.answer = e
    BY <1>1 DEF Good, Typed, Fields
  <2> HIDE DEF q
  <2>3. Good(q)
    BY <1>1, <1>3, <2>2, StageGood DEF Answering
  <2> QED BY <2>1, <2>3, OneMoves
<1> QED BY <1>4, <1>5

\* A stream ends with a result, or with a reader that is gone.
LEMMA StreamEndsGood ==
  ASSUME IInv, NEW r \in Requests, StreamEnds(r)
  PROVE  IInv'
<1>1. Good(req[r]) /\ req[r].pc = "streaming" /\ req[r].pc \in Answering
  BY DEF IInv, StreamEnds, At, Answering
<1>2. CASE Return(r, "cancelled")
  <2>1. Owed(r) \in Nat
    BY <1>1 DEF Good, OwesOne, Owed, At, Answering
  <2> QED BY <1>2, <2>1, ReturnGood DEF PickErrors
<1>3. ASSUME NEW e \in {NoErr} \cup {Err(x.class) : x \in Failures("stream")},
             req' = [req EXCEPT ![r] = [@ EXCEPT !.pc = "mark", !.opened = TRUE,
                                                 !.answer = e]]
      PROVE  IInv'
  <2> DEFINE q == [req[r] EXCEPT !.pc = "mark", !.opened = TRUE, !.answer = e]
  <2>1. req' = [req EXCEPT ![r] = q]
    BY <1>3
  <2>2. e \in Errs(AnswerClasses)
    <3>1. \A x \in Failures("stream") : x \in Errs(AnswerClasses)
      BY FailuresTyped
    <3>2. \A x \in Errs(AnswerClasses) : Err(x.class) \in Errs(AnswerClasses)
      BY DEF Errs, Err
    <3> QED BY <3>1, <3>2, NoErrTyped
  <2>3. /\ q = [f \in Fields |-> q[f]]
        /\ q.pc = "mark" /\ q.owed = req[r].owed /\ q.called = req[r].called
        /\ q.err = req[r].err /\ q.answer = e
    BY <1>1 DEF Good, Typed, Fields
  <2> HIDE DEF q
  <2>4. Good(q)
    BY <1>1, <2>2, <2>3, StageGood DEF Answering
  <2> QED BY <2>1, <2>4, OneMoves
<1> QED BY <1>2, <1>3 DEF StreamEnds

\* What is kept of the error of a credential is an error, and not one of a
\* pick.
LEMMA KeptTyped ==
  ASSUME NEW e \in Errs(AnswerClasses)
  PROVE  Kept(e) \in Errs(UpstreamClasses) /\ Kept(e) # NoErr
BY DEF Kept, Err, NoErr, Errs, UpstreamClasses, AnswerClasses

\* A result is recorded: the debt is paid, whatever the loops do next.
LEMMA MarkGood ==
  ASSUME IInv, NEW r \in Requests, Mark(r)
  PROVE  IInv'
<1>1. Good(req[r]) /\ req[r].pc = "mark"
  BY DEF IInv, Mark, At
<1>2. Owed(r) = 0
  BY <1>1 DEF Good, OwesOne, Owed, At, Answering
<1> DEFINE e == req[r].answer
<1>3. e \in Errs(AnswerClasses)
  BY <1>1 DEF Good, Typed
<1>4. e.class \notin PickErrors
  BY <1>3 DEF Errs, AnswerClasses, PickErrors
<1> DEFINE q == [req[r] EXCEPT !.pc = "call", !.models = Tail(@), !.owed = Owed(r),
                               !.answer = NoErr, !.blank = FALSE, !.rebooted = FALSE]
<1>5. \/ Return(r, "ok")
      \/ Return(r, e.class)
      \/ EndRound(r, e)
      \/ req' = [req EXCEPT ![r] = q]
      \/ req' = [req EXCEPT ![r] = AtHead(req[r], Kept(e), Owed(r))]
  BY DEF Mark, Proceed
<1>6. CASE Return(r, "ok") \/ Return(r, e.class)
  BY <1>2, <1>4, <1>6, ReturnGood DEF PickErrors
<1>7. CASE EndRound(r, e)
  BY <1>2, <1>4, <1>7, EndRoundGood
<1>8. CASE req' = [req EXCEPT ![r] = q]
  <2>1. /\ q = [f \in Fields |-> q[f]]
        /\ q.pc = "call" /\ q.owed = Owed(r) /\ q.called = req[r].called
        /\ q.err = req[r].err /\ q.answer = NoErr
    BY <1>1 DEF Good, Typed, Fields
  <2> HIDE DEF q
  <2>2. Good(q)
    BY <1>1, <1>2, <2>1, NoErrTyped DEF Good, Typed, OwesOne, ErrorKept, Stages, Answering
  <2> QED BY <1>8, <2>2, OneMoves
<1>9. CASE req' = [req EXCEPT ![r] = AtHead(req[r], Kept(e), Owed(r))]
  <2>1. Good(AtHead(req[r], Kept(e), 0))
    BY <1>1, <1>3, KeptTyped, AtHeadGood DEF Good
  <2> QED BY <1>2, <1>9, <2>1, OneMoves
<1> QED BY <1>5, <1>6, <1>7, <1>8, <1>9

\* A failed preparation is recorded; no upstream was called for it.
LEMMA MarkUnreadyGood ==
  ASSUME IInv, NEW r \in Requests, MarkUnready(r)
  PROVE  IInv'
<1>1. Good(req[r]) /\ req[r].pc = "unready"
  BY DEF IInv, MarkUnready, At
<1>2. req[r].owed = 0
  BY <1>1 DEF Good, OwesOne, Answering
<1>3. req' = [req EXCEPT ![r] = AtHead(req[r], Kept(req[r].answer), req[r].owed)]
  BY DEF MarkUnready
<1>4. Good(AtHead(req[r], Kept(req[r].answer), 0))
  BY <1>1, KeptTyped, AtHeadGood DEF Good, Typed
<1> QED BY <1>2, <1>3, <1>4, OneMoves

\* A client that goes away changes no debt.
LEMMA CancelGood ==
  ASSUME IInv, NEW r \in Requests, Cancel(r)
  PROVE  IInv'
<1> DEFINE q == [req[r] EXCEPT !.gone = TRUE]
<1>1. req' = [req EXCEPT ![r] = q]
  BY DEF Cancel
<1>2. Good(q)
  BY DEF IInv, Good, Typed, OwesOne, ErrorKept, Fields
<1> QED BY <1>1, <1>2, OneMoves

\* Time passes; it changes no debt.
LEMMA TickGood ==
  ASSUME IInv, Tick
  PROVE  IInv'
<1> DEFINE left(r) == IF req[r].wait = 0 THEN 0 ELSE req[r].wait - 1
           q(r) == [req[r] EXCEPT !.wait = left(r)]
<1>1. req' = [r \in Requests |-> q(r)]
  BY DEF Tick
<1>2. ASSUME NEW r \in Requests
      PROVE  Good(q(r))
  <2> HIDE DEF left
  <2> QED BY DEF IInv, Good, Typed, OwesOne, ErrorKept, Fields
<1> HIDE DEF q
<1> QED BY <1>1, <1>2 DEF IInv

-----------------------------------------------------------------------------
\* One answer is owed while a call goes on and none between calls, and a round
\* that has reached an upstream keeps an upstream's error: every step of every
\* request keeps both (executeMixedOnce, executeCountMixedOnce,
\* executeStreamMixedOnce and their callers).
THEOREM Invariance == Spec => []IInv
<1>1. Init => IInv
  <2> SUFFICES ASSUME Init PROVE IInv
    OBVIOUS
  <2>1. Good(At0("new"))
    BY At0Good
  <2> QED BY <2>1 DEF Init, IInv
<1>2. IInv /\ [Next]_vars => IInv'
  <2> SUFFICES ASSUME IInv, [Next]_vars PROVE IInv'
    OBVIOUS
  <2>1. ASSUME NEW r \in Requests, Begin(r) \/ Cancel(r)
        PROVE  IInv'
    BY <2>1, BeginGood, CancelGood
  <2>2. ASSUME NEW r \in Requests, Step(r)
        PROVE  IInv'
    <3> USE <2>2
    <3>1. CASE WaitDone(r)       BY <3>1, WaitDoneGood
    <3>2. CASE LimitReached(r)   BY <3>2, LimitReachedGood
    <3>3. CASE Pick(r)           BY <3>3, PickGood
    <3>4. CASE Prepare(r)        BY <3>4, PrepareGood
    <3>5. CASE Terminate(r)      BY <3>5, TerminateGood
    <3>6. CASE Call(r)           BY <3>6, CallGood
    <3>7. CASE Answer(r)         BY <3>7, AnswerGood
    <3>8. CASE Refresh(r)        BY <3>8, RefreshGood
    <3>9. CASE Bootstrap(r)      BY <3>9, BootstrapGood
    <3>10. CASE BootstrapFails(r) BY <3>10, BootstrapFailsGood
    <3>11. CASE StreamEnds(r)    BY <3>11, StreamEndsGood
    <3>12. CASE Mark(r)          BY <3>12, MarkGood
    <3>13. CASE MarkUnready(r)   BY <3>13, MarkUnreadyGood
    <3> QED BY <3>1, <3>2, <3>3, <3>4, <3>5, <3>6, <3>7, <3>8, <3>9, <3>10, <3>11,
               <3>12, <3>13 DEF Step
  <2>3. CASE OtherPick \/ OtherResult \/ SetSelector
    BY <2>3 DEF OtherPick, OtherResult, SetSelector, IInv
  <2>4. CASE Tick
    BY <2>4, TickGood
  <2>5. CASE UNCHANGED vars
    BY <2>5 DEF vars, IInv
  <2> QED BY <2>1, <2>2, <2>3, <2>4, <2>5 DEF Next
<1> QED BY <1>1, <1>2, PTL DEF Spec

\* Every answer of an upstream is recorded with MarkResult before its request
\* is over, unless the client went away: whatever upstreams answer at whatever
\* stage, on all the paths out of the three loops.
THEOREM AnswersAlwaysRecorded == Spec => []AnswersRecorded
<1>1. IInv => AnswersRecorded
  BY DEF IInv, Good, OwesOne, AnswersRecorded, At
<1> QED BY <1>1, Invariance, PTL

\* A caller whose last round reached an upstream is told the upstream's error,
\* never that there is no credential.
THEOREM UpstreamErrorAlwaysTold == Spec => []UpstreamErrorTold
<1>1. IInv => UpstreamErrorTold
  BY DEF IInv, Good, ErrorKept, UpstreamErrorTold, At
<1> QED BY <1>1, Invariance, PTL
-----------------------------------------------------------------------------
(*************************************************************************)
(* Numbers.                                                              *)
(*************************************************************************)
NatLess == {p \in Nat \X Nat : p[1] < p[2]}

\* A set of numbers that is not empty has a least one.
LEMMA LeastNumber ==
  ASSUME NEW S \in SUBSET Nat, S # {}
  PROVE  \E x \in S : \A y \in S : x <= y
<1>1. IsWellFoundedOn(NatLess, Nat)
  BY NatLessThanWellFounded DEF NatLess, OpToRel
<1>2. PICK x \in S : \A y \in S : <<y, x>> \notin NatLess
  BY WFMin, <1>1
<1>3. ASSUME NEW y \in S PROVE x <= y
  <2>1. <<y, x>> \in Nat \X Nat /\ <<y, x>>[1] = y /\ <<y, x>>[2] = x
    OBVIOUS
  <2>2. y \in Nat /\ x \in Nat /\ ~(y < x)
    BY <2>1, <1>2 DEF NatLess
  <2> HIDE <1>2
  <2> QED BY <2>2
<1> QED BY <1>3

\* Min of a set of numbers is one of them.
LEMMA LeastIs ==
  ASSUME NEW S \in SUBSET Nat, S # {}
  PROVE  Min(S) \in S
BY LeastNumber DEF Min

\* A finite set of integers that is not empty has a greatest one, and that is
\* its Max.
LEMMA GreatestIs ==
  ASSUME NEW S \in SUBSET Int, IsFiniteSet(S), S # {}
  PROVE  Max(S) \in S /\ \A y \in S : y <= Max(S)
<1> DEFINE Greatest(T) == \E x \in T : \A y \in T : y <= x
           B == {n \in Nat : \E T \in SUBSET Int :
                   IsFiniteSet(T) /\ T # {} /\ Cardinality(T) = n /\ ~Greatest(T)}
<1>1. SUFFICES ASSUME B # {} PROVE FALSE
  <2>1. Cardinality(S) \in Nat
    BY FS_CardinalityType
  <2>2. Greatest(S)
    BY <2>1
  <2> QED BY <2>2 DEF Max
<1>2. PICK n \in B : \A k \in B : n <= k
  <2>1. B \in SUBSET Nat
    OBVIOUS
  <2> HIDE DEF B
  <2> QED BY <1>1, <2>1, LeastNumber
<1>3. PICK T \in SUBSET Int :
        IsFiniteSet(T) /\ T # {} /\ Cardinality(T) = n /\ ~Greatest(T)
  OBVIOUS
<1>4. PICK e \in T : TRUE
  BY <1>3
<1> DEFINE U == T \ {e}
<1>5. IsFiniteSet(U) /\ Cardinality(U) = n - 1 /\ U \in SUBSET Int
  BY <1>3, FS_RemoveElement
<1>6. Cardinality(U) \in Nat
  BY <1>5, FS_CardinalityType
<1>7. U # {}
  <2> SUFFICES ASSUME U = {} PROVE FALSE
    OBVIOUS
  <2>1. T = {e}
    BY <1>4
  <2>2. e <= e
    BY <1>4
  <2> QED BY <1>3, <2>1, <2>2
<1>8. n - 1 \notin B
  <2>1. n \in Nat
    OBVIOUS
  <2> HIDE DEF B
  <2> QED BY <1>2, <2>1
<1>9. Greatest(U)
  BY <1>5, <1>6, <1>7, <1>8
<1>10. PICK x \in U : \A y \in U : y <= x
  BY <1>9
<1>11. Greatest(T)
  <2>1. CASE e <= x
    <3>1. \A y \in T : y <= x
      BY <1>10, <2>1
    <3> QED BY <3>1
  <2>2. CASE ~(e <= x)
    <3>1. \A y \in T : y <= e
      BY <1>10, <2>2
    <3> QED BY <3>1, <1>4
  <2> QED BY <2>1, <2>2
<1> QED BY <1>3, <1>11

\* The n-th of the positions I.
LEMMA PositionExists ==
  ASSUME NEW I \in SUBSET Nat, IsFiniteSet(I), NEW n \in 1 .. Cardinality(I)
  PROVE  \E i \in I : Cardinality({j \in I : j <= i}) = n
<1> DEFINE Upto(i) == {j \in I : j <= i}
           S == {i \in I : Cardinality(Upto(i)) >= n}
<1>1. \A i \in I : IsFiniteSet(Upto(i)) /\ Cardinality(Upto(i)) \in Nat
  <2> TAKE i \in I
  <2>1. IsFiniteSet(Upto(i))
    BY FS_Subset
  <2> QED BY <2>1, FS_CardinalityType
<1>2. Cardinality(I) \in Nat /\ I # {}
  BY FS_CardinalityType, FS_EmptySet
<1>3. S # {}
  <2>1. Max(I) \in I /\ \A y \in I : y <= Max(I)
    BY <1>2, GreatestIs
  <2>2. Upto(Max(I)) = I
    BY <2>1
  <2> QED BY <2>1, <2>2, <1>2
<1>4. PICK x \in S : \A y \in S : x <= y
  <2>1. S \in SUBSET Nat
    OBVIOUS
  <2> HIDE DEF S
  <2> QED BY <1>3, <2>1, LeastNumber
<1>5. CASE Cardinality(Upto(x)) = n
  BY <1>5
<1>6. CASE Cardinality(Upto(x)) # n
  <2> DEFINE L == Upto(x) \ {x}
  <2>0. x \in I /\ Cardinality(Upto(x)) >= n /\ n \in Nat \ {0}
    BY <1>4, <1>2
  <2>1. /\ x \in Upto(x) /\ IsFiniteSet(Upto(x)) /\ Cardinality(Upto(x)) \in Nat
    BY <1>1, <2>0
  <2>11. L \in SUBSET I /\ \A j \in I : j \in L <=> j < x
    BY <2>0
  <2>2. IsFiniteSet(L) /\ Cardinality(L) = Cardinality(Upto(x)) - 1
    <3> HIDE DEF Upto
    <3> QED BY <2>1, FS_RemoveElement
  <2>3. Cardinality(L) >= n
    BY <1>6, <2>0, <2>1, <2>2
  <2> HIDE DEF L
  <2>4. L # {}
    BY <2>0, <2>2, <2>3, FS_EmptySet
  <2>5. PICK y \in L : \A z \in L : z <= y
    <3>1. L \subseteq I /\ I \subseteq Int
      BY <2>11
    <3> HIDE <2>11
    <3>2. L \in SUBSET Int
      BY <3>1
    <3> QED BY <2>2, <2>4, <3>2, GreatestIs
  <2>6. y \in I /\ y < x
    BY <2>5, <2>11
  <2>7. Upto(y) = L
    <3>1. \A j \in I : j <= y <=> j \in L
      <4>1. \A j \in I : j <= y => j < x
        BY <2>0, <2>6
      <4> QED BY <2>5, <2>11, <4>1
    <3>2. L \subseteq I
      BY <2>11
    <3> QED BY <3>1, <3>2
  <2>8. y \in S
    BY <2>3, <2>6, <2>7
  <2> HIDE DEF S, Upto
  <2>9. x <= y /\ x \in Nat /\ y \in Nat
    BY <1>4, <2>0, <2>6, <2>8
  <2> QED BY <2>6, <2>9
<1> QED BY <1>5, <1>6

\* The entries at some positions of a sequence are a sequence of those
\* entries.
LEMMA EntriesAre ==
  ASSUME NEW seq, NEW I \in SUBSET Nat, IsFiniteSet(I)
  PROVE  LET s == AtPositions(seq, I) IN
           /\ Len(s) = Cardinality(I) /\ Len(s) \in Nat
           /\ DOMAIN s = 1 .. Len(s)
           /\ s \in Seq({s[n] : n \in DOMAIN s})
           /\ \A n \in DOMAIN s : \E i \in I : s[n] = seq[i]
<1> DEFINE s == AtPositions(seq, I)
           at(n) == CHOOSE i \in I : Cardinality({j \in I : j <= i}) = n
           k == Cardinality(I)
           T == {s[n] : n \in DOMAIN s}
<1>1. k \in Nat
  BY FS_CardinalityType
<1>2. s = [n \in 1 .. k |-> seq[at(n)]]
  BY DEF AtPositions
<1>3. \A n \in 1 .. k : at(n) \in I
  BY PositionExists
<1> HIDE DEF at, s, k
<1>4. s \in [1 .. k -> T]
  BY <1>2
<1>5. s \in Seq(T)
  <2> HIDE DEF T
  <2> QED BY <1>1, <1>4
<1>6. Len(s) = k /\ DOMAIN s = 1 .. k
  <2> HIDE DEF T
  <2> QED BY <1>1, <1>4, <1>5
<1>7. \A n \in DOMAIN s : \E i \in I : s[n] = seq[i]
  BY <1>2, <1>3
<1> QED BY <1>1, <1>5, <1>6, <1>7 DEF s, k

-----------------------------------------------------------------------------
(*************************************************************************)
(* The rotation of a bucket.                                             *)
(*************************************************************************)
\* Different positions have different numbers.
LEMMA PlacesDiffer ==
  ASSUME NEW I \in SUBSET Nat, IsFiniteSet(I), NEW i \in I, NEW k \in I,
         Cardinality({j \in I : j <= i}) = Cardinality({j \in I : j <= k})
  PROVE  i = k
<1> DEFINE Upto(x) == {j \in I : j <= x}
<1>1. \A x, y \in I : x < y => Cardinality(Upto(x)) < Cardinality(Upto(y))
  <2> SUFFICES ASSUME NEW x \in I, NEW y \in I, x < y
               PROVE  Cardinality(Upto(x)) < Cardinality(Upto(y))
    OBVIOUS
  <2> DEFINE Y == Upto(y)
             X == Upto(x)
  <2>0. Y \in SUBSET I /\ y \in Y /\ X \in SUBSET (Y \ {y})
    <3>1. \A j \in X : j \in Nat /\ j \in I /\ j <= y /\ j # y
      OBVIOUS
    <3>2. y \in Y /\ Y \in SUBSET I
      OBVIOUS
    <3> QED BY <3>1, <3>2
  <2>1. IsFiniteSet(Y) /\ y \in Y /\ X \in SUBSET (Y \ {y})
    BY <2>0, FS_Subset
  <2> HIDE DEF X, Y
  <2>2. IsFiniteSet(Y \ {y}) /\ Cardinality(Y \ {y}) = Cardinality(Y) - 1
    BY <2>1, FS_RemoveElement
  <2>3. Cardinality(X) <= Cardinality(Y \ {y}) /\ IsFiniteSet(X)
    BY <2>1, <2>2, FS_Subset
  <2>4. Cardinality(X) \in Nat /\ Cardinality(Y) \in Nat
    BY <2>1, <2>3, FS_CardinalityType
  <2>5. Cardinality(X) < Cardinality(Y)
    BY <2>2, <2>3, <2>4
  <2> QED BY <2>5 DEF X, Y
<1>2. Cardinality(Upto(i)) \in Nat /\ Cardinality(Upto(i)) = Cardinality(Upto(k))
  <2>1. IsFiniteSet(Upto(i))
    BY FS_Subset
  <2> QED BY <2>1, FS_CardinalityType
<1> HIDE DEF Upto
<1>3. ~(i < k) /\ ~(k < i)
  BY <1>1, <1>2
<1> QED BY <1>3

\* Every position has its entry, and entries repeat only if the sequence does.
LEMMA EntriesCover ==
  ASSUME NEW seq, NEW I \in SUBSET Nat, IsFiniteSet(I)
  PROVE  LET s == AtPositions(seq, I) IN
           /\ \A i \in I : \E n \in DOMAIN s : s[n] = seq[i]
           /\ (\A i, j \in I : seq[i] = seq[j] => i = j)
                => \A n, m \in DOMAIN s : s[n] = s[m] => n = m
<1> DEFINE s == AtPositions(seq, I)
           place(i) == Cardinality({j \in I : j <= i})
           at(n) == CHOOSE i \in I : place(i) = n
           k == Cardinality(I)
<1>1. k \in Nat
  BY FS_CardinalityType
<1>2. s = [n \in 1 .. k |-> seq[at(n)]]
  BY DEF AtPositions
<1>3. \A n \in 1 .. k : at(n) \in I /\ place(at(n)) = n
  BY PositionExists
<1>4. \A i \in I : place(i) \in 1 .. k
  <2> TAKE i \in I
  <2> DEFINE U == {j \in I : j <= i}
  <2>1. U \in SUBSET I /\ i \in U
    OBVIOUS
  <2> HIDE DEF U
  <2>2. IsFiniteSet(U) /\ Cardinality(U) <= k /\ U # {}
    BY <2>1, FS_Subset
  <2>3. Cardinality(U) \in Nat /\ Cardinality(U) # 0
    BY <2>2, FS_CardinalityType, FS_EmptySet
  <2>4. Cardinality(U) \in 1 .. k
    BY <1>1, <2>2, <2>3
  <2> QED BY <2>4 DEF U
<1>5. \A i, j \in I : place(i) = place(j) => i = j
  BY PlacesDiffer
<1> HIDE DEF at, s, k, place
<1>6. \A i \in I : \E n \in DOMAIN s : s[n] = seq[i]
  <2> TAKE i \in I
  <2>1. at(place(i)) = i
    BY <1>3, <1>4, <1>5
  <2> QED BY <1>2, <1>4, <2>1
<1>7. ASSUME \A i, j \in I : seq[i] = seq[j] => i = j
      PROVE  \A n, m \in DOMAIN s : s[n] = s[m] => n = m
  <2> SUFFICES ASSUME NEW n \in DOMAIN s, NEW m \in DOMAIN s, s[n] = s[m]
               PROVE  n = m
    OBVIOUS
  <2>1. n \in 1 .. k /\ m \in 1 .. k /\ seq[at(n)] = seq[at(m)]
    BY <1>2
  <2>2. at(n) = at(m)
    BY <1>3, <1>7, <2>1
  <2> QED BY <1>3, <2>1, <2>2
<1> QED BY <1>6, <1>7 DEF s

\* How far position p of n is behind the cursor c in the rotation: the entry
\* that was served last has distance 0.
Behind(c, p, n) == IF p <= c THEN c - p ELSE c - p + n

\* Serving o positions after the cursor moves those it passes to the end of
\* the rotation.
LEMMA RotationMoves ==
  ASSUME NEW n \in Nat, NEW c \in 0 .. n, NEW o \in 0 .. n - 1
  PROVE  LET q(i) == ((c + i) % n) + 1
             far == n - 1 - o IN
           /\ q(o) \in 1 .. n
           /\ \A p \in 1 .. n : Behind(c, p, n) \in 0 .. n - 1
           /\ \A p \in 1 .. n : (\E i \in 0 .. o : q(i) = p) <=> Behind(c, p, n) >= far
           /\ \A p \in 1 .. n : Behind(q(o), p, n) = IF Behind(c, p, n) >= far
                                                     THEN Behind(c, p, n) - far
                                                     ELSE Behind(c, p, n) + o + 1
<1> DEFINE q(i) == ((c + i) % n) + 1
           far == n - 1 - o
           B(p) == Behind(c, p, n)
<1>1. \A i \in 0 .. n - 1 : q(i) = IF c + i < n THEN c + i + 1 ELSE c + i - n + 1
  <2> SUFFICES ASSUME NEW i \in 0 .. n - 1
               PROVE  q(i) = IF c + i < n THEN c + i + 1 ELSE c + i - n + 1
    OBVIOUS
  <2> DEFINE x == c + i
  <2>1. x \in 0 .. 2 * n - 1 /\ n > 0
    OBVIOUS
  <2>2. q(i) = (x % n) + 1
    OBVIOUS
  <2> HIDE DEF x, q
  <2>3. x % n = IF x < n THEN x ELSE x - n
    BY <2>1
  <2>4. q(i) = IF x < n THEN x + 1 ELSE x - n + 1
    BY <2>1, <2>2, <2>3
  <2> QED BY <2>4 DEF x
<1> HIDE DEF q
<1>2. \A i \in 0 .. n - 1 : q(i) \in 1 .. n /\ B(q(i)) = n - 1 - i
  <2> SUFFICES ASSUME NEW i \in 0 .. n - 1
               PROVE  q(i) \in 1 .. n /\ B(q(i)) = n - 1 - i
    OBVIOUS
  <2>1. q(i) = IF c + i < n THEN c + i + 1 ELSE c + i - n + 1
    BY <1>1
  <2> QED BY <2>1 DEF Behind
<1>3. \A p \in 1 .. n : B(p) \in 0 .. n - 1 /\ q(n - 1 - B(p)) = p
  <2> SUFFICES ASSUME NEW p \in 1 .. n
               PROVE  B(p) \in 0 .. n - 1 /\ q(n - 1 - B(p)) = p
    OBVIOUS
  <2>1. B(p) = IF p <= c THEN c - p ELSE c - p + n
    BY DEF Behind
  <2> HIDE DEF B
  <2>2. B(p) \in 0 .. n - 1
    BY <2>1
  <2>3. n - 1 - B(p) \in 0 .. n - 1
    BY <2>2
  <2> DEFINE i == n - 1 - B(p)
  <2>4. i \in 0 .. n - 1 /\ q(i) = IF c + i < n THEN c + i + 1 ELSE c + i - n + 1
    BY <1>1, <2>3
  <2>5. i = IF p <= c THEN n - 1 - c + p ELSE p - 1 - c
    BY <2>1
  <2> HIDE DEF i
  <2>6. q(i) = p
    BY <2>4, <2>5
  <2> QED BY <2>2, <2>6 DEF i
<1>4. \A p \in 1 .. n : (\E i \in 0 .. o : q(i) = p) <=> B(p) >= far
  <2> SUFFICES ASSUME NEW p \in 1 .. n
               PROVE  (\E i \in 0 .. o : q(i) = p) <=> B(p) >= far
    OBVIOUS
  <2> HIDE DEF B
  <2>1. ASSUME NEW i \in 0 .. o, q(i) = p PROVE B(p) >= far
    BY <1>2, <2>1
  <2>2. ASSUME B(p) >= far PROVE \E i \in 0 .. o : q(i) = p
    <3>1. n - 1 - B(p) \in 0 .. o
      BY <1>3, <2>2
    <3> QED BY <1>3, <3>1
  <2> QED BY <2>1, <2>2
<1>5. ASSUME NEW p \in 1 .. n
      PROVE  Behind(q(o), p, n) = IF B(p) >= far THEN B(p) - far ELSE B(p) + o + 1
  <2>1. q(o) = IF c + o < n THEN c + o + 1 ELSE c + o - n + 1
    BY <1>1
  <2> QED BY <2>1 DEF Behind
<1>6. q(o) \in 1 .. n
  BY <1>2
<1> HIDE DEF B, far
<1> QED BY <1>3, <1>4, <1>5, <1>6 DEF B, far, q

\* The turns of a rotation f whose cursor is at c: those of the last k served
\* have had one more than the others.
Rotates(f, c, t) ==
  Len(f) > 0 =>
    /\ c \in 0 .. Len(f)
    /\ \E k \in 0 .. Len(f) - 1 : \A p \in 1 .. Len(f) :
         t[f[p]] = IF Behind(c, p, Len(f)) < k THEN 1 ELSE 0

\* A turn keeps the rotation: whoever is passed over or served has had a turn,
\* and when all have had one it is taken off.
LEMMA RotationKept ==
  ASSUME NEW f, NEW n \in Nat, n = Len(f), n > 0, NEW t, NEW u, NEW c, NEW o \in 0 .. n - 1,
         Rotates(f, c, t),
         LET had(p) == \E i \in 0 .. o : ((c + i) % n) + 1 = p
             once(p) == t[f[p]] + (IF had(p) THEN 1 ELSE 0)
         IN \A p \in 1 .. n : u[f[p]] = IF \A q \in 1 .. n : once(q) > 0
                                       THEN once(p) - 1 ELSE once(p)
  PROVE  Rotates(f, ((c + o) % n) + 1, u)
<1> DEFINE had(p) == \E i \in 0 .. o : ((c + i) % n) + 1 = p
           once(p) == t[f[p]] + (IF had(p) THEN 1 ELSE 0)
           e == ((c + o) % n) + 1
           B(p) == Behind(c, p, n)
           E(p) == Behind(e, p, n)
           far == n - 1 - o
<1>1. PICK k \in 0 .. n - 1 : \A p \in 1 .. n : t[f[p]] = IF B(p) < k THEN 1 ELSE 0
  BY DEF Rotates
<1>2. c \in 0 .. n
  BY DEF Rotates
<1>3. /\ e \in 1 .. n
      /\ \A p \in 1 .. n : B(p) \in 0 .. n - 1
      /\ \A p \in 1 .. n : had(p) <=> B(p) >= far
      /\ \A p \in 1 .. n : E(p) = IF B(p) >= far THEN B(p) - far ELSE B(p) + o + 1
  BY <1>2, RotationMoves
<1>4. \A p \in 1 .. n : u[f[p]] = IF \A q \in 1 .. n : once(q) > 0
                                 THEN once(p) - 1 ELSE once(p)
  OBVIOUS
<1>5. \A p \in 1 .. n : once(p) = t[f[p]] + (IF had(p) THEN 1 ELSE 0)
  OBVIOUS
<1> HIDE DEF had, once, e, B, E
<1>6. \A p \in 1 .. n : once(p) = (IF B(p) < k THEN 1 ELSE 0) + (IF B(p) >= far THEN 1 ELSE 0)
  BY <1>1, <1>3, <1>5
<1>7. \E m \in 0 .. n - 1 : \A p \in 1 .. n : u[f[p]] = IF E(p) < m THEN 1 ELSE 0
  <2>1. CASE k + o + 1 < n
    <3>1. PICK p \in 1 .. n : B(p) = k
      <4> DEFINE x == IF k < c THEN c - k ELSE c - k + n
      <4>1. x \in 1 .. n /\ Behind(c, x, n) = k
        BY <1>2 DEF Behind
      <4> QED BY <4>1 DEF B
    <3>2. ~(\A q \in 1 .. n : once(q) > 0)
      BY <1>6, <2>1, <3>1
    <3>3. \A q \in 1 .. n : u[f[q]] = once(q)
      BY <1>4, <3>2
    <3>4. \A q \in 1 .. n : u[f[q]] = IF E(q) < k + o + 1 THEN 1 ELSE 0
      <4> TAKE q \in 1 .. n
      <4>1. B(q) \in 0 .. n - 1 /\ u[f[q]] = once(q)
        BY <1>3, <3>3
      <4>2. once(q) = (IF B(q) < k THEN 1 ELSE 0) + (IF B(q) >= far THEN 1 ELSE 0)
        BY <1>6
      <4>3. E(q) = IF B(q) >= far THEN B(q) - far ELSE B(q) + o + 1
        BY <1>3
      <4> QED BY <2>1, <4>1, <4>2, <4>3
    <3>5. k + o + 1 \in 0 .. n - 1
      BY <2>1
    <3> QED BY <3>4, <3>5
  <2>2. CASE k + o + 1 >= n
    <3>1. \A q \in 1 .. n : once(q) > 0
      <4> TAKE q \in 1 .. n
      <4>1. B(q) \in 0 .. n - 1
        BY <1>3
      <4>2. once(q) = (IF B(q) < k THEN 1 ELSE 0) + (IF B(q) >= far THEN 1 ELSE 0)
        BY <1>6
      <4> QED BY <2>2, <4>1, <4>2
    <3>2. \A q \in 1 .. n : u[f[q]] = once(q) - 1
      BY <1>4, <3>1
    <3>3. \A q \in 1 .. n : u[f[q]] = IF E(q) < k + o + 1 - n THEN 1 ELSE 0
      <4> TAKE q \in 1 .. n
      <4>1. B(q) \in 0 .. n - 1 /\ u[f[q]] = once(q) - 1
        BY <1>3, <3>2
      <4>2. once(q) = (IF B(q) < k THEN 1 ELSE 0) + (IF B(q) >= far THEN 1 ELSE 0)
        BY <1>6
      <4>3. E(q) = IF B(q) >= far THEN B(q) - far ELSE B(q) + o + 1
        BY <1>3
      <4> QED BY <2>2, <4>1, <4>2, <4>3
    <3>4. k + o + 1 - n \in 0 .. n - 1
      BY <2>2
    <3> QED BY <3>3, <3>4
  <2> QED BY <2>1, <2>2
<1>8. e \in 0 .. n
  BY <1>3
<1> QED BY <1>7, <1>8 DEF Rotates, e, E

\* A rotation at its beginning: nobody is ahead, wherever the cursor is.
LEMMA RotationBegins ==
  ASSUME NEW f, Len(f) \in Nat, NEW c \in 0 .. Len(f), NEW t,
         \A p \in 1 .. Len(f) : t[f[p]] = 0
  PROVE  Rotates(f, c, t)
<1> DEFINE n == Len(f)
<1>1. n \in Nat /\ c \in 0 .. n /\ \A p \in 1 .. n : t[f[p]] = 0
  OBVIOUS
<1> HIDE DEF n
<1>2. CASE n > 0
  <2>1. 0 \in 0 .. n - 1
    BY <1>1, <1>2
  <2>2. \A p \in 1 .. n : ~(Behind(c, p, n) < 0)
    BY <1>1 DEF Behind
  <2>3. \E k \in 0 .. n - 1 : \A p \in 1 .. n : t[f[p]] = IF Behind(c, p, n) < k THEN 1 ELSE 0
    BY <1>1, <2>1, <2>2
  <2> QED BY <1>1, <2>3 DEF Rotates, n
<1>3. CASE ~(n > 0)
  BY <1>3 DEF Rotates, n
<1> QED BY <1>2, <1>3

\* A cursor behind the last entry is one before the first (normalizeCursor).
LEMMA RotationWraps ==
  ASSUME NEW f, Len(f) \in Nat, NEW c \in Nat, NEW t, Rotates(f, c, t)
  PROVE  Rotates(f, normalizeCursor(c, Len(f)), t)
<1> DEFINE n == Len(f)
           d == normalizeCursor(c, n)
<1>1. n \in Nat
  OBVIOUS
<1>2. CASE n > 0
  <2>1. c \in 0 .. n
    BY <1>2 DEF Rotates
  <2>2. PICK k \in 0 .. n - 1 : \A p \in 1 .. n : t[f[p]] = IF Behind(c, p, n) < k THEN 1 ELSE 0
    BY <1>2 DEF Rotates
  <2>3. d = IF c < n THEN c ELSE 0
    <3>1. d = c % n
      BY <1>2 DEF normalizeCursor
    <3> HIDE DEF d, n
    <3> QED BY <1>1, <1>2, <2>1, <3>1
  <2> HIDE DEF n, d
  <2>4. d \in 0 .. n /\ \A p \in 1 .. n : Behind(d, p, n) = Behind(c, p, n)
    BY <1>1, <1>2, <2>1, <2>3 DEF Behind
  <2>5. \E m \in 0 .. n - 1 : \A p \in 1 .. n : t[f[p]] = IF Behind(d, p, n) < m THEN 1 ELSE 0
    BY <2>2, <2>4
  <2> QED BY <2>4, <2>5 DEF Rotates, n, d
<1>3. CASE ~(n > 0)
  BY <1>3 DEF Rotates
<1> QED BY <1>2, <1>3

\* Only the turns of its own entries matter to a rotation.
LEMMA RotationCopies ==
  ASSUME NEW f, NEW c, NEW t, Rotates(f, c, t), NEW u,
         \A p \in 1 .. Len(f) : u[f[p]] = t[f[p]]
  PROVE  Rotates(f, c, u)
<1>1. CASE Len(f) > 0
  <2>1. PICK k \in 0 .. Len(f) - 1 :
          \A p \in 1 .. Len(f) : t[f[p]] = IF Behind(c, p, Len(f)) < k THEN 1 ELSE 0
    BY <1>1 DEF Rotates
  <2>2. \A p \in 1 .. Len(f) : u[f[p]] = IF Behind(c, p, Len(f)) < k THEN 1 ELSE 0
    BY <2>1
  <2> QED BY <1>1, <2>2 DEF Rotates
<1>2. CASE ~(Len(f) > 0)
  BY <1>2 DEF Rotates
<1> QED BY <1>1, <1>2

-----------------------------------------------------------------------------
(*************************************************************************)
(* The scheduler: whom it serves.                                        *)
(*************************************************************************)
IsSched(s) ==
  /\ s = [built |-> s.built, ready |-> s.ready, cursor |-> s.cursor,
          mixed |-> s.mixed, turns |-> s.turns]
  /\ s.ready \in SUBSET Auths /\ IsFiniteSet(s.ready)
  /\ s.cursor \in [Views -> Nat] /\ s.mixed \in [Lists -> Nat]
  /\ s.turns \in [Auths -> Int]
  /\ \A v \in Views : ~v.ws => Rotates(flat(s.ready, v), s.cursor[v], s.turns)

\* Order lists the credentials: there are finitely many.
LEMMA AuthsFinite == IsFiniteSet(Auths)
<1>1. IsFiniteSet(DOMAIN Order)
  BY SchedulerAssumption, FS_Interval
<1>2. Order \in Surjection(DOMAIN Order, Auths)
  BY SchedulerAssumption DEF Auths, Surjection
<1> QED BY <1>1, <1>2, FS_Surjection

\* A ready view holds ready credentials of its provider and its priority
\* (readyView.flat).
LEMMA FlatEntries ==
  ASSUME NEW ready, NEW v
  PROVE  LET f == flat(ready, v) IN
           /\ Len(f) \in Nat /\ DOMAIN f = 1 .. Len(f)
           /\ \A n \in DOMAIN f :
                /\ f[n] \in Auths \cap ready
                /\ ProviderOf[f[n]] = v.provider /\ PriorityOf[f[n]] = v.priority
<1> DEFINE I == {i \in DOMAIN Order : /\ Order[i] \in ready
                                      /\ ProviderOf[Order[i]] = v.provider
                                      /\ PriorityOf[Order[i]] = v.priority
                                      /\ v.ws => Order[i] \in Websockets}
           f == flat(ready, v)
<1>1. f = AtPositions(Order, I)
  BY DEF flat
<1>2. DOMAIN Order = 1 .. Len(Order) /\ Len(Order) \in Nat
  BY SchedulerAssumption
<1>3. I \in SUBSET Nat /\ IsFiniteSet(I)
  <2>1. IsFiniteSet(1 .. Len(Order))
    BY <1>2, FS_Interval
  <2> QED BY <1>2, <2>1, FS_Subset
<1>4. \A i \in I : /\ Order[i] \in Auths \cap ready
                   /\ ProviderOf[Order[i]] = v.provider /\ PriorityOf[Order[i]] = v.priority
  BY DEF Auths
<1> HIDE DEF I, f
<1> DEFINE g == AtPositions(Order, I)
<1>5. /\ Len(g) \in Nat /\ DOMAIN g = 1 .. Len(g)
      /\ \A n \in DOMAIN g : \E i \in I : g[n] = Order[i]
  BY <1>3, EntriesAre
<1> HIDE DEF g
<1>6. f = g
  BY <1>1 DEF g
<1> QED BY <1>4, <1>5, <1>6 DEF f

\* The entries of a bucket.
Members(ready, v) ==
  {b \in ready : ProviderOf[b] = v.provider /\ PriorityOf[b] = v.priority}

\* The view of a bucket depends on its members alone.
LEMMA ViewSame ==
  ASSUME NEW ready \in SUBSET Auths, NEW r \in SUBSET Auths, NEW v, v.ws = FALSE,
         Members(r, v) = Members(ready, v)
  PROVE  flat(r, v) = flat(ready, v)
<1> DEFINE J(x) == {i \in DOMAIN Order : /\ Order[i] \in x
                                         /\ ProviderOf[Order[i]] = v.provider
                                         /\ PriorityOf[Order[i]] = v.priority
                                         /\ v.ws => Order[i] \in Websockets}
<1>1. \A x : flat(x, v) = AtPositions(Order, J(x))
  BY DEF flat
<1>2. \A x \in SUBSET Auths : J(x) = {i \in DOMAIN Order : Order[i] \in Members(x, v)}
  BY DEF Members
<1>3. J(r) = J(ready)
  BY <1>2
<1> HIDE DEF J
<1> QED BY <1>1, <1>3

\* The rotation of a bucket: its view lists its members, each of them once.
LEMMA ViewLists ==
  ASSUME NEW ready \in SUBSET Auths, NEW v, v.ws = FALSE
  PROVE  /\ \A b \in Members(ready, v) : \E n \in DOMAIN flat(ready, v) : flat(ready, v)[n] = b
         /\ \A n, m \in DOMAIN flat(ready, v) : flat(ready, v)[n] = flat(ready, v)[m] => n = m
<1> DEFINE I == {i \in DOMAIN Order : /\ Order[i] \in ready
                                      /\ ProviderOf[Order[i]] = v.provider
                                      /\ PriorityOf[Order[i]] = v.priority
                                      /\ v.ws => Order[i] \in Websockets}
           f == flat(ready, v)
<1>1. f = AtPositions(Order, I)
  BY DEF flat
<1>2. DOMAIN Order = 1 .. Len(Order) /\ Len(Order) \in Nat
  BY SchedulerAssumption
<1>3. IsFiniteSet(DOMAIN Order) /\ Cardinality(DOMAIN Order) = Len(Order)
  <2> DEFINE L == Len(Order)
  <2>1. L \in Nat /\ DOMAIN Order = 1 .. L
    BY <1>2
  <2> HIDE DEF L
  <2>2. IsFiniteSet(1 .. L) /\ Cardinality(1 .. L) = L
    BY <2>1, FS_Interval
  <2> QED BY <2>1, <2>2 DEF L
<1>4. I \in SUBSET Nat /\ IsFiniteSet(I)
  BY <1>2, <1>3, FS_Subset
<1>5. \A i, j \in DOMAIN Order : Order[i] = Order[j] => i = j
  <2>1. Order \in Surjection(DOMAIN Order, Auths)
    BY SchedulerAssumption DEF Auths, Surjection
  <2>2. Order \in Injection(DOMAIN Order, Auths)
    BY <1>3, <2>1, FS_Surjection, SchedulerAssumption
  <2> QED BY <2>2 DEF Injection, IsInjective
<1>6. \A b \in Members(ready, v) : \E i \in I : Order[i] = b
  BY DEF Members, Auths
<1>7. \A i, j \in I : Order[i] = Order[j] => i = j
  BY <1>5
<1> HIDE DEF I
<1> DEFINE s == AtPositions(Order, I)
<1>8. /\ \A i \in I : \E n \in DOMAIN s : s[n] = Order[i]
      /\ \A n, m \in DOMAIN s : s[n] = s[m] => n = m
  BY <1>4, <1>7, EntriesCover
<1>9. f = s
  BY <1>1
<1> HIDE DEF s, f
<1>10. \A b \in Members(ready, v) : \E n \in DOMAIN f : f[n] = b
  BY <1>6, <1>8, <1>9
<1>11. \A n, m \in DOMAIN f : f[n] = f[m] => n = m
  BY <1>8, <1>9
<1> QED BY <1>10, <1>11 DEF f

\* A bucket is what rotates with each of its entries.
LEMMA BucketIs ==
  ASSUME NEW ready, NEW v, NEW a \in Members(ready, v)
  PROVE  /\ Bucket(ready, a) = Members(ready, v)
         /\ \A r : Bucket(r, a) = Members(r, v)
BY DEF Bucket, Members

\* rebuildIndexesLocked keeps the scheduler's form, with the entries it was
\* given, and the rotation of every bucket that is as it was.
LEMMA IndexesRebuilt ==
  ASSUME NEW s, IsSched(s), NEW p, NEW ready \in SUBSET Auths,
         \A b \in Auths : ProviderOf[b] # p => (b \in ready <=> b \in s.ready)
  PROVE  LET u == rebuildIndexesLocked(s, p, ready) IN IsSched(u) /\ u.ready = ready
<1> DEFINE c == [v \in Views |->
                   IF v.provider # p THEN s.cursor[v]
                   ELSE IF flat(s.ready, [v EXCEPT !.ws = FALSE]) = <<>> THEN 0
                   ELSE normalizeCursor(s.cursor[v], Len(flat(ready, v)))]
           t == TurnsAfter(s, ready)
           u == rebuildIndexesLocked(s, p, ready)
<1>1. u = [s EXCEPT !.ready = ready, !.cursor = c, !.turns = t]
  BY DEF rebuildIndexesLocked
<1>2. c \in [Views -> Nat]
  <2> SUFFICES ASSUME NEW v \in Views PROVE c[v] \in Nat
    OBVIOUS
  <2>1. Len(flat(ready, v)) \in Nat
    BY FlatEntries
  <2>2. s.cursor[v] \in Nat
    BY DEF IsSched
  <2>3. normalizeCursor(s.cursor[v], Len(flat(ready, v))) \in Nat
    BY <2>1, <2>2 DEF normalizeCursor
  <2> QED BY <2>2, <2>3
<1>3. t \in [Auths -> Int]
  BY DEF TurnsAfter, IsSched
<1>4. ASSUME NEW v \in Views, ~v.ws
      PROVE  Rotates(flat(ready, v), c[v], t)
  <2> DEFINE f == flat(s.ready, v)
             g == flat(ready, v)
             d == s.cursor[v]
  <2>1. c[v] = IF v.provider # p THEN d
               ELSE IF f = <<>> THEN 0 ELSE normalizeCursor(d, Len(g))
    <3>1. [v EXCEPT !.ws = FALSE] = v
      BY <1>4 DEF Views, View
    <3> QED BY <3>1
  <2>2. v.ws = FALSE
    BY <1>4 DEF Views, View
  <2>3. d \in Nat /\ s.ready \in SUBSET Auths /\ Rotates(f, d, s.turns)
    BY <1>4 DEF IsSched
  <2>4. /\ Len(g) \in Nat /\ DOMAIN g = 1 .. Len(g)
        /\ \A n \in DOMAIN g : g[n] \in Auths /\ g[n] \in Members(ready, v)
    BY FlatEntries DEF Members
  <2>5. \A n \in 1 .. Len(g) : t[g[n]] = IF Members(ready, v) = Members(s.ready, v)
                                        THEN s.turns[g[n]] ELSE 0
    <3> HIDE DEF g
    <3> QED BY <2>4, BucketIs DEF TurnsAfter
  <2>6. Members(ready, v) = Members(s.ready, v) => g = f
    <3> HIDE DEF f, g
    <3> QED BY <2>2, <2>3, ViewSame DEF f, g
  <2>7. v.provider # p => Members(ready, v) = Members(s.ready, v)
    BY <2>3 DEF Members
  <2> HIDE DEF f, g, d, t, c
  <2>8. CASE Members(ready, v) = Members(s.ready, v)
    <3>1. g = f /\ \A n \in 1 .. Len(g) : t[g[n]] = s.turns[g[n]]
      BY <2>5, <2>6, <2>8
    <3>2. Rotates(g, d, t)
      BY <2>3, <3>1, RotationCopies
    <3>3. Rotates(g, normalizeCursor(d, Len(g)), t)
      BY <2>3, <2>4, <3>2, RotationWraps
    <3>4. f = <<>> => Len(g) = 0
      BY <3>1
    <3>5. f = <<>> => Rotates(g, 0, t)
      BY <3>4 DEF Rotates
    <3> QED BY <2>1, <3>2, <3>3, <3>5 DEF g
  <2>9. CASE Members(ready, v) # Members(s.ready, v)
    <3>1. \A n \in 1 .. Len(g) : t[g[n]] = 0
      BY <2>5, <2>9
    <3>2. c[v] \in {0, normalizeCursor(d, Len(g))}
      BY <2>1, <2>7, <2>9
    <3>3. c[v] \in 0 .. Len(g)
      <4> DEFINE n == Len(g)
      <4>1. n \in Nat /\ d \in Nat
        BY <2>3, <2>4
      <4> HIDE DEF n
      <4>2. normalizeCursor(d, n) \in 0 .. n
        BY <4>1 DEF normalizeCursor
      <4> QED BY <3>2, <4>1, <4>2 DEF n
    <3> QED BY <2>4, <3>1, <3>3, RotationBegins DEF g
  <2> QED BY <2>8, <2>9
<1>5. IsFiniteSet(ready)
  BY AuthsFinite, FS_Subset
<1> HIDE DEF c, t, u
<1> QED BY <1>1, <1>2, <1>3, <1>4, <1>5 DEF IsSched, u

\* ensureModelLocked leaves every credential of its provider that is not
\* blocked among the ready ones: the pick does not miss one whose time has
\* come.
LEMMA Ensured ==
  ASSUME NEW s, IsSched(s), NEW blocks, NEW p
  PROVE  LET u == ensureModelLocked(s, blocks, p) IN
           /\ IsSched(u) /\ s.ready \subseteq u.ready
           /\ \A b \in Auths : ProviderOf[b] = p /\ ~isAuthBlockedForModel(blocks[b], Route)
                => b \in u.ready
<1> DEFINE s1 == [s EXCEPT !.built = s.built \cup {p}]
           ready == s1.ready \cup {a \in Auths :
                      ProviderOf[a] = p /\ ~isAuthBlockedForModel(blocks[a], Route)}
           u == ensureModelLocked(s, blocks, p)
<1>1. IsSched(s1) /\ s1.ready = s.ready /\ s.ready \in SUBSET Auths
  <2>1. /\ s1 = [built |-> s1.built, ready |-> s1.ready, cursor |-> s1.cursor,
                 mixed |-> s1.mixed, turns |-> s1.turns]
        /\ s1.ready = s.ready /\ s1.cursor = s.cursor /\ s1.mixed = s.mixed
        /\ s1.turns = s.turns
    <3>1. s = [built |-> s.built, ready |-> s.ready, cursor |-> s.cursor,
               mixed |-> s.mixed, turns |-> s.turns]
      BY DEF IsSched
    <3> QED BY <3>1
  <2> HIDE DEF s1
  <2> QED BY <2>1 DEF IsSched
<1>2. u = IF ready = s1.ready THEN s1 ELSE rebuildIndexesLocked(s1, p, ready)
  BY DEF ensureModelLocked, promoteExpiredLocked
<1>3. /\ ready \in SUBSET Auths
      /\ \A b \in Auths : ProviderOf[b] # p => (b \in ready <=> b \in s1.ready)
  BY <1>1
<1> HIDE DEF s1
<1>4. IsSched(u) /\ u.ready = ready
  <2> HIDE DEF ready, u
  <2> QED BY <1>1, <1>2, <1>3, IndexesRebuilt
<1> HIDE DEF u
<1> QED BY <1>1, <1>4 DEF u

\* The same of all the shards a list of providers names, brought up to date
\* one by one.
LEMMA AllEnsured ==
  ASSUME NEW s, IsSched(s), NEW blocks, NEW list \in Lists
  PROVE  LET u == EnsureAll(s, blocks, list) IN
           /\ IsSched(u)
           /\ \A b \in Auths : /\ \E i \in DOMAIN list : list[i] = ProviderOf[b]
                               /\ ~isAuthBlockedForModel(blocks[b], Route)
                => b \in u.ready
<1> DEFINE Step1(x, i) == ensureModelLocked(x, blocks, list[i])
           Upto(g, n) == g = [i \in 0 .. n |-> IF i = 0 THEN s ELSE Step1(g[i - 1], i)]
           Open(b) == ~isAuthBlockedForModel(blocks[b], Route)
           L == Len(list)
<1>1. L \in Nat /\ DOMAIN list = 1 .. L
  BY SchedulerAssumption
<1> HIDE DEF L
\* There is a table of the shards brought up to date one by one.
<1>2. \A n \in Nat : \E g : Upto(g, n)
  <2> DEFINE S == {n \in Nat : ~ \E g : Upto(g, n)}
  <2> SUFFICES ASSUME S # {} PROVE FALSE
    OBVIOUS
  <2>1. PICK n \in S : \A k \in S : n <= k
    <3>1. S \in SUBSET Nat
      OBVIOUS
    <3> HIDE DEF S
    <3> QED BY <3>1, LeastNumber
  <2>2. n # 0
    <3> DEFINE g == [i \in 0 .. 0 |-> s]
    <3>1. Upto(g, 0)
      OBVIOUS
    <3> QED BY <3>1
  <2>3. n \in Nat /\ n - 1 \in Nat /\ n - 1 \notin S
    BY <2>1, <2>2
  <2>4. PICK g : Upto(g, n - 1)
    BY <2>3
  <2> DEFINE h == [i \in 0 .. n |-> IF i = n THEN Step1(g[n - 1], n) ELSE g[i]]
  <2>5. Upto(h, n)
    <3> HIDE DEF Step1
    <3>1. \A i \in 0 .. n : h[i] = IF i = n THEN Step1(g[n - 1], n) ELSE g[i]
      OBVIOUS
    <3>2. h[n - 1] = g[n - 1]
      BY <2>3, <3>1
    <3>3. \A i \in 0 .. n : h[i] = IF i = 0 THEN s ELSE Step1(h[i - 1], i)
      <4> TAKE i \in 0 .. n
      <4>1. CASE i = n
        BY <2>2, <2>3, <3>1, <3>2, <4>1
      <4>2. CASE i # n
        <5>1. i \in 0 .. n - 1 /\ (i # 0 => i - 1 \in 0 .. n /\ i - 1 # n)
          BY <2>3, <4>2
        <5>2. g[i] = IF i = 0 THEN s ELSE Step1(g[i - 1], i)
          BY <2>4, <5>1
        <5> QED BY <3>1, <4>2, <5>1, <5>2
      <4> QED BY <4>1, <4>2
    <3> QED BY <3>3
  <2> QED BY <2>3, <2>5
<1>3. PICK g : Upto(g, L) /\ EnsureAll(s, blocks, list) = g[L]
  <2>1. \E g : Upto(g, L)
    BY <1>1, <1>2
  <2> QED BY <2>1 DEF EnsureAll, L
<1>4. \A i \in 0 .. L : g[i] = IF i = 0 THEN s ELSE Step1(g[i - 1], i)
  <2> HIDE DEF Step1
  <2> QED BY <1>3
<1> HIDE DEF Upto
<1> DEFINE Covered(n) == /\ IsSched(g[n])
                         /\ \A b \in Auths : \A i \in 1 .. n :
                              list[i] = ProviderOf[b] /\ Open(b) => b \in g[n].ready
<1>5. \A n \in 0 .. L : Covered(n)
  <2> DEFINE S == {n \in 0 .. L : ~Covered(n)}
  <2> SUFFICES ASSUME S # {} PROVE FALSE
    OBVIOUS
  <2>1. PICK n \in S : \A k \in S : n <= k
    <3>1. S \in SUBSET Nat
      OBVIOUS
    <3> HIDE DEF S
    <3> QED BY <3>1, LeastNumber
  <2>2. Covered(0)
    BY <1>1, <1>4
  <2>3. n \in 1 .. L /\ n - 1 \in 0 .. L /\ n - 1 \notin S /\ ~Covered(n)
    <3>1. n # 0 /\ n \in 0 .. L /\ ~Covered(n)
      BY <2>2
    <3> HIDE DEF S, Covered
    <3>2. n \in 1 .. L /\ n - 1 \in 0 .. L
      BY <1>1, <3>1
    <3> QED BY <2>1, <3>1, <3>2
  <2>4. Covered(n - 1)
    BY <2>3
  <2>5. g[n] = ensureModelLocked(g[n - 1], blocks, list[n])
    BY <1>1, <1>4, <2>3
  <2>6. /\ IsSched(g[n]) /\ g[n - 1].ready \subseteq g[n].ready
        /\ \A b \in Auths : ProviderOf[b] = list[n] /\ Open(b) => b \in g[n].ready
    <3>1. IsSched(g[n - 1])
      BY <2>4
    <3> QED BY <2>5, <3>1, Ensured
  <2>7. Covered(n)
    <3> SUFFICES ASSUME NEW b \in Auths, NEW i \in 1 .. n, list[i] = ProviderOf[b], Open(b)
                 PROVE  b \in g[n].ready
      BY <2>6
    <3> HIDE DEF Open
    <3>1. CASE i = n
      BY <2>6, <3>1
    <3>2. CASE i # n
      <4>1. i \in 1 .. n - 1
        BY <1>1, <2>3, <3>2
      <4> QED BY <2>4, <2>6, <4>1
    <3> QED BY <3>1, <3>2
  <2> QED BY <2>3, <2>7
<1>6. Covered(L)
  BY <1>1, <1>5
<1> QED BY <1>1, <1>3, <1>6

\* What a pick answers: a credential of ok of priority n, or nobody.
Serves(x, ok, n) ==
  /\ IsSched(x.sched)
  /\ x.auth # NoAuth => x.auth \in ok /\ PriorityOf[x.auth] = n

\* A pick that serves nobody changes nothing.
LEMMA NobodyServed ==
  ASSUME NEW s, IsSched(s), NEW ok, NEW n
  PROVE  Serves(None(s), ok, n)
BY DEF Serves, None

\* Filling serves a credential the request may use, of the view's priority.
LEMMA FirstServed ==
  ASSUME NEW s, IsSched(s), NEW v, NEW ok
  PROVE  Serves(pickFirst(s, v, ok), ok, v.priority)
<1> DEFINE f == flat(s.ready, v)
           hits == {i \in DOMAIN f : f[i] \in ok}
           x == pickFirst(s, v, ok)
<1>1. /\ Len(f) \in Nat /\ DOMAIN f = 1 .. Len(f)
      /\ \A n \in DOMAIN f : PriorityOf[f[n]] = v.priority
  BY FlatEntries
<1>2. x = IF hits = {} THEN None(s) ELSE [auth |-> f[Min(hits)], sched |-> s]
  BY DEF pickFirst
<1> HIDE DEF f, x
<1>3. CASE hits = {}
  BY <1>2, <1>3, NobodyServed DEF x
<1>4. CASE hits # {}
  <2>1. hits \in SUBSET Nat
    BY <1>1
  <2>2. Min(hits) \in hits
    <3> HIDE DEF hits
    <3> QED BY <1>4, <2>1, LeastIs
  <2>3. x = [auth |-> f[Min(hits)], sched |-> s]
    BY <1>2, <1>4
  <2>4. f[Min(hits)] \in ok /\ PriorityOf[f[Min(hits)]] = v.priority
    BY <1>1, <2>2
  <2> HIDE DEF hits
  <2>5. Serves(x, ok, v.priority)
    BY <2>3, <2>4 DEF Serves
  <2> QED BY <2>5 DEF x
<1> QED BY <1>3, <1>4

\* The scheduler keeps its form when a cursor moves with its rotation.
LEMMA CursorMoved ==
  ASSUME NEW s, IsSched(s), NEW d \in [Views -> Nat], NEW t \in [Auths -> Int],
         \A v \in Views : ~v.ws => Rotates(flat(s.ready, v), d[v], t)
  PROVE  IsSched([s EXCEPT !.cursor = d, !.turns = t])
<1> DEFINE u == [s EXCEPT !.cursor = d, !.turns = t]
<1>1. u = [s EXCEPT !.cursor = d, !.turns = t]
  OBVIOUS
<1> HIDE DEF u
<1>2. IsSched(u)
  BY <1>1 DEF IsSched
<1> QED BY <1>1, <1>2

\* What HadTurns makes of the turns of a bucket.
LEMMA TurnsHad ==
  ASSUME NEW s, s.turns \in [Auths -> Int], s.ready \in SUBSET Auths,
         NEW v, v.ws = FALSE, NEW had \in SUBSET Members(s.ready, v), had # {}
  PROVE  LET t == HadTurns(s, v, had)
             M == Members(s.ready, v)
             once(a) == s.turns[a] + (IF a \in had THEN 1 ELSE 0)
         IN /\ t \in [Auths -> Int]
            /\ \A a \in Auths \ M : t[a] = s.turns[a]
            /\ \A a \in M : t[a] = IF \A b \in M : once(b) > 0 THEN once(a) - 1 ELSE once(a)
<1> DEFINE M == Members(s.ready, v)
           once(a) == s.turns[a] + (IF a \in had THEN 1 ELSE 0)
           o == [a \in Auths |-> once(a)]
           t == HadTurns(s, v, had)
<1>1. Bucket(s.ready, CHOOSE a \in had : TRUE) = M
  BY BucketIs
<1>2. t = IF \A b \in M : o[b] > 0
          THEN [b \in Auths |-> IF b \in M THEN o[b] - 1 ELSE o[b]] ELSE o
  BY <1>1 DEF HadTurns
<1>3. M \in SUBSET Auths /\ had \in SUBSET M
  BY DEF Members
<1>4. \A a \in Auths : once(a) \in Int /\ (a \notin had => once(a) = s.turns[a])
  OBVIOUS
<1> HIDE DEF M, t, once
<1>5. \A b \in M : o[b] = once(b)
  BY <1>3
<1>6. t = IF \A b \in M : once(b) > 0
          THEN [b \in Auths |-> IF b \in M THEN once(b) - 1 ELSE once(b)] ELSE o
  BY <1>2, <1>3, <1>5
<1>7. t \in [Auths -> Int]
  BY <1>4, <1>6
<1>8. \A a \in Auths \ M : t[a] = s.turns[a]
  BY <1>3, <1>4, <1>6
<1>9. \A a \in M : t[a] = IF \A b \in M : once(b) > 0 THEN once(a) - 1 ELSE once(a)
  BY <1>3, <1>6
<1> QED BY <1>7, <1>8, <1>9 DEF M, t, once

\* pickRoundRobin keeps the rotation of every bucket: the cursor of the one
\* that serves moves by as many entries as have their turn.
LEMMA TurnsKept ==
  ASSUME NEW s, IsSched(s), NEW v \in Views, NEW n, n = Len(flat(s.ready, v)),
         NEW o \in 0 .. n - 1, NEW had,
         \A x : x \in had <=>
           \E i \in 0 .. o : x = flat(s.ready, v)[((s.cursor[v] + i) % n) + 1]
  PROVE  LET t == HadTurns(s, v, had)
             d == [s.cursor EXCEPT ![v] = ((s.cursor[v] + o) % n) + 1]
         IN /\ t \in [Auths -> Int]
            /\ \A w \in Views : ~w.ws => Rotates(flat(s.ready, w), d[w], t)
<1> DEFINE f == flat(s.ready, v)
           c == s.cursor[v]
           At2(i) == f[((c + i) % n) + 1]
           t == HadTurns(s, v, had)
           e == ((c + o) % n) + 1
           d == [s.cursor EXCEPT ![v] = e]
           M == Members(s.ready, v)
<1>1. /\ s.turns \in [Auths -> Int] /\ s.ready \in SUBSET Auths /\ c \in Nat
      /\ \A w \in Views : ~w.ws => Rotates(flat(s.ready, w), s.cursor[w], s.turns)
  BY DEF IsSched
<1>2. \A w \in Views : d[w] = IF w = v THEN e ELSE s.cursor[w]
  BY DEF IsSched
<1>3. /\ n \in Nat /\ n > 0 /\ DOMAIN f = 1 .. n
      /\ \A i \in 1 .. n : f[i] \in M
  <2>1. /\ Len(f) \in Nat /\ DOMAIN f = 1 .. Len(f)
        /\ \A i \in DOMAIN f : f[i] \in M
    BY FlatEntries DEF Members
  <2> HIDE DEF f, M
  <2>2. n = Len(f)
    BY DEF f
  <2> QED BY <2>1, <2>2
<1>0. \A x : x \in had <=> \E i \in 0 .. o : x = At2(i)
  OBVIOUS
<1>4. CASE v.ws
  <2>1. t = s.turns
    BY <1>4 DEF HadTurns
  <2> HIDE DEF t, d
  <2>2. \A w \in Views : ~w.ws => Rotates(flat(s.ready, w), d[w], t)
    BY <1>1, <1>2, <1>4, <2>1
  <2> QED BY <1>1, <2>1, <2>2 DEF t, d
<1>5. CASE ~v.ws
  <2>0. v.ws = FALSE
    BY <1>5 DEF Views, View
  <2>1. \A i \in 0 .. o : ((c + i) % n) + 1 \in 1 .. n
    <3> TAKE i \in 0 .. o
    <3> DEFINE x == c + i
    <3>1. x \in Nat
      BY <1>1
    <3> HIDE DEF x
    <3>2. (x % n) + 1 \in 1 .. n
      BY <1>3, <3>1
    <3> QED BY <3>2 DEF x
  <2>2. had \in SUBSET M /\ had # {}
    <3>1. \A i \in 0 .. o : At2(i) \in M
      BY <1>3, <2>1
    <3>2. At2(0) \in had
      BY <1>0, <1>3
    <3> HIDE DEF At2, M
    <3> QED BY <1>0, <3>1, <3>2
  <2> DEFINE once(a) == s.turns[a] + (IF a \in had THEN 1 ELSE 0)
  <2>3. /\ t \in [Auths -> Int]
        /\ \A a \in Auths \ M : t[a] = s.turns[a]
        /\ \A a \in M : t[a] = IF \A b \in M : once(b) > 0 THEN once(a) - 1 ELSE once(a)
    <3> QED BY <1>1, <2>0, <2>2, TurnsHad
  <2>4. /\ \A b \in M : \E i \in 1 .. n : f[i] = b
        /\ \A i, j \in 1 .. n : f[i] = f[j] => i = j
    <3>1. /\ \A b \in M : \E i \in DOMAIN f : f[i] = b
          /\ \A i, j \in DOMAIN f : f[i] = f[j] => i = j
      <4>1. s.ready \in SUBSET Auths
        BY <1>1
      <4>2. \A x \in M : \E i \in DOMAIN f : f[i] = x
        <5> DEFINE R == s.ready
        <5>1. R \in SUBSET Auths
          BY <4>1
        <5> HIDE DEF R
        <5>2. \A x \in Members(R, v) : \E i \in DOMAIN flat(R, v) : flat(R, v)[i] = x
          BY <2>0, <5>1, ViewLists
        <5> QED BY <5>2 DEF R
      <4>3. \A i, j \in DOMAIN f : f[i] = f[j] => i = j
        BY <2>0, <4>1, ViewLists
      <4> QED BY <4>2, <4>3
    <3> HIDE DEF f, M
    <3> QED BY <1>3, <3>1
  <2> DEFINE hadAt(p) == \E i \in 0 .. o : ((c + i) % n) + 1 = p
             onceAt(p) == s.turns[f[p]] + (IF hadAt(p) THEN 1 ELSE 0)
  <2>5. \A p \in 1 .. n : f[p] \in had <=> hadAt(p)
    <3> DEFINE place(i) == ((c + i) % n) + 1
    <3>1. \A x : x \in had <=> \E i \in 0 .. o : x = f[place(i)]
      BY <1>0
    <3>2. \A i \in 0 .. o : place(i) \in 1 .. n
      BY <2>1
    <3>3. \A p : hadAt(p) <=> \E i \in 0 .. o : place(i) = p
      OBVIOUS
    <3> HIDE DEF f, place, hadAt
    <3> TAKE p \in 1 .. n
    <3>4. ASSUME f[p] \in had PROVE hadAt(p)
      <4>1. PICK i \in 0 .. o : f[p] = f[place(i)]
        BY <3>1, <3>4
      <4>2. place(i) = p
        BY <2>4, <3>2, <4>1
      <4> QED BY <3>3, <4>2
    <3>5. ASSUME hadAt(p) PROVE f[p] \in had
      <4>1. PICK i \in 0 .. o : place(i) = p
        BY <3>3, <3>5
      <4> QED BY <3>1, <4>1
    <3> QED BY <3>4, <3>5
  <2>6. \A p \in 1 .. n : once(f[p]) = onceAt(p)
    <3> HIDE DEF f, hadAt
    <3> QED BY <2>5
  <2>7. \A p \in 1 .. n : t[f[p]] = IF \A q \in 1 .. n : onceAt(q) > 0
                                   THEN onceAt(p) - 1 ELSE onceAt(p)
    <3> HIDE DEF f, M, once, onceAt, t
    <3>1. (\A b \in M : once(b) > 0) <=> (\A q \in 1 .. n : onceAt(q) > 0)
      BY <1>3, <2>4, <2>6
    <3> QED BY <1>3, <2>3, <2>6, <3>1
  <2>8. Rotates(f, e, t)
    <3>1. n = Len(f) /\ Rotates(f, c, s.turns)
      BY <1>1, <1>5
    <3> HIDE DEF f, t, c
    <3> QED BY <1>3, <2>7, <3>1, RotationKept
  <2>9. ASSUME NEW w \in Views, ~w.ws, w # v
        PROVE  Rotates(flat(s.ready, w), s.cursor[w], t)
    <3> DEFINE g == flat(s.ready, w)
    <3>1. \A x \in Members(s.ready, w) : x \in Auths \ M
      <4>1. w.provider # v.provider \/ w.priority # v.priority
        BY <1>5, <2>9 DEF Views, View
      <4> QED BY <1>1, <4>1 DEF Members
    <3>2. \A p \in 1 .. Len(g) : g[p] \in Members(s.ready, w)
      BY FlatEntries DEF Members
    <3> HIDE DEF M, t
    <3>3. \A p \in 1 .. Len(g) : t[g[p]] = s.turns[g[p]]
      <4> HIDE DEF g
      <4> QED BY <2>3, <3>1, <3>2
    <3>4. Rotates(g, s.cursor[w], s.turns)
      BY <1>1, <2>9
    <3> HIDE DEF g
    <3>5. Rotates(g, s.cursor[w], t)
      BY <3>3, <3>4, RotationCopies
    <3> QED BY <3>5 DEF g
  <2>10. \A w \in Views : ~w.ws => Rotates(flat(s.ready, w), d[w], t)
    <3> HIDE DEF t, e, d
    <3> QED BY <1>2, <2>8, <2>9 DEF f
  <2> HIDE DEF t, d
  <2> QED BY <2>3, <2>10 DEF t, d
<1> QED BY <1>4, <1>5

\* The rotation serves a credential the request may use, of the view's
\* priority, wherever the cursor is.
LEMMA TurnServed ==
  ASSUME NEW s, IsSched(s), NEW v \in Views, NEW ok
  PROVE  Serves(pickRoundRobin(s, v, ok), ok, v.priority)
<1> DEFINE f == flat(s.ready, v)
           At2(o) == f[((s.cursor[v] + o) % Len(f)) + 1]
           hits == {o \in 0 .. Len(f) - 1 : At2(o) \in ok}
           o == Min(hits)
           c == ((s.cursor[v] + o) % Len(f)) + 1
           t == HadTurns(s, v, {At2(i) : i \in 0 .. o})
           x == pickRoundRobin(s, v, ok)
<1>1. /\ Len(f) \in Nat /\ DOMAIN f = 1 .. Len(f)
      /\ \A n \in DOMAIN f : PriorityOf[f[n]] = v.priority
  BY FlatEntries
<1>2. x = IF hits = {} THEN None(s)
          ELSE [auth |-> At2(o), sched |-> [s EXCEPT !.cursor[v] = c, !.turns = t]]
  BY DEF pickRoundRobin
<1> HIDE DEF f, x, t
<1>3. CASE hits = {}
  BY <1>2, <1>3, NobodyServed DEF x
<1>4. CASE hits # {}
  <2>1. hits \in SUBSET Nat
    BY <1>1
  <2>2. o \in hits
    <3> HIDE DEF hits
    <3> QED BY <1>4, <2>1, LeastIs
  <2>3. s.cursor[v] \in Nat
    BY DEF IsSched
  <2>4. o \in 0 .. Len(f) - 1 /\ At2(o) \in ok
    BY <2>2
  <2>5. x = [auth |-> At2(o), sched |-> [s EXCEPT !.cursor[v] = c, !.turns = t]]
    BY <1>2, <1>4
  <2> HIDE DEF hits, o
  <2>6. c \in 1 .. Len(f)
    <3> DEFINE y == s.cursor[v] + o
               L == Len(f)
    <3>0. o \in 0 .. L - 1 /\ L \in Nat /\ s.cursor[v] \in Nat
      BY <1>1, <2>3, <2>4
    <3>1. y \in Nat /\ L \in Nat /\ L > 0
      <4> HIDE DEF L
      <4> QED BY <3>0
    <3>2. c = (y % L) + 1
      OBVIOUS
    <3> HIDE DEF y, c
    <3>3. c \in 1 .. L
      <4> HIDE DEF L
      <4> QED BY <3>1, <3>2
    <3> QED BY <3>3
  <2>7. At2(o) = f[c]
    OBVIOUS
  <2> HIDE DEF c
  <2>8. PriorityOf[At2(o)] = v.priority /\ c \in Nat
    BY <1>1, <2>6, <2>7
  <2> HIDE DEF At2
  <2>9. IsSched([s EXCEPT !.cursor[v] = c, !.turns = t])
    <3> DEFINE d == [s.cursor EXCEPT ![v] = c]
    <3>1. [s EXCEPT !.cursor[v] = c, !.turns = t] = [s EXCEPT !.cursor = d, !.turns = t]
      BY DEF IsSched
    <3>2. d \in [Views -> Nat]
      BY <2>8 DEF IsSched
    <3>3. /\ t \in [Auths -> Int]
          /\ \A w \in Views : ~w.ws => Rotates(flat(s.ready, w), d[w], t)
      <4> DEFINE had == {At2(i) : i \in 0 .. o}
      <4>1. \A y : y \in had <=>
              \E i \in 0 .. o : y = flat(s.ready, v)[((s.cursor[v] + i) % Len(f)) + 1]
        BY DEF At2, f
      <4>2. o \in 0 .. Len(f) - 1 /\ Len(f) = Len(flat(s.ready, v))
        BY <2>4 DEF f
      <4>3. t = HadTurns(s, v, had) /\ d = [s.cursor EXCEPT ![v] = ((s.cursor[v] + o) % Len(f)) + 1]
        BY DEF t, c
      <4> HIDE DEF had, t, d
      <4> QED BY <4>1, <4>2, <4>3, TurnsKept
    <3> HIDE DEF d
    <3>4. IsSched([s EXCEPT !.cursor = d, !.turns = t])
      BY <3>2, <3>3, CursorMoved
    <3> QED BY <3>1, <3>4
  <2>10. Serves(x, ok, v.priority)
    BY <2>4, <2>5, <2>8, <2>9 DEF Serves
  <2> QED BY <2>10 DEF x
<1> QED BY <1>3, <1>4

\* pickReadyAtPriorityLocked serves from the bucket it was given, with
\* websockets or without.
LEMMA BucketServed ==
  ASSUME NEW s, IsSched(s), NEW p, NEW ws \in BOOLEAN, NEW n, NEW strat,
         NEW ok \in SUBSET Auths, HasReady(s, View(p, n, FALSE), ok)
  PROVE  Serves(pickReadyAtPriorityLocked(s, p, ws, n, strat, ok), ok, n)
<1> DEFINE w == ws /\ HasReady(s, View(p, n, TRUE), ok)
           v == View(p, n, w)
<1>1. PICK a \in Auths : ProviderOf[a] = p /\ PriorityOf[a] = n
  BY DEF HasReady, View
<1>2. w \in BOOLEAN
  BY DEF HasReady
<1> HIDE DEF w
<1>3. v \in Views /\ v.priority = n
  BY <1>1, <1>2 DEF Views, View
<1>4. pickReadyAtPriorityLocked(s, p, ws, n, strat, ok) =
        IF strat = "fill-first" THEN pickFirst(s, v, ok) ELSE pickRoundRobin(s, v, ok)
  BY DEF pickReadyAtPriorityLocked, w
<1> HIDE DEF v
<1> QED BY <1>3, <1>4, FirstServed, TurnServed

\* A set of priorities that is not empty has a highest one.
LEMMA BestPriority ==
  ASSUME NEW S \in SUBSET Priorities, S # {}
  PROVE  Max(S) \in S /\ \A n \in S : n <= Max(S)
<1>3. IsFiniteSet(Priorities)
  <2> DEFINE P == [a \in Auths |-> PriorityOf[a]]
  <2>1. P \in Surjection(Auths, Priorities)
    BY DEF Priorities, Surjection
  <2> QED BY AuthsFinite, <2>1, FS_Surjection
<1>4. IsFiniteSet(S)
  BY <1>3, FS_Subset
<1>5. S \in SUBSET Int
  BY SchedulerAssumption DEF Priorities
<1> QED BY <1>4, <1>5, GreatestIs

\* pickReadyLocked serves the highest priority of the ready credentials of
\* its provider that the request may use, unless it prefers websockets.
LEMMA ShardServed ==
  ASSUME NEW s, IsSched(s), NEW p, NEW ws \in BOOLEAN, NEW strat, NEW ok \in SUBSET Auths
  PROVE  \E n : /\ Serves(pickReadyLocked(s, p, ws, strat, ok), ok, n)
                /\ ~ws /\ pickReadyLocked(s, p, ws, strat, ok).auth # NoAuth
                     => \A b \in ok \cap s.ready : ProviderOf[b] = p => PriorityOf[b] <= n
<1> DEFINE R == ReadyPriorities(s, p, ws, ok)
           n == Max(R)
           x == pickReadyLocked(s, p, ws, strat, ok)
<1>1. x = IF R = {} THEN None(s) ELSE pickReadyAtPriorityLocked(s, p, ws, n, strat, ok)
  BY DEF pickReadyLocked
<1>2. R \in SUBSET Priorities
  BY DEF ReadyPriorities
<1>3. \A i \in R : HasReady(s, View(p, i, FALSE), ok)
  BY DEF ReadyPriorities, HasReady, View
<1>4. \A b \in ok \cap s.ready : ~ws /\ ProviderOf[b] = p => PriorityOf[b] \in R
  BY DEF ReadyPriorities, HasReady, View, Priorities
<1> HIDE DEF R, x
<1>5. CASE R = {}
  <2>1. Serves(x, ok, n) /\ x.auth = NoAuth
    BY <1>1, <1>5, NobodyServed DEF None
  <2> HIDE DEF n
  <2> QED BY <2>1 DEF x
<1>6. CASE R # {}
  <2>1. n \in R /\ \A i \in R : i <= n
    BY <1>2, <1>6, BestPriority
  <2> HIDE DEF n
  <2>2. Serves(x, ok, n)
    BY <1>1, <1>3, <1>6, <2>1, BucketServed
  <2>3. ~ws => \A b \in ok \cap s.ready : ProviderOf[b] = p => PriorityOf[b] <= n
    BY <1>4, <2>1
  <2> QED BY <2>2, <2>3 DEF x
<1> QED BY <1>5, <1>6

\* The scheduler keeps its form when a mixed cursor moves.
LEMMA SlotMoved ==
  ASSUME NEW x, IsSched(x.sched), NEW list, NEW k \in Nat
  PROVE  LET u == [x EXCEPT !.sched.mixed[list] = k]
         IN x = [auth |-> x.auth, sched |-> x.sched]
              => IsSched(u.sched) /\ u.auth = x.auth
<1> SUFFICES ASSUME x = [auth |-> x.auth, sched |-> x.sched]
             PROVE  LET u == [x EXCEPT !.sched.mixed[list] = k]
                    IN IsSched(u.sched) /\ u.auth = x.auth
  OBVIOUS
<1> DEFINE d == [x.sched.mixed EXCEPT ![list] = k]
           w == [x.sched EXCEPT !.mixed = d]
           u == [x EXCEPT !.sched.mixed[list] = k]
<1>1. d \in [Lists -> Nat]
  BY DEF IsSched
<1>2. w = [x.sched EXCEPT !.mixed = d]
  OBVIOUS
<1> HIDE DEF d
<1>3. u = [x EXCEPT !.sched = w]
  BY DEF d
<1> HIDE DEF w
<1>4. IsSched(w)
  BY <1>1, <1>2 DEF IsSched
<1> HIDE DEF u
<1>5. u.sched = w /\ u.auth = x.auth
  BY <1>3
<1> QED BY <1>4, <1>5 DEF u

\* pickMixedAt serves from the priority it was given: the slot it starts at
\* belongs to a provider, and the provider it turns to has somebody to serve.
LEMMA MixedServed ==
  ASSUME NEW s, IsSched(s), NEW best, NEW list \in Lists, NEW strat, NEW ok \in SUBSET Auths,
         \E i \in DOMAIN list : HasReady(s, View(list[i], best, FALSE), ok)
  PROVE  Serves(pickMixedAt(s, best, list, strat, ok), ok, best)
<1> DEFINE I == DOMAIN list
           L == Len(list)
           members(n) == {a \in s.ready : /\ PriorityOf[a] = best
                                          /\ \E j \in 1 .. n : list[j] = ProviderOf[a]}
           end(n) == Cardinality(members(n))
           pick(i) == pickReadyAtPriorityLocked(s, list[i], FALSE, best, strat, ok)
           takers == {i \in I : HasReady(s, View(list[i], best, FALSE), ok)}
           start == s.mixed[list] % end(L)
           first == Min({i \in I : start < end(i)})
           step(i) == (i - first + L) % L
           chosen == CHOOSE i \in takers : \A j \in takers : step(i) <= step(j)
           slot == IF chosen = first THEN start ELSE end(chosen - 1)
           x == pickMixedAt(s, best, list, strat, ok)
<1>1. x = IF strat = "fill-first" THEN pick(Min(takers))
          ELSE [pick(chosen) EXCEPT !.sched.mixed[list] = slot + 1]
  BY DEF pickMixedAt
<1>2. L \in Nat /\ I = 1 .. L
  BY SchedulerAssumption
<1>3. takers # {} /\ takers \in SUBSET I
  OBVIOUS
<1>4. \A i \in takers : Serves(pick(i), ok, best)
  <2> TAKE i \in takers
  <2> QED BY BucketServed
<1>5. \A n : end(n) \in Nat
  <2> TAKE n
  <2>1. members(n) \in SUBSET s.ready /\ IsFiniteSet(s.ready)
    BY DEF IsSched
  <2> HIDE DEF members
  <2>2. IsFiniteSet(members(n))
    BY <2>1, FS_Subset
  <2> QED BY <2>2, FS_CardinalityType
<1>6. end(L) > 0
  <2>1. PICK i \in I : HasReady(s, View(list[i], best, FALSE), ok)
    OBVIOUS
  <2>2. PICK a \in members(L) : TRUE
    BY <1>2, <2>1 DEF HasReady, View
  <2>3. members(L) \in SUBSET s.ready /\ IsFiniteSet(s.ready)
    BY DEF IsSched
  <2> HIDE DEF members
  <2>4. IsFiniteSet(members(L)) /\ members(L) # {}
    BY <2>2, <2>3, FS_Subset
  <2>5. end(L) # 0 /\ end(L) \in Nat
    BY <2>4, FS_CardinalityType, FS_EmptySet
  <2> QED BY <2>5
<1>7. \A i \in I : pick(i) = [auth |-> pick(i).auth, sched |-> pick(i).sched]
  <2> TAKE i \in I
  <2> DEFINE v == View(list[i], best, FALSE /\ HasReady(s, View(list[i], best, TRUE), ok))
  <2>1. pick(i) = IF strat = "fill-first" THEN pickFirst(s, v, ok) ELSE pickRoundRobin(s, v, ok)
    BY DEF pickReadyAtPriorityLocked
  <2> HIDE DEF v, pick
  <2>2. pickFirst(s, v, ok) = [auth |-> pickFirst(s, v, ok).auth, sched |-> pickFirst(s, v, ok).sched]
    BY DEF pickFirst, None
  <2>3. pickRoundRobin(s, v, ok)
          = [auth |-> pickRoundRobin(s, v, ok).auth, sched |-> pickRoundRobin(s, v, ok).sched]
    BY DEF pickRoundRobin, None
  <2> QED BY <2>1, <2>2, <2>3
<1> HIDE DEF x, takers, members, pick
<1>8. CASE strat = "fill-first"
  <2>1. Min(takers) \in takers
    BY <1>2, <1>3, LeastIs
  <2> QED BY <1>1, <1>4, <1>8, <2>1 DEF x
<1>9. CASE strat # "fill-first"
  <2>0. s.mixed[list] \in Nat /\ end(L) \in Nat
    BY <1>5 DEF IsSched
  <2> HIDE DEF end
  <2>1. start \in Nat /\ start < end(L)
    BY <1>6, <2>0
  <2>2. L \in I /\ L > 0
    BY <1>2, <1>3
  <2> HIDE DEF start, L
  <2>3. first \in I
    <3> DEFINE F == {i \in I : start < end(i)}
    <3>1. F \in SUBSET Nat /\ F # {} /\ F \in SUBSET I
      BY <1>2, <2>1, <2>2
    <3> HIDE DEF F
    <3>2. Min(F) \in F
      BY <3>1, LeastIs
    <3> QED BY <3>1, <3>2 DEF F
  <2> HIDE DEF first
  <2>4. \A i \in takers : step(i) \in Nat
    <3> TAKE i \in takers
    <3>1. i \in 1 .. L /\ first \in 1 .. L
      BY <1>2, <1>3, <2>3
    <3> QED BY <1>2, <2>2, <3>1
  <2> HIDE DEF step
  <2>5. chosen \in takers
    <3> DEFINE S == {step(i) : i \in takers}
    <3>1. S \in SUBSET Nat /\ S # {}
      BY <1>3, <2>4
    <3> HIDE DEF S
    <3>2. PICK y \in S : \A z \in S : y <= z
      BY <3>1, LeastNumber
    <3>3. PICK i \in takers : y = step(i)
      BY DEF S
    <3>4. \A j \in takers : step(i) <= step(j)
      BY <3>2, <3>3 DEF S
    <3> QED BY <3>4
  <2>6. slot \in Nat
    BY <1>5, <2>1
  <2> HIDE DEF chosen, slot
  <2>7. Serves(pick(chosen), ok, best)
        /\ pick(chosen) = [auth |-> pick(chosen).auth, sched |-> pick(chosen).sched]
    BY <1>3, <1>4, <1>7, <2>5
  <2>8. IsSched(pick(chosen).sched) /\ slot + 1 \in Nat
    BY <2>6, <2>7 DEF Serves
  <2> DEFINE u == [pick(chosen) EXCEPT !.sched.mixed[list] = slot + 1]
  <2>9. IsSched(u.sched) /\ u.auth = pick(chosen).auth
    BY <2>7, <2>8, SlotMoved
  <2>10. x = u
    BY <1>1, <1>9
  <2> HIDE DEF u
  <2>11. Serves(x, ok, best)
    BY <2>7, <2>9, <2>10 DEF Serves
  <2> QED BY <2>11 DEF x
<1> QED BY <1>8, <1>9

\* What the manager asks of a pick: a credential that may be used, and none
\* that may be used and is not blocked has a higher priority, unless the
\* request prefers websockets.
Allowed(b, list, pin, tried) ==
  /\ b \in Auths \ tried /\ pin \in {NoAuth, b}
  /\ \E i \in DOMAIN list : list[i] = ProviderOf[b]

Chosen(x, blocks, list, pin, ws, tried) ==
  /\ IsSched(x.sched)
  /\ x.auth # NoAuth =>
       /\ x.auth \in Auths \ tried
       /\ ~ws => \A b \in Auths :
            Allowed(b, list, pin, tried) /\ ~isAuthBlockedForModel(blocks[b], Route)
              => PriorityOf[b] <= PriorityOf[x.auth]

\* A pick from one provider brings its shard up to date first, so nobody
\* better is missed.
LEMMA SingleServed ==
  ASSUME NEW s, IsSched(s), NEW blocks, NEW p, NEW ws \in BOOLEAN, NEW strat,
         NEW ok \in SUBSET Auths
  PROVE  LET x == pickSingle(s, blocks, p, ws, strat, ok) IN
           /\ IsSched(x.sched)
           /\ x.auth # NoAuth =>
                /\ x.auth \in ok
                /\ ~ws => \A b \in ok : ProviderOf[b] = p /\ ~isAuthBlockedForModel(blocks[b], Route)
                                          => PriorityOf[b] <= PriorityOf[x.auth]
<1> DEFINE u == ensureModelLocked(s, blocks, p)
           x == pickSingle(s, blocks, p, ws, strat, ok)
           Open(b) == ~isAuthBlockedForModel(blocks[b], Route)
<1>1. /\ IsSched(u)
      /\ \A b \in Auths : ProviderOf[b] = p /\ Open(b) => b \in u.ready
  BY Ensured
<1>2. x = pickReadyLocked(u, p, ws, strat, ok)
  BY DEF pickSingle
<1> HIDE DEF u, x, Open
<1>3. PICK n : /\ Serves(x, ok, n)
               /\ ~ws /\ x.auth # NoAuth
                    => \A b \in ok \cap u.ready : ProviderOf[b] = p => PriorityOf[b] <= n
  BY <1>1, <1>2, ShardServed
<1>4. IsSched(x.sched) /\ (x.auth # NoAuth => x.auth \in ok /\ PriorityOf[x.auth] = n)
  BY <1>3 DEF Serves
<1>5. x.auth # NoAuth /\ ~ws =>
        \A b \in ok : ProviderOf[b] = p /\ Open(b) => PriorityOf[b] <= PriorityOf[x.auth]
  BY <1>1, <1>3, <1>4
<1> QED BY <1>4, <1>5 DEF x, Open

\* A pick from several providers serves the highest priority of all of them.
LEMMA SeveralServed ==
  ASSUME NEW s, IsSched(s), NEW blocks, NEW list \in Lists, NEW strat, NEW ok \in SUBSET Auths
  PROVE  LET x == pickMixed(s, blocks, list, strat, ok) IN
           /\ IsSched(x.sched)
           /\ x.auth # NoAuth =>
                /\ x.auth \in ok
                /\ \A b \in ok : /\ \E i \in DOMAIN list : list[i] = ProviderOf[b]
                                 /\ ~isAuthBlockedForModel(blocks[b], Route)
                     => PriorityOf[b] <= PriorityOf[x.auth]
<1> DEFINE u == EnsureAll(s, blocks, list)
           R == UNION {ReadyPriorities(u, list[i], FALSE, ok) : i \in DOMAIN list}
           n == Max(R)
           x == pickMixed(s, blocks, list, strat, ok)
           Open(b) == ~isAuthBlockedForModel(blocks[b], Route)
           Listed(b) == \E i \in DOMAIN list : list[i] = ProviderOf[b]
<1>1. /\ IsSched(u)
      /\ \A b \in Auths : Listed(b) /\ Open(b) => b \in u.ready
  BY AllEnsured
<1>2. x = IF R = {} THEN None(u) ELSE pickMixedAt(u, n, list, strat, ok)
  BY DEF pickMixed, pickMixedLocked, pickMixedReady
<1> HIDE DEF u, Open
<1>3. R \in SUBSET Priorities
  BY DEF ReadyPriorities
<1>4. \A k \in R : \E i \in DOMAIN list : HasReady(u, View(list[i], k, FALSE), ok)
  BY DEF ReadyPriorities
<1>5. \A b \in ok : Listed(b) /\ Open(b) => PriorityOf[b] \in R
  <2> SUFFICES ASSUME NEW b \in ok, Listed(b), Open(b) PROVE PriorityOf[b] \in R
    OBVIOUS
  <2>1. PICK i \in DOMAIN list : list[i] = ProviderOf[b]
    OBVIOUS
  <2>2. PriorityOf[b] \in ReadyPriorities(u, list[i], FALSE, ok)
    BY <1>1, <2>1 DEF ReadyPriorities, HasReady, View, Priorities
  <2> QED BY <2>2
<1> HIDE DEF x, R, Listed
<1>6. CASE R = {}
  <2>1. IsSched(x.sched) /\ x.auth = NoAuth
    BY <1>1, <1>2, <1>6 DEF None
  <2> QED BY <2>1 DEF x
<1>7. CASE R # {}
  <2>1. n \in R /\ \A i \in R : i <= n
    BY <1>3, <1>7, BestPriority
  <2> HIDE DEF n
  <2>2. Serves(pickMixedAt(u, n, list, strat, ok), ok, n)
    BY <1>1, <1>4, <2>1, MixedServed
  <2>3. IsSched(x.sched) /\ (x.auth # NoAuth => x.auth \in ok /\ PriorityOf[x.auth] = n)
    BY <1>2, <1>7, <2>2 DEF Serves
  <2>4. x.auth # NoAuth =>
          \A b \in ok : Listed(b) /\ Open(b) => PriorityOf[b] <= PriorityOf[x.auth]
    BY <1>5, <2>1, <2>3
  <2> QED BY <2>3, <2>4 DEF x, Open, Listed
<1> QED BY <1>6, <1>7

\* pickCredential serves the best the request may use: with one provider,
\* with several, and with a pin.
LEMMA CredentialChosen ==
  ASSUME NEW s, IsSched(s), NEW blocks, NEW list \in Lists, NEW pin \in Auths \cup {NoAuth},
         NEW ws \in BOOLEAN, NEW strat, NEW tried
  PROVE  Chosen(pickCredential(s, blocks, list, pin, ws, strat, tried),
                blocks, list, pin, ws, tried)
<1> DEFINE x == pickCredential(s, blocks, list, pin, ws, strat, tried)
           w == ws /\ list[1] \in WsProviders
           ok == IF pin = NoAuth THEN Auths \ tried ELSE {pin} \ tried
           Open(b) == ~isAuthBlockedForModel(blocks[b], Route)
<1>1. ok \in SUBSET Auths /\ w \in BOOLEAN /\ (w => ws) /\ \A b \in ok : b \notin tried
  OBVIOUS
<1>2. \A b : Allowed(b, list, pin, tried) => b \in ok
  BY DEF Allowed
<1> HIDE DEF w, Open
<1>3. CASE pin = NoAuth /\ Len(list) = 1
  <2>1. x = pickSingle(s, blocks, list[1], w, strat, ok)
    BY <1>3 DEF pickCredential, w
  <2> HIDE DEF x, ok
  <2>2. /\ IsSched(x.sched)
        /\ x.auth # NoAuth =>
             /\ x.auth \in ok
             /\ ~w => \A b \in ok : ProviderOf[b] = list[1] /\ Open(b)
                                      => PriorityOf[b] <= PriorityOf[x.auth]
    BY <1>1, <2>1, SingleServed DEF Open
  <2>3. DOMAIN list = {1}
    BY <1>3, SchedulerAssumption
  <2>4. \A b : Allowed(b, list, pin, tried) => ProviderOf[b] = list[1]
    BY <2>3 DEF Allowed
  <2>5. Chosen(x, blocks, list, pin, ws, tried)
    BY <1>1, <1>2, <2>2, <2>4 DEF Chosen, Open
  <2> QED BY <2>5 DEF x
<1>4. CASE pin = NoAuth /\ Len(list) # 1
  <2>1. x = pickMixed(s, blocks, list, strat, ok)
    BY <1>4 DEF pickCredential
  <2> HIDE DEF x, ok
  <2>2. /\ IsSched(x.sched)
        /\ x.auth # NoAuth =>
             /\ x.auth \in ok
             /\ \A b \in ok : (\E i \in DOMAIN list : list[i] = ProviderOf[b]) /\ Open(b)
                                => PriorityOf[b] <= PriorityOf[x.auth]
    BY <1>1, <2>1, SeveralServed DEF Open
  <2>3. Chosen(x, blocks, list, pin, ws, tried)
    BY <1>1, <1>2, <2>2 DEF Chosen, Open, Allowed
  <2> QED BY <2>3 DEF x
<1>5. CASE pin # NoAuth
  <2> DEFINE p == IF Len(list) = 1 THEN list[1] ELSE ProviderOf[pin]
  <2>1. x = None(s) \/ x = pickSingle(s, blocks, p, FALSE, strat, ok)
    BY <1>5 DEF pickCredential
  <2>2. \A a, b \in ok : PriorityOf[a] <= PriorityOf[b]
    BY <1>5, SchedulerAssumption
  <2> HIDE DEF x, ok, p
  <2>3. IsSched(x.sched) /\ (x.auth # NoAuth => x.auth \in ok)
    <3>1. CASE x = None(s)
      BY <3>1 DEF None
    <3>2. CASE x = pickSingle(s, blocks, p, FALSE, strat, ok)
      BY <1>1, <3>2, SingleServed
    <3> QED BY <2>1, <3>1, <3>2
  <2>4. Chosen(x, blocks, list, pin, ws, tried)
    BY <1>1, <1>2, <2>2, <2>3 DEF Chosen
  <2> QED BY <2>4 DEF x
<1> QED BY <1>3, <1>4, <1>5

\* A rebuilt scheduler has its form: nobody has had a turn.
LEMMA RebuiltSched == IsSched(rebuild)
<1> DEFINE none == [v \in Views |-> 0]
<1>1. /\ rebuild = [built |-> {}, ready |-> {}, cursor |-> none,
                     mixed |-> [l \in Lists |-> 0], turns |-> NoTurns]
      /\ none \in [Views -> Nat] /\ NoTurns \in [Auths -> Int]
  BY DEF rebuild, NoTurns
<1>2. \A v \in Views : Rotates(flat({}, v), 0, NoTurns)
  <2> TAKE v \in Views
  <2> DEFINE f == flat({}, v)
  <2>1. Len(f) = 0
    <3>1. Len(f) \in Nat /\ DOMAIN f = 1 .. Len(f) /\ \A n \in DOMAIN f : f[n] \in {}
      BY FlatEntries
    <3> HIDE DEF f
    <3> QED BY <3>1
  <2> QED BY <2>1 DEF Rotates
<1> HIDE DEF none
<1>3. \A v \in Views : none[v] = 0
  BY DEF none
<1> QED BY <1>1, <1>2, <1>3, FS_EmptySet DEF IsSched

\* So does the pick that falls back on a rebuilt scheduler (pickNextMixed).
LEMMA NextChosen ==
  ASSUME IsSched(sched), NEW list \in Lists, NEW pin \in Auths \cup {NoAuth},
         NEW ws \in BOOLEAN, NEW tried
  PROVE  Chosen(pickNextMixed(list, pin, ws, tried), auths, list, pin, ws, tried)
<1>1. IsSched(rebuild)
  BY RebuiltSched
<1>2. /\ Chosen(pickCredential(sched, auths, list, pin, ws, strategy, tried),
                auths, list, pin, ws, tried)
      /\ Chosen(pickCredential(rebuild, auths, list, pin, ws, strategy, tried),
                auths, list, pin, ws, tried)
  BY <1>1, CredentialChosen
<1> QED BY <1>2 DEF pickNextMixed, retrySchedulerPick

-----------------------------------------------------------------------------
(*************************************************************************)
(* The way of a request to its end.                                      *)
(*************************************************************************)
LEMMA LastAttemptIs ==
  LastAttempt \in Nat /\ \A a \in Auths : RetryOf[a] <= LastAttempt
<1> DEFINE R == {RetryOf[a] : a \in Auths}
           S == {0} \cup R
           f == [a \in Auths |-> RetryOf[a]]
<1>1. IsFiniteSet(R)
  <2>1. f \in Surjection(Auths, R)
    BY DEF Surjection
  <2> HIDE DEF R, f
  <2> QED BY <2>1, AuthsFinite, FS_Surjection
<1>2. S \in SUBSET Nat /\ 0 \in S /\ \A a \in Auths : RetryOf[a] \in S
  BY ExecutionAssumption
<1>3. IsFiniteSet(S)
  BY <1>1, FS_AddElement
<1> HIDE DEF S, R
<1>4. S \in SUBSET Int /\ S # {}
  BY <1>2
<1>5. Max(S) \in S /\ \A y \in S : y <= Max(S)
  BY <1>3, <1>4, GreatestIs
<1>6. LastAttempt = Max(S)
  BY DEF LastAttempt, S, R
<1> QED BY <1>2, <1>5, <1>6

\* The stages of a call.
InCall == {"prepare", "call", "unready"} \cup Answering

\* What a request must be for its distance to count, and for its results to
\* reach the scheduler: no more attempts than retries, one refresh, and a
\* credential while a call goes on.
Going(q) ==
  /\ q = [f \in Fields |-> q[f]]
  /\ q.pc \in Stages
  /\ q.attempt \in 0 .. LastAttempt
  /\ q.pc = "waiting" => q.attempt < LastAttempt
  /\ q.tried \in SUBSET Auths
  /\ Len(q.models) \in Nat /\ \E S : q.models \in Seq(S)
  /\ q.refreshed \in BOOLEAN /\ q.blank \in BOOLEAN
  /\ q.pc = "refresh" => ~q.refreshed
  /\ q.pc \notin {"new", "done"} => q.call \in Calls
  /\ q.pc \in InCall => q.auth \in Auths

Rank(pc) ==
  LET place == [mark |-> 1, unready |-> 2, refresh |-> 3, streaming |-> 4, bootstrap |-> 5,
                sent |-> 6, call |-> 7, prepare |-> 8]
  IN IF pc \in DOMAIN place THEN place[pc] ELSE 0

SameRound(q, n) == q.attempt = n.attempt /\ q.pc # "waiting" /\ n.pc # "waiting"

SameAuth(q, n) ==
  SameRound(q, n) /\ q.tried = n.tried /\ q.pc # "head" /\ n.pc # "head"

SameModel(q, n) == SameAuth(q, n) /\ Len(q.models) = Len(n.models)

\* The ways in which a step takes a request on: it ends, its round ends, the
\* next credential's turn comes, the credential is left, the next model's turn
\* comes, the credential is refreshed, the call goes on.
Toward(q, n) ==
  \/ n.pc = "done"
  \/ q.attempt < n.attempt
  \/ q.attempt = n.attempt /\ q.pc # "waiting" /\ n.pc = "waiting"
  \/ SameRound(q, n) /\ \E a \in n.tried : a \notin q.tried /\ n.tried = q.tried \cup {a}
  \/ SameRound(q, n) /\ q.tried = n.tried /\ q.pc # "head" /\ n.pc = "head"
  \/ SameAuth(q, n) /\ Len(n.models) < Len(q.models)
  \/ SameModel(q, n) /\ ~q.refreshed /\ n.refreshed
  \/ SameModel(q, n) /\ q.refreshed = n.refreshed /\ Rank(n.pc) < Rank(q.pc)
  \/ SameModel(q, n) /\ q.refreshed = n.refreshed /\ q.pc = n.pc /\ ~q.blank /\ n.blank

\* Six numbers are nearer when the first that differs is less.
LEMMA Lexicographic ==
  ASSUME NEW x1, NEW x2, NEW x3, NEW x4, NEW x5, NEW x6,
         NEW y1, NEW y2, NEW y3, NEW y4, NEW y5, NEW y6,
         \/ x1 < y1
         \/ x1 = y1 /\ x2 < y2
         \/ x1 = y1 /\ x2 = y2 /\ x3 < y3
         \/ x1 = y1 /\ x2 = y2 /\ x3 = y3 /\ x4 < y4
         \/ x1 = y1 /\ x2 = y2 /\ x3 = y3 /\ x4 = y4 /\ x5 < y5
         \/ x1 = y1 /\ x2 = y2 /\ x3 = y3 /\ x4 = y4 /\ x5 = y5 /\ x6 < y6
  PROVE  Nearer(<<x1, x2, x3, x4, x5, x6>>, <<y1, y2, y3, y4, y5, y6>>)
<1> DEFINE x == <<x1, x2, x3, x4, x5, x6>>
           y == <<y1, y2, y3, y4, y5, y6>>
           At2(i) == x[i] < y[i] /\ \A j \in 1 .. i - 1 : x[j] = y[j]
<1>1. DOMAIN y = 1 .. 6
  OBVIOUS
<1>2. \E i \in 1 .. 6 : At2(i)
  <2>1. CASE x1 < y1
    <3>1. At2(1) BY <2>1
    <3> QED BY <3>1
  <2>2. CASE x1 = y1 /\ x2 < y2
    <3>1. At2(2) BY <2>2
    <3> QED BY <3>1
  <2>3. CASE x1 = y1 /\ x2 = y2 /\ x3 < y3
    <3>1. At2(3) BY <2>3
    <3> QED BY <3>1
  <2>4. CASE x1 = y1 /\ x2 = y2 /\ x3 = y3 /\ x4 < y4
    <3>1. At2(4) BY <2>4
    <3> QED BY <3>1
  <2>5. CASE x1 = y1 /\ x2 = y2 /\ x3 = y3 /\ x4 = y4 /\ x5 < y5
    <3>1. At2(5) BY <2>5
    <3> QED BY <3>1
  <2>6. CASE x1 = y1 /\ x2 = y2 /\ x3 = y3 /\ x4 = y4 /\ x5 = y5 /\ x6 < y6
    <3>1. At2(6) BY <2>6
    <3> QED BY <3>1
  <2> QED BY <2>1, <2>2, <2>3, <2>4, <2>5, <2>6
<1> QED BY <1>1, <1>2 DEF Nearer

\* Each of the ways in which a step takes a request on makes its distance
\* less.
LEMMA TowardIsNearer ==
  ASSUME NEW q, Going(q), q.pc # "done", NEW n, Going(n), Toward(q, n)
  PROVE  Nearer(Distance(n), Distance(q))
<1> DEFINE bit(b) == IF b THEN 0 ELSE 1
           left(u) == IF u.pc = "waiting" THEN 0 ELSE 1 + Cardinality(Auths \ u.tried)
           models(u) == IF u.pc = "head" THEN 0 ELSE 1 + Len(u.models)
           D(u) == <<LastAttempt + 1 - u.attempt, left(u), models(u), bit(u.refreshed),
                     Rank(u.pc), bit(u.blank)>>
<1>1. \A u \in {q, n} : u.pc # "done" => Distance(u) = D(u)
  BY DEF Distance, Rank
<1>2. n.pc = "done" => Distance(n) = <<0, 0, 0, 0, 0, 0>>
  BY DEF Distance
<1>3. /\ q.attempt \in 0 .. LastAttempt /\ n.attempt \in 0 .. LastAttempt /\ LastAttempt \in Nat
      /\ Len(q.models) \in Nat /\ Len(n.models) \in Nat
      /\ q.tried \in SUBSET Auths /\ n.tried \in SUBSET Auths
  BY LastAttemptIs DEF Going
<1>4. \A u \in {q, n} : IsFiniteSet(Auths \ u.tried) /\ Cardinality(Auths \ u.tried) \in Nat
  BY AuthsFinite, FS_Subset, FS_CardinalityType
<1> HIDE DEF Distance
<1>5. CASE n.pc = "done"
  <2>1. 0 < LastAttempt + 1 - q.attempt
    BY <1>3
  <2> HIDE DEF bit, left, models
  <2>2. Nearer(<<0, 0, 0, 0, 0, 0>>, D(q))
    BY <2>1, Lexicographic
  <2> QED BY <1>1, <1>2, <1>5, <2>2
<1>6. CASE n.pc # "done"
  <2> DEFINE d(u) == LastAttempt + 1 - u.attempt
  <2> SUFFICES \/ d(n) < d(q)
               \/ d(n) = d(q) /\ left(n) < left(q)
               \/ d(n) = d(q) /\ left(n) = left(q) /\ models(n) < models(q)
               \/ /\ d(n) = d(q) /\ left(n) = left(q) /\ models(n) = models(q)
                  /\ bit(n.refreshed) < bit(q.refreshed)
               \/ /\ d(n) = d(q) /\ left(n) = left(q) /\ models(n) = models(q)
                  /\ bit(n.refreshed) = bit(q.refreshed) /\ Rank(n.pc) < Rank(q.pc)
               \/ /\ d(n) = d(q) /\ left(n) = left(q) /\ models(n) = models(q)
                  /\ bit(n.refreshed) = bit(q.refreshed) /\ Rank(n.pc) = Rank(q.pc)
                  /\ bit(n.blank) < bit(q.blank)
    <3> HIDE DEF bit, left, models
    <3>1. Distance(n) = D(n) /\ Distance(q) = D(q)
      BY <1>1, <1>6
    <3>2. Nearer(D(n), D(q))
      <4> HIDE DEF d
      <4> QED BY Lexicographic DEF d
    <3> QED BY <3>1, <3>2
  <2>1. CASE q.attempt < n.attempt
    BY <1>3, <2>1
  <2>2. CASE q.attempt = n.attempt /\ q.pc # "waiting" /\ n.pc = "waiting"
    BY <1>3, <1>4, <2>2
  <2>3. CASE SameRound(q, n) /\ \E a \in n.tried : a \notin q.tried /\ n.tried = q.tried \cup {a}
    <3>1. PICK a \in n.tried : a \notin q.tried /\ n.tried = q.tried \cup {a}
      BY <2>3
    <3> DEFINE Q == Auths \ q.tried
               N == Auths \ n.tried
    <3>2. N = Q \ {a} /\ a \in Q
      BY <1>3, <3>1
    <3>3. IsFiniteSet(Q) /\ Cardinality(Q) \in Nat /\ Cardinality(N) \in Nat
      BY <1>4
    <3>4. left(n) = 1 + Cardinality(N) /\ left(q) = 1 + Cardinality(Q)
      BY <2>3 DEF SameRound
    <3> HIDE DEF Q, N
    <3>5. Cardinality(N) = Cardinality(Q) - 1
      BY <3>2, <3>3, FS_RemoveElement
    <3>6. d(n) = d(q)
      BY <2>3 DEF SameRound
    <3> HIDE DEF left
    <3> QED BY <3>3, <3>4, <3>5, <3>6
  <2>4. CASE SameRound(q, n) /\ q.tried = n.tried /\ q.pc # "head" /\ n.pc = "head"
    <3>1. d(n) = d(q) /\ left(n) = left(q) /\ models(n) = 0 /\ models(q) > 0
      BY <1>3, <2>4 DEF SameRound
    <3> HIDE DEF models
    <3> QED BY <3>1
  <2>5. CASE SameAuth(q, n) /\ Len(n.models) < Len(q.models)
    <3>1. d(n) = d(q) /\ left(n) = left(q) /\ models(n) < models(q)
      BY <1>3, <2>5 DEF SameAuth, SameRound
    <3> QED BY <3>1
  <2>6. ASSUME SameModel(q, n)
        PROVE  d(n) = d(q) /\ left(n) = left(q) /\ models(n) = models(q)
    BY <2>6 DEF SameModel, SameAuth, SameRound
  <2>7. CASE SameModel(q, n) /\ ~q.refreshed /\ n.refreshed
    <3>1. bit(n.refreshed) < bit(q.refreshed)
      BY <2>7
    <3> HIDE DEF bit, d, left, models
    <3> QED BY <2>6, <2>7, <3>1
  <2>8. CASE SameModel(q, n) /\ q.refreshed = n.refreshed /\ Rank(n.pc) < Rank(q.pc)
    <3> HIDE DEF bit, d, left, models
    <3> QED BY <2>6, <2>8
  <2>9. CASE SameModel(q, n) /\ q.refreshed = n.refreshed /\ q.pc = n.pc /\ ~q.blank /\ n.blank
    <3>1. bit(n.blank) < bit(q.blank)
      BY <2>9
    <3> HIDE DEF bit, d, left, models
    <3> QED BY <2>6, <2>9, <3>1
  <2> QED BY <1>6, <2>1, <2>2, <2>3, <2>4, <2>5, <2>7, <2>8, <2>9 DEF Toward
<1> QED BY <1>5, <1>6

AllGoing ==
  /\ req = [r \in Requests |-> req[r]]
  /\ \A r \in Requests : Going(req[r])

\* A step of one request that takes it on without another credential.
Advance(r) ==
  \E n : /\ req' = [req EXCEPT ![r] = n]
         /\ Going(n) /\ Toward(req[r], n) /\ n.tried \subseteq req[r].tried

\* No models are a sequence of length zero.
LEMMA EmptyModels == Len(<<>>) = 0 /\ \E S : <<>> \in Seq(S)
OBVIOUS

\* A request that returns is at its end.
LEMMA ReturnAdvances ==
  ASSUME NEW r \in Requests, Going(req[r]), NEW class, Return(r, class)
  PROVE  Advance(r)
<1> DEFINE told == IF class \in PickErrors THEN "noCredential"
                   ELSE IF class \in {"ok", "cancelled"} THEN class ELSE "failed"
           c == class \in PickErrors /\ req[r].called
           o == Owed(r)
           n == [At0("done") EXCEPT !.result = told, !.called = c, !.owed = o]
<1>1. req' = [req EXCEPT ![r] = n]
  BY DEF Return
<1> HIDE DEF told, c, o
<1>2. /\ n = [f \in Fields |-> n[f]]
      /\ n.pc = "done" /\ n.attempt = 0 /\ n.tried = {} /\ n.models = <<>>
      /\ n.refreshed = FALSE /\ n.blank = FALSE
  BY DEF At0, Fields
<1> HIDE DEF n
<1>3. Going(n)
  <2>1. n.attempt \in 0 .. LastAttempt
    BY <1>2, LastAttemptIs
  <2>2. Len(n.models) \in Nat /\ \E S : n.models \in Seq(S)
    BY <1>2, EmptyModels
  <2> QED BY <1>2, <2>1, <2>2 DEF Going, Stages, InCall, Answering
<1>4. Toward(req[r], n)
  BY <1>2 DEF Toward
<1> QED BY <1>1, <1>2, <1>3, <1>4 DEF Advance

\* A round that is followed by another one leaves a retry to some credential.
LEMMA RetryLeft ==
  ASSUME NEW r \in Requests, NEW e, shouldRetryAfterError(r, e) # {}
  PROVE  \E a \in Auths : req[r].attempt < RetryOf[a]
<1>1. closestCooldownWait(r) # {} \/ retryAllowed(r)
  BY DEF shouldRetryAfterError
<1>2. CASE closestCooldownWait(r) # {}
  BY <1>2 DEF closestCooldownWait
<1>3. CASE retryAllowed(r)
  BY <1>3 DEF retryAllowed
<1> QED BY <1>1, <1>2, <1>3

\* A round that ends leaves fewer rounds: the request waits only if a
\* credential has a retry left for it.
LEMMA EndRoundAdvances ==
  ASSUME NEW r \in Requests, Going(req[r]), req[r].pc \notin {"new", "waiting", "done"},
         NEW e, EndRound(r, e)
  PROVE  Advance(r)
<1> DEFINE waits == IF e.class \in {"terminated", "cancelled"} THEN {}
                    ELSE shouldRetryAfterError(r, e)
           pause == CHOOSE w \in waits : TRUE
           o == Owed(r)
           n == [At0("waiting") EXCEPT !.call = req[r].call, !.gone = req[r].gone,
                   !.attempt = req[r].attempt, !.owed = o, !.wait = pause]
<1>1. CASE waits = {}
  <2>1. Return(r, e.class)
    BY <1>1 DEF EndRound
  <2> QED BY <2>1, ReturnAdvances
<1>2. CASE waits # {}
  <2>1. req' = [req EXCEPT ![r] = n]
    BY <1>2 DEF EndRound
  <2>2. req[r].attempt < LastAttempt
    <3>1. PICK a \in Auths : req[r].attempt < RetryOf[a]
      BY <1>2, RetryLeft
    <3>2. req[r].attempt \in Nat /\ RetryOf[a] \in Nat /\ RetryOf[a] <= LastAttempt
          /\ LastAttempt \in Nat
      BY LastAttemptIs, ExecutionAssumption DEF Going
    <3> QED BY <3>1, <3>2
  <2> HIDE DEF pause, waits, o
  <2>3. /\ n = [f \in Fields |-> n[f]]
        /\ n.pc = "waiting" /\ n.attempt = req[r].attempt /\ n.tried = {} /\ n.models = <<>>
        /\ n.refreshed = FALSE /\ n.blank = FALSE /\ n.call = req[r].call
    BY DEF At0, Fields
  <2> HIDE DEF n
  <2>4. Going(n)
    BY <2>2, <2>3, EmptyModels DEF Going, Stages, InCall, Answering
  <2>5. Toward(req[r], n)
    BY <2>3 DEF Toward
  <2> QED BY <2>1, <2>3, <2>4, <2>5 DEF Advance
<1> QED BY <1>1, <1>2

\* After its wait a request is in its next round, which is none too many.
LEMMA WaitDoneAdvances ==
  ASSUME AllGoing, NEW r \in Requests, WaitDone(r)
  PROVE  Advance(r)
<1>1. Going(req[r]) /\ req[r].pc = "waiting"
  BY DEF AllGoing, WaitDone, At
<1>2. CASE req[r].gone
  <2>1. Return(r, "cancelled")
    BY <1>2 DEF WaitDone
  <2> QED BY <1>1, <2>1, ReturnAdvances
<1>3. CASE ~req[r].gone
  <2> DEFINE n == [req[r] EXCEPT !.pc = "head", !.attempt = @ + 1]
  <2>1. req' = [req EXCEPT ![r] = n]
    BY <1>3 DEF WaitDone, AllGoing
  <2>2. /\ n = [f \in Fields |-> n[f]]
        /\ n.pc = "head" /\ n.attempt = req[r].attempt + 1 /\ n.tried = req[r].tried
        /\ n.models = req[r].models /\ n.call = req[r].call
        /\ n.refreshed = req[r].refreshed /\ n.blank = req[r].blank
    BY <1>1 DEF Going, Fields
  <2> HIDE DEF n
  <2>3. Going(n)
    BY <1>1, <2>2, LastAttemptIs DEF Going, Stages, InCall, Answering
  <2>4. Toward(req[r], n)
    BY <1>1, <2>2 DEF Toward, Going
  <2> QED BY <2>1, <2>2, <2>3, <2>4 DEF Advance
<1> QED BY <1>2, <1>3

\* The limit on credentials ends a round.
LEMMA LimitReachedAdvances ==
  ASSUME AllGoing, NEW r \in Requests, LimitReached(r)
  PROVE  Advance(r)
<1>1. Going(req[r]) /\ req[r].pc = "head"
  BY DEF AllGoing, LimitReached, At
<1>2. \E e : EndRound(r, e)
  BY DEF LimitReached
<1> QED BY <1>1, <1>2, EndRoundAdvances

\* The models a credential is used with are a sequence.
LEMMA CandidatesAre ==
  ASSUME NEW a \in Auths
  PROVE  Len(Candidates(a)) \in Nat /\ \E S : Candidates(a) \in Seq(S)
<1> DEFINE pool == rotateStrings(Pool[a], offset[a])
           I == {i \in DOMAIN Pool[a] : ~isAuthBlockedForModel(auths[a], pool[i])}
           c == AtPositions(pool, I)
<1>1. Pool[a] \in Seq(Models)
  BY ExecutionAssumption
<1>2. IsFiniteSet(DOMAIN Pool[a]) /\ DOMAIN Pool[a] \in SUBSET Nat
  <2>1. DOMAIN Pool[a] = 1 .. Len(Pool[a]) /\ Len(Pool[a]) \in Nat
    BY <1>1
  <2> QED BY <2>1, FS_Interval
<1>3. IsFiniteSet(I) /\ I \in SUBSET Nat
  BY <1>2, FS_Subset
<1> HIDE DEF pool, I
<1>4. Len(c) \in Nat /\ c \in Seq({c[n] : n \in DOMAIN c})
  BY <1>3, EntriesAre
<1>5. Candidates(a) = c
  BY DEF Candidates, I, pool
<1> HIDE DEF c
<1>6. \E S : c \in Seq(S)
  BY <1>4
<1> QED BY <1>4, <1>5, <1>6

\* The next credential of a round, if there is one, is the best the request
\* may use.
Served(r, n) ==
  \E a \in Auths \ req[r].tried :
    /\ n.tried = req[r].tried \cup {a}
    /\ ~req[r].call.ws =>
         \A b \in Auths :
           Allowed(b, req[r].call.list, req[r].call.pin, req[r].tried)
             /\ ~isAuthBlockedForModel(auths[b], Route)
           => PriorityOf[b] <= PriorityOf[a]

\* The next credential of a round is new to the request and the best it may
\* use; without one the round ends.
LEMMA PickAdvances ==
  ASSUME AllGoing, IsSched(sched), NEW r \in Requests, Pick(r)
  PROVE  /\ IsSched(sched')
         /\ \/ Advance(r)
            \/ \E n : /\ req' = [req EXCEPT ![r] = n]
                      /\ Going(n) /\ Toward(req[r], n) /\ Served(r, n)
<1>1. Going(req[r]) /\ req[r].pc = "head"
  BY DEF AllGoing, Pick, At
<1> DEFINE q == req[r]
           p == pickNextMixed(q.call.list, q.call.pin, q.call.ws, q.tried)
<1>2. /\ sched' = p.sched
      /\ IF p.auth # NoAuth THEN Take(r, p.auth) ELSE \E e : EndRound(r, e)
  BY DEF Pick
<1>3. Chosen(p, auths, q.call.list, q.call.pin, q.call.ws, q.tried)
  <2>1. q.call \in Calls
    BY <1>1 DEF Going
  <2>2. q.call.list \in Lists /\ q.call.pin \in Auths \cup {NoAuth} /\ q.call.ws \in BOOLEAN
    BY <2>1, ExecutionAssumption
  <2> QED BY <2>2, NextChosen
<1> HIDE DEF p
<1>4. IsSched(sched')
  BY <1>2, <1>3 DEF Chosen
<1>5. CASE p.auth = NoAuth
  BY <1>1, <1>2, <1>4, <1>5, EndRoundAdvances
<1>6. CASE p.auth # NoAuth
  <2> DEFINE taken == [q EXCEPT !.tried = q.tried \cup {p.auth}]
             t == q.attempted \cup {p.auth}
             c == Candidates(p.auth)
             used == [taken EXCEPT !.pc = "prepare", !.attempted = t, !.auth = p.auth,
                                   !.models = c, !.refreshed = FALSE]
             n == IF c = <<>> THEN taken ELSE used
  <2>1. Take(r, p.auth)
    BY <1>2, <1>6
  <2>2. req' = [req EXCEPT ![r] = n]
    BY <2>1 DEF Take
  <2>3. p.auth \in Auths \ q.tried
    BY <1>3, <1>6 DEF Chosen
  <2>4. Len(c) \in Nat /\ \E S : c \in Seq(S)
    BY <2>3, CandidatesAre
  <2> HIDE DEF t, c
  <2>5. /\ taken = [f \in Fields |-> taken[f]]
        /\ taken.pc = "head" /\ taken.attempt = q.attempt /\ taken.tried = q.tried \cup {p.auth}
        /\ taken.models = q.models /\ taken.call = q.call
        /\ taken.refreshed = q.refreshed /\ taken.blank = q.blank
    BY <1>1 DEF Going, Fields
  <2>6. /\ used = [f \in Fields |-> used[f]]
        /\ used.pc = "prepare" /\ used.attempt = q.attempt /\ used.tried = q.tried \cup {p.auth}
        /\ used.models = c /\ used.call = q.call
        /\ used.refreshed = FALSE /\ used.blank = q.blank /\ used.auth = p.auth
    BY <1>1 DEF Going, Fields
  <2> HIDE DEF taken, used
  <2>7. Going(taken) /\ Going(used)
    BY <1>1, <2>3, <2>4, <2>5, <2>6 DEF Going, Stages, InCall, Answering
  <2>8. Toward(q, taken) /\ Toward(q, used)
    BY <1>1, <2>3, <2>5, <2>6 DEF Toward, SameRound
  <2>9. Served(r, taken) /\ Served(r, used)
    BY <1>3, <1>6, <2>3, <2>5, <2>6 DEF Served, Chosen
  <2>10. Going(n) /\ Toward(q, n) /\ Served(r, n)
    BY <2>7, <2>8, <2>9
  <2> HIDE DEF n
  <2> QED BY <1>4, <2>2, <2>10
<1> QED BY <1>5, <1>6

\* A step from one stage of a call to another.
Kin(q, n) ==
  /\ n = [f \in Fields |-> n[f]]
  /\ n.attempt = q.attempt /\ n.tried = q.tried /\ n.models = q.models
  /\ n.refreshed = q.refreshed /\ n.call = q.call /\ n.blank \in BOOLEAN
  /\ n.auth = q.auth

\* A call goes on from one stage to a later one.
LEMMA StageAdvances ==
  ASSUME NEW r \in Requests, Going(req[r]), req[r].pc \in InCall,
         NEW n, Kin(req[r], n), n.pc \in InCall, Rank(n.pc) < Rank(req[r].pc),
         n.pc = "refresh" => ~req[r].refreshed, req' = [req EXCEPT ![r] = n]
  PROVE  Advance(r)
<1> DEFINE q == req[r]
<1>1. n.pc \in Stages /\ n.pc \notin {"new", "head", "waiting", "done"}
      /\ q.pc \notin {"new", "head", "waiting", "done"}
  BY DEF InCall, Stages, Answering
<1> HIDE DEF q
<1>2. Going(q) /\ Kin(q, n)
  BY DEF q
<1>3. Going(n)
  BY <1>1, <1>2 DEF Going, Kin, q
<1>4. SameModel(q, n) /\ q.refreshed = n.refreshed
  BY <1>1, <1>2 DEF SameModel, SameAuth, SameRound, Kin
<1>5. Toward(q, n) /\ n.tried = q.tried
  BY <1>4, <1>2 DEF Toward, Kin, q
<1> QED BY <1>3, <1>5 DEF Advance, q

\* A credential that failed is left behind.
LEMMA AtHeadAdvances ==
  ASSUME NEW r \in Requests, Going(req[r]), req[r].pc \in InCall, NEW e, NEW o,
         req' = [req EXCEPT ![r] = AtHead(req[r], e, o)]
  PROVE  Advance(r)
<1> DEFINE q == req[r]
           n == AtHead(q, e, o)
<1>1. /\ n = [f \in Fields |-> n[f]]
      /\ n.pc = "head" /\ n.attempt = q.attempt /\ n.tried = q.tried /\ n.models = <<>>
      /\ n.refreshed = FALSE /\ n.blank = FALSE /\ n.call = q.call
  BY DEF AtHead, Going, Fields
<1>2. q.pc \notin {"new", "head", "waiting", "done"}
  BY DEF InCall, Answering
<1>3. req' = [req EXCEPT ![r] = n]
  OBVIOUS
<1> HIDE DEF n
<1>4. Going(n)
  BY <1>1, <1>2, EmptyModels DEF Going, Stages, InCall, Answering
<1>5. Toward(q, n)
  BY <1>1, <1>2 DEF Toward, SameRound
<1> QED BY <1>1, <1>3, <1>4, <1>5 DEF Advance

\* The preparation of a credential comes before its call.
LEMMA PrepareAdvances ==
  ASSUME AllGoing, NEW r \in Requests, Prepare(r)
  PROVE  Advance(r)
<1> DEFINE q == req[r]
<1>1. Going(q) /\ q.pc = "prepare" /\ q.pc \in InCall
  BY DEF AllGoing, Prepare, At, InCall
<1>2. CASE req' = [req EXCEPT ![r].pc = "call"]
  <2> DEFINE n == [q EXCEPT !.pc = "call"]
  <2>1. req' = [req EXCEPT ![r] = n]
    BY <1>2
  <2>2. Kin(q, n) /\ n.pc = "call"
    BY <1>1 DEF Going, Kin, Fields
  <2> HIDE DEF n
  <2>3. n.pc \in InCall /\ Rank(n.pc) < Rank(q.pc)
    BY <1>1, <2>2 DEF InCall, Rank
  <2> QED BY <1>1, <2>1, <2>2, <2>3, StageAdvances
<1>3. ASSUME NEW e,
             req' = [req EXCEPT ![r] = [@ EXCEPT !.pc = "unready", !.models = <<>>,
                                                 !.answer = e]]
      PROVE  Advance(r)
  <2> DEFINE n == [q EXCEPT !.pc = "unready", !.models = <<>>, !.answer = e]
  <2>1. req' = [req EXCEPT ![r] = n]
    BY <1>3
  <2>2. /\ n = [f \in Fields |-> n[f]]
        /\ n.pc = "unready" /\ n.attempt = q.attempt /\ n.tried = q.tried /\ n.models = <<>>
        /\ n.refreshed = q.refreshed /\ n.call = q.call /\ n.blank = q.blank
        /\ n.auth = q.auth
    BY <1>1 DEF Going, Fields
  <2> HIDE DEF n
  <2>3. Going(n)
    BY <1>1, <2>2, EmptyModels DEF Going, Stages, InCall, Answering
  <2>4. SameAuth(q, n) /\ q.refreshed = n.refreshed
    BY <1>1, <2>2 DEF SameAuth, SameRound
  <2>5. Len(n.models) < Len(q.models) \/ Len(n.models) = Len(q.models)
    BY <1>1, <2>2, EmptyModels DEF Going
  <2>6. Rank(n.pc) < Rank(q.pc)
    BY <1>1, <2>2 DEF Rank
  <2>7. Toward(q, n)
    BY <2>4, <2>5, <2>6 DEF Toward, SameModel
  <2> QED BY <2>1, <2>2, <2>3, <2>7 DEF Advance
<1> QED BY <1>2, <1>3 DEF Prepare

\* An interceptor ends the request, or the credential's turn.
LEMMA TerminateAdvances ==
  ASSUME AllGoing, NEW r \in Requests, Terminate(r)
  PROVE  Advance(r)
<1>1. Going(req[r]) /\ req[r].pc = "call" /\ req[r].pc \in InCall
  BY DEF AllGoing, Terminate, At, InCall
<1>2. CASE \E e : EndRound(r, e)
  BY <1>1, <1>2, EndRoundAdvances
<1>3. CASE \E e, o : req' = [req EXCEPT ![r] = AtHead(req[r], e, o)]
  BY <1>1, <1>3, AtHeadAdvances
<1> QED BY <1>2, <1>3 DEF Terminate

\* A call goes out, or the request ends.
LEMMA CallAdvances ==
  ASSUME AllGoing, NEW r \in Requests, Call(r)
  PROVE  Advance(r)
<1> DEFINE q == req[r]
           o == q.owed + 1
           n == [q EXCEPT !.pc = "sent", !.called = TRUE, !.owed = o,
                          !.blank = FALSE, !.rebooted = FALSE, !.opened = FALSE]
<1>1. Going(q) /\ q.pc = "call" /\ q.pc \in InCall
  BY DEF AllGoing, Call, At, InCall
<1>2. CASE \E e : EndRound(r, e)
  BY <1>1, <1>2, EndRoundAdvances
<1>3. CASE req' = [req EXCEPT ![r] = n]
  <2> HIDE DEF o
  <2>1. Kin(q, n) /\ n.pc = "sent"
    BY <1>1 DEF Going, Kin, Fields
  <2>2. req' = [req EXCEPT ![r] = n]
    BY <1>3
  <2> HIDE DEF n
  <2>3. n.pc \in InCall /\ Rank(n.pc) < Rank(q.pc)
    BY <1>1, <2>1 DEF InCall, Answering, Rank
  <2> QED BY <1>1, <2>1, <2>2, <2>3, StageAdvances
<1> QED BY <1>2, <1>3 DEF Call

\* A failed call goes on to a refresh, if none was made yet, or to its
\* result.
LEMMA FailedAdvances ==
  ASSUME NEW r \in Requests, Going(req[r]), req[r].pc \in {"sent", "bootstrap"},
         NEW e, NEW booting, Failed(r, e, booting)
  PROVE  Advance(r)
<1> DEFINE q == req[r]
           pc == IF e.class = "unauthorized" /\ ~q.refreshed /\ q.auth \in Refreshable
                 THEN "refresh" ELSE "mark"
           n == [q EXCEPT !.rebooted = booting, !.pc = pc, !.answer = e]
<1>1. Going(q) /\ q.pc \in InCall /\ q.pc \notin {"new", "waiting", "done"}
  BY DEF InCall, Answering
<1>2. CASE q.gone
  <2>1. EndRound(r, Err("cancelled"))
    BY <1>2 DEF Failed
  <2> QED BY <1>1, <2>1, EndRoundAdvances
<1>3. CASE ~q.gone
  <2>1. req' = [req EXCEPT ![r] = n]
    BY <1>3 DEF Failed
  <2>2. pc \in {"refresh", "mark"} /\ (pc = "refresh" => ~q.refreshed)
    OBVIOUS
  <2> HIDE DEF pc
  <2>3. Kin(q, n) /\ n.pc = pc
    BY <1>1 DEF Going, Kin, Fields
  <2> HIDE DEF n
  <2>4. n.pc \in InCall /\ Rank(n.pc) < Rank(q.pc)
    BY <2>2, <2>3 DEF InCall, Answering, Rank
  <2> QED BY <1>1, <2>1, <2>2, <2>3, <2>4, StageAdvances
<1> QED BY <1>2, <1>3

\* An answer is never asked for again.
LEMMA AnswerAdvances ==
  ASSUME AllGoing, NEW r \in Requests, Answer(r)
  PROVE  Advance(r)
<1> DEFINE q == req[r]
           pc == IF q.call.kind = "stream" THEN "bootstrap" ELSE "mark"
           n == [q EXCEPT !.pc = pc, !.answer = NoErr]
<1>1. Going(q) /\ q.pc = "sent" /\ q.pc \in InCall
  BY DEF AllGoing, Answer, At, InCall, Answering
<1>2. CASE \E e : Failed(r, e, q.rebooted)
  BY <1>1, <1>2, FailedAdvances
<1>3. CASE req' = [req EXCEPT ![r].pc = pc, ![r].answer = NoErr]
  <2>1. pc \in {"bootstrap", "mark"}
    OBVIOUS
  <2> HIDE DEF pc
  <2>2. req' = [req EXCEPT ![r] = n]
    BY <1>3 DEF AllGoing
  <2>3. Kin(q, n) /\ n.pc = pc
    BY <1>1 DEF Going, Kin, Fields
  <2> HIDE DEF n
  <2>4. n.pc \in InCall /\ Rank(n.pc) < Rank(q.pc)
    BY <1>1, <2>1, <2>3 DEF InCall, Answering, Rank
  <2>5. n.pc # "refresh"
    BY <2>1, <2>3
  <2> QED BY <1>1, <2>2, <2>3, <2>4, <2>5, StageAdvances
<1> QED BY <1>2, <1>3 DEF Answer

\* The call goes out again once, because the credential counts as refreshed.
LEMMA RefreshAdvances ==
  ASSUME AllGoing, NEW r \in Requests, Refresh(r)
  PROVE  Advance(r)
<1> DEFINE q == req[r]
           sent == [q EXCEPT !.pc = "sent", !.refreshed = TRUE]
           mark == [q EXCEPT !.pc = "mark"]
<1>1. Going(q) /\ q.pc = "refresh" /\ q.pc \in InCall /\ q.refreshed = FALSE
  BY DEF AllGoing, Refresh, At, InCall, Answering, Going
<1>2. req' = [req EXCEPT ![r] = sent] \/ req' = [req EXCEPT ![r] = mark]
  BY DEF Refresh
<1>3. CASE req' = [req EXCEPT ![r] = mark]
  <2>1. Kin(q, mark) /\ mark.pc = "mark"
    BY <1>1 DEF Going, Kin, Fields
  <2>2. req' = [req EXCEPT ![r] = mark]
    BY <1>3
  <2> HIDE DEF mark
  <2>3. mark.pc \in InCall /\ Rank(mark.pc) < Rank(q.pc)
    BY <1>1, <2>1 DEF InCall, Answering, Rank
  <2> QED BY <1>1, <2>1, <2>2, <2>3, StageAdvances
<1>4. CASE req' = [req EXCEPT ![r] = sent]
  <2>1. /\ sent = [f \in Fields |-> sent[f]]
        /\ sent.pc = "sent" /\ sent.attempt = q.attempt /\ sent.tried = q.tried
        /\ sent.models = q.models /\ sent.refreshed = TRUE /\ sent.call = q.call
        /\ sent.blank = q.blank /\ sent.auth = q.auth
    BY <1>1 DEF Going, Fields
  <2>2. req' = [req EXCEPT ![r] = sent]
    BY <1>4
  <2> HIDE DEF sent
  <2>3. Going(sent)
    BY <1>1, <2>1 DEF Going, Stages, InCall, Answering
  <2>4. Toward(q, sent)
    BY <1>1, <2>1 DEF Toward, SameModel, SameAuth, SameRound
  <2> QED BY <2>1, <2>2, <2>3, <2>4 DEF Advance
<1> QED BY <1>2, <1>3, <1>4

\* A stream buffers one blank chunk, opens or ends.
LEMMA BootstrapAdvances ==
  ASSUME AllGoing, NEW r \in Requests, Bootstrap(r)
  PROVE  Advance(r)
<1> DEFINE q == req[r]
           e == IF q.blank THEN NoErr ELSE Err("empty")
           open == [q EXCEPT !.pc = "streaming"]
           blank == [q EXCEPT !.blank = TRUE]
           mark == [q EXCEPT !.pc = "mark", !.answer = e]
<1>1. Going(q) /\ q.pc = "bootstrap" /\ q.pc \in InCall
  BY DEF AllGoing, Bootstrap, At, InCall, Answering
<1>2. \/ req' = [req EXCEPT ![r] = open]
      \/ req' = [req EXCEPT ![r] = blank] /\ ~q.blank
      \/ req' = [req EXCEPT ![r] = mark]
  BY DEF Bootstrap, AllGoing
<1> HIDE DEF e
<1>3. Kin(q, open) /\ open.pc = "streaming" /\ Kin(q, mark) /\ mark.pc = "mark"
  BY <1>1 DEF Going, Kin, Fields
<1>4. Kin(q, blank) /\ blank.pc = q.pc /\ blank.blank = TRUE
  BY <1>1 DEF Going, Kin, Fields
<1> HIDE DEF open, blank, mark
<1>5. CASE \E n \in {open, mark} : req' = [req EXCEPT ![r] = n]
  <2>1. PICK n \in {open, mark} : req' = [req EXCEPT ![r] = n]
    BY <1>5
  <2>2. n.pc \in InCall /\ Rank(n.pc) < Rank(q.pc) /\ n.pc # "refresh"
    BY <1>1, <1>3 DEF InCall, Answering, Rank
  <2> QED BY <1>1, <1>3, <2>1, <2>2, StageAdvances
<1>6. CASE req' = [req EXCEPT ![r] = blank] /\ ~q.blank
  <2>1. Going(blank)
    BY <1>1, <1>4 DEF Going, Kin
  <2>2. Toward(q, blank)
    BY <1>1, <1>4, <1>6 DEF Toward, SameModel, SameAuth, SameRound, Kin
  <2> QED BY <1>4, <1>6, <2>1, <2>2 DEF Advance, Kin
<1> QED BY <1>2, <1>5, <1>6

\* A stream that fails before its first bytes goes on to its refresh or its
\* result.
LEMMA BootstrapFailsAdvances ==
  ASSUME AllGoing, NEW r \in Requests, BootstrapFails(r)
  PROVE  Advance(r)
<1> DEFINE q == req[r]
<1>1. Going(q) /\ q.pc = "bootstrap" /\ q.pc \in InCall
  BY DEF AllGoing, BootstrapFails, At, InCall, Answering
<1>2. PICK e : IF q.rebooted
               THEN req' = [req EXCEPT ![r] = [@ EXCEPT !.pc = "mark", !.answer = e]]
               ELSE Failed(r, e, TRUE)
  BY DEF BootstrapFails
<1>3. CASE ~q.rebooted
  BY <1>1, <1>2, <1>3, FailedAdvances
<1>4. CASE q.rebooted
  <2> DEFINE n == [q EXCEPT !.pc = "mark", !.answer = e]
  <2>1. req' = [req EXCEPT ![r] = n]
    BY <1>2, <1>4
  <2>2. Kin(q, n) /\ n.pc = "mark"
    BY <1>1 DEF Going, Kin, Fields
  <2> HIDE DEF n
  <2>3. n.pc \in InCall /\ Rank(n.pc) < Rank(q.pc)
    BY <1>1, <2>2 DEF InCall, Answering, Rank
  <2> QED BY <1>1, <2>1, <2>2, <2>3, StageAdvances
<1> QED BY <1>3, <1>4

\* A stream that is open goes on to its result.
LEMMA StreamEndsAdvances ==
  ASSUME AllGoing, NEW r \in Requests, StreamEnds(r)
  PROVE  Advance(r)
<1> DEFINE q == req[r]
<1>1. Going(q) /\ q.pc = "streaming" /\ q.pc \in InCall
  BY DEF AllGoing, StreamEnds, At, InCall, Answering
<1>2. CASE Return(r, "cancelled")
  BY <1>1, <1>2, ReturnAdvances
<1>3. ASSUME NEW e, req' = [req EXCEPT ![r] = [@ EXCEPT !.pc = "mark", !.opened = TRUE,
                                                        !.answer = e]]
      PROVE  Advance(r)
  <2> DEFINE n == [q EXCEPT !.pc = "mark", !.opened = TRUE, !.answer = e]
  <2>1. req' = [req EXCEPT ![r] = n]
    BY <1>3
  <2>2. Kin(q, n) /\ n.pc = "mark"
    BY <1>1 DEF Going, Kin, Fields
  <2> HIDE DEF n
  <2>3. n.pc \in InCall /\ Rank(n.pc) < Rank(q.pc)
    BY <1>1, <2>2 DEF InCall, Answering, Rank
  <2> QED BY <1>1, <2>1, <2>2, <2>3, StageAdvances
<1> QED BY <1>2, <1>3 DEF StreamEnds

\* After a result the request returns, or goes on with fewer models or
\* credentials.
LEMMA MarkAdvances ==
  ASSUME AllGoing, NEW r \in Requests, Mark(r)
  PROVE  Advance(r)
<1> DEFINE q == req[r]
           o == Owed(r)
           n == [q EXCEPT !.pc = "call", !.models = Tail(q.models), !.owed = o,
                          !.answer = NoErr, !.blank = FALSE, !.rebooted = FALSE]
<1>1. Going(q) /\ q.pc = "mark" /\ q.pc \in InCall
  BY DEF AllGoing, Mark, At, InCall, Answering
<1>2. \/ \E class : Return(r, class)
      \/ \E e : EndRound(r, e)
      \/ req' = [req EXCEPT ![r] = n] /\ Len(q.models) > 1
      \/ \E e : req' = [req EXCEPT ![r] = AtHead(q, e, o)]
  BY DEF Mark, Proceed
<1>3. CASE \E class : Return(r, class)
  BY <1>1, <1>3, ReturnAdvances
<1>4. CASE \E e : EndRound(r, e)
  BY <1>1, <1>4, EndRoundAdvances
<1>5. CASE \E e : req' = [req EXCEPT ![r] = AtHead(q, e, o)]
  BY <1>1, <1>5, AtHeadAdvances
<1>6. CASE req' = [req EXCEPT ![r] = n] /\ Len(q.models) > 1
  <2> DEFINE t == Tail(q.models)
  <2>1. Len(t) = Len(q.models) - 1 /\ Len(t) \in Nat /\ \E S : t \in Seq(S)
    <3>1. PICK S : q.models \in Seq(S)
      BY <1>1 DEF Going
    <3>2. q.models # <<>>
      BY <1>6, EmptyModels
    <3>3. t \in Seq(S) /\ Len(t) = Len(q.models) - 1
      BY <3>1, <3>2
    <3>4. Len(q.models) \in Nat /\ Len(t) \in Nat
      BY <3>1, <3>3
    <3> QED BY <3>3, <3>4
  <2> HIDE DEF t, o
  <2>2. /\ n = [f \in Fields |-> n[f]]
        /\ n.pc = "call" /\ n.attempt = q.attempt /\ n.tried = q.tried /\ n.models = t
        /\ n.refreshed = q.refreshed /\ n.call = q.call /\ n.blank = FALSE
        /\ n.auth = q.auth
    BY <1>1 DEF Going, Fields, t
  <2>3. req' = [req EXCEPT ![r] = n]
    BY <1>6
  <2> HIDE DEF n
  <2>4. Going(n)
    BY <1>1, <2>1, <2>2 DEF Going, Stages, InCall, Answering
  <2>5. Len(n.models) < Len(q.models)
    BY <1>1, <2>1, <2>2 DEF Going
  <2>6. Toward(q, n)
    BY <1>1, <2>2, <2>5 DEF Toward, SameAuth, SameRound
  <2> QED BY <2>2, <2>3, <2>4, <2>6 DEF Advance
<1> QED BY <1>2, <1>3, <1>4, <1>5, <1>6

\* After a failed preparation the credential is left behind.
LEMMA MarkUnreadyAdvances ==
  ASSUME AllGoing, NEW r \in Requests, MarkUnready(r)
  PROVE  Advance(r)
<1>1. Going(req[r]) /\ req[r].pc \in InCall
  BY DEF AllGoing, MarkUnready, At, InCall
<1>2. \E e, o : req' = [req EXCEPT ![r] = AtHead(req[r], e, o)]
  BY DEF MarkUnready
<1> QED BY <1>1, <1>2, AtHeadAdvances

\* upsertAuth keeps the scheduler's form.
LEMMA Upserted ==
  ASSUME NEW s, IsSched(s), NEW a \in Auths, NEW old, NEW blocks
  PROVE  IsSched(upsertAuth(s, a, old, blocks))
<1> DEFINE ready == IF isAuthBlockedForModel(blocks, Route) THEN s.ready \ {a}
                    ELSE s.ready \cup {a}
<1>1. ready \in SUBSET Auths
  BY DEF IsSched
<1>2. \A b \in Auths : ProviderOf[b] # ProviderOf[a] => (b \in ready <=> b \in s.ready)
  OBVIOUS
<1>3. upsertAuth(s, a, old, blocks) \in {s, rebuildIndexesLocked(s, ProviderOf[a], ready)}
  BY DEF upsertAuth
<1> HIDE DEF ready
<1> QED BY <1>1, <1>2, <1>3, IndexesRebuilt

\* So does a result.
LEMMA MarkedSched ==
  ASSUME IsSched(sched), NEW a \in Auths, NEW m, NEW e, MarkResult(a, m, e)
  PROVE  IsSched(sched')
BY Upserted DEF MarkResult

\* What one step of a request does to the requests and the scheduler.
LEMMA StepMoves ==
  ASSUME AllGoing, IsSched(sched), NEW r \in Requests, Step(r)
  PROVE  /\ IsSched(sched')
         /\ \/ Advance(r)
            \/ \E n : /\ req' = [req EXCEPT ![r] = n]
                      /\ Going(n) /\ Toward(req[r], n) /\ Served(r, n)
<1>1. CASE Pick(r)
  BY <1>1, PickAdvances
<1>2. CASE WaitDone(r)
  BY <1>2, WaitDoneAdvances DEF WaitDone
<1>3. CASE LimitReached(r)
  BY <1>3, LimitReachedAdvances DEF LimitReached
<1>4. CASE Prepare(r)
  BY <1>4, PrepareAdvances DEF Prepare
<1>5. CASE Terminate(r)
  BY <1>5, TerminateAdvances DEF Terminate
<1>6. CASE Call(r)
  BY <1>6, CallAdvances DEF Call
<1>7. CASE Answer(r)
  BY <1>7, AnswerAdvances DEF Answer
<1>8. CASE Refresh(r)
  <2>1. \/ sched' = sched
        \/ \E a \in Auths : \E old, blocks : sched' = upsertAuth(sched, a, old, blocks)
    BY <1>8 DEF Refresh, At, AllGoing, Going, InCall, Answering
  <2>2. IsSched(sched')
    BY <2>1, Upserted
  <2> QED BY <1>8, <2>2, RefreshAdvances
<1>9. CASE Bootstrap(r)
  BY <1>9, BootstrapAdvances DEF Bootstrap
<1>10. CASE BootstrapFails(r)
  BY <1>10, BootstrapFailsAdvances DEF BootstrapFails
<1>11. CASE StreamEnds(r)
  BY <1>11, StreamEndsAdvances DEF StreamEnds
<1>12. CASE Mark(r)
  <2>1. IsSched(sched')
    BY <1>12, MarkedSched DEF Mark, At, AllGoing, Going, InCall, Answering
  <2> QED BY <1>12, <2>1, MarkAdvances
<1>13. CASE MarkUnready(r)
  <2>1. IsSched(sched')
    BY <1>13, MarkedSched DEF MarkUnready, At, AllGoing, Going, InCall
  <2> QED BY <1>13, <2>1, MarkUnreadyAdvances
<1> QED BY <1>1, <1>2, <1>3, <1>4, <1>5, <1>6, <1>7, <1>8, <1>9, <1>10, <1>11, <1>12, <1>13
        DEF Step

Bounded == AllGoing /\ IsSched(sched)


\* A client that goes away leaves its request where it is.
LEMMA CancelKeeps ==
  ASSUME AllGoing, NEW r \in Requests, Cancel(r)
  PROVE  /\ AllGoing'
         /\ \A u \in Requests : [req'[u] EXCEPT !.gone = req[u].gone, !.wait = req[u].wait] = req[u]
         /\ \A u \in Requests : req'[u].tried = req[u].tried
<1> DEFINE n == [req[r] EXCEPT !.gone = TRUE]
<1>1. req' = [req EXCEPT ![r] = n]
  BY DEF Cancel
<1>2. \A u \in Requests : Going(req[u]) /\ req[u] = [f \in Fields |-> req[u][f]]
  BY DEF AllGoing, Going
<1>3. /\ n = [f \in Fields |-> n[f]]
      /\ n.pc = req[r].pc /\ n.attempt = req[r].attempt /\ n.tried = req[r].tried
      /\ n.models = req[r].models /\ n.call = req[r].call
      /\ n.refreshed = req[r].refreshed /\ n.blank = req[r].blank /\ n.auth = req[r].auth
  BY <1>2 DEF Fields
<1>4. [n EXCEPT !.gone = req[r].gone, !.wait = req[r].wait] = req[r]
  BY <1>2 DEF Fields
<1> HIDE DEF n
<1>5. Going(n)
  BY <1>2, <1>3 DEF Going
<1>6. \A u \in Requests : req'[u] = IF u = r THEN n ELSE req[u]
  BY <1>1 DEF AllGoing
<1>7. \A u \in Requests : [req[u] EXCEPT !.gone = req[u].gone, !.wait = req[u].wait] = req[u]
  BY <1>2 DEF Fields
<1>8. AllGoing'
  BY <1>1, <1>5 DEF AllGoing
<1> QED BY <1>3, <1>4, <1>6, <1>7, <1>8

\* Time leaves every request where it is.
LEMMA TickKeeps ==
  ASSUME AllGoing, Tick
  PROVE  /\ AllGoing'
         /\ \A u \in Requests : [req'[u] EXCEPT !.gone = req[u].gone, !.wait = req[u].wait] = req[u]
         /\ \A u \in Requests : req'[u].tried = req[u].tried
<1> DEFINE left(u) == IF req[u].wait = 0 THEN 0 ELSE req[u].wait - 1
           n(u) == [req[u] EXCEPT !.wait = left(u)]
<1>1. req' = [u \in Requests |-> n(u)]
  BY DEF Tick
<1>2. ASSUME NEW u \in Requests
      PROVE  /\ Going(n(u)) /\ n(u).tried = req[u].tried
             /\ [n(u) EXCEPT !.gone = req[u].gone, !.wait = req[u].wait] = req[u]
  <2> DEFINE m == n(u)
  <2>1. Going(req[u]) /\ req[u] = [f \in Fields |-> req[u][f]]
    BY DEF AllGoing, Going
  <2> HIDE DEF left
  <2>2. /\ m = [f \in Fields |-> m[f]]
        /\ m.pc = req[u].pc /\ m.attempt = req[u].attempt /\ m.tried = req[u].tried
        /\ m.models = req[u].models /\ m.call = req[u].call
        /\ m.refreshed = req[u].refreshed /\ m.blank = req[u].blank /\ m.auth = req[u].auth
    BY <2>1 DEF Fields
  <2>3. [m EXCEPT !.gone = req[u].gone, !.wait = req[u].wait] = req[u]
    BY <2>1 DEF Fields
  <2> HIDE DEF n
  <2>4. Going(m)
    BY <2>1, <2>2 DEF Going
  <2> QED BY <2>2, <2>3, <2>4
<1> HIDE DEF n
<1> QED BY <1>1, <1>2 DEF AllGoing

\* A request begins with its first attempt and nobody tried.
LEMMA BeginKeeps ==
  ASSUME AllGoing, NEW r \in Requests, Begin(r)
  PROVE  /\ AllGoing'
         /\ \A u \in Requests \ {r} : req'[u] = req[u]
         /\ req'[r].tried = {}
<1>1. PICK call \in Calls : req' = [req EXCEPT ![r] = [At0("head") EXCEPT !.call = call]]
  BY DEF Begin
<1> DEFINE n == [At0("head") EXCEPT !.call = call]
<1>2. /\ n = [f \in Fields |-> n[f]]
      /\ n.pc = "head" /\ n.attempt = 0 /\ n.tried = {} /\ n.models = <<>>
      /\ n.refreshed = FALSE /\ n.blank = FALSE /\ n.call = call
  BY DEF At0, Fields
<1>3. req' = [req EXCEPT ![r] = n]
  BY <1>1
<1> HIDE DEF n
<1>4. Going(n)
  <2>1. n.attempt \in 0 .. LastAttempt
    BY <1>2, LastAttemptIs
  <2>2. Len(n.models) \in Nat /\ \E S : n.models \in Seq(S)
    BY <1>2, EmptyModels
  <2> QED BY <1>2, <2>1, <2>2 DEF Going, Stages, InCall, Answering
<1> QED BY <1>2, <1>3, <1>4 DEF AllGoing

\* A step that leaves the requests alone moves none of them.
LEMMA NobodyMoves ==
  ASSUME AllGoing, UNCHANGED req
  PROVE  /\ AllGoing'
         /\ \A u \in Requests : [req'[u] EXCEPT !.gone = req[u].gone, !.wait = req[u].wait] = req[u]
         /\ \A u \in Requests : req'[u].tried = req[u].tried
<1>1. \A u \in Requests : req[u] = [f \in Fields |-> req[u][f]]
  BY DEF AllGoing, Going
<1>2. \A u \in Requests : [req[u] EXCEPT !.gone = req[u].gone, !.wait = req[u].wait] = req[u]
  BY <1>1 DEF Fields
<1> QED BY <1>2 DEF AllGoing

\* What is proved of every step, in one place.
Moved(r) == [req'[r] EXCEPT !.gone = req[r].gone, !.wait = req[r].wait] # req[r]

Progress ==
  /\ Bounded'
  /\ \A r \in Requests : ~At(r, "new") /\ Moved(r) =>
       req[r].pc # "done" /\ Going(req'[r]) /\ Toward(req[r], req'[r])
  /\ \A r \in Requests : req'[r].tried \subseteq req[r].tried \/ Served(r, req'[r])

\* Every step keeps the invariant and takes the requests it moves toward
\* their end.
LEMMA EveryStep ==
  ASSUME Bounded, [Next]_vars
  PROVE  Progress
<1>1. AllGoing /\ IsSched(sched)
  BY DEF Bounded
<1>2. ASSUME NEW r \in Requests, Begin(r)
      PROVE  Progress
  <2>1. /\ AllGoing'
        /\ \A u \in Requests \ {r} : req'[u] = req[u]
        /\ req'[r].tried = {}
    BY <1>1, <1>2, BeginKeeps
  <2>2. IsSched(sched') /\ At(r, "new")
    BY <1>1, <1>2 DEF Begin
  <2>3. \A u \in Requests : req[u] = [f \in Fields |-> req[u][f]]
    BY <1>1 DEF AllGoing, Going
  <2>4. \A u \in Requests : [req[u] EXCEPT !.gone = req[u].gone, !.wait = req[u].wait] = req[u]
    BY <2>3 DEF Fields
  <2> QED BY <2>1, <2>2, <2>4 DEF Progress, Bounded, Moved
<1>3. ASSUME NEW r \in Requests, Step(r)
      PROVE  Progress
  <2>1. /\ IsSched(sched')
        /\ \E n : /\ req' = [req EXCEPT ![r] = n]
                  /\ Going(n) /\ Toward(req[r], n)
                  /\ n.tried \subseteq req[r].tried \/ Served(r, n)
    BY <1>1, <1>3, StepMoves DEF Advance
  <2>2. PICK n : /\ req' = [req EXCEPT ![r] = n]
                 /\ Going(n) /\ Toward(req[r], n)
                 /\ n.tried \subseteq req[r].tried \/ Served(r, n)
    BY <2>1
  <2>3. req[r].pc \notin {"new", "done"}
    BY <1>3 DEF Step, At, WaitDone, LimitReached, Pick, Prepare, Terminate, Call, Answer,
                Refresh, Bootstrap, BootstrapFails, StreamEnds, Mark, MarkUnready
  <2>4. \A u \in Requests : req'[u] = IF u = r THEN n ELSE req[u]
    BY <1>1, <2>2 DEF AllGoing
  <2>5. AllGoing'
    BY <1>1, <2>2 DEF AllGoing
  <2>6. \A u \in Requests : req[u] = [f \in Fields |-> req[u][f]]
    BY <1>1 DEF AllGoing, Going
  <2>7. \A u \in Requests : [req[u] EXCEPT !.gone = req[u].gone, !.wait = req[u].wait] = req[u]
    BY <2>6 DEF Fields
  <2>8. \A u \in Requests : Moved(u) => u = r
    BY <2>4, <2>7 DEF Moved
  <2>9. req'[r] = n /\ Bounded'
    BY <2>1, <2>4, <2>5 DEF Bounded
  <2>10. \A u \in Requests : req'[u].tried \subseteq req[u].tried \/ Served(u, req'[u])
    BY <2>2, <2>4
  <2> QED BY <2>2, <2>3, <2>8, <2>9, <2>10 DEF Progress
<1>4. ASSUME NEW r \in Requests, Cancel(r)
      PROVE  Progress
  <2>1. IsSched(sched')
    BY <1>1, <1>4 DEF Cancel
  <2> QED BY <1>1, <1>4, <2>1, CancelKeeps DEF Progress, Bounded, Moved
<1>5. CASE Tick
  <2>1. IsSched(sched')
    BY <1>1, <1>5 DEF Tick
  <2> QED BY <1>1, <1>5, <2>1, TickKeeps DEF Progress, Bounded, Moved
<1>6. ASSUME UNCHANGED req, IsSched(sched')
      PROVE  Progress
  BY <1>1, <1>6, NobodyMoves DEF Progress, Bounded, Moved
<1>7. CASE OtherPick
  <2>1. PICK c \in Calls : sched' = pickNextMixed(c.list, c.pin, c.ws, {}).sched
    BY <1>7 DEF OtherPick
  <2>2. c.list \in Lists /\ c.pin \in Auths \cup {NoAuth} /\ c.ws \in BOOLEAN
    BY ExecutionAssumption
  <2>3. Chosen(pickNextMixed(c.list, c.pin, c.ws, {}), auths, c.list, c.pin, c.ws, {})
    BY <1>1, <2>2, NextChosen
  <2>4. IsSched(sched')
    BY <2>1, <2>3 DEF Chosen
  <2> QED BY <1>6, <1>7, <2>4 DEF OtherPick
<1>8. CASE OtherResult
  <2>1. \E a \in Auths : \E m, e : MarkResult(a, m, e)
    BY <1>8 DEF OtherResult
  <2>2. IsSched(sched')
    BY <1>1, <2>1, MarkedSched
  <2> QED BY <1>6, <1>8, <2>2 DEF OtherResult
<1>9. CASE SetSelector
  <2>1. sched' = rebuild /\ UNCHANGED req
    BY <1>9 DEF SetSelector
  <2>2. IsSched(sched')
    BY <2>1, RebuiltSched
  <2> QED BY <1>6, <2>1, <2>2
<1>10. CASE UNCHANGED vars
  BY <1>1, <1>6, <1>10 DEF vars
<1> QED BY <1>2, <1>3, <1>4, <1>5, <1>7, <1>8, <1>9, <1>10 DEF Next

\* Requests keep to their attempts, credentials and one refresh per
\* credential, and the scheduler to its form, in every state.
THEOREM Boundedness == Spec => []Bounded
<1>1. Init => Bounded
  <2> SUFFICES ASSUME Init PROVE Bounded
    OBVIOUS
  <2>1. IsSched(sched)
    BY RebuiltSched DEF Init
  <2> DEFINE n == At0("new")
  <2>2. /\ n = [f \in Fields |-> n[f]]
        /\ n.pc = "new" /\ n.attempt = 0 /\ n.tried = {} /\ n.models = <<>>
        /\ n.refreshed = FALSE /\ n.blank = FALSE
    BY DEF At0, Fields
  <2>3. req = [r \in Requests |-> n]
    BY DEF Init
  <2> HIDE DEF n
  <2>4. Going(n)
    <3>1. n.attempt \in 0 .. LastAttempt
      BY <2>2, LastAttemptIs
    <3>2. Len(n.models) \in Nat /\ \E S : n.models \in Seq(S)
      BY <2>2, EmptyModels
    <3> QED BY <2>2, <3>1, <3>2 DEF Going, Stages, InCall, Answering
  <2> QED BY <2>1, <2>3, <2>4 DEF Bounded, AllGoing
<1>2. Bounded /\ [Next]_vars => Bounded'
  BY EveryStep DEF Progress
<1> QED BY <1>1, <1>2, PTL DEF Spec

\* Every step of a running request brings it nearer to its end, in an order
\* without infinite descent: the rounds of executeMixed and its siblings, the
\* credentials and models of a round, the refresh after a 401 and the stages
\* of a call are all bounded, whatever the upstreams answer and however often
\* other requests block credentials again.
THEOREM RequestsAlwaysEnd == Spec => RequestsEnd
<1> DEFINE Ends == \A r \in Requests :
              LET moved == [req'[r] EXCEPT !.gone = req[r].gone, !.wait = req[r].wait] # req[r]
              IN ~At(r, "new") /\ moved =>
                   /\ req'[r].attempt <= LastAttempt
                   /\ Nearer(Distance(req'[r]), Distance(req[r]))
<1>1. Bounded /\ [Next]_vars => Ends
  <2> SUFFICES ASSUME Bounded, [Next]_vars, NEW r \in Requests, ~At(r, "new"), Moved(r)
               PROVE  /\ req'[r].attempt <= LastAttempt
                      /\ Nearer(Distance(req'[r]), Distance(req[r]))
    BY DEF Moved
  <2>1. req[r].pc # "done" /\ Going(req'[r]) /\ Toward(req[r], req'[r])
    BY EveryStep DEF Progress
  <2>2. Going(req[r])
    BY DEF Bounded, AllGoing
  <2>3. req'[r].attempt \in 0 .. LastAttempt /\ LastAttempt \in Nat
    BY <2>1, LastAttemptIs DEF Going
  <2> QED BY <2>1, <2>2, <2>3, TowardIsNearer
<1>2. Spec => [][Ends]_vars
  <2>1. Bounded /\ [Next]_vars => [Ends]_vars
    BY <1>1
  <2> HIDE DEF Ends
  <2> QED BY <2>1, Boundedness, PTL DEF Spec
<1> QED BY <1>2 DEF RequestsEnd

\* Credentials of one bucket take turns (readyView.pickRoundRobin): among those
\* that are ready together none is ever two turns ahead, through picks by any
\* strategy, credentials that come and go and cursors that are cut.
THEOREM AlwaysFairTurns == Spec => []FairTurns
<1>1. Bounded => FairTurns
  <2> SUFFICES ASSUME Bounded, NEW a \in sched.ready, NEW b \in Bucket(sched.ready, a)
               PROVE  sched.turns[a] <= sched.turns[b] + 1
    BY DEF FairTurns
  <2> DEFINE v == View(ProviderOf[a], PriorityOf[a], FALSE)
             f == flat(sched.ready, v)
             M == Members(sched.ready, v)
             c == sched.cursor[v]
  <2>1. IsSched(sched) /\ sched.ready \in SUBSET Auths
    BY DEF Bounded, IsSched
  <2>2. v \in Views /\ v.ws = FALSE
    <3>1. a \in Auths /\ FALSE \in BOOLEAN
      BY <2>1
    <3>2. \A ws \in BOOLEAN : View(ProviderOf[a], PriorityOf[a], ws) \in Views
      BY <3>1 DEF Views
    <3>3. v \in Views
      BY <3>1, <3>2
    <3> QED BY <3>3 DEF View
  <2>3. a \in M /\ b \in M
    BY DEF Members, Bucket, View
  <2>4. Rotates(f, c, sched.turns)
    BY <2>1, <2>2 DEF IsSched
  <2> HIDE DEF v
  <2>5. \A x \in M : \E n \in DOMAIN f : f[n] = x
    BY <2>1, <2>2, ViewLists
  <2>6. DOMAIN f = 1 .. Len(f) /\ Len(f) \in Nat
    BY FlatEntries
  <2> HIDE DEF f, M, c
  <2>7. Len(f) > 0
    BY <2>3, <2>5, <2>6
  <2>8. \A n \in 1 .. Len(f) : sched.turns[f[n]] \in {0, 1}
    BY <2>4, <2>7 DEF Rotates
  <2>9. sched.turns[a] \in {0, 1} /\ sched.turns[b] \in {0, 1}
    BY <2>3, <2>5, <2>6, <2>8
  <2> QED BY <2>9
<1> QED BY <1>1, Boundedness, PTL

\* The credential a request is served (pickNextMixed) has the highest
\* priority of all that it may still use and that are not blocked for its
\* model, whatever the cursors, the index and the other requests, unless the
\* request prefers websockets.
THEOREM AlwaysBestFirst == Spec => BestFirst
<1>1. Bounded /\ [Next]_vars => ServedIsBest
  <2> SUFFICES ASSUME Bounded, [Next]_vars, NEW r \in Requests,
                      NEW a \in req'[r].tried \ req[r].tried, ~req[r].call.ws,
                      NEW b \in Auths \ req[r].tried, InList(r, b),
                      req[r].call.pin \in {NoAuth, b}, ~isAuthBlockedForModel(auths[b], Route)
               PROVE  PriorityOf[b] <= PriorityOf[a]
    BY DEF ServedIsBest
  <2>1. Served(r, req'[r])
    BY EveryStep DEF Progress
  <2>2. Allowed(b, req[r].call.list, req[r].call.pin, req[r].tried)
    BY DEF Allowed, InList
  <2> QED BY <2>1, <2>2 DEF Served
<1>2. Bounded /\ [Next]_vars => [ServedIsBest]_vars
  BY <1>1
<1> QED BY <1>2, Boundedness, PTL DEF Spec, BestFirst
=============================================================================
