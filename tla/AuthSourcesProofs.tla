-------------------------- MODULE AuthSourcesProofs -------------------------
(***************************************************************************)
(* Where credentials come from: the websocket relay, whose sessions are    *)
(* credentials while they live, and the watcher of credential files.       *)
(*                                                                         *)
(* No caller of the relay is left waiting on an open channel once cleanup  *)
(* has emptied the pending map, for every set of requests, every capacity  *)
(* and every length of answer.  NoOrphan says nothing about the time       *)
(* before the map is emptied, so the inductive invariant follows a request *)
(* from the check of session.closed on: its entry is in the map as long as *)
(* its channel is open, and once Range has begun the request is one of     *)
(* those Range still visits.                                               *)
(*                                                                         *)
(* And once every event, reload and report is handled, however they        *)
(* overlap, the service holds what is on disk, but for the credentials     *)
(* that one of the races of WatcherRaces has hit, for every number of      *)
(* files, credentials and goroutines and every capacity of the queue.      *)
(* SettledInStep says nothing about the time before everything is handled, *)
(* so the inductive invariant says at every moment what is still to        *)
(* happen: a file whose content is not the one whose hash is kept will be  *)
(* looked at (Noticed), the value the watcher has of a credential is the   *)
(* one its only holder will hand over, or the one the service will hold    *)
(* when all that is buffered, batched, queued and drained has arrived      *)
(* (Delivered), and who has read the configuration has read the one on     *)
(* disk (ConfigKept).                                                      *)
(***************************************************************************)
EXTENDS WsRelay, WatcherRaces, FiniteSetTheorems, FunctionTheorems,
        SequenceTheorems, TLAPS

----------------------------------------------------------------------------
(* The websocket relay *)

USE RelayAssumption DEF RelayAssumption

Over == {"delist", "notify", "done"}  \* cleanup has emptied the map
CleanerPlaces == {"none", "range"} \cup Over
CallerPlaces == {"idle", "store", "load", "check", "write", "wait", "done"}
Results == {"none", "ok", "error", "cancelled", "panicked"}

Callers ==
  [at : CallerPlaces, kind : Kinds \cup {"none"}, streaming : BOOLEAN,
   result : Results]

TypeInv ==
  /\ cleaner \in [at : CleanerPlaces, todo : SUBSET Requests,
                  req : Requests \cup {NoRequest}]
  /\ caller \in [Requests -> Callers]
  /\ pending \in SUBSET Requests
  /\ shut \in SUBSET Requests
  /\ closed \in BOOLEAN

(* Cleanup closes session.closed first and the connection last. *)
ClosedFirst ==
  /\ cleaner.at # "none" => closed
  /\ cleaner.at \in Over => conn = "closed"

(* Requests that are past the load of their entry and whose channel is     *)
(* open, by where they are.                                                *)
OpenAt(places) == {r \in Requests : caller[r].at \in places /\ r \notin shut}

(* Until the map is emptied such a request has its entry. *)
EntryKept ==
  cleaner.at \notin Over => OpenAt({"check", "write", "wait"}) \subseteq pending

(* One that passed the check of closed is still visited by Range. *)
RangeReaches ==
  cleaner.at = "range" =>
    \A r \in OpenAt({"write", "wait"}) : r \in cleaner.todo \/ r = cleaner.req

IInv == TypeInv /\ ClosedFirst /\ EntryKept /\ RangeReaches /\ NoOrphan

----------------------------------------------------------------------------

(* A step that touches none of the variables of the invariant keeps it. *)
LEMMA Frame ==
  IInv /\ UNCHANGED <<cleaner, caller, pending, shut, closed, conn>> => IInv'
BY DEF IInv, TypeInv, ClosedFirst, EntryKept, RangeReaches, NoOrphan, OpenAt

(* cleanup may begin at any time, with whatever the map then holds. *)
LEMMA CleanupBegins ==
  IInv /\ BeginCleanup /\ UNCHANGED <<caller, pending, shut, conn>> => IInv'
<1> SUFFICES ASSUME IInv, BeginCleanup, UNCHANGED <<caller, pending, shut, conn>>
             PROVE  IInv'
  OBVIOUS
<1>1. /\ cleaner.at = "none" /\ closed' = TRUE
      /\ cleaner' = [at |-> "range", todo |-> pending, req |-> cleaner.req]
  BY DEF BeginCleanup, IInv, TypeInv
<1>2. TypeInv'
  BY <1>1 DEF IInv, TypeInv, CleanerPlaces, Over
<1>3. ClosedFirst' /\ NoOrphan'
  BY <1>1 DEF ClosedFirst, NoOrphan, Over
<1>4. EntryKept' /\ RangeReaches'
  BY <1>1 DEF IInv, EntryKept, RangeReaches, OpenAt, Over
<1> QED
  BY <1>2, <1>3, <1>4 DEF IInv

(* What is known of the callers when one of them has returned. *)
LEMMA Returned ==
  ASSUME caller \in [Requests -> Callers], NEW r \in Requests,
         NEW result \in Results, Returns(r, result)
  PROVE  /\ caller' \in [Requests -> Callers]
         /\ \A q \in Requests \ {r} : caller'[q] = caller[q]
         /\ caller'[r].at = "done"
<1>1. caller' \in [Requests -> Callers]
  BY DEF Returns, Callers, CallerPlaces
<1>2. \A q \in Requests \ {r} : caller'[q] = caller[q]
  BY DEF Returns
<1>3. caller'[r].at = "done"
  BY DEF Returns, Callers
<1> QED
  BY <1>1, <1>2, <1>3

(* Taking an entry out of the map closes its channel: LoadAndDelete finds  *)
(* it at most once.  The caller may stay, or return.                       *)
LEMMA Deleted ==
  ASSUME IInv, NEW r, DeleteAndClose(r), UNCHANGED <<cleaner, closed, conn>>,
         \/ UNCHANGED caller
         \/ r \in Requests /\ Returns(r, "error")
  PROVE  IInv'
<1>1. /\ pending' \subseteq pending /\ shut \subseteq shut'
      /\ shut' \in SUBSET Requests
      /\ pending \ pending' \subseteq shut'
  BY DEF DeleteAndClose, IInv, TypeInv
<1>2. /\ caller' \in [Requests -> Callers]
      /\ \A q \in Requests : caller'[q].at = caller[q].at \/ caller'[q].at = "done"
  BY Returned DEF IInv, TypeInv, Results
<1>3. TypeInv'
  BY <1>1, <1>2 DEF IInv, TypeInv
<1>4. ClosedFirst'
  BY DEF IInv, ClosedFirst
<1>5. EntryKept' /\ RangeReaches' /\ NoOrphan'
  BY <1>1, <1>2 DEF IInv, EntryKept, RangeReaches, NoOrphan, OpenAt
<1> QED
  BY <1>3, <1>4, <1>5 DEF IInv

(* A step of one caller that leaves the session alone keeps the invariant  *)
(* if the caller moves to no place where more is asked of it.              *)
LEMMA CallerMoves ==
  ASSUME IInv, NEW r \in Requests,
         UNCHANGED <<cleaner, pending, shut, closed, conn>>,
         caller' \in [Requests -> Callers],
         \A q \in Requests \ {r} : caller'[q] = caller[q],
         caller'[r].at \notin {"check", "write", "wait"} \/ caller'[r].at = caller[r].at
  PROVE  IInv'
<1>1. \A q \in Requests : \/ caller'[q].at = caller[q].at
                          \/ caller'[q].at \notin {"check", "write", "wait"}
  OBVIOUS
<1>2. TypeInv' /\ ClosedFirst'
  BY DEF IInv, TypeInv, ClosedFirst
<1>3. EntryKept' /\ RangeReaches' /\ NoOrphan'
  BY <1>1 DEF IInv, EntryKept, RangeReaches, NoOrphan, OpenAt
<1> QED
  BY <1>2, <1>3 DEF IInv

----------------------------------------------------------------------------

(* The steps of cleanup itself *)
LEMMA CleanerSteps ==
  IInv /\ ((\E r \in Requests : RangeLoad(r)) \/ RangeClose \/ RangeEnds
           \/ Delist \/ Disconnected) => IInv'
<1>1. ASSUME IInv, NEW r \in Requests, RangeLoad(r) PROVE IInv'
  <2>1. /\ cleaner.at = "range" /\ cleaner.req = NoRequest
        /\ cleaner' = [at |-> "range", todo |-> cleaner.todo \ {r}, req |-> r]
        /\ UNCHANGED <<pending, shut, closed, conn, caller>>
    BY <1>1 DEF RangeLoad, IInv, TypeInv, sessionVars, channelVars
  <2>2. TypeInv' /\ ClosedFirst' /\ NoOrphan'
    BY <1>1, <2>1 DEF IInv, TypeInv, ClosedFirst, NoOrphan, CleanerPlaces, Over
  <2>3. EntryKept' /\ RangeReaches'
    BY <1>1, <2>1 DEF IInv, EntryKept, RangeReaches, OpenAt, Over
  <2> QED
    BY <2>2, <2>3 DEF IInv
<1>2. ASSUME IInv, RangeClose PROVE IInv'
  <2>1. CASE cleaner.req \in shut
    BY <1>2, <2>1, Frame DEF RangeClose, sessionVars, channelVars
  <2>2. CASE cleaner.req \notin shut
    <3>1. /\ cleaner.req \in Requests
          /\ shut' = shut \cup {cleaner.req}
          /\ cleaner' = [cleaner EXCEPT !.req = NoRequest]
          /\ UNCHANGED <<pending, closed, conn, caller>>
      BY <1>2, <2>2 DEF RangeClose, IInv, TypeInv, sessionVars
    <3>2. TypeInv' /\ ClosedFirst'
      BY <1>2, <3>1 DEF IInv, TypeInv, ClosedFirst
    <3>3. cleaner'.at = cleaner.at /\ cleaner'.todo = cleaner.todo
      BY <1>2, <3>1 DEF IInv, TypeInv
    <3>4. EntryKept' /\ RangeReaches' /\ NoOrphan'
      BY <1>2, <3>1, <3>3 DEF IInv, EntryKept, RangeReaches, NoOrphan, OpenAt
    <3> QED
      BY <3>2, <3>4 DEF IInv
  <2> QED
    BY <2>1, <2>2
<1>3. ASSUME IInv, RangeEnds PROVE IInv'
  <2>1. /\ cleaner.at = "range" /\ cleaner.req = NoRequest
        /\ cleaner.todo \cap (pending \ shut) = {}
        /\ cleaner' = [at |-> "delist", todo |-> {}, req |-> NoRequest]
        /\ pending' = {} /\ conn' = "closed" /\ closed' = TRUE
        /\ UNCHANGED <<shut, caller>>
    BY <1>3 DEF RangeEnds, IInv, TypeInv, channelVars
  <2>2. TypeInv' /\ ClosedFirst' /\ EntryKept' /\ RangeReaches'
    BY <1>3, <2>1 DEF IInv, TypeInv, ClosedFirst, EntryKept, RangeReaches,
                      CleanerPlaces, Over
  <2>3. ASSUME NEW r \in Requests, caller[r].at = "wait", r \notin shut PROVE FALSE
    <3>1. r \in pending /\ r \in cleaner.todo
      BY <1>3, <2>1, <2>3 DEF IInv, EntryKept, RangeReaches, OpenAt, Over
    <3> QED
      BY <2>1, <2>3, <3>1
  <2>4. NoOrphan'
    BY <2>1, <2>3 DEF NoOrphan
  <2> QED
    BY <2>2, <2>4 DEF IInv
<1>4. ASSUME IInv, Delist \/ Disconnected PROVE IInv'
  <2>1. /\ cleaner.at \in Over /\ cleaner'.at \in Over
        /\ cleaner' \in [at : CleanerPlaces, todo : SUBSET Requests,
                         req : Requests \cup {NoRequest}]
        /\ UNCHANGED <<pending, shut, closed, conn, caller>>
    BY <1>4 DEF Delist, Disconnected, IInv, TypeInv, CleanerPlaces, Over, channelVars
  <2> QED
    BY <1>4, <2>1 DEF IInv, TypeInv, ClosedFirst, EntryKept, RangeReaches,
                      NoOrphan, Over
<1> QED
  BY <1>1, <1>2, <1>3, <1>4

(* The steps of a caller and of the watcher of its context *)
LEMMA CallerSteps ==
  ASSUME IInv, NEW r \in Requests,
         \/ \E kind \in Kinds : Begin(r, kind)
         \/ CallerStep(r) \/ WatchContext(r)
  PROVE  IInv'
<1> USE DEF sessionVars, channelVars
<1>1. ASSUME NEW kind \in Kinds, Begin(r, kind) PROVE IInv'
  <2>1. /\ caller' \in [Requests -> Callers]
        /\ \A q \in Requests \ {r} : caller'[q] = caller[q]
        /\ caller'[r].at \in {"store", "done"}
    <3> DEFINE c == [caller[r] EXCEPT
                       !.kind = kind, !.at = IF inMap THEN "store" ELSE "done",
                       !.result = IF inMap THEN @ ELSE "error"]
    <3>1. caller \in [Requests -> Callers]
      BY DEF IInv, TypeInv
    <3>2. c \in Callers /\ c.at \in {"store", "done"}
      BY <3>1 DEF Callers, CallerPlaces, Results
    <3>3. caller' = [caller EXCEPT ![r] = c]
      BY <1>1 DEF Begin
    <3> HIDE DEF c
    <3> QED
      BY <3>1, <3>2, <3>3
  <2> QED
    BY <1>1, <2>1, CallerMoves DEF Begin
<1>2. CASE Store(r)
  <2>1. /\ caller' \in [Requests -> Callers]
        /\ \A q \in Requests \ {r} : caller'[q] = caller[q]
        /\ caller'[r].at = "load"
        /\ pending' = pending \cup {r}
        /\ UNCHANGED <<cleaner, shut, closed, conn>>
    BY <1>2 DEF Store, Goes, IInv, TypeInv, Callers, CallerPlaces
  <2>2. TypeInv' /\ ClosedFirst'
    BY <2>1 DEF IInv, TypeInv, ClosedFirst
  <2>3. EntryKept' /\ RangeReaches' /\ NoOrphan'
    BY <2>1 DEF IInv, EntryKept, RangeReaches, NoOrphan, OpenAt
  <2> QED
    BY <2>2, <2>3 DEF IInv
<1>3. CASE LoadBack(r)
  <2>1. /\ caller' \in [Requests -> Callers]
        /\ \A q \in Requests \ {r} : caller'[q] = caller[q]
        /\ caller'[r].at = "done" \/ (caller'[r].at = "check" /\ r \in pending)
        /\ UNCHANGED <<cleaner, pending, shut, closed, conn>>
    <3>1. CASE r \in pending
      BY <1>3, <3>1 DEF LoadBack, Goes, IInv, TypeInv, Callers, CallerPlaces
    <3>2. CASE r \notin pending
      <4>1. /\ Returns(r, "panicked") /\ "panicked" \in Results
            /\ UNCHANGED <<cleaner, pending, shut, closed, conn>>
        BY <1>3, <3>2 DEF LoadBack, Results
      <4>2. caller \in [Requests -> Callers]
        BY DEF IInv, TypeInv
      <4> QED
        BY <4>1, <4>2, Returned
    <3> QED
      BY <3>1, <3>2
  <2>2. TypeInv' /\ ClosedFirst'
    BY <2>1 DEF IInv, TypeInv, ClosedFirst
  <2>3. EntryKept' /\ RangeReaches' /\ NoOrphan'
    BY <2>1 DEF IInv, EntryKept, RangeReaches, NoOrphan, OpenAt
  <2> QED
    BY <2>2, <2>3 DEF IInv
<1>4. CASE SendCheck(r)
  <2>1. CASE closed
    BY <1>4, <2>1, Deleted DEF SendCheck, SendFails
  <2>2. CASE ~closed
    <3>1. /\ caller' \in [Requests -> Callers]
          /\ \A q \in Requests \ {r} : caller'[q] = caller[q]
          /\ caller[r].at = "check" /\ caller'[r].at = "write"
          /\ cleaner.at = "none"
          /\ UNCHANGED <<cleaner, pending, shut, closed, conn>>
      BY <1>4, <2>2 DEF SendCheck, Goes, IInv, TypeInv, Callers, CallerPlaces,
                        ClosedFirst
    <3>2. TypeInv' /\ ClosedFirst' /\ RangeReaches' /\ NoOrphan'
      BY <3>1 DEF IInv, TypeInv, ClosedFirst, RangeReaches, NoOrphan
    <3>3. EntryKept'
      BY <3>1 DEF IInv, EntryKept, OpenAt
    <3> QED
      BY <3>2, <3>3 DEF IInv
  <2> QED
    BY <2>1, <2>2
<1>5. CASE Write(r)
  <2>1. CASE conn # "closed" /\ Goes(r, "wait") /\ UNCHANGED <<pending, shut>>
    <3>1. /\ caller' \in [Requests -> Callers]
          /\ \A q \in Requests \ {r} : caller'[q] = caller[q]
          /\ caller[r].at = "write" /\ caller'[r].at = "wait"
          /\ cleaner.at \notin Over
          /\ UNCHANGED <<cleaner, pending, shut, closed, conn>>
      BY <1>5, <2>1 DEF Write, Goes, IInv, TypeInv, Callers, CallerPlaces,
                        ClosedFirst
    <3>2. TypeInv' /\ ClosedFirst' /\ NoOrphan'
      BY <3>1 DEF IInv, TypeInv, ClosedFirst, NoOrphan, Over
    <3>3. EntryKept' /\ RangeReaches'
      BY <3>1 DEF IInv, EntryKept, RangeReaches, OpenAt
    <3> QED
      BY <3>2, <3>3 DEF IInv
  <2>2. CASE SendFails(r)
    BY <1>5, <2>2, Deleted DEF Write, SendFails
  <2> QED
    BY <1>5, <2>1, <2>2 DEF Write
<1>6. CASE Receive(r)
  <2>1. /\ caller' \in [Requests -> Callers]
        /\ \A q \in Requests \ {r} : caller'[q] = caller[q]
        /\ caller'[r].at \in {"wait", "done"} /\ caller[r].at = "wait"
    <3>1. /\ Take(r, Head(chan[r])) \in Callers
          /\ Take(r, Head(chan[r])).at \in {caller[r].at, "done"}
          /\ TakeClosed(r) \in Callers /\ TakeClosed(r).at = "done"
      <4>1. caller[r] \in Callers
        BY DEF IInv, TypeInv
      <4>2. /\ Take(r, Head(chan[r])) \in Callers
            /\ Take(r, Head(chan[r])).at \in {caller[r].at, "done"}
        BY <4>1 DEF Take, Callers, CallerPlaces, Results
      <4>3. TakeClosed(r) \in Callers /\ TakeClosed(r).at = "done"
        BY <4>1 DEF TakeClosed, Callers, CallerPlaces, Results
      <4> QED
        BY <4>2, <4>3
    <3> QED
      BY <1>6, <3>1, Returned DEF Receive, IInv, TypeInv, Results
  <2> QED
    BY <1>6, <2>1, CallerMoves DEF Receive
<1>7. CASE WatchContext(r)
  BY <1>7, Deleted, Frame DEF WatchContext
<1>8. CASE CallerStep(r)
  BY <1>2, <1>3, <1>4, <1>5, <1>6, <1>8 DEF CallerStep
<1> QED
  BY <1>1, <1>7, <1>8

----------------------------------------------------------------------------

(* Every state of a session satisfies the invariant. *)
THEOREM Invariance == Spec => []IInv
<1>1. Init => IInv
  <2> SUFFICES ASSUME Init PROVE IInv
    OBVIOUS
  <2>1. TypeInv
    <3>1. [at |-> "idle", kind |-> "none", streaming |-> FALSE, result |-> "none"]
            \in Callers
      BY DEF Callers, CallerPlaces, Results
    <3> QED
      BY <3>1 DEF Init, TypeInv, CleanerPlaces
  <2>2. ClosedFirst /\ RangeReaches /\ NoOrphan
    BY DEF Init, ClosedFirst, RangeReaches, NoOrphan, Over
  <2>3. EntryKept
    BY DEF Init, EntryKept, OpenAt
  <2> QED
    BY <2>1, <2>2, <2>3 DEF IInv
<1>2. IInv /\ [Next]_vars => IInv'
  <2> SUFFICES ASSUME IInv, [Next]_vars PROVE IInv'
    OBVIOUS
  <2> USE DEF sessionVars, channelVars
  <2>1. CASE HandlerInsert \/ HandlerConnected
    BY <2>1, Frame DEF HandlerInsert, HandlerConnected
  <2>2. CASE ConnectionBreaks
    <3>1. /\ conn = "up"
          /\ UNCHANGED <<cleaner, caller, pending, shut, closed>>
      BY <2>2 DEF ConnectionBreaks
    <3>2. cleaner.at \notin Over
      BY <3>1 DEF IInv, ClosedFirst
    <3> QED
      BY <3>1, <3>2 DEF IInv, TypeInv, ClosedFirst, EntryKept, RangeReaches,
                        NoOrphan, OpenAt
  <2>3. CASE ReaderFails \/ HeartbeatFails
    BY <2>3, CleanupBegins DEF ReaderFails, HeartbeatFails
  <2>4. CASE Stop
    BY <2>4, CleanupBegins, Frame DEF Stop
  <2>5. CASE (\E r \in Requests : RangeLoad(r)) \/ RangeClose \/ RangeEnds
             \/ Delist \/ Disconnected
    BY <2>5, CleanerSteps
  <2>6. CASE ReaderSend
    BY <2>6, Frame DEF ReaderSend
  <2>7. CASE ReaderFinish
    BY <2>7, Deleted DEF ReaderFinish
  <2>8. ASSUME NEW r \in Requests,
               \/ \E kind \in Kinds : Begin(r, kind)
               \/ CallerStep(r) \/ WatchContext(r)
        PROVE  IInv'
    BY <2>8, CallerSteps
  <2>9. ASSUME NEW r \in Requests, ContextDone(r) \/ ReadMessage(r) PROVE IInv'
    BY <2>9, Frame DEF ContextDone, ReadMessage
  <2>10. CASE UNCHANGED vars
    BY <2>10, Frame DEF vars
  <2> QED
    BY <2>1, <2>2, <2>3, <2>4, <2>5, <2>6, <2>7, <2>8, <2>9, <2>10
       DEF Next, SessionStep
<1> QED
  BY <1>1, <1>2, PTL DEF Spec

(* Once cleanup has emptied the pending map, every caller of NonStream or  *)
(* Stream that is still waiting has a closed channel (session.cleanup      *)
(* against session.request): closed is set before Range begins, the        *)
(* connection is closed after it ends, and the two checks between them     *)
(* catch a request that Range missed.                                      *)
THEOREM NobodyOrphaned == Spec => []NoOrphan
<1>1. IInv => NoOrphan
  BY DEF IInv
<1> QED
  BY <1>1, Invariance, PTL

----------------------------------------------------------------------------
(* The way of an update *)

USE DispatchAssumption, WatcherAssumption
    DEF DispatchAssumption, WatcherAssumption

Updates == [id : Ids, val : Nat]
Outs == [Ids -> Nat \cup {None}]

(* s holds an update of id, and the last one has value v. *)
InSeq(s, id) == \E i \in 1..Len(s) : s[i].id = id
LastIs(s, id, v) ==
  \E i \in 1..Len(s) : /\ s[i].id = id /\ s[i].val = v
                       /\ \A j \in 1..Len(s) : j > i => s[j].id # id

(* The service will hold v of id when all that is under way has arrived. *)
Comes(id, v) ==
  IF pendingUpdates[id] # None THEN pendingUpdates[id] = v
  ELSE IF InSeq(batch, id) THEN LastIs(batch, id, v)
  ELSE IF InSeq(queue, id) THEN LastIs(queue, id, v)
  ELSE IF drained[id] # None THEN drained[id] = v
  ELSE applied[id] = v

(* The order holds the buffered ids, each once. *)
OrderInv ==
  /\ pendingOrder \in Seq(Ids)
  /\ \A i, j \in 1..Len(pendingOrder) :
       pendingOrder[i] = pendingOrder[j] => i = j
  /\ \A id \in Ids : (pendingUpdates[id] # None)
                     <=> \E i \in 1..Len(pendingOrder) : pendingOrder[i] = id

DispatchTypes ==
  /\ pendingUpdates \in Outs /\ drained \in Outs
  /\ applied \in [Ids -> Nat]
  /\ batch \in Seq(Updates) /\ queue \in Seq(Updates)

DispatchInv ==
  /\ DispatchTypes /\ OrderInv
  /\ (loop = "sending") <=> (batch # <<>>)
  /\ consumer = "idle" => drained = NoUpdates

(* An update stays the last of its id when another id's follows it, and an *)
(* appended one is the last.                                               *)
LEMMA Appended ==
  ASSUME NEW s \in Seq(Updates), NEW u \in Updates, NEW id, NEW v
  PROVE  /\ InSeq(Append(s, u), id) <=> (InSeq(s, id) \/ u.id = id)
         /\ u.id # id /\ LastIs(s, id, v) => LastIs(Append(s, u), id, v)
         /\ u.id = id => LastIs(Append(s, u), id, u.val)
<1> DEFINE t == Append(s, u)
           n == Len(s)
<1>1. n \in Nat /\ Len(t) = n + 1 /\ t[n + 1] = u
      /\ \A i \in 1..n : t[i] = s[i]
  BY AppendProperties, LenProperties
<1> HIDE DEF t, n
<1>2. \A i \in 1..Len(t) : i \in 1..n \/ i = n + 1
  BY <1>1
<1>3. n + 1 \in 1..Len(t) /\ \A i \in 1..n : i \in 1..Len(t) /\ i < n + 1
  BY <1>1
<1>4. InSeq(t, id) <=> (InSeq(s, id) \/ u.id = id)
  BY <1>1, <1>2, <1>3 DEF InSeq, n
<1>5. ASSUME u.id # id, LastIs(s, id, v) PROVE LastIs(t, id, v)
  BY <1>1, <1>2, <1>3, <1>5 DEF LastIs, n
<1>6. ASSUME u.id = id PROVE LastIs(t, id, u.val)
  <2>1. \A j \in 1..Len(t) : ~(j > n + 1)
    BY <1>1
  <2> QED
    BY <1>1, <1>3, <1>6, <2>1 DEF LastIs
<1> QED
  BY <1>4, <1>5, <1>6 DEF t

(* What is left of a sequence when its head is taken *)
LEMMA HeadTaken ==
  ASSUME NEW s \in Seq(Updates), s # <<>>, NEW id, NEW v
  PROVE  /\ Head(s) \in Updates /\ Tail(s) \in Seq(Updates)
         /\ InSeq(s, id) <=> (Head(s).id = id \/ InSeq(Tail(s), id))
         /\ LastIs(s, id, v) =>
              IF InSeq(Tail(s), id) THEN LastIs(Tail(s), id, v)
              ELSE Head(s).id = id /\ Head(s).val = v
<1> DEFINE t == Tail(s)
           n == Len(t)
<1>1. Head(s) = s[1] /\ Head(s) \in Updates /\ t \in Seq(Updates)
  BY HeadTailProperties
<1>2. n \in Nat /\ Len(s) = n + 1 /\ \A i \in 1..n : t[i] = s[i + 1]
  BY HeadTailProperties, LenProperties, <1>1
<1> HIDE DEF t, n
<1>3. /\ 1 \in 1..Len(s)
      /\ \A i \in 1..n : i + 1 \in 1..Len(s) /\ i + 1 > 1
      /\ \A i \in 1..Len(s) : i = 1 \/ (i - 1 \in 1..n /\ (i - 1) + 1 = i)
      /\ \A i, j \in 1..n : j > i <=> j + 1 > i + 1
  BY <1>2
<1>4. InSeq(s, id) <=> (s[1].id = id \/ InSeq(t, id))
  <2>1. ASSUME InSeq(s, id), s[1].id # id PROVE InSeq(t, id)
    <3>1. PICK i \in 1..Len(s) : s[i].id = id
      BY <2>1 DEF InSeq
    <3>2. i - 1 \in 1..n /\ t[i - 1] = s[i]
      BY <1>2, <1>3, <2>1, <3>1
    <3> QED
      BY <3>1, <3>2 DEF InSeq, n
  <2>2. ASSUME InSeq(t, id) PROVE InSeq(s, id)
    BY <1>2, <1>3, <2>2 DEF InSeq, n
  <2> QED
    BY <1>3, <2>1, <2>2 DEF InSeq
<1>5. ASSUME LastIs(s, id, v), InSeq(t, id) PROVE LastIs(t, id, v)
  <2>1. PICK i \in 1..Len(s) : /\ s[i].id = id /\ s[i].val = v
                               /\ \A j \in 1..Len(s) : j > i => s[j].id # id
    BY <1>5 DEF LastIs
  <2>2. i # 1
    BY <1>2, <1>3, <1>5, <2>1 DEF InSeq, n
  <2>3. i - 1 \in 1..n /\ t[i - 1] = s[i]
    BY <1>2, <1>3, <2>2
  <2>4. \A j \in 1..n : j > i - 1 => t[j].id # id
    BY <1>2, <1>3, <2>1, <2>3
  <2> QED
    BY <2>1, <2>3, <2>4 DEF LastIs, n
<1>6. ASSUME LastIs(s, id, v), ~InSeq(t, id)
      PROVE  s[1].id = id /\ s[1].val = v
  <2>1. PICK i \in 1..Len(s) : s[i].id = id /\ s[i].val = v
    BY <1>6 DEF LastIs
  <2>2. ASSUME i # 1 PROVE FALSE
    <3>1. i - 1 \in 1..n /\ (i - 1) + 1 = i
      BY <1>3, <2>1, <2>2
    <3>2. t[i - 1].id = id
      BY <1>2, <2>1, <3>1
    <3> QED
      BY <1>6, <3>1, <3>2 DEF InSeq, n
  <2> QED
    BY <2>1, <2>2
<1> QED
  BY <1>1, <1>4, <1>5, <1>6 DEF t

(* SetToSeq lists a finite set, each element once. *)
LEMMA Listed ==
  ASSUME NEW S \in SUBSET Ids
  PROVE  /\ SetToSeq(S) \in Seq(S)
         /\ \A i, j \in 1..Len(SetToSeq(S)) :
              SetToSeq(S)[i] = SetToSeq(S)[j] => i = j
         /\ \A x \in S : \E i \in 1..Len(SetToSeq(S)) : SetToSeq(S)[i] = x
<1> DEFINE N == Cardinality(S)
           Dom == 1..N
           q == SetToSeq(S)
<1>1. IsFiniteSet(S) /\ N \in Nat
  BY FS_Subset, FS_CardinalityType
<1>2. ExistsBijection(Dom, S)
  BY <1>1, FS_CardinalityType
<1>3. PICK g \in Bijection(Dom, S) : TRUE
  BY <1>2 DEF ExistsBijection
<1>4. g \in [Dom -> S] /\ IsInjective(g)
  BY <1>3 DEF Bijection, Injection
<1>5. q \in [Dom -> S] /\ IsInjective(q)
  BY <1>4 DEF SetToSeq
<1>6. IsFiniteSet(Dom) /\ Cardinality(Dom) = N
  BY <1>1, FS_Interval
<1>7. q \in Surjection(Dom, S)
  BY ONLY <1>1, <1>5, <1>6, FS_Injection DEF Injection
<1> HIDE DEF q, N
<1>8. q \in Seq(S) /\ Len(q) = N
  BY <1>1, <1>5
<1> QED
  BY <1>5, <1>7, <1>8 DEF Surjection, IsInjective, q

ComesKept == \A id \in Ids : \A v : Comes(id, v) => Comes(id, v)'

LEMMA DispatchRests ==
  ASSUME DispatchInv, UNCHANGED <<dispatchVars, serviceVars>>
  PROVE  DispatchInv' /\ ComesKept
<1>1. /\ pendingUpdates' = pendingUpdates /\ pendingOrder' = pendingOrder
      /\ loop' = loop /\ batch' = batch /\ queue' = queue
      /\ consumer' = consumer /\ drained' = drained /\ applied' = applied
  BY DEF dispatchVars, serviceVars
<1>2. DispatchInv'
  BY <1>1 DEF DispatchInv, DispatchTypes, OrderInv
<1>3. ComesKept
  BY <1>1 DEF ComesKept, Comes
<1> QED
  BY <1>2, <1>3

(* dispatchAuthUpdates: what it is given will come, the rest is as before. *)
LEMMA Dispatched ==
  ASSUME DispatchInv, NEW new \in Outs, dispatchAuthUpdates(new),
         UNCHANGED serviceVars
  PROVE  /\ DispatchInv'
         /\ \A id \in Ids : \A v : new[id] = v /\ v # None => Comes(id, v)'
         /\ \A id \in Ids : new[id] = None =>
              \A v : Comes(id, v) => Comes(id, v)'
<1> DEFINE fresh == {id \in Keys(new) : pendingUpdates[id] = None}
           q == SetToSeq(fresh)
           m == Len(pendingOrder)
<1>1. /\ pendingUpdates' = [id \in Ids |-> IF new[id] # None THEN new[id]
                                           ELSE pendingUpdates[id]]
      /\ pendingOrder' = pendingOrder \o q
      /\ batch' = batch /\ queue' = queue /\ consumer' = consumer
      /\ drained' = drained /\ applied' = applied
  BY DEF dispatchAuthUpdates, Buffer, serviceVars, Keys
<1>2. (loop' = "sending") <=> (loop = "sending")
  BY DEF dispatchAuthUpdates
<1>3. fresh \in SUBSET Ids
  BY DEF Keys
<1>4. /\ q \in Seq(Ids) /\ q \in Seq(fresh)
      /\ \A i, j \in 1..Len(q) : q[i] = q[j] => i = j
      /\ \A x \in fresh : \E i \in 1..Len(q) : q[i] = x
  <2>1. q \in Seq(fresh)
    BY <1>3, Listed
  <2>2. q \in Seq(Ids)
    BY <1>3, <2>1, SeqMonotonic
  <2> QED
    BY <1>3, <2>1, <2>2, Listed
<1>5. pendingOrder \in Seq(Ids) /\ pendingUpdates \in Outs
  BY DEF DispatchInv, DispatchTypes, OrderInv
<1>6. /\ m \in Nat /\ Len(q) \in Nat
      /\ pendingOrder' \in Seq(Ids) /\ Len(pendingOrder') = m + Len(q)
      /\ \A i \in 1..m : pendingOrder'[i] = pendingOrder[i]
      /\ \A i \in m + 1..m + Len(q) : i - m \in 1..Len(q) /\ pendingOrder'[i] = q[i - m]
  BY <1>1, <1>4, <1>5, ConcatProperties, LenProperties
<1>7. \A i \in 1..Len(q) : q[i] \in fresh
  BY <1>4, ElementOfSeq
<1>8. \A i \in 1..m : pendingOrder[i] \notin fresh /\ pendingOrder[i] \in Ids
  BY <1>5, ElementOfSeq DEF DispatchInv, OrderInv
<1> HIDE DEF q, m
<1>9. \A i \in 1..Len(pendingOrder') :
        i \in 1..m \/ (i \in m + 1..m + Len(q) /\ i - m \in 1..Len(q))
  BY <1>6
<1>10. \A i, j \in 1..Len(pendingOrder') :
         pendingOrder'[i] = pendingOrder'[j] => i = j
  <2> SUFFICES ASSUME NEW i \in 1..Len(pendingOrder'),
                      NEW j \in 1..Len(pendingOrder'),
                      pendingOrder'[i] = pendingOrder'[j]
               PROVE  i = j
    OBVIOUS
  <2>1. CASE i \in 1..m /\ j \in 1..m
    BY <1>6, <2>1 DEF DispatchInv, OrderInv, m
  <2>2. CASE i \in 1..m /\ j \notin 1..m
    <3>1. j - m \in 1..Len(q) /\ pendingOrder'[j] = q[j - m]
      BY <1>6, <1>9, <2>2
    <3>2. pendingOrder'[j] \in fresh /\ pendingOrder'[i] \notin fresh
      BY <1>6, <1>7, <1>8, <3>1, <2>2
    <3> QED
      BY <3>2
  <2>3. CASE i \notin 1..m /\ j \in 1..m
    <3>1. i - m \in 1..Len(q) /\ pendingOrder'[i] = q[i - m]
      BY <1>6, <1>9, <2>3
    <3>2. pendingOrder'[i] \in fresh /\ pendingOrder'[j] \notin fresh
      BY <1>6, <1>7, <1>8, <3>1, <2>3
    <3> QED
      BY <3>2
  <2>4. CASE i \notin 1..m /\ j \notin 1..m
    <3>1. q[i - m] = q[j - m] /\ i - m \in 1..Len(q) /\ j - m \in 1..Len(q)
      BY <1>6, <1>9, <2>4
    <3>2. i - m = j - m
      BY <1>4, <3>1
    <3> QED
      BY <1>6, <3>2
  <2> QED
    BY <2>1, <2>2, <2>3, <2>4
<1>11. ASSUME NEW id \in Ids
       PROVE  (pendingUpdates'[id] # None)
              <=> \E i \in 1..Len(pendingOrder') : pendingOrder'[i] = id
  <2>1. (pendingUpdates'[id] # None) <=> (pendingUpdates[id] # None \/ id \in fresh)
    BY <1>1, <1>5 DEF Keys, Outs
  <2>2. (pendingUpdates[id] # None) <=> \E i \in 1..m : pendingOrder[i] = id
    BY DEF DispatchInv, OrderInv, m
  <2>3. ASSUME pendingUpdates[id] # None \/ id \in fresh
        PROVE  \E i \in 1..Len(pendingOrder') : pendingOrder'[i] = id
    <3>1. CASE pendingUpdates[id] # None
      <4>1. PICK i \in 1..m : pendingOrder[i] = id
        BY <2>2, <3>1
      <4>2. i \in 1..Len(pendingOrder') /\ pendingOrder'[i] = id
        BY <1>6, <4>1
      <4> QED
        BY <4>2
    <3>2. CASE id \in fresh
      <4>1. PICK i \in 1..Len(q) : q[i] = id
        BY <1>4, <3>2
      <4>2. m + i \in m + 1..m + Len(q) /\ (m + i) - m = i
            /\ m + i \in 1..Len(pendingOrder')
        BY <1>6
      <4>3. pendingOrder'[m + i] = id
        BY <1>6, <4>1, <4>2
      <4> QED
        BY <4>2, <4>3
    <3> QED
      BY <2>3, <3>1, <3>2
  <2>4. ASSUME NEW i \in 1..Len(pendingOrder'), pendingOrder'[i] = id
        PROVE  pendingUpdates[id] # None \/ id \in fresh
    BY <1>6, <1>7, <1>9, <2>2, <2>4
  <2> QED
    BY <2>1, <2>3, <2>4
<1>12. pendingUpdates' \in Outs
  BY <1>1, <1>5 DEF Outs
<1>13. DispatchInv'
  BY <1>1, <1>2, <1>6, <1>10, <1>11, <1>12 DEF DispatchInv, DispatchTypes, OrderInv
<1>14. ASSUME NEW id \in Ids, NEW v, new[id] = v, v # None
       PROVE  Comes(id, v)'
  BY <1>1, <1>14 DEF Comes
<1>15. ASSUME NEW id \in Ids, new[id] = None, NEW v, Comes(id, v)
       PROVE  Comes(id, v)'
  <2>1. pendingUpdates'[id] = pendingUpdates[id]
    BY <1>1, <1>15
  <2> QED
    BY <1>1, <1>15, <2>1 DEF Comes
<1> QED
  BY <1>13, <1>14, <1>15

(* nextPendingBatch: each buffered update is the only one of its id in the *)
(* batch.                                                                  *)
LEMMA BatchTaken ==
  ASSUME DispatchInv, nextPendingBatch
  PROVE  DispatchInv' /\ ComesKept
<1>1. CASE pendingOrder = <<>>
  <2>1. /\ UNCHANGED <<pendingUpdates, pendingOrder, batch, serviceVars>>
        /\ (loop' = "sending") <=> (loop = "sending")
    BY <1>1 DEF nextPendingBatch
  <2>2. DispatchInv'
    BY <2>1 DEF DispatchInv, DispatchTypes, OrderInv, serviceVars
  <2>3. ComesKept
    BY <2>1 DEF ComesKept, Comes, serviceVars
  <2> QED
    BY <2>2, <2>3
<1>2. CASE pendingOrder # <<>>
  <2> DEFINE m == Len(pendingOrder)
  <2>1. /\ loop' = "sending" /\ batch = <<>>
        /\ batch' = [i \in 1..m |-> Update(pendingOrder[i], pendingUpdates[pendingOrder[i]])]
        /\ pendingUpdates' = [id \in Ids |-> None] /\ pendingOrder' = <<>>
        /\ queue' = queue /\ consumer' = consumer /\ drained' = drained
        /\ applied' = applied
    BY <1>2 DEF nextPendingBatch, serviceVars, DispatchInv, OrderInv
  <2>2. /\ pendingOrder \in Seq(Ids) /\ m \in Nat /\ m > 0
        /\ \A i \in 1..m : pendingOrder[i] \in Ids
    BY <1>2, LenProperties, ElementOfSeq, EmptySeq DEF DispatchInv, OrderInv
  <2>3. \A i \in 1..m : pendingUpdates[pendingOrder[i]] \in Nat
    BY <2>2 DEF DispatchInv, DispatchTypes, OrderInv, Outs
  <2>4. batch' \in [1..m -> Updates]
    BY <2>1, <2>2, <2>3 DEF Updates, Update
  <2> HIDE DEF m
  <2>5. batch' \in Seq(Updates) /\ Len(batch') = m
    BY <2>2, <2>4
  <2>6. batch' # <<>>
    BY <2>2, <2>5
  <2>7. OrderInv'
    BY <2>1 DEF OrderInv
  <2>8. DispatchTypes'
    BY <2>1, <2>5 DEF DispatchInv, DispatchTypes, Outs
  <2>9. DispatchInv'
    BY <2>1, <2>6, <2>7, <2>8 DEF DispatchInv
  <2>10. ASSUME NEW id \in Ids, NEW v, Comes(id, v) PROVE Comes(id, v)'
    <3>1. \A i \in 1..m : batch'[i].id = pendingOrder[i]
                          /\ batch'[i].val = pendingUpdates[pendingOrder[i]]
      BY <2>1 DEF Update
    <3>2. CASE pendingUpdates[id] # None
      <4>1. PICK i \in 1..m : pendingOrder[i] = id
        BY <3>2 DEF DispatchInv, OrderInv, m
      <4>2. \A j \in 1..m : j > i => pendingOrder[j] # id
        BY <2>2, <4>1 DEF DispatchInv, OrderInv, m
      <4>3. v = pendingUpdates[id]
        BY <2>10, <3>2 DEF Comes
      <4>4. InSeq(batch', id) /\ LastIs(batch', id, v)
        BY <2>5, <3>1, <4>1, <4>2, <4>3 DEF InSeq, LastIs
      <4> QED
        BY <2>1, <4>4 DEF Comes
    <3>3. CASE pendingUpdates[id] = None
      <4>1. \A i \in 1..m : pendingOrder[i] # id
        BY <3>3 DEF DispatchInv, OrderInv, m
      <4>2. ~InSeq(batch', id)
        BY <2>5, <3>1, <4>1 DEF InSeq
      <4>3. ~InSeq(batch, id)
        BY <2>1 DEF InSeq
      <4> QED
        BY <2>1, <2>10, <3>3, <4>2, <4>3 DEF Comes
    <3> QED
      BY <3>2, <3>3
  <2> QED
    BY <2>9, <2>10 DEF ComesKept
<1> QED
  BY <1>1, <1>2

(* An update that is sent goes behind those in the queue. *)
LEMMA Sent ==
  ASSUME DispatchInv, dispatchSend
  PROVE  DispatchInv' /\ ComesKept
<1>1. /\ batch \in Seq(Updates) /\ queue \in Seq(Updates) /\ batch # <<>>
      /\ loop = "sending"
      /\ queue' = Append(queue, Head(batch)) /\ batch' = Tail(batch)
      /\ loop' = IF Len(batch) = 1 THEN "check" ELSE loop
      /\ pendingUpdates' = pendingUpdates /\ pendingOrder' = pendingOrder
      /\ consumer' = consumer /\ drained' = drained /\ applied' = applied
  BY DEF dispatchSend, DispatchInv, DispatchTypes
<1>2. Head(batch) \in Updates /\ batch' \in Seq(Updates) /\ Len(batch') = Len(batch) - 1
  BY <1>1, HeadTailProperties
<1>3. queue' \in Seq(Updates)
  BY <1>1, <1>2, AppendProperties
<1>4. (loop' = "sending") <=> (batch' # <<>>)
  <2>1. Len(batch) \in Nat
    BY <1>1, LenProperties
  <2>2. batch' # <<>> <=> Len(batch') # 0
    BY <1>2, EmptySeq, LenProperties
  <2> QED
    BY <1>1, <1>2, <2>1, <2>2
<1>5. DispatchInv'
  BY <1>1, <1>2, <1>3, <1>4 DEF DispatchInv, DispatchTypes, OrderInv
<1>6. ASSUME NEW id \in Ids, NEW v, Comes(id, v) PROVE Comes(id, v)'
  <2> DEFINE h == Head(batch)
  <2>1. /\ InSeq(batch, id) <=> (h.id = id \/ InSeq(batch', id))
        /\ LastIs(batch, id, v) => IF InSeq(batch', id) THEN LastIs(batch', id, v)
                                   ELSE h.id = id /\ h.val = v
    BY <1>1, HeadTaken
  <2>2. /\ InSeq(queue', id) <=> (InSeq(queue, id) \/ h.id = id)
        /\ h.id # id /\ LastIs(queue, id, v) => LastIs(queue', id, v)
        /\ h.id = id => LastIs(queue', id, h.val)
    BY <1>1, <1>2, Appended
  <2> HIDE DEF h
  <2> QED
    BY <1>1, <1>6, <2>1, <2>2 DEF Comes
<1> QED
  BY <1>5, <1>6 DEF ComesKept

(* The consumer takes the updates in order and keeps the last of each id. *)
LEMMA Consumed ==
  ASSUME DispatchInv, consumeAuthUpdates
  PROVE  DispatchInv' /\ ComesKept
<1>1. /\ queue \in Seq(Updates) /\ queue # <<>> /\ drained \in Outs
      /\ drained' = [drained EXCEPT ![Head(queue).id] = Head(queue).val]
      /\ queue' = Tail(queue) /\ consumer' = "draining"
      /\ pendingUpdates' = pendingUpdates /\ pendingOrder' = pendingOrder
      /\ batch' = batch /\ loop' = loop /\ applied' = applied
  BY DEF consumeAuthUpdates, DispatchInv, DispatchTypes, dispatchVars
<1>2. Head(queue) \in Updates /\ queue' \in Seq(Updates)
  BY <1>1, HeadTailProperties
<1>3. drained' \in Outs
  BY <1>1, <1>2 DEF Outs, Updates
<1>4. DispatchInv'
  BY <1>1, <1>2, <1>3 DEF DispatchInv, DispatchTypes, OrderInv
<1>5. ASSUME NEW id \in Ids, NEW v, Comes(id, v) PROVE Comes(id, v)'
  <2> DEFINE h == Head(queue)
  <2>1. /\ InSeq(queue, id) <=> (h.id = id \/ InSeq(queue', id))
        /\ LastIs(queue, id, v) => IF InSeq(queue', id) THEN LastIs(queue', id, v)
                                   ELSE h.id = id /\ h.val = v
    BY <1>1, HeadTaken
  <2>2. /\ h.val \in Nat /\ h.id \in Ids
        /\ drained'[id] = IF h.id = id THEN h.val ELSE drained[id]
    BY <1>1, <1>2 DEF Outs, Updates
  <2>3. h.val # None
    BY <2>2 DEF None
  <2> HIDE DEF h
  <2> QED
    BY <1>1, <1>5, <2>1, <2>2, <2>3 DEF Comes
<1> QED
  BY <1>4, <1>5 DEF ComesKept

LEMMA Handled ==
  ASSUME DispatchInv, handleAuthUpdates
  PROVE  DispatchInv' /\ ComesKept
<1>1. /\ queue = <<>> /\ queue' = queue /\ consumer' = "idle"
      /\ drained \in Outs /\ applied \in [Ids -> Nat]
      /\ applied' = [id \in Ids |-> IF drained[id] = None THEN applied[id]
                                    ELSE drained[id]]
      /\ drained' = [id \in Ids |-> None]
      /\ pendingUpdates' = pendingUpdates /\ pendingOrder' = pendingOrder
      /\ batch' = batch /\ loop' = loop
  BY DEF handleAuthUpdates, DispatchInv, DispatchTypes, dispatchVars
<1>2. applied' \in [Ids -> Nat] /\ drained' \in Outs /\ drained' = NoUpdates
  BY <1>1 DEF Outs, NoUpdates
<1>3. DispatchInv'
  BY <1>1, <1>2 DEF DispatchInv, DispatchTypes, OrderInv
<1>4. ComesKept
  BY <1>1 DEF ComesKept, Comes, InSeq
<1> QED
  BY <1>3, <1>4

----------------------------------------------------------------------------
(* The invariant of the watcher *)

Contents == Nat \cup {Partial}
Ops == {"write", "remove"}
Handlers ==
  [at : {"idle", "stat", "compare", "read", "apply", "forget", "post"},
   file : Files \cup {None}, data : Nat, out : Outs]
Loads ==
  [at : {"idle", "load", "commit", "affected", "rescan", "snapshot",
         "install", "post", "hash"},
   first : BOOLEAN, cfg : Nat, force : BOOLEAN, snap : [Files -> Nat],
   out : Outs]

WatcherTyped ==
  /\ disk \in [Files -> Contents]
  /\ events \in Seq(Files \X Ops)
  /\ cfgDisk \in Nat \ {0} /\ lastConfigHash \in Nat /\ config \in Nat
  /\ lastAuthHashes \in [Files -> Contents]
  /\ fileAuthsByPath \in SUBSET Files
  /\ currentAuths \in [Ids -> Nat] /\ runtimeAuths \in [Runtimes -> Nat]
  /\ handler \in Handlers /\ reload \in [Reloads -> Loads]
  /\ reporter \in [Reporters -> Outs]

Queued(f, op) == \E i \in 1..Len(events) : events[i] = <<f, op>>

(* The handler holds updates only when it is about to hand them over.  A   *)
(* file it is about to forget is absent or will be looked at.              *)
HandlerPlaced ==
  /\ handler.at # "idle" => handler.file \in Files
  /\ handler.at # "post" => handler.out = NoUpdates
  /\ handler.at = "apply" =>
       /\ handler.data = lastAuthHashes[handler.file]
       /\ handler.data \notin {Absent, Partial}
  /\ handler.at = "forget" =>
       \/ disk[handler.file] \in {Absent, Partial}
       \/ Queued(handler.file, "write")

(* A reload has read the configuration once it is past loading it, except  *)
(* the first one, which does not read it.                                  *)
ReloadPlaced(r) ==
  /\ reload[r].at # "post" => reload[r].out = NoUpdates
  /\ reload[r].at \in {"idle", "load"} => reload[r].cfg = 0 /\ ~reload[r].first
  /\ reload[r].at \in {"commit", "affected", "hash"} => ~reload[r].first
  /\ reload[r].first => reload[r].cfg = 0
  /\ reload[r].at \notin {"idle", "load"} /\ ~reload[r].first =>
       reload[r].cfg # 0

(* The value the watcher has of a credential is on its way, or the only    *)
(* goroutine that holds an update of it holds that value.                  *)
Delivered(id) ==
  id \notin overtaken =>
    /\ ~Contended(id)
    /\ \A g \in Holders(id) : Held(g)[id] = currentAuths[id]
    /\ Holders(id) = {} => Comes(id, currentAuths[id])
    /\ id \in Runtimes => currentAuths[id] = runtimeAuths[id]

(* The value the watcher has of a file is the one whose hash it remembers, *)
(* unless a goroutine is about to set it, and so is the index.             *)
Applying(f) == handler.at = "apply" /\ handler.file = f
Reloading(places) == \E r \in Reloads : reload[r].at \in places

Agrees(f) ==
  /\ Outdated(f) => f \in unseen
  /\ \/ f \in unseen
     \/ Applying(f)
     \/ Reloading({"rescan", "snapshot", "install"})
     \/ currentAuths[f] = Parsed(lastAuthHashes[f])
  /\ \/ Applying(f)
     \/ (f \in fileAuthsByPath) <=> (Parsed(lastAuthHashes[f]) # Absent)

(* A file whose content is not the one whose hash is remembered will be    *)
(* looked at.                                                              *)
Noticed(f) ==
  \/ lastAuthHashes[f] = disk[f]
  \/ Reloading({"rescan"})
  \/ disk[f] = Partial
  \/ disk[f] # Absent /\ Queued(f, "write")
  \/ disk[f] = Absent /\ Queued(f, "remove")
  \/ /\ handler.file = f
     /\ \/ handler.at = "stat"
        \/ handler.at \in {"compare", "read"} /\ disk[f] # Absent
        \/ handler.at = "forget" /\ disk[f] = Absent

Looked(f) == f \in debounced \/ Noticed(f)

(* A file that is gone has its removal after any write. *)
Ordered(f) ==
  disk[f] = Absent =>
    \A i \in 1..Len(events) : events[i] = <<f, "write">> =>
      \E j \in 1..Len(events) : j > i /\ events[j] = <<f, "remove">>

(* While no version has been missed, who has read the configuration has    *)
(* read the one on disk, and it is in force, about to be, or the timer is  *)
(* set; and the hash that is remembered is that of the one in force.       *)
ConfigKept ==
  \/ missed
  \/ /\ \A r \in Reloads : HasRead(r) =>
          /\ reload[r].cfg = cfgDisk
          /\ reload[r].at # "commit" => config = cfgDisk
     /\ config = cfgDisk \/ cfgTimer \/ Reloading({"load", "commit"})
     /\ (\A r \in Reloads : ~HasRead(r)) => lastConfigHash \in {0, config}

WatchInv ==
  /\ DispatchInv /\ WatcherTyped /\ HandlerPlaced
  /\ \A r \in Reloads : ReloadPlaced(r)
  /\ \A id \in Ids : Delivered(id)
  /\ \A f \in Files : Agrees(f) /\ Looked(f) /\ Ordered(f)
  /\ ConfigKept

Records == Overtakes /\ Unsees /\ Debounces /\ Misses

----------------------------------------------------------------------------
(* What the histories leave alone *)

Hands == {"handler"} \cup Reloads \cup Reporters

LEMMA HeldTyped ==
  ASSUME WatcherTyped PROVE \A g \in Hands : Held(g) \in Outs
BY DEF WatcherTyped, Held, Hands, Handlers, Loads

LEMMA HoldersAre ==
  /\ \A id : Holders(id) = {g \in Hands : Held(g)[id] # None}
  /\ \A id : Holders(id)' = {g \in Hands : Held(g)'[id] # None}
BY DEF Holders, Hands

(* Nobody takes or hands over an update of this credential. *)
LEMMA DeliveryRests ==
  ASSUME NEW id \in Ids, Delivered(id), Overtakes,
         \A g \in Hands : Held(g)'[id] = Held(g)[id],
         currentAuths'[id] = currentAuths[id],
         id \in Runtimes => runtimeAuths'[id] = runtimeAuths[id],
         \A v : Comes(id, v) => Comes(id, v)'
  PROVE  Delivered(id)'
<1>1. Holders(id)' = Holders(id)
  BY HoldersAre
<1>2. SUFFICES ASSUME id \notin overtaken'
               PROVE  /\ ~Contended(id)'
                      /\ \A g \in Holders(id)' : Held(g)'[id] = currentAuths'[id]
                      /\ Holders(id)' = {} => Comes(id, currentAuths[id])'
                      /\ id \in Runtimes => currentAuths'[id] = runtimeAuths'[id]
  BY DEF Delivered
<1>3. ~Contended(id)' /\ id \notin overtaken
  BY <1>1, <1>2 DEF Overtakes
<1>4. Holders(id) \subseteq Hands
  BY HoldersAre
<1> QED
  BY <1>1, <1>3, <1>4 DEF Delivered

(* One goroutine takes an update with the new value. *)
LEMMA DeliveryTaken ==
  ASSUME NEW id \in Ids, Delivered(id), Overtakes, NEW g \in Hands,
         currentAuths'[id] \in Nat,
         Held(g)'[id] = currentAuths'[id],
         id \in Runtimes => currentAuths'[id] = runtimeAuths'[id]
  PROVE  Delivered(id)'
<1>1. g \in Holders(id)'
  BY HoldersAre DEF None
<1>2. SUFFICES ASSUME id \notin overtaken'
               PROVE  /\ ~Contended(id)'
                      /\ \A h \in Holders(id)' : Held(h)'[id] = currentAuths'[id]
                      /\ Holders(id)' = {} => Comes(id, currentAuths[id])'
                      /\ id \in Runtimes => currentAuths'[id] = runtimeAuths'[id]
  BY DEF Delivered
<1>3. ~Contended(id)'
  BY <1>2 DEF Overtakes
<1>4. \A h \in Holders(id)' : h = g
  BY <1>1, <1>3 DEF Contended
<1> QED
  BY <1>1, <1>3, <1>4

(* The goroutine that held an update has handed it over. *)
LEMMA DeliveryPosted ==
  ASSUME NEW id \in Ids, Delivered(id), Overtakes, NEW g \in Hands,
         Held(g)[id] # None, Held(g)'[id] = None,
         \A h \in Hands \ {g} : Held(h)'[id] = Held(h)[id],
         currentAuths'[id] = currentAuths[id],
         id \in Runtimes => runtimeAuths'[id] = runtimeAuths[id],
         NEW v, Held(g)[id] = v, Comes(id, v)'
  PROVE  Delivered(id)'
<1>1. g \in Holders(id)
  BY HoldersAre
<1>2. SUFFICES ASSUME id \notin overtaken'
               PROVE  /\ ~Contended(id)'
                      /\ \A h \in Holders(id)' : Held(h)'[id] = currentAuths'[id]
                      /\ Holders(id)' = {} => Comes(id, currentAuths[id])'
                      /\ id \in Runtimes => currentAuths'[id] = runtimeAuths'[id]
  BY DEF Delivered
<1>3. ~Contended(id)' /\ id \notin overtaken
  BY <1>1, <1>2 DEF Overtakes
<1>4. \A h \in Holders(id) : h = g
  BY <1>1, <1>3 DEF Delivered, Contended
<1>5. Holders(id)' = {}
  BY <1>4, HoldersAre
<1>6. v = currentAuths[id]
  BY <1>1, <1>3 DEF Delivered
<1>7. Comes(id, currentAuths[id])'
  BY <1>6
<1>8. id \in Runtimes => currentAuths'[id] = runtimeAuths'[id]
  BY <1>3 DEF Delivered
<1>9. \A h \in Holders(id)' : Held(h)'[id] = currentAuths'[id]
  BY <1>5
<1> QED
  BY <1>3, <1>7, <1>8, <1>9

(* A reload forgets the value. *)
LEMMA DeliveryForgotten ==
  ASSUME NEW id \in Ids, Overtakes,
         \A g \in Hands : Held(g)'[id] = Held(g)[id],
         currentAuths'[id] # currentAuths[id]
  PROVE  Delivered(id)'
<1>1. Holders(id)' = Holders(id)
  BY HoldersAre
<1>2. id \in overtaken'
  BY <1>1 DEF Overtakes
<1> QED
  BY <1>2 DEF Delivered

(* Between two events no file is forgotten to be looked at; a scan of the  *)
(* directory looks at all.                                                 *)
LEMMA LookedKept ==
  ASSUME WatcherTyped, NEW f \in Files, Looked(f), Debounces, ~TakeEvent,
         Noticed(f) => Noticed(f)'
  PROVE  Looked(f)'
<1>1. CASE \E r \in Reloads : RescanFiles(r)
  <2>1. lastAuthHashes' = disk /\ disk' = disk
    BY <1>1 DEF RescanFiles, ReloadKeeps
  <2> QED
    BY <2>1 DEF Looked, Noticed
<1>2. CASE ~\E r \in Reloads : RescanFiles(r)
  <2>1. debounced' = debounced
    BY <1>2 DEF Debounces
  <2> QED
    BY <2>1 DEF Looked
<1> QED
  BY <1>1, <1>2

LEMMA NoEventTaken ==
  ASSUME WatcherTyped, events' = events PROVE ~TakeEvent
<1> DEFINE E == Files \X Ops
<1>1. events \in Seq(E)
  BY DEF WatcherTyped
<1> HIDE DEF E
<1>2. SUFFICES ASSUME events # <<>>, events' = Tail(events) PROVE FALSE
  BY DEF TakeEvent
<1>3. Len(Tail(events)) = Len(events) - 1 /\ Len(events) \in Nat
  BY <1>1, <1>2, HeadTailProperties, LenProperties
<1> QED
  BY <1>2, <1>3

LEMMA ConfigRests ==
  ASSUME ConfigKept, Misses, reload' = reload, UNCHANGED configVars
  PROVE  ConfigKept'
<1>1. /\ cfgDisk' = cfgDisk /\ cfgTimer' = cfgTimer /\ config' = config
      /\ lastConfigHash' = lastConfigHash
      /\ \A r : HasRead(r)' <=> HasRead(r)
  BY DEF configVars, HasRead
<1>2. missed' <=> missed
  BY <1>1 DEF Misses
<1> QED
  BY <1>1, <1>2 DEF ConfigKept, Reloading, HasRead

LEMMA HeldAlike ==
  ASSUME handler'.out = handler.out, reporter' = reporter,
         \A r \in Reloads : reload'[r].out = reload[r].out
  PROVE  \A g \in Hands : Held(g)' = Held(g)
BY DEF Held, Hands

(* Neither the value of a file nor its hash nor its index entry changes. *)
LEMMA AgreesKept ==
  ASSUME NEW f \in Files, Agrees(f), Unsees,
         Applying(f)' <=> Applying(f),
         Reloading({"rescan", "snapshot", "install"})
           => Reloading({"rescan", "snapshot", "install"})',
         lastAuthHashes' = lastAuthHashes, fileAuthsByPath' = fileAuthsByPath,
         currentAuths'[f] = currentAuths[f]
  PROVE  Agrees(f)'
<1>1. (f \in unseen' \/ f \notin unseen \/ currentAuths'[f] = Parsed(lastAuthHashes'[f]))
      /\ (Outdated(f)' => f \in unseen')
  BY DEF Unsees
<1>2. Parsed(lastAuthHashes[f])' = Parsed(lastAuthHashes[f])
      /\ Parsed(lastAuthHashes[f])' = Parsed(lastAuthHashes'[f])
  BY DEF Parsed
<1> QED
  BY <1>1, <1>2 DEF Agrees

(* No goroutine takes or hands over an update, and neither the watcher's   *)
(* value of a credential nor a hash changes.                               *)
LEMMA Still ==
  ASSUME WatchInv, Records, DispatchInv', ComesKept,
         handler'.out = handler.out, reporter' = reporter,
         \A r \in Reloads : reload'[r].out = reload[r].out,
         \A f \in Files : Applying(f)' <=> Applying(f),
         Reloading({"rescan", "snapshot", "install"})
           => Reloading({"rescan", "snapshot", "install"})',
         UNCHANGED <<lastAuthHashes, fileAuthsByPath, currentAuths, runtimeAuths>>
  PROVE  /\ \A id \in Ids : Delivered(id)'
         /\ \A f \in Files : Agrees(f)'
<1>1. ASSUME NEW id \in Ids PROVE Delivered(id)'
  BY HeldAlike, DeliveryRests DEF WatchInv, Records, ComesKept
<1>2. ASSUME NEW f \in Files PROVE Agrees(f)'
  BY AgreesKept DEF WatchInv, Records
<1> QED
  BY <1>1, <1>2

(* Neither files nor events nor hashes change. *)
LEMMA StillLooked ==
  ASSUME WatchInv, Records, disk' = disk, events' = events,
         \A f \in Files : Noticed(f) => Noticed(f)'
  PROVE  \A f \in Files : Looked(f)' /\ Ordered(f)'
<1>1. ~TakeEvent
  BY NoEventTaken DEF WatchInv
<1>2. ASSUME NEW f \in Files PROVE Looked(f)'
  BY <1>1, LookedKept DEF WatchInv, Records
<1>3. ASSUME NEW f \in Files PROVE Ordered(f)'
  <2>1. Ordered(f)
    BY DEF WatchInv
  <2> QED
    BY <2>1 DEF Ordered
<1> QED
  BY <1>2, <1>3

----------------------------------------------------------------------------
(* The files *)

LEMMA InitInStep == RacesInit => WatchInv
<1> SUFFICES ASSUME RacesInit PROVE WatchInv
  OBVIOUS
<1> USE DEF Absent, Gone, None, Partial
<1>1. DispatchInv
  <2>1. /\ pendingUpdates = [id \in Ids |-> None] /\ pendingOrder = <<>>
        /\ loop = "check" /\ batch = <<>> /\ queue = <<>>
        /\ drained = [id \in Ids |-> None] /\ applied = [id \in Ids |-> 0]
    BY DEF RacesInit, WatcherInit, DispatchInit
  <2>2. DispatchTypes
    BY <2>1 DEF DispatchTypes, Outs
  <2>3. OrderInv
    BY <2>1 DEF OrderInv
  <2> QED
    BY <2>1, <2>2, <2>3 DEF DispatchInv, NoUpdates
<1>2. NoUpdates \in Outs
  BY DEF NoUpdates, Outs
<1>3. /\ handler = [at |-> "idle", file |-> None, data |-> 0, out |-> NoUpdates]
      /\ disk \in [Files -> {0, 1}] /\ events = <<>>
      /\ cfgDisk = 1 /\ lastConfigHash = 0 /\ config = 1
      /\ lastAuthHashes = [f \in Files |-> 0] /\ fileAuthsByPath = {}
      /\ currentAuths = [id \in Ids |-> 0]
      /\ runtimeAuths = [id \in Runtimes |-> 0]
      /\ reporter = [p \in Reporters |-> NoUpdates]
      /\ unseen = {} /\ missed = FALSE
  BY DEF RacesInit, WatcherInit, HandlerIdle
<1>4. PICK r \in Reloads : reload = [x \in Reloads |->
        IF x = r THEN [ReloadIdle EXCEPT !.at = "rescan", !.first = TRUE]
        ELSE ReloadIdle]
  BY DEF RacesInit, WatcherInit
<1>5. /\ reload[r] = [at |-> "rescan", first |-> TRUE, cfg |-> 0, force |-> FALSE,
                      snap |-> [f \in Files |-> 0], out |-> NoUpdates]
      /\ \A x \in Reloads : x # r => reload[x] =
           [at |-> "idle", first |-> FALSE, cfg |-> 0, force |-> FALSE,
            snap |-> [f \in Files |-> 0], out |-> NoUpdates]
  BY <1>4 DEF ReloadIdle
<1>6. \A x \in Reloads :
        /\ reload[x].at \in {"rescan", "idle"} /\ reload[x].cfg = 0
        /\ reload[x].out = NoUpdates /\ reload[x] \in Loads
        /\ (reload[x].at = "idle" => ~reload[x].first)
        /\ (reload[x].at = "rescan" => reload[x].first)
  <2> SUFFICES ASSUME NEW x \in Reloads
               PROVE  /\ reload[x].at \in {"rescan", "idle"} /\ reload[x].cfg = 0
                      /\ reload[x].out = NoUpdates /\ reload[x] \in Loads
                      /\ (reload[x].at = "idle" => ~reload[x].first)
                      /\ (reload[x].at = "rescan" => reload[x].first)
    OBVIOUS
  <2> DEFINE snap == [f \in Files |-> 0]
  <2>1. snap \in [Files -> Nat]
    OBVIOUS
  <2>2. CASE x = r
    <3>1. reload[x] = [at |-> "rescan", first |-> TRUE, cfg |-> 0, force |-> FALSE,
                       snap |-> snap, out |-> NoUpdates]
      BY <1>5, <2>2
    <3> QED
      BY <1>2, <2>1, <3>1 DEF Loads
  <2>3. CASE x # r
    <3>1. reload[x] = [at |-> "idle", first |-> FALSE, cfg |-> 0, force |-> FALSE,
                       snap |-> snap, out |-> NoUpdates]
      BY <1>5, <2>3
    <3> QED
      BY <1>2, <2>1, <3>1 DEF Loads
  <2> QED
    BY <2>2, <2>3
<1>7. WatcherTyped
  <2>1. reload \in [Reloads -> Loads]
    BY <1>4, <1>6
  <2>2. handler \in Handlers
    BY <1>2, <1>3 DEF Handlers
  <2> QED
    BY <1>2, <1>3, <2>1, <2>2 DEF WatcherTyped, Contents
<1>8. HandlerPlaced /\ \A x \in Reloads : ReloadPlaced(x)
  BY <1>3, <1>6 DEF HandlerPlaced, ReloadPlaced
<1>9. ASSUME NEW id \in Ids PROVE Delivered(id)
  <2>1. \A g \in Hands : Held(g)[id] = None
    BY <1>3, <1>6 DEF Hands, Held, NoUpdates
  <2>2. Holders(id) = {}
    BY <2>1, HoldersAre
  <2>3. Comes(id, 0)
    BY DEF RacesInit, WatcherInit, DispatchInit, Comes, InSeq
  <2> QED
    BY <1>3, <2>2, <2>3 DEF Delivered, Contended
<1>10. Reloading({"rescan"}) /\ Reloading({"rescan", "snapshot", "install"})
  BY <1>5 DEF Reloading
<1>11. ASSUME NEW f \in Files PROVE Agrees(f) /\ Looked(f) /\ Ordered(f)
  BY <1>3, <1>6, <1>10 DEF Agrees, Looked, Noticed, Ordered, Outdated, Parsed
<1>12. ConfigKept
  BY <1>3, <1>6 DEF ConfigKept, HasRead
<1> QED
  BY <1>1, <1>7, <1>8, <1>9, <1>11, <1>12 DEF WatchInv

(* A change of a file that is reported is noticed, and a removal is        *)
(* reported behind the writes before it.                                   *)
LEMMA FileChanges ==
  ASSUME WatchInv, Records,
         NEW f \in Files, NEW content \in Contents, NEW ops \in Seq(Ops),
         FileStep(f, content, ops), ops # <<>>,
         \/ content = Partial
         \/ content # Absent /\ \E i \in 1..Len(ops) : ops[i] = "write"
         \/ content = Absent /\ \A i \in 1..Len(ops) : ops[i] = "remove"
  PROVE  WatchInv'
<1> DEFINE told == [i \in DOMAIN ops |-> <<f, ops[i]>>]
           n == Len(events)
           k == Len(ops)
<1>1. /\ disk' = [disk EXCEPT ![f] = content] /\ events' = events \o told
      /\ lastAuthHashes' = lastAuthHashes /\ fileAuthsByPath' = fileAuthsByPath
      /\ currentAuths' = currentAuths /\ runtimeAuths' = runtimeAuths
      /\ handler' = handler /\ reload' = reload /\ reporter' = reporter
      /\ UNCHANGED <<configVars, dispatchVars, serviceVars>>
  BY DEF FileStep, cacheVars, authVars, goVars
<1>2. WatcherTyped /\ HandlerPlaced /\ DispatchInv /\ ConfigKept
      /\ (\A r \in Reloads : ReloadPlaced(r))
      /\ \A g \in Files : Looked(g) /\ Ordered(g)
  BY DEF WatchInv
<1>3. DispatchInv' /\ ComesKept
  BY <1>1, <1>2, DispatchRests
<1>4. k \in Nat /\ k > 0 /\ DOMAIN ops = 1..k /\ \A i \in 1..k : ops[i] \in Ops
  BY LenProperties, ElementOfSeq, EmptySeq
<1>5. told \in [1..k -> Files \X Ops]
  BY <1>4
<1>6. told \in Seq(Files \X Ops) /\ Len(told) = k
      /\ \A i \in 1..k : told[i] = <<f, ops[i]>>
  BY <1>4, <1>5
<1> HIDE DEF told, k
<1>7. /\ n \in Nat /\ events' \in Seq(Files \X Ops) /\ Len(events') = n + k
      /\ \A i \in 1..n + k : events'[i] = IF i <= n THEN events[i] ELSE told[i - n]
  <2>1. events \in Seq(Files \X Ops)
    BY <1>2 DEF WatcherTyped
  <2>2. events' = events \o told
    BY <1>1
  <2> QED
    BY ONLY <1>6, <2>1, <2>2, ConcatProperties, LenProperties DEF n
<1>8. ASSUME NEW g, NEW op, Queued(g, op) PROVE Queued(g, op)'
  <2>1. PICK i \in 1..n : events[i] = <<g, op>>
    BY <1>8 DEF Queued
  <2>2. i \in 1..Len(events') /\ events'[i] = <<g, op>>
    BY <1>4, <1>7, <2>1
  <2> QED
    BY <2>2 DEF Queued
<1>9. ASSUME NEW i \in 1..k
      PROVE  /\ n + i \in 1..Len(events') /\ events'[n + i] = <<f, ops[i]>>
             /\ Queued(f, ops[i])'
  <2>1. n + i \in 1..Len(events') /\ (n + i) - n = i /\ ~(n + i <= n)
        /\ n + i \in 1..n + k
    BY <1>4, <1>7
  <2>2. events'[n + i] = <<f, ops[i]>>
    BY <1>6, <1>7, <2>1
  <2> QED
    BY <2>1, <2>2 DEF Queued
<1>10. /\ disk'[f] = content /\ disk' \in [Files -> Contents]
       /\ \A g \in Files : g # f => disk'[g] = disk[g]
  BY <1>1, <1>2 DEF WatcherTyped
<1>11. 1 \in 1..k
  BY <1>4
<1>12. \/ content = Partial
       \/ content # Absent /\ Queued(f, "write")'
       \/ content = Absent /\ Queued(f, "remove")'
  BY <1>9, <1>11 DEF k
<1>13. WatcherTyped'
  BY <1>1, <1>2, <1>7, <1>10 DEF WatcherTyped, configVars
<1>14. HandlerPlaced'
  <2>1. handler.at = "forget" => \/ disk'[handler.file] \in {Absent, Partial}
                                 \/ Queued(handler.file, "write")'
    <3> SUFFICES ASSUME handler.at = "forget"
                 PROVE  \/ disk'[handler.file] \in {Absent, Partial}
                        \/ Queued(handler.file, "write")'
      OBVIOUS
    <3>1. CASE handler.file = f
      BY <1>1, <1>10, <1>12, <3>1
    <3>2. CASE handler.file # f
      BY <1>1, <1>2, <1>8, <1>10, <3>2 DEF HandlerPlaced
    <3> QED
      BY <3>1, <3>2
  <2> QED
    BY <1>1, <1>2, <2>1 DEF HandlerPlaced
<1>15. ~TakeEvent
  <2>1. SUFFICES ASSUME events # <<>>, events' = Tail(events) PROVE FALSE
    BY DEF TakeEvent
  <2> DEFINE E == Files \X Ops
  <2>2. events \in Seq(E)
    BY <1>2 DEF WatcherTyped
  <2> HIDE DEF E
  <2>3. Len(Tail(events)) = n - 1
    BY <2>1, <2>2, HeadTailProperties
  <2> QED
    BY <1>4, <1>7, <2>1, <2>3
<1>16. ASSUME NEW g \in Files PROVE Looked(g)'
  <2>1. Noticed(g) => Noticed(g)'
    <3>1. CASE g = f
      BY <1>1, <1>10, <1>12, <3>1 DEF Noticed
    <3>2. CASE g # f
      BY <1>1, <1>8, <1>10, <3>2 DEF Noticed, Reloading
    <3> QED
      BY <3>1, <3>2
  <2> QED
    BY <1>2, <1>15, <2>1, LookedKept DEF Records
<1>17. ASSUME NEW g \in Files PROVE Ordered(g)'
  <2>1. SUFFICES ASSUME disk'[g] = Absent, NEW i \in 1..Len(events'),
                        events'[i] = <<g, "write">>
                 PROVE  \E j \in 1..Len(events') : j > i /\ events'[j] = <<g, "remove">>
    BY DEF Ordered
  <2>2. CASE g = f
    <3>1. content = Absent /\ \A l \in 1..k : ops[l] = "remove"
      BY <1>10, <2>1, <2>2 DEF k, Absent, Gone, Partial
    <3>2. i <= n
      <4>1. SUFFICES ASSUME i > n PROVE FALSE
        BY <1>4, <1>7
      <4>2. i - n \in 1..k /\ n + (i - n) = i
        BY <1>4, <1>7, <4>1
      <4>3. events'[i] = <<f, "remove">>
        BY <1>9, <3>1, <4>2
      <4> QED
        BY <2>1, <4>3
    <3>3. n + 1 \in 1..Len(events') /\ events'[n + 1] = <<f, ops[1]>>
      BY <1>9, <1>11
    <3>4. n + 1 > i /\ ops[1] = "remove"
      <4>1. i \in Nat
        OBVIOUS
      <4> QED
        BY ONLY <1>7, <1>11, <3>1, <3>2, <4>1
    <3> QED
      BY <2>2, <3>3, <3>4
  <2>3. CASE g # f
    <3>1. i \in 1..n /\ events[i] = <<g, "write">>
      <4>1. CASE i > n
        <5>1. i - n \in 1..k /\ n + (i - n) = i
          BY <1>4, <1>7, <4>1
        <5>2. events'[i] = <<f, ops[i - n]>>
          BY <1>9, <5>1
        <5> QED
          BY <2>1, <2>3, <5>2
      <4>2. CASE ~(i > n)
        BY <1>4, <1>7, <2>1, <4>2
      <4> QED
        BY <4>1, <4>2
    <3>2. disk[g] = Absent
      BY <1>10, <2>1, <2>3
    <3>3. PICK j \in 1..n : j > i /\ events[j] = <<g, "remove">>
      BY <1>2, <3>1, <3>2 DEF Ordered
    <3>4. j \in 1..Len(events') /\ events'[j] = events[j]
      BY <1>4, <1>7
    <3> QED
      BY <3>3, <3>4
  <2> QED
    BY <2>2, <2>3
<1>18. /\ \A id \in Ids : Delivered(id)'
       /\ \A g \in Files : Agrees(g)'
  BY <1>1, <1>3, Still DEF Applying, Reloading
<1>19. ConfigKept'
  BY <1>1, <1>2, ConfigRests DEF Records
<1>20. \A r \in Reloads : ReloadPlaced(r)'
  BY <1>1, <1>2 DEF ReloadPlaced
<1> QED
  BY <1>3, <1>13, <1>14, <1>16, <1>17, <1>18, <1>19, <1>20 DEF WatchInv

LEMMA WriteBegins ==
  ASSUME WatchInv, Records, NEW f \in Files, WriteBegin(f) PROVE WatchInv'
<1>1. FileStep(f, Partial, <<"write">>)
  BY DEF WriteBegin
<1>2. <<"write">> \in Seq(Ops) /\ Partial \in Contents /\ <<"write">> # <<>>
  BY DEF Ops, Contents
<1> QED
  BY <1>1, <1>2, FileChanges

LEMMA WriteEnds ==
  ASSUME WatchInv, Records, NEW f \in Files, NEW v \in 1..MaxVersion,
         WriteEnd(f, v)
  PROVE  WatchInv'
<1>1. FileStep(f, v, <<"write">>)
  BY DEF WriteEnd
<1>2. <<"write">> \in Seq(Ops) /\ v \in Contents /\ v # Absent /\ <<"write">> # <<>>
  BY DEF Ops, Contents, Absent, Gone
<1>3. \E i \in 1..Len(<<"write">>) : <<"write">>[i] = "write"
  OBVIOUS
<1> QED
  BY <1>1, <1>2, <1>3, FileChanges

LEMMA Replaces ==
  ASSUME WatchInv, Records, NEW f \in Files, ReplaceFile(f) PROVE WatchInv'
<1>1. PICK ops \in {<<"write">>, <<"remove", "write">>} :
        FileStep(f, disk[f] + 1, ops)
  BY DEF ReplaceFile
<1>2. disk[f] + 1 \in Contents /\ disk[f] + 1 # Absent
  BY DEF ReplaceFile, Contents, Absent, Gone
<1>3. ops \in Seq(Ops) /\ ops # <<>>
  <2>1. <<"write">> \in Seq(Ops) /\ <<"remove", "write">> \in Seq(Ops)
    BY DEF Ops
  <2>2. CASE ops = <<"write">>
    BY <2>1, <2>2
  <2>3. CASE ops = <<"remove", "write">>
    BY <2>1, <2>3
  <2> QED
    BY <2>2, <2>3
<1>4. \E i \in 1..Len(ops) : ops[i] = "write"
  <2>1. CASE ops = <<"write">>
    BY <2>1
  <2>2. CASE ops = <<"remove", "write">>
    BY <2>2
  <2> QED
    BY <2>1, <2>2
<1> QED
  BY <1>1, <1>2, <1>3, <1>4, FileChanges

LEMMA Removes ==
  ASSUME WatchInv, Records, NEW f \in Files, RemoveFile(f) PROVE WatchInv'
<1>1. PICK ops \in {<<"remove">>, <<"remove", "remove">>} :
        FileStep(f, Absent, ops)
  BY DEF RemoveFile
<1>2. Absent \in Contents /\ ops \in Seq(Ops) /\ ops # <<>>
  <2>1. <<"remove">> \in Seq(Ops) /\ <<"remove", "remove">> \in Seq(Ops)
    BY DEF Ops
  <2>2. Absent \in Contents
    BY DEF Contents, Absent, Gone
  <2>3. CASE ops = <<"remove">>
    BY <2>1, <2>2, <2>3
  <2>4. CASE ops = <<"remove", "remove">>
    BY <2>1, <2>2, <2>4
  <2> QED
    BY <2>3, <2>4
<1>3. \A i \in 1..Len(ops) : ops[i] = "remove"
  <2>1. CASE ops = <<"remove">>
    BY <2>1
  <2>2. CASE ops = <<"remove", "remove">>
    BY <2>2
  <2> QED
    BY <2>1, <2>2
<1> QED
  BY <1>1, <1>2, <1>3, FileChanges

(* Steps that concern neither files nor configuration nor the watcher's    *)
(* view of credentials: the window that ends, and the service's side.      *)
LEMMA Quiet ==
  ASSUME WatchInv, Records, DispatchInv', ComesKept,
         UNCHANGED <<disk, events, configVars, lastAuthHashes, fileAuthsByPath,
                     authVars, goVars>>
  PROVE  WatchInv'
<1>1. /\ disk' = disk /\ events' = events
      /\ lastAuthHashes' = lastAuthHashes /\ fileAuthsByPath' = fileAuthsByPath
      /\ currentAuths' = currentAuths /\ runtimeAuths' = runtimeAuths
      /\ handler' = handler /\ reload' = reload /\ reporter' = reporter
      /\ cfgDisk' = cfgDisk /\ lastConfigHash' = lastConfigHash /\ config' = config
  BY DEF configVars, authVars, goVars
<1>2. WatcherTyped' /\ HandlerPlaced' /\ \A r \in Reloads : ReloadPlaced(r)'
  BY <1>1 DEF WatchInv, WatcherTyped, HandlerPlaced, ReloadPlaced, Queued
<1>3. \A f \in Files : Looked(f)' /\ Ordered(f)'
  BY <1>1, StillLooked DEF Noticed, Queued, Reloading
<1>4. (\A id \in Ids : Delivered(id)') /\ \A f \in Files : Agrees(f)'
  BY <1>1, Still DEF Applying, Reloading
<1>5. ConfigKept'
  BY <1>1, ConfigRests DEF WatchInv, Records
<1> QED
  BY <1>2, <1>3, <1>4, <1>5 DEF WatchInv

LEMMA WindowEnds ==
  ASSUME WatchInv, Records, NEW f \in Files, DebounceEnds(f) PROVE WatchInv'
<1>1. DispatchInv' /\ ComesKept
  BY DispatchRests DEF DebounceEnds, WatchInv
<1> QED
  BY <1>1, Quiet DEF DebounceEnds, fileVars

LEMMA ServiceSteps ==
  ASSUME WatchInv, Records, ServiceSide(DispatchStep) \/ ServiceSide(ConsumerStep)
  PROVE  WatchInv'
<1>1. DispatchStep \/ ConsumerStep
  BY DEF ServiceSide
<1>2. DispatchInv' /\ ComesKept
  BY <1>1, BatchTaken, Sent, Consumed, Handled
     DEF WatchInv, DispatchStep, ConsumerStep
<1> QED
  BY <1>2, Quiet DEF ServiceSide, fileVars, cacheVars

(* The configuration is written: who has read it has read another one.     *)
LEMMA ConfigWritten ==
  ASSUME WatchInv, Records, NEW v \in 1..MaxConfig, WriteConfig(v)
  PROVE  WatchInv'
<1>1. /\ cfgDisk' = v /\ v # cfgDisk /\ cfgTimer' = TRUE
      /\ disk' = disk /\ events' = events
      /\ lastAuthHashes' = lastAuthHashes /\ fileAuthsByPath' = fileAuthsByPath
      /\ currentAuths' = currentAuths /\ runtimeAuths' = runtimeAuths
      /\ handler' = handler /\ reload' = reload /\ reporter' = reporter
      /\ lastConfigHash' = lastConfigHash /\ config' = config
      /\ UNCHANGED <<dispatchVars, serviceVars>>
  BY DEF WriteConfig, cacheVars, authVars, goVars
<1>2. DispatchInv' /\ ComesKept
  BY <1>1, DispatchRests DEF WatchInv
<1>3. WatcherTyped' /\ HandlerPlaced' /\ \A r \in Reloads : ReloadPlaced(r)'
  BY <1>1 DEF WatchInv, WatcherTyped, HandlerPlaced, ReloadPlaced, Queued
<1>4. \A f \in Files : Looked(f)' /\ Ordered(f)'
  BY <1>1, StillLooked DEF Noticed, Queued, Reloading
<1>5. (\A id \in Ids : Delivered(id)') /\ \A f \in Files : Agrees(f)'
  BY <1>1, <1>2, Still DEF Applying, Reloading
<1>6. ConfigKept'
  <2>1. \A r : HasRead(r)' <=> HasRead(r)
    BY <1>1 DEF HasRead
  <2>2. missed' \/ (~missed /\ \A r \in Reloads : ~HasRead(r))
    BY <1>1, <2>1 DEF Records, Misses
  <2> QED
    BY <1>1, <2>1, <2>2 DEF ConfigKept, WatchInv
<1> QED
  BY <1>2, <1>3, <1>4, <1>5, <1>6 DEF WatchInv

----------------------------------------------------------------------------
(* handleEvent *)

LEMMA EventTaken ==
  ASSUME WatcherTyped, events # <<>>, events' = Tail(events)
  PROVE  /\ events[1] = <<events[1][1], events[1][2]>>
         /\ events[1][1] \in Files /\ events' \in Seq(Files \X Ops)
         /\ \A g, op : Queued(g, op) => events[1] = <<g, op>> \/ Queued(g, op)'
         /\ Len(events') = Len(events) - 1 /\ Len(events) \in Nat
         /\ \A i \in 1..Len(events') : events'[i] = events[i + 1]
<1>1. events \in Seq(Files \X Ops)
  BY DEF WatcherTyped
<1> DEFINE E == Files \X Ops
<1>2. events \in Seq(E)
  BY <1>1
<1> HIDE DEF E
<1>3. /\ events' \in Seq(E) /\ Len(events) \in Nat
      /\ Len(events') = Len(events) - 1
      /\ \A i \in 1..Len(events') : events'[i] = events[i + 1]
  BY <1>2, HeadTailProperties, LenProperties
<1>4. Len(events) > 0
  BY <1>2, EmptySeq
<1>5. 1 \in 1..Len(events)
  BY <1>3, <1>4
<1>6. events[1] \in Files \X Ops
  BY <1>2, <1>5, ElementOfSeq DEF E
<1>7. ASSUME NEW g, NEW op, Queued(g, op), events[1] # <<g, op>>
      PROVE  Queued(g, op)'
  <2>1. PICK i \in 1..Len(events) : events[i] = <<g, op>>
    BY <1>7 DEF Queued
  <2>2. i # 1
    BY <1>7, <2>1
  <2>3. i - 1 \in 1..Len(events') /\ (i - 1) + 1 = i
    BY <1>3, <2>2
  <2>4. events'[i - 1] = <<g, op>>
    BY <1>3, <2>1, <2>3
  <2> QED
    BY <2>3, <2>4 DEF Queued
<1> QED
  BY <1>3, <1>6, <1>7 DEF E

(* What is left of the events of a file that is gone still has its removal *)
(* behind any write.                                                       *)
LEMMA OrderedTail ==
  ASSUME WatcherTyped, events # <<>>, events' = Tail(events), disk' = disk,
         NEW f \in Files, Ordered(f)
  PROVE  /\ Ordered(f)'
         /\ events[1] = <<f, "write">> /\ disk[f] = Absent => Queued(f, "remove")'
<1>1. /\ Len(events') = Len(events) - 1 /\ Len(events) \in Nat
      /\ \A i \in 1..Len(events') : events'[i] = events[i + 1]
  BY EventTaken
<1>2. ASSUME NEW i \in 1..Len(events), NEW j \in 1..Len(events), j > i
      PROVE  j - 1 \in 1..Len(events') /\ events'[j - 1] = events[j]
  <2>1. j - 1 \in 1..Len(events') /\ (j - 1) + 1 = j
    BY <1>1, <1>2
  <2> QED
    BY <1>1, <2>1
<1>3. ASSUME disk[f] = Absent, NEW i \in 1..Len(events'), events'[i] = <<f, "write">>
      PROVE  \E j \in 1..Len(events') : j > i /\ events'[j] = <<f, "remove">>
  <2>1. i + 1 \in 1..Len(events) /\ events[i + 1] = <<f, "write">>
    BY <1>1, <1>3
  <2>2. PICK j \in 1..Len(events) : j > i + 1 /\ events[j] = <<f, "remove">>
    BY <1>3, <2>1 DEF Ordered
  <2>3. j - 1 \in 1..Len(events') /\ events'[j - 1] = events[j]
    BY <1>2, <2>1, <2>2
  <2>4. j - 1 > i
    BY <1>1, <2>2
  <2> QED
    BY <2>2, <2>3, <2>4
<1>4. ASSUME events[1] = <<f, "write">>, disk[f] = Absent PROVE Queued(f, "remove")'
  <2>1. 1 \in 1..Len(events)
    <3> DEFINE E == Files \X Ops
    <3>1. events \in Seq(E)
      BY DEF WatcherTyped
    <3> HIDE DEF E
    <3>2. Len(events) > 0
      BY <3>1, EmptySeq, LenProperties
    <3> QED
      BY <1>1, <3>2
  <2>2. PICK j \in 1..Len(events) : j > 1 /\ events[j] = <<f, "remove">>
    BY <1>4, <2>1 DEF Ordered
  <2>3. j - 1 \in 1..Len(events') /\ events'[j - 1] = events[j]
    BY <1>2, <2>1, <2>2
  <2> QED
    BY <2>2, <2>3 DEF Queued
<1> QED
  BY <1>3, <1>4 DEF Ordered

(* A removal is dropped when one of the same file was seen just now; any   *)
(* other event is looked at.                                               *)
LEMMA Takes ==
  ASSUME WatchInv, Records, TakeEvent PROVE WatchInv'
<1> DEFINE f == events[1][1]
           op == events[1][2]
<1>1. /\ handler.at = "idle" /\ events # <<>> /\ events' = Tail(events)
      /\ disk' = disk /\ lastAuthHashes' = lastAuthHashes
      /\ fileAuthsByPath' = fileAuthsByPath /\ currentAuths' = currentAuths
      /\ runtimeAuths' = runtimeAuths /\ reload' = reload /\ reporter' = reporter
      /\ UNCHANGED <<configVars, dispatchVars, serviceVars>>
  BY DEF TakeEvent, HandlerKeeps
<1>2. /\ DispatchInv /\ WatcherTyped /\ HandlerPlaced /\ ConfigKept
      /\ \A r \in Reloads : ReloadPlaced(r)
      /\ \A g \in Files : Looked(g) /\ Ordered(g)
  BY DEF WatchInv
<1>3. DispatchInv' /\ ComesKept
  BY <1>1, <1>2, DispatchRests
<1>4. /\ events[1] = <<f, op>> /\ f \in Files /\ events' \in Seq(Files \X Ops)
      /\ \A g, o : Queued(g, o) => <<f, op>> = <<g, o>> \/ Queued(g, o)'
  BY <1>1, <1>2, EventTaken
<1>5. \/ /\ op = "write"
         /\ handler' = [at |-> "compare", file |-> f, data |-> Absent, out |-> NoUpdates]
      \/ /\ op = "remove"
         /\ handler' = [at |-> "stat", file |-> f, data |-> Absent, out |-> NoUpdates]
      \/ op = "remove" /\ handler' = handler
  BY DEF TakeEvent, HandlerIdle
<1>6. debounced' = IF handler'.at # "idle" THEN debounced \ {f}
                   ELSE IF lastAuthHashes[f] # Absent THEN debounced \cup {f}
                   ELSE debounced
  BY DEF Records, Debounces
<1>7. \A g \in Files : Ordered(g)'
  BY <1>1, <1>2, OrderedTail
<1>8. \A g \in Files : g = f /\ op = "write" /\ disk[g] = Absent
                      => Queued(g, "remove")'
  BY <1>1, <1>2, <1>4, OrderedTail
<1> HIDE DEF f, op
<1>9. \A g, o : Queued(g, o) => (g = f /\ o = op) \/ Queued(g, o)'
  BY <1>4
<1>10. NoUpdates \in Outs /\ handler.out = NoUpdates
  BY <1>1, <1>2 DEF Outs, NoUpdates, HandlerPlaced
<1>11. handler' \in Handlers
  BY <1>2, <1>4, <1>5, <1>10 DEF WatcherTyped, Handlers, Absent, Gone
<1>12. WatcherTyped'
  BY <1>1, <1>2, <1>4, <1>11 DEF WatcherTyped, configVars
<1>13. /\ handler'.at \in {"idle", "compare", "stat"} /\ handler'.out = NoUpdates
       /\ (handler'.at # "idle" => handler'.file = f)
       /\ (handler'.at = "idle" => op = "remove")
       /\ (handler'.at = "compare" => op = "write")
  BY <1>1, <1>5, <1>10
<1>14. HandlerPlaced' /\ \A r \in Reloads : ReloadPlaced(r)'
  BY <1>1, <1>2, <1>4, <1>13 DEF HandlerPlaced, ReloadPlaced
<1>15. ASSUME NEW g \in Files PROVE Looked(g)'
  <2>1. CASE g # f
    <3>1. Noticed(g) => Noticed(g)'
      BY <1>1, <1>9, <2>1 DEF Noticed, Reloading
    <3> QED
      BY <1>2, <1>6, <2>1, <3>1 DEF Looked
  <2>2. CASE g = f /\ handler'.at = "stat"
    BY <1>13, <2>2 DEF Looked, Noticed
  <2>3. CASE g = f /\ handler'.at = "compare"
    BY <1>1, <1>8, <1>13, <2>3 DEF Looked, Noticed
  <2>4. CASE g = f /\ handler'.at = "idle"
    <3>1. CASE lastAuthHashes[f] # Absent
      BY <1>6, <2>4, <3>1 DEF Looked
    <3>2. CASE lastAuthHashes[f] = Absent
      <4>1. debounced' = debounced
        BY <1>6, <2>4, <3>2
      <4>2. Noticed(g) => Noticed(g)'
        BY <1>1, <1>9, <1>13, <2>4, <3>2 DEF Noticed, Reloading
      <4> QED
        BY <1>2, <2>4, <4>1, <4>2 DEF Looked
    <3> QED
      BY <3>1, <3>2
  <2> QED
    BY <1>13, <2>1, <2>2, <2>3, <2>4
<1>16. /\ \A id \in Ids : Delivered(id)'
       /\ \A g \in Files : Agrees(g)'
  BY <1>1, <1>3, <1>10, <1>13, Still DEF Applying, Reloading
<1>17. ConfigKept'
  BY <1>1, <1>2, ConfigRests DEF Records
<1> QED
  BY <1>3, <1>7, <1>12, <1>14, <1>15, <1>16, <1>17 DEF WatchInv

(* The handler moves on without a change of what it or anyone knows. *)
LEMMA HandlerMoves ==
  ASSUME WatchInv, Records, NEW at \in {"idle", "compare", "read", "forget"},
         handler.at \in {"stat", "compare", "read"},
         \/ at = "idle" /\ handler' = HandlerIdle
         \/ at # "idle" /\ handler' = [handler EXCEPT !.at = at],
         UNCHANGED <<events, cacheVars, currentAuths, dispatchVars>>,
         HandlerKeeps,
         at = "forget" => disk[handler.file] = Absent,
         \A f \in Files : f = handler.file /\ Noticed(f) => Noticed(f)'
  PROVE  WatchInv'
<1> DEFINE f == handler.file
<1>1. /\ DispatchInv /\ WatcherTyped /\ HandlerPlaced /\ ConfigKept
      /\ \A r \in Reloads : ReloadPlaced(r)
  BY DEF WatchInv
<1>2. /\ disk' = disk /\ lastAuthHashes' = lastAuthHashes /\ events' = events
      /\ fileAuthsByPath' = fileAuthsByPath /\ currentAuths' = currentAuths
      /\ runtimeAuths' = runtimeAuths /\ reload' = reload /\ reporter' = reporter
      /\ UNCHANGED <<configVars, dispatchVars, serviceVars>>
  BY DEF HandlerKeeps, cacheVars
<1>3. DispatchInv' /\ ComesKept
  BY <1>1, <1>2, DispatchRests
<1>4. f \in Files /\ NoUpdates \in Outs /\ handler.out = NoUpdates
  BY <1>1 DEF HandlerPlaced, NoUpdates, Outs
<1>5. /\ handler' \in Handlers /\ handler'.at = at
      /\ (at # "idle" => handler'.file = f)
      /\ handler'.out = NoUpdates
  <2>1. CASE at = "idle"
    BY <1>4, <2>1 DEF HandlerIdle, Handlers, Absent, Gone
  <2>2. CASE at # "idle"
    BY <1>1, <1>4, <2>2 DEF WatcherTyped, Handlers
  <2> QED
    BY <2>1, <2>2
<1>6. WatcherTyped'
  BY <1>1, <1>2, <1>5 DEF WatcherTyped, configVars
<1>7. HandlerPlaced' /\ \A r \in Reloads : ReloadPlaced(r)'
  BY <1>1, <1>2, <1>4, <1>5 DEF HandlerPlaced, ReloadPlaced
<1>8. ASSUME NEW g \in Files, Noticed(g) PROVE Noticed(g)'
  <2>1. CASE g = f
    BY <1>8, <2>1
  <2>2. CASE g # f
    BY <1>2, <1>8, <2>2 DEF Noticed, Queued, Reloading
  <2> QED
    BY <2>1, <2>2
<1>9. \A g \in Files : Looked(g)' /\ Ordered(g)'
  BY <1>2, <1>8, StillLooked
<1>10. (\A id \in Ids : Delivered(id)') /\ \A g \in Files : Agrees(g)'
  BY <1>2, <1>3, <1>4, <1>5, Still DEF Applying, Reloading
<1>11. ConfigKept'
  BY <1>1, <1>2, ConfigRests DEF Records
<1> QED
  BY <1>3, <1>6, <1>7, <1>9, <1>10, <1>11 DEF WatchInv

(* A removed file that is there again will be compared. *)
LEMMA Stats ==
  ASSUME WatchInv, Records, StatRemoved PROVE WatchInv'
<1> DEFINE f == handler.file
           at == IF disk[f] # Absent THEN "compare"
                 ELSE IF lastAuthHashes[f] # Absent THEN "forget" ELSE "idle"
<1>1. /\ handler.at = "stat" /\ HandlerKeeps
      /\ UNCHANGED <<events, cacheVars, currentAuths, dispatchVars>>
      /\ \/ at = "idle" /\ handler' = HandlerIdle
         \/ at # "idle" /\ handler' = [handler EXCEPT !.at = at]
  BY DEF StatRemoved
<1>2. /\ disk' = disk /\ lastAuthHashes' = lastAuthHashes
      /\ handler \in Handlers
      /\ (at = "forget" => disk[f] = Absent)
  BY <1>1 DEF HandlerKeeps, cacheVars, WatchInv, WatcherTyped
<1>3. at = "idle" => lastAuthHashes[f] = disk[f]
  OBVIOUS
<1>4. at # "idle" => handler'.at = at /\ handler'.file = f
  BY <1>1, <1>2 DEF Handlers
<1>5. at \in {"idle", "compare", "read", "forget"}
      /\ (at = "compare" => disk[f] # Absent)
  OBVIOUS
<1>6. at \in {"idle", "compare", "forget"}
  OBVIOUS
<1> HIDE DEF at
<1>7. ASSUME NEW g \in Files, g = f PROVE Noticed(g)'
  <2>1. CASE at = "idle"
    BY <1>2, <1>3, <1>7, <2>1 DEF Noticed
  <2>2. CASE at = "compare"
    BY <1>2, <1>4, <1>5, <1>7, <2>2 DEF Noticed
  <2>3. CASE at = "forget"
    BY <1>2, <1>4, <1>7, <2>3 DEF Noticed
  <2> QED
    BY <1>6, <2>1, <2>2, <2>3
<1> QED
  BY <1>1, <1>2, <1>5, <1>7, HandlerMoves

(* A file that looks unchanged has the hash that is remembered. *)
LEMMA Compares ==
  ASSUME WatchInv, Records, authFileUnchanged PROVE WatchInv'
<1> DEFINE f == handler.file
           at == IF disk[f] # Absent /\ disk[f] = lastAuthHashes[f]
                 THEN "idle" ELSE "read"
<1>1. /\ handler.at = "compare" /\ HandlerKeeps
      /\ UNCHANGED <<events, cacheVars, currentAuths, dispatchVars>>
      /\ \/ at = "idle" /\ handler' = HandlerIdle
         \/ at # "idle" /\ handler' = [handler EXCEPT !.at = at]
  BY DEF authFileUnchanged
<1>2. /\ disk' = disk /\ lastAuthHashes' = lastAuthHashes /\ events' = events
      /\ reload' = reload /\ handler \in Handlers
  BY <1>1 DEF HandlerKeeps, cacheVars, WatchInv, WatcherTyped
<1>3. at = "idle" => lastAuthHashes[f] = disk[f]
  OBVIOUS
<1>4. at # "idle" => handler'.at = "read" /\ handler'.file = f
  BY <1>1, <1>2 DEF Handlers
<1>5. at \in {"idle", "read"}
  OBVIOUS
<1> HIDE DEF at
<1>6. ASSUME NEW g \in Files, g = f, Noticed(g) PROVE Noticed(g)'
  <2>1. CASE at = "idle"
    BY <1>2, <1>3, <1>6, <2>1 DEF Noticed
  <2>2. CASE at # "idle"
    BY <1>1, <1>2, <1>4, <1>6, <2>2 DEF Noticed, Queued, Reloading
  <2> QED
    BY <2>1, <2>2
<1> QED
  BY <1>1, <1>5, <1>6, HandlerMoves

(* What cannot be read has no hash; what is read has that of its content. *)
LEMMA Reads ==
  ASSUME WatchInv, Records, ReadChanged PROVE WatchInv'
<1> DEFINE f == handler.file
           data == disk[f]
<1>1. /\ handler.at = "read" /\ HandlerKeeps
      /\ UNCHANGED <<events, fileAuthsByPath, recentRemove, currentAuths,
                     dispatchVars>>
  BY DEF ReadChanged
<1>2. /\ DispatchInv /\ WatcherTyped /\ HandlerPlaced /\ ConfigKept
      /\ (\A r \in Reloads : ReloadPlaced(r))
      /\ (\A id \in Ids : Delivered(id)) /\ \A g \in Files : Agrees(g)
  BY DEF WatchInv
<1>3. /\ disk' = disk /\ events' = events
      /\ fileAuthsByPath' = fileAuthsByPath /\ currentAuths' = currentAuths
      /\ runtimeAuths' = runtimeAuths /\ reload' = reload /\ reporter' = reporter
      /\ UNCHANGED <<configVars, dispatchVars, serviceVars>>
  BY <1>1 DEF HandlerKeeps
<1>4. CASE data \in {Absent, Partial} \/ data = lastAuthHashes[f]
  <2>1. handler' = HandlerIdle /\ lastAuthHashes' = lastAuthHashes
    BY <1>4 DEF ReadChanged
  <2>2. ASSUME NEW g \in Files, g = f, Noticed(g) PROVE Noticed(g)'
    BY <1>1, <1>3, <1>4, <2>1, <2>2 DEF Noticed, Queued, Reloading
  <2>3. UNCHANGED <<events, cacheVars, currentAuths, dispatchVars>>
    BY <1>1, <2>1 DEF cacheVars
  <2> QED
    BY <1>1, <2>1, <2>2, <2>3, HandlerMoves
<1>5. CASE ~(data \in {Absent, Partial} \/ data = lastAuthHashes[f])
  <2>1. /\ handler' = [handler EXCEPT !.at = "apply", !.data = data]
        /\ lastAuthHashes' = [lastAuthHashes EXCEPT ![f] = data]
    BY <1>5 DEF ReadChanged
  <2>2. f \in Files /\ data \in Nat /\ data # Absent /\ data # Partial
    BY <1>1, <1>2, <1>5 DEF HandlerPlaced, WatcherTyped, Contents
  <2>3. /\ lastAuthHashes' \in [Files -> Contents] /\ lastAuthHashes'[f] = data
        /\ \A g \in Files : g # f => lastAuthHashes'[g] = lastAuthHashes[g]
    BY <1>2, <2>1, <2>2 DEF WatcherTyped, Contents
  <2>4. /\ handler' \in Handlers /\ handler'.at = "apply" /\ handler'.file = f
        /\ handler'.data = data /\ handler'.out = handler.out
    BY <1>2, <2>1, <2>2 DEF WatcherTyped, Handlers
  <2>5. handler.out = NoUpdates
    BY <1>1, <1>2 DEF HandlerPlaced
  <2>6. DispatchInv' /\ ComesKept
    BY <1>2, <1>3, DispatchRests
  <2>7. WatcherTyped'
    BY <1>2, <1>3, <2>3, <2>4 DEF WatcherTyped, configVars
  <2>8. HandlerPlaced' /\ \A r \in Reloads : ReloadPlaced(r)'
    BY <1>2, <1>3, <2>2, <2>3, <2>4, <2>5 DEF HandlerPlaced, ReloadPlaced
  <2>9. ASSUME NEW g \in Files, Noticed(g) PROVE Noticed(g)'
    <3>1. CASE g = f
      BY <1>3, <2>3, <3>1 DEF Noticed
    <3>2. CASE g # f
      BY <1>3, <2>3, <2>9, <3>2 DEF Noticed, Queued, Reloading
    <3> QED
      BY <3>1, <3>2
  <2>10. \A g \in Files : Looked(g)' /\ Ordered(g)'
    BY <1>3, <2>9, StillLooked
  <2>11. ASSUME NEW id \in Ids PROVE Delivered(id)'
    BY <1>2, <1>3, <2>4, <2>6, HeldAlike, DeliveryRests DEF Records, ComesKept
  <2>12. ASSUME NEW g \in Files PROVE Agrees(g)'
    <3>1. Outdated(g)' => g \in unseen'
      BY DEF Records, Unsees
    <3>2. CASE g = f
      BY <2>4, <3>1, <3>2 DEF Agrees, Applying
    <3>3. CASE g # f
      <4>1. g \in unseen' \/ g \notin unseen
              \/ currentAuths'[g] = Parsed(lastAuthHashes'[g])
        BY DEF Records, Unsees
      <4>2. Parsed(lastAuthHashes[g])' = Parsed(lastAuthHashes[g])
            /\ Parsed(lastAuthHashes[g])' = Parsed(lastAuthHashes'[g])
        BY <2>3, <3>3 DEF Parsed
      <4>3. ~Applying(g) /\ ~Applying(g)' /\ Agrees(g)
        BY <1>1, <1>2, <2>4, <3>3 DEF Applying
      <4> QED
        BY <1>3, <3>1, <4>1, <4>2, <4>3 DEF Agrees, Reloading
    <3> QED
      BY <3>2, <3>3
  <2>13. ConfigKept'
    BY <1>2, <1>3, ConfigRests DEF Records
  <2> QED
    BY <2>6, <2>7, <2>8, <2>10, <2>11, <2>12, <2>13 DEF WatchInv
<1> QED
  BY <1>4, <1>5

(* Between reading and posting: the handler's file gets a value, or none,  *)
(* and the handler holds the update if the value has changed.              *)
LEMMA HandlerSets ==
  ASSUME WatchInv, Records, NEW val \in Nat,
         handler.at \in {"apply", "forget"}, handler'.at = "post",
         handler' \in Handlers, handler'.file = handler.file, HandlerKeeps,
         UNCHANGED <<events, dispatchVars>>,
         fileAuthsByPath' \in SUBSET Files,
         lastAuthHashes' \in [Files -> Contents],
         currentAuths' = [currentAuths EXCEPT ![handler.file] = val],
         \/ handler'.out = NoUpdates /\ currentAuths[handler.file] = val
         \/ handler'.out = [NoUpdates EXCEPT ![handler.file] = val],
         \A f \in Files : f # handler.file =>
           /\ lastAuthHashes'[f] = lastAuthHashes[f]
           /\ f \in fileAuthsByPath' <=> f \in fileAuthsByPath,
         \A f \in Files : f = handler.file =>
           Agrees(f)' /\ (Noticed(f) => Noticed(f)')
  PROVE  WatchInv'
<1> DEFINE f == handler.file
           out == handler'.out
<1>1. /\ DispatchInv /\ WatcherTyped /\ HandlerPlaced /\ ConfigKept
      /\ (\A r \in Reloads : ReloadPlaced(r))
      /\ (\A id \in Ids : Delivered(id)) /\ \A g \in Files : Agrees(g)
  BY DEF WatchInv
<1>2. /\ disk' = disk /\ events' = events /\ runtimeAuths' = runtimeAuths
      /\ reload' = reload /\ reporter' = reporter
      /\ UNCHANGED <<configVars, dispatchVars, serviceVars>>
  BY DEF HandlerKeeps
<1>3. f \in Files /\ handler.out = NoUpdates /\ NoUpdates \in Outs
  BY <1>1 DEF HandlerPlaced, Outs, NoUpdates
<1>4. /\ currentAuths' \in [Ids -> Nat] /\ currentAuths'[f] = val
      /\ \A id \in Ids : id # f => currentAuths'[id] = currentAuths[id]
  BY <1>1, <1>3 DEF WatcherTyped
<1>5. \A id \in Ids : id # f => out[id] = None
  BY <1>3 DEF NoUpdates
<1>6. DispatchInv' /\ ComesKept
  BY <1>1, <1>2, DispatchRests
<1>7. WatcherTyped'
  BY <1>1, <1>2, <1>4 DEF WatcherTyped, configVars
<1>8. HandlerPlaced' /\ \A r \in Reloads : ReloadPlaced(r)'
  BY <1>1, <1>2, <1>3, <1>7 DEF HandlerPlaced, ReloadPlaced, WatcherTyped, Handlers
<1>9. ASSUME NEW g \in Files, Noticed(g) PROVE Noticed(g)'
  <2>1. CASE g = f
    BY <1>9, <2>1
  <2>2. CASE g # f
    BY <1>2, <1>9, <2>2 DEF Noticed, Queued, Reloading
  <2> QED
    BY <2>1, <2>2
<1>10. \A g \in Files : Looked(g)' /\ Ordered(g)'
  BY <1>2, <1>9, StillLooked
<1>11. /\ "handler" \in Hands /\ Held("handler")' = out /\ Held("handler") = NoUpdates
       /\ \A g \in Hands : g # "handler" => Held(g)' = Held(g)
  BY <1>2, <1>3 DEF Held, Hands
<1> HIDE DEF out
<1>12. ASSUME NEW id \in Ids PROVE Delivered(id)'
  <2>1. CASE id # f \/ out = NoUpdates
    <3>1. currentAuths'[id] = currentAuths[id] /\ out[id] = NoUpdates[id]
      <4>1. CASE id # f
        BY <1>4, <1>5, <4>1 DEF NoUpdates
      <4>2. CASE id = f
        <5>1. out = NoUpdates
          BY <2>1, <4>2
        <5>2. currentAuths[f] = val
          <6>1. CASE out = [NoUpdates EXCEPT ![f] = val]
            BY <1>3, <5>1, <6>1 DEF NoUpdates, None
          <6> QED
            BY <6>1 DEF out
        <5> QED
          BY <1>4, <4>2, <5>1, <5>2
      <4> QED
        BY <4>1, <4>2
    <3>2. \A g \in Hands : Held(g)'[id] = Held(g)[id]
      BY <1>11, <3>1
    <3> QED
      BY <1>1, <1>2, <1>6, <3>1, <3>2, DeliveryRests DEF Records, ComesKept
  <2>2. CASE id = f /\ out # NoUpdates
    <3>1. out = [NoUpdates EXCEPT ![f] = val]
      BY <2>2 DEF out
    <3>2. out[f] = val
      BY <1>3, <3>1 DEF NoUpdates
    <3>3. id \notin Runtimes
      BY <1>3, <2>2
    <3> QED
      BY <1>1, <1>4, <1>11, <2>2, <3>2, <3>3, DeliveryTaken DEF Records
  <2> QED
    BY <2>1, <2>2
<1>13. ASSUME NEW g \in Files PROVE Agrees(g)'
  <2>1. CASE g = f
    BY <2>1
  <2>2. CASE g # f
    <3>1. /\ (Outdated(g)' => g \in unseen')
          /\ g \in unseen' \/ g \notin unseen
               \/ currentAuths'[g] = Parsed(lastAuthHashes'[g])
      BY DEF Records, Unsees
    <3>2. Parsed(lastAuthHashes[g])' = Parsed(lastAuthHashes[g])
          /\ Parsed(lastAuthHashes[g])' = Parsed(lastAuthHashes'[g])
      BY <2>2 DEF Parsed
    <3>3. ~Applying(g) /\ ~Applying(g)' /\ Agrees(g)
          /\ currentAuths'[g] = currentAuths[g]
      BY <1>1, <1>4, <2>2 DEF Applying
    <3> QED
      BY <1>2, <2>2, <3>1, <3>2, <3>3 DEF Agrees, Reloading
  <2> QED
    BY <2>1, <2>2
<1>14. ConfigKept'
  BY <1>1, <1>2, ConfigRests DEF Records
<1> QED
  BY <1>6, <1>7, <1>8, <1>10, <1>12, <1>13, <1>14 DEF WatchInv

(* The watcher's value becomes the content whose hash is remembered. *)
LEMMA Applies ==
  ASSUME WatchInv, Records, ApplyChanged PROVE WatchInv'
<1> DEFINE f == handler.file
           val == handler.data
<1>1. /\ handler.at = "apply" /\ HandlerKeeps
      /\ UNCHANGED <<events, lastAuthHashes, dispatchVars>>
      /\ fileAuthsByPath' = fileAuthsByPath \cup {f}
      /\ currentAuths' = [currentAuths EXCEPT ![f] = val]
      /\ handler' = [handler EXCEPT !.at = "post", !.out =
           IF currentAuths[f] = val THEN NoUpdates ELSE [NoUpdates EXCEPT ![f] = val]]
  BY DEF ApplyChanged
<1>2. WatcherTyped /\ HandlerPlaced
  BY DEF WatchInv
<1>3. /\ f \in Files /\ val \in Nat /\ val = lastAuthHashes[f]
      /\ val # Absent /\ val # Partial
  BY <1>1, <1>2 DEF HandlerPlaced, WatcherTyped, Handlers
<1>4. NoUpdates \in Outs /\ [NoUpdates EXCEPT ![f] = val] \in Outs
  BY <1>3 DEF NoUpdates, Outs
<1>5. /\ handler' \in Handlers /\ handler'.at = "post" /\ handler'.file = f
      /\ \/ handler'.out = NoUpdates /\ currentAuths[f] = val
         \/ handler'.out = [NoUpdates EXCEPT ![f] = val]
  BY <1>1, <1>2, <1>4 DEF WatcherTyped, Handlers
<1>6. fileAuthsByPath' \in SUBSET Files /\ f \in fileAuthsByPath'
      /\ lastAuthHashes' = lastAuthHashes /\ lastAuthHashes \in [Files -> Contents]
      /\ currentAuths'[f] = val
      /\ \A g \in Files : g # f => (g \in fileAuthsByPath' <=> g \in fileAuthsByPath)
  BY <1>1, <1>2, <1>3 DEF WatcherTyped
<1>7. ASSUME NEW g \in Files, g = f PROVE Agrees(g)'
  <2>1. Outdated(g)' => g \in unseen'
    BY DEF Records, Unsees
  <2>2. Parsed(lastAuthHashes[g])' = val /\ val # Absent
    BY <1>3, <1>6, <1>7 DEF Parsed
  <2>3. currentAuths'[g] = val /\ g \in fileAuthsByPath'
    BY <1>6, <1>7
  <2> HIDE DEF val
  <2> QED
    BY <2>1, <2>2, <2>3 DEF Agrees
<1>8. ASSUME NEW g \in Files, g = f, Noticed(g) PROVE Noticed(g)'
  BY <1>1, <1>6, <1>8 DEF Noticed, Queued, HandlerKeeps, Reloading
<1> HIDE DEF val
<1>9. \A g \in Files : g # f => /\ lastAuthHashes'[g] = lastAuthHashes[g]
                                /\ g \in fileAuthsByPath' <=> g \in fileAuthsByPath
  BY <1>6
<1> QED
  BY <1>1, <1>3, <1>5, <1>6, <1>7, <1>8, <1>9, HandlerSets

(* A file that has given no credential has none to forget. *)
LEMMA Forgets ==
  ASSUME WatchInv, Records, removeClientLocked PROVE WatchInv'
<1> DEFINE f == handler.file
           had == f \in fileAuthsByPath
<1>1. /\ handler.at = "forget" /\ HandlerKeeps /\ UNCHANGED <<events, dispatchVars>>
      /\ lastAuthHashes' = [lastAuthHashes EXCEPT ![f] = Absent]
      /\ fileAuthsByPath' = fileAuthsByPath \ {f}
      /\ currentAuths' = IF had THEN [currentAuths EXCEPT ![f] = Absent] ELSE currentAuths
      /\ handler' = [handler EXCEPT !.at = "post",
           !.out = IF had THEN [NoUpdates EXCEPT ![f] = Gone] ELSE NoUpdates]
  BY DEF removeClientLocked
<1>2. WatcherTyped /\ HandlerPlaced /\ \A g \in Files : Agrees(g)
  BY DEF WatchInv
<1>3. f \in Files /\ Absent \in Contents /\ Absent \in Nat /\ Gone = Absent
      /\ Absent # Partial
  BY <1>1, <1>2 DEF HandlerPlaced, Contents, Absent, Gone, Partial
<1>4. NoUpdates \in Outs /\ [NoUpdates EXCEPT ![f] = Absent] \in Outs
  BY <1>3 DEF NoUpdates, Outs
<1> DEFINE val == IF had THEN Absent ELSE currentAuths[f]
<1>5. val \in Nat
  BY <1>2, <1>3 DEF WatcherTyped
<1>6. currentAuths' = [currentAuths EXCEPT ![f] = val]
  <2>1. currentAuths \in [Ids -> Nat]
    BY <1>2 DEF WatcherTyped
  <2> QED
    BY <1>1, <2>1
<1>7. /\ handler' \in Handlers /\ handler'.at = "post" /\ handler'.file = f
      /\ \/ handler'.out = NoUpdates /\ currentAuths[f] = val
         \/ handler'.out = [NoUpdates EXCEPT ![f] = val]
  BY <1>1, <1>2, <1>3, <1>4 DEF WatcherTyped, Handlers
<1>8. /\ lastAuthHashes' \in [Files -> Contents] /\ lastAuthHashes'[f] = Absent
      /\ fileAuthsByPath' \in SUBSET Files /\ f \notin fileAuthsByPath'
      /\ currentAuths'[f] = val
  BY <1>1, <1>2, <1>3, <1>6 DEF WatcherTyped
<1>9. \A g \in Files : g # f => /\ lastAuthHashes'[g] = lastAuthHashes[g]
                                /\ g \in fileAuthsByPath' <=> g \in fileAuthsByPath
  BY <1>1, <1>2 DEF WatcherTyped
<1>10. ASSUME NEW g \in Files, g = f PROVE Agrees(g)'
  <2>1. /\ Outdated(g)' => g \in unseen'
        /\ g \in unseen' \/ g \notin unseen
             \/ currentAuths'[g] = Parsed(lastAuthHashes'[g])
    BY DEF Records, Unsees
  <2>2. Parsed(lastAuthHashes[g])' = Absent /\ Parsed(lastAuthHashes'[g]) = Absent
    BY <1>3, <1>8, <1>10 DEF Parsed
  <2>3. ~Applying(g) /\ Agrees(g)
    BY <1>1, <1>2 DEF Applying
  <2>4. CASE had
    BY <1>8, <1>10, <2>1, <2>2, <2>4 DEF Agrees
  <2>5. CASE ~had
    <3>1. Parsed(lastAuthHashes[g]) = Absent
      BY <1>10, <2>3, <2>5 DEF Agrees
    <3>2. reload' = reload /\ currentAuths'[g] = currentAuths[g]
      BY <1>1, <1>8, <1>10, <2>5 DEF HandlerKeeps
    <3> QED
      BY <1>8, <1>10, <2>1, <2>2, <2>3, <3>1, <3>2 DEF Agrees, Reloading
  <2> QED
    BY <2>4, <2>5
<1>11. ASSUME NEW g \in Files, g = f PROVE Noticed(g)'
  <2>1. disk' = disk /\ events' = events
    BY <1>1 DEF HandlerKeeps
  <2>2. disk[g] = Absent \/ disk[g] = Partial \/ Queued(g, "write")
    BY <1>1, <1>2, <1>11 DEF HandlerPlaced
  <2> QED
    BY <1>8, <1>11, <2>1, <2>2 DEF Noticed, Queued
<1> HIDE DEF val
<1> QED
  BY <1>1, <1>5, <1>6, <1>7, <1>8, <1>9, <1>10, <1>11, HandlerSets

(* A goroutine hands over what it holds. *)
LEMMA HandsOver ==
  ASSUME WatchInv, Records, NEW g \in Hands, NEW out \in Outs,
         dispatchAuthUpdates(out), UNCHANGED serviceVars,
         Held(g) = out, Held(g)' = NoUpdates,
         \A h \in Hands : h # g => Held(h)' = Held(h),
         currentAuths' = currentAuths, runtimeAuths' = runtimeAuths
  PROVE  DispatchInv' /\ \A id \in Ids : Delivered(id)'
<1>1. /\ DispatchInv'
      /\ \A id \in Ids : \A v : out[id] = v /\ v # None => Comes(id, v)'
      /\ \A id \in Ids : out[id] = None => \A v : Comes(id, v) => Comes(id, v)'
  BY Dispatched DEF WatchInv
<1>2. ASSUME NEW id \in Ids PROVE Delivered(id)'
  <2>1. Delivered(id) /\ NoUpdates[id] = None
    BY DEF WatchInv, NoUpdates
  <2>2. CASE out[id] = None
    <3>1. \A h \in Hands : Held(h)'[id] = Held(h)[id]
      BY <2>1, <2>2
    <3> QED
      BY <1>1, <2>1, <2>2, <3>1, DeliveryRests DEF Records
  <2>3. CASE out[id] # None
    <3>1. Comes(id, out[id])'
      BY <1>1, <2>3
    <3>2. /\ Held(g)[id] # None /\ Held(g)'[id] = None /\ Held(g)[id] = out[id]
          /\ \A h \in Hands \ {g} : Held(h)'[id] = Held(h)[id]
      BY <2>1, <2>3
    <3> QED
      BY <2>1, <3>1, <3>2, DeliveryPosted DEF Records
  <2> QED
    BY <2>2, <2>3
<1> QED
  BY <1>1, <1>2

LEMMA Posts ==
  ASSUME WatchInv, Records, PostEvent PROVE WatchInv'
<1>1. /\ handler.at = "post" /\ handler' = HandlerIdle
      /\ dispatchAuthUpdates(handler.out) /\ UNCHANGED serviceVars
      /\ disk' = disk /\ events' = events /\ lastAuthHashes' = lastAuthHashes
      /\ fileAuthsByPath' = fileAuthsByPath /\ currentAuths' = currentAuths
      /\ runtimeAuths' = runtimeAuths /\ reload' = reload /\ reporter' = reporter
      /\ UNCHANGED configVars
  BY DEF PostEvent, HandlerKeeps, cacheVars
<1>2. /\ WatcherTyped /\ HandlerPlaced /\ ConfigKept
      /\ (\A r \in Reloads : ReloadPlaced(r)) /\ \A f \in Files : Agrees(f)
  BY DEF WatchInv
<1>3. handler.out \in Outs /\ NoUpdates \in Outs
  BY <1>2 DEF WatcherTyped, Handlers, NoUpdates, Outs
<1>4. /\ "handler" \in Hands /\ Held("handler") = handler.out
      /\ Held("handler")' = NoUpdates
      /\ \A h \in Hands : h # "handler" => Held(h)' = Held(h)
  BY <1>1 DEF Hands, Held, HandlerIdle
<1>5. DispatchInv' /\ \A id \in Ids : Delivered(id)'
  BY <1>1, <1>3, <1>4, HandsOver
<1>6. handler' \in Handlers /\ handler'.at = "idle" /\ handler'.out = NoUpdates
  BY <1>1, <1>3 DEF HandlerIdle, Handlers, Absent, Gone
<1>7. WatcherTyped' /\ HandlerPlaced' /\ \A r \in Reloads : ReloadPlaced(r)'
  BY <1>1, <1>2, <1>6 DEF WatcherTyped, HandlerPlaced, ReloadPlaced, configVars
<1>8. \A f \in Files : Noticed(f) => Noticed(f)'
  BY <1>1 DEF Noticed, Queued, Reloading
<1>9. \A f \in Files : Looked(f)' /\ Ordered(f)'
  BY <1>1, <1>8, StillLooked
<1>10. ASSUME NEW f \in Files PROVE Agrees(f)'
  BY <1>1, <1>2, <1>6, AgreesKept DEF Records, Applying, Reloading
<1>11. ConfigKept'
  BY <1>1, <1>2, ConfigRests DEF Records
<1> QED
  BY <1>5, <1>7, <1>9, <1>10, <1>11 DEF WatchInv

----------------------------------------------------------------------------
(* reloadConfigIfChanged *)

LEMMA ReloadSet ==
  ASSUME WatcherTyped, NEW r \in Reloads, NEW new \in Loads, SetReload(r, new)
  PROVE  /\ reload' \in [Reloads -> Loads] /\ reload'[r] = new
         /\ \A x \in Reloads : x # r => reload'[x] = reload[x]
BY DEF WatcherTyped, SetReload

(* The configuration as long as r neither reads it nor puts it in force. *)
LEMMA ConfigMoves ==
  ASSUME ConfigKept, Misses, UNCHANGED configVars, NEW r \in Reloads,
         reload'[r].cfg = reload[r].cfg,
         reload[r].at \notin {"load", "commit"},
         reload'[r].at \notin {"load", "commit"},
         \A x \in Reloads : x # r => reload'[x] = reload[x]
  PROVE  ConfigKept'
<1>1. /\ cfgDisk' = cfgDisk /\ cfgTimer' = cfgTimer /\ config' = config
      /\ lastConfigHash' = lastConfigHash
      /\ \A x \in Reloads : HasRead(x)' <=> HasRead(x)
  BY DEF configVars, HasRead
<1>2. missed' <=> missed
  BY <1>1 DEF Misses
<1>3. \A x \in Reloads : (reload'[x].at \in {"load", "commit"}
                          <=> reload[x].at \in {"load", "commit"})
                         /\ reload'[x].cfg = reload[x].cfg
  OBVIOUS
<1> QED
  BY <1>1, <1>2, <1>3 DEF ConfigKept, Reloading, HasRead

(* A reload moves on; hashes and the watcher's values do not change. *)
LEMMA ReloadMoves ==
  ASSUME WatchInv, Records, NEW r \in Reloads, NEW new \in Loads,
         SetReload(r, new), ReloadKeeps,
         UNCHANGED <<lastAuthHashes, fileAuthsByPath, currentAuths, dispatchVars>>,
         lastConfigHash' \in Nat, config' \in Nat,
         reload[r].at \notin {"rescan", "post"},
         reload[r].at \in {"snapshot", "install"} => new.at = "install",
         new.at # "post", ReloadPlaced(r)', ConfigKept'
  PROVE  WatchInv'
<1>1. /\ disk' = disk /\ events' = events /\ cfgDisk' = cfgDisk
      /\ lastAuthHashes' = lastAuthHashes /\ fileAuthsByPath' = fileAuthsByPath
      /\ currentAuths' = currentAuths /\ runtimeAuths' = runtimeAuths
      /\ handler' = handler /\ reporter' = reporter
      /\ UNCHANGED <<dispatchVars, serviceVars>>
  BY DEF ReloadKeeps
<1>2. /\ DispatchInv /\ WatcherTyped /\ HandlerPlaced
      /\ \A x \in Reloads : ReloadPlaced(x)
  BY DEF WatchInv
<1>3. /\ reload' \in [Reloads -> Loads] /\ reload'[r] = new
      /\ \A x \in Reloads : x # r => reload'[x] = reload[x]
  BY <1>2, ReloadSet
<1>4. DispatchInv' /\ ComesKept
  BY <1>1, <1>2, DispatchRests
<1>5. \A x \in Reloads : reload'[x].out = reload[x].out
  BY <1>2, <1>3 DEF ReloadPlaced
<1>6. /\ Reloading({"rescan"}) => Reloading({"rescan"})'
      /\ Reloading({"rescan", "snapshot", "install"})
           => Reloading({"rescan", "snapshot", "install"})'
  BY <1>3 DEF Reloading
<1>7. WatcherTyped' /\ HandlerPlaced'
  BY <1>1, <1>2, <1>3 DEF WatcherTyped, HandlerPlaced, Queued
<1>8. \A x \in Reloads : ReloadPlaced(x)'
  BY <1>2, <1>3 DEF ReloadPlaced
<1>9. \A f \in Files : Looked(f)' /\ Ordered(f)'
  BY <1>1, <1>6, StillLooked DEF Noticed, Queued
<1>10. (\A id \in Ids : Delivered(id)') /\ \A f \in Files : Agrees(f)'
  BY <1>1, <1>4, <1>5, <1>6, Still DEF Applying
<1> QED
  BY <1>4, <1>7, <1>8, <1>9, <1>10 DEF WatchInv

(* A hash that is remembered and is that of the file is that of the        *)
(* configuration in force, or someone is about to put it in force.         *)
LEMMA Fires ==
  ASSUME WatchInv, Records, NEW r \in Reloads, TimerFires(r) PROVE WatchInv'
<1> DEFINE new == IF cfgDisk = lastConfigHash THEN reload[r]
                  ELSE [ReloadIdle EXCEPT !.at = "load"]
<1>1. /\ cfgTimer /\ reload[r].at = "idle" /\ cfgTimer' = FALSE
      /\ UNCHANGED <<lastConfigHash, config, lastAuthHashes, fileAuthsByPath,
                     currentAuths, dispatchVars>>
      /\ ReloadKeeps
  BY DEF TimerFires
<1>2. WatcherTyped /\ ConfigKept /\ ReloadPlaced(r)
  BY DEF WatchInv
<1>3. ReloadIdle \in Loads
  BY DEF ReloadIdle, Loads, NoUpdates, Outs, Absent, Gone
<1>4. new \in Loads /\ SetReload(r, new)
  <2>1. CASE cfgDisk = lastConfigHash
    <3>1. reload' = reload /\ reload \in [Reloads -> Loads]
      BY <1>2, <2>1 DEF TimerFires, WatcherTyped
    <3> QED
      BY <2>1, <3>1 DEF SetReload
  <2>2. CASE cfgDisk # lastConfigHash
    BY <1>3, <2>2 DEF TimerFires, Loads
  <2> QED
    BY <2>1, <2>2
<1>5. /\ new.cfg = 0 /\ ~new.first /\ new.out = NoUpdates
      /\ new.at = IF cfgDisk = lastConfigHash THEN "idle" ELSE "load"
  BY <1>1, <1>2, <1>3 DEF ReloadIdle, ReloadPlaced
<1> HIDE DEF new
<1>6. reload'[r] = new /\ \A x \in Reloads : x # r => reload'[x] = reload[x]
  BY <1>2, <1>4, ReloadSet
<1>7. ReloadPlaced(r)'
  BY <1>5, <1>6 DEF ReloadPlaced
<1>8. ConfigKept'
  <2>1. /\ cfgDisk' = cfgDisk /\ cfgDisk # 0
        /\ \A x \in Reloads : HasRead(x)' <=> HasRead(x)
    BY <1>1, <1>2, <1>5, <1>6 DEF ReloadKeeps, WatcherTyped, HasRead, ReloadPlaced
  <2>2. missed' <=> missed
    BY <2>1 DEF Records, Misses
  <2>3. CASE cfgDisk # lastConfigHash
    <3>1. Reloading({"load", "commit"})'
      BY <1>5, <1>6, <2>3 DEF Reloading
    <3> QED
      BY <1>1, <1>2, <1>5, <1>6, <2>1, <2>2, <3>1 DEF ConfigKept, HasRead
  <2>4. CASE cfgDisk = lastConfigHash
    <3>1. missed \/ config = cfgDisk \/ \E x \in Reloads : reload[x].at = "commit"
      BY <1>2, <2>1, <2>4 DEF ConfigKept
    <3>2. (\E x \in Reloads : reload[x].at = "commit")
            => Reloading({"load", "commit"})'
      BY <1>1, <1>6 DEF Reloading
    <3> QED
      BY <1>1, <1>2, <1>5, <1>6, <2>1, <2>2, <3>1, <3>2 DEF ConfigKept, HasRead
  <2> QED
    BY <2>3, <2>4
<1>9. lastConfigHash' \in Nat /\ config' \in Nat
  BY <1>1, <1>2 DEF WatcherTyped
<1> QED
  BY <1>1, <1>4, <1>5, <1>7, <1>8, <1>9, ReloadMoves

(* Who reads now has read what is on disk; when nobody else has read, this *)
(* is the version that was missed.                                         *)
LEMMA LoadsConfig ==
  ASSUME WatchInv, Records, NEW r \in Reloads, LoadConfig(r) PROVE WatchInv'
<1> DEFINE new == [reload[r] EXCEPT !.at = "commit", !.cfg = cfgDisk]
<1>1. /\ reload[r].at = "load" /\ SetReload(r, new) /\ ReloadKeeps
      /\ UNCHANGED <<cfgTimer, lastConfigHash, config, lastAuthHashes,
                     fileAuthsByPath, currentAuths, dispatchVars>>
  BY DEF LoadConfig
<1>2. WatcherTyped /\ ConfigKept /\ ReloadPlaced(r)
  BY DEF WatchInv
<1>3. reload[r] \in Loads /\ cfgDisk \in Nat \ {0}
  BY <1>2 DEF WatcherTyped
<1>4. /\ new \in Loads /\ new.at = "commit" /\ new.cfg = cfgDisk
      /\ ~new.first /\ new.out = NoUpdates
  BY <1>1, <1>2, <1>3 DEF Loads, ReloadPlaced
<1> HIDE DEF new
<1>5. reload'[r] = new /\ \A x \in Reloads : x # r => reload'[x] = reload[x]
  BY <1>1, <1>2, <1>4, ReloadSet
<1>6. ReloadPlaced(r)'
  BY <1>3, <1>4, <1>5 DEF ReloadPlaced
<1>7. ConfigKept'
  <2>1. /\ cfgDisk' = cfgDisk /\ HasRead(r)' /\ ~HasRead(r)
        /\ \A x \in Reloads : x # r => (HasRead(x)' <=> HasRead(x))
    BY <1>1, <1>2, <1>3, <1>4, <1>5 DEF ReloadKeeps, HasRead, ReloadPlaced
  <2>2. SUFFICES ASSUME ~missed' PROVE ConfigKept'
    BY DEF ConfigKept
  <2>3. ~missed \/ \A x \in Reloads : ~HasRead(x)
    BY <2>1, <2>2 DEF Records, Misses
  <2>4. Reloading({"load", "commit"})'
    BY <1>4, <1>5 DEF Reloading
  <2>5. ASSUME NEW x \in Reloads, HasRead(x)'
        PROVE  reload'[x].cfg = cfgDisk' /\ (reload'[x].at # "commit" => config' = cfgDisk')
    <3>1. CASE x = r
      BY <1>4, <1>5, <2>1, <3>1
    <3>2. CASE x # r
      BY <1>1, <1>2, <1>5, <2>1, <2>3, <2>5, <3>2 DEF ConfigKept
    <3> QED
      BY <3>1, <3>2
  <2> QED
    BY <2>1, <2>4, <2>5 DEF ConfigKept
<1>8. lastConfigHash' \in Nat /\ config' \in Nat
  BY <1>1, <1>2 DEF WatcherTyped
<1> QED
  BY <1>1, <1>4, <1>6, <1>7, <1>8, ReloadMoves

(* What a reload has read is put in force. *)
LEMMA Commits ==
  ASSUME WatchInv, Records, NEW r \in Reloads, reloadConfig(r) PROVE WatchInv'
<1> DEFINE new == [reload[r] EXCEPT
              !.at = IF reload[r].cfg = config THEN "snapshot" ELSE "affected"]
<1>1. /\ reload[r].at = "commit" /\ config' = reload[r].cfg
      /\ SetReload(r, new) /\ ReloadKeeps
      /\ UNCHANGED <<cfgTimer, lastConfigHash, lastAuthHashes, fileAuthsByPath,
                     currentAuths, dispatchVars>>
  BY DEF reloadConfig
<1>2. WatcherTyped /\ ConfigKept /\ ReloadPlaced(r)
  BY DEF WatchInv
<1>3. reload[r] \in Loads
  BY <1>2 DEF WatcherTyped
<1>4. /\ new \in Loads /\ new.at \in {"snapshot", "affected"}
      /\ new.cfg = reload[r].cfg /\ new.cfg \in Nat /\ new.cfg # 0
      /\ ~new.first /\ new.out = NoUpdates
  BY <1>1, <1>2, <1>3 DEF Loads, ReloadPlaced
<1> HIDE DEF new
<1>5. reload'[r] = new /\ \A x \in Reloads : x # r => reload'[x] = reload[x]
  BY <1>1, <1>2, <1>4, ReloadSet
<1>6. ReloadPlaced(r)'
  BY <1>4, <1>5 DEF ReloadPlaced
<1>7. ConfigKept'
  <2>1. /\ cfgDisk' = cfgDisk /\ HasRead(r)
        /\ \A x \in Reloads : HasRead(x)' <=> HasRead(x)
    BY <1>1, <1>4, <1>5 DEF ReloadKeeps, HasRead
  <2>2. missed' <=> missed
    BY <2>1 DEF Records, Misses
  <2>3. SUFFICES ASSUME ~missed PROVE ConfigKept'
    BY <2>2 DEF ConfigKept
  <2>4. config' = cfgDisk'
    BY <1>1, <1>2, <2>1, <2>3 DEF ConfigKept
  <2>5. \A x \in Reloads : HasRead(x)' => reload'[x].cfg = cfgDisk'
    BY <1>2, <1>4, <1>5, <2>1, <2>3 DEF ConfigKept
  <2> QED
    BY <2>1, <2>4, <2>5 DEF ConfigKept
<1>8. lastConfigHash' \in Nat /\ config' \in Nat
  BY <1>1, <1>2, <1>4 DEF WatcherTyped
<1> QED
  BY <1>1, <1>4, <1>6, <1>7, <1>8, ReloadMoves

(* The values a reload forgets are on their way again once it installs. *)
LEMMA ForgetsAffected ==
  ASSUME WatchInv, Records, NEW r \in Reloads, ForgetAffected(r) PROVE WatchInv'
<1>1. PICK rescan \in BOOLEAN, force \in BOOLEAN, affected \in SUBSET Ids :
        /\ SetReload(r, [reload[r] EXCEPT !.force = force,
                           !.at = IF rescan THEN "rescan" ELSE "snapshot"])
        /\ currentAuths' = [id \in Ids |-> IF id \in affected THEN Absent
                                           ELSE currentAuths[id]]
  BY DEF ForgetAffected
<1> DEFINE new == [reload[r] EXCEPT !.force = force,
                     !.at = IF rescan THEN "rescan" ELSE "snapshot"]
<1>2. /\ reload[r].at = "affected" /\ disk' = disk /\ events' = events
      /\ cfgDisk' = cfgDisk /\ lastAuthHashes' = lastAuthHashes
      /\ fileAuthsByPath' = fileAuthsByPath /\ runtimeAuths' = runtimeAuths
      /\ handler' = handler /\ reporter' = reporter
      /\ UNCHANGED <<configVars, dispatchVars, serviceVars>>
  BY DEF ForgetAffected, ReloadKeeps, configVars
<1>3. /\ DispatchInv /\ WatcherTyped /\ HandlerPlaced /\ ConfigKept
      /\ (\A x \in Reloads : ReloadPlaced(x))
      /\ (\A id \in Ids : Delivered(id)) /\ \A f \in Files : Agrees(f)
  BY DEF WatchInv
<1>4. reload[r] \in Loads /\ ReloadPlaced(r)
  BY <1>3 DEF WatcherTyped
<1>5. /\ new \in Loads /\ new.at \in {"rescan", "snapshot"}
      /\ new.cfg = reload[r].cfg /\ new.cfg # 0 /\ ~new.first
      /\ new.out = NoUpdates /\ reload[r].out = NoUpdates
  BY <1>2, <1>4 DEF Loads, ReloadPlaced
<1> HIDE DEF new
<1>6. /\ reload' \in [Reloads -> Loads] /\ reload'[r] = new
      /\ \A x \in Reloads : x # r => reload'[x] = reload[x]
  BY <1>1, <1>3, <1>5, ReloadSet DEF new
<1>7. currentAuths' \in [Ids -> Nat]
  BY <1>1, <1>3 DEF WatcherTyped, Absent, Gone
<1>8. WatcherTyped' /\ HandlerPlaced'
  BY <1>2, <1>3, <1>6, <1>7 DEF WatcherTyped, HandlerPlaced, Queued, configVars
<1>9. \A x \in Reloads : ReloadPlaced(x)'
  BY <1>3, <1>5, <1>6 DEF ReloadPlaced
<1>10. DispatchInv' /\ ComesKept
  BY <1>2, <1>3, DispatchRests
<1>11. \A g \in Hands : Held(g)' = Held(g)
  BY <1>2, <1>5, <1>6, HeldAlike
<1>12. ASSUME NEW id \in Ids PROVE Delivered(id)'
  <2>1. CASE currentAuths'[id] = currentAuths[id]
    BY <1>2, <1>3, <1>10, <1>11, <2>1, DeliveryRests DEF Records, ComesKept
  <2>2. CASE currentAuths'[id] # currentAuths[id]
    BY <1>11, <2>2, DeliveryForgotten DEF Records
  <2> QED
    BY <2>1, <2>2
<1>13. Reloading({"rescan", "snapshot", "install"})'
       /\ (Reloading({"rescan"}) => Reloading({"rescan"})')
  BY <1>2, <1>5, <1>6 DEF Reloading
<1>14. ASSUME NEW f \in Files PROVE Agrees(f)'
  <2>1. Outdated(f)' => f \in unseen'
    BY DEF Records, Unsees
  <2>2. Parsed(lastAuthHashes[f])' = Parsed(lastAuthHashes[f])
    BY <1>2 DEF Parsed
  <2>3. Agrees(f)
    BY <1>3
  <2> QED
    BY <1>2, <1>13, <2>1, <2>2, <2>3 DEF Agrees, Applying
<1>15. \A f \in Files : Looked(f)' /\ Ordered(f)'
  BY <1>2, <1>13, StillLooked DEF Noticed, Queued
<1>16. ConfigKept'
  BY <1>2, <1>3, <1>5, <1>6, ConfigMoves DEF Records
<1> QED
  BY <1>8, <1>9, <1>10, <1>12, <1>14, <1>15, <1>16 DEF WatchInv

(* After a scan every file has the hash of its content. *)
LEMMA Scans ==
  ASSUME WatchInv, Records, NEW r \in Reloads, RescanFiles(r) PROVE WatchInv'
<1> DEFINE new == [reload[r] EXCEPT !.at = "snapshot"]
<1>1. /\ reload[r].at = "rescan" /\ handler.at = "idle" /\ SetReload(r, new)
      /\ disk' = disk /\ events' = events /\ cfgDisk' = cfgDisk
      /\ lastAuthHashes' = disk /\ currentAuths' = currentAuths
      /\ fileAuthsByPath' = {f \in Files : Parsed(disk[f]) # Absent}
      /\ runtimeAuths' = runtimeAuths
      /\ handler' = handler /\ reporter' = reporter
      /\ UNCHANGED <<configVars, dispatchVars, serviceVars>>
  BY DEF RescanFiles, ReloadKeeps, configVars
<1>2. /\ DispatchInv /\ WatcherTyped /\ HandlerPlaced /\ ConfigKept
      /\ (\A x \in Reloads : ReloadPlaced(x))
      /\ \A id \in Ids : Delivered(id)
  BY DEF WatchInv
<1>3. reload[r] \in Loads /\ ReloadPlaced(r)
  BY <1>2 DEF WatcherTyped
<1>4. /\ new \in Loads /\ new.at = "snapshot" /\ new.cfg = reload[r].cfg
      /\ (~new.first => new.cfg # 0) /\ (new.first => new.cfg = 0)
      /\ new.out = NoUpdates /\ reload[r].out = NoUpdates
  BY <1>1, <1>3 DEF Loads, ReloadPlaced
<1> HIDE DEF new
<1>5. /\ reload' \in [Reloads -> Loads] /\ reload'[r] = new
      /\ \A x \in Reloads : x # r => reload'[x] = reload[x]
  BY <1>1, <1>2, <1>4, ReloadSet
<1>6. WatcherTyped' /\ HandlerPlaced'
  BY <1>1, <1>2, <1>5 DEF WatcherTyped, HandlerPlaced, Queued, configVars
<1>7. \A x \in Reloads : ReloadPlaced(x)'
  BY <1>2, <1>4, <1>5 DEF ReloadPlaced
<1>8. DispatchInv' /\ ComesKept
  BY <1>1, <1>2, DispatchRests
<1>9. \A g \in Hands : Held(g)' = Held(g)
  BY <1>1, <1>4, <1>5, HeldAlike
<1>10. ASSUME NEW id \in Ids PROVE Delivered(id)'
  BY <1>1, <1>2, <1>8, <1>9, DeliveryRests DEF Records, ComesKept
<1>11. ASSUME NEW f \in Files PROVE Agrees(f)'
  <2>1. Outdated(f)' => f \in unseen'
    BY DEF Records, Unsees
  <2>2. Reloading({"rescan", "snapshot", "install"})'
    BY <1>4, <1>5 DEF Reloading
  <2>3. Parsed(lastAuthHashes[f])' = Parsed(disk[f])
    BY <1>1 DEF Parsed
  <2> QED
    BY <1>1, <2>1, <2>2, <2>3 DEF Agrees
<1>12. \A f \in Files : Looked(f)' /\ Ordered(f)'
  BY <1>1, StillLooked DEF Noticed
<1>13. ConfigKept'
  BY <1>1, <1>2, <1>4, <1>5, ConfigMoves DEF Records
<1> QED
  BY <1>6, <1>7, <1>8, <1>10, <1>11, <1>12, <1>13 DEF WatchInv

LEMMA Snapshots ==
  ASSUME WatchInv, Records, NEW r \in Reloads, SnapshotFiles(r) PROVE WatchInv'
<1> DEFINE snap == [f \in Files |-> Parsed(disk[f])]
           new == [reload[r] EXCEPT !.at = "install", !.snap = snap]
<1>1. /\ reload[r].at = "snapshot" /\ SetReload(r, new) /\ ReloadKeeps
      /\ UNCHANGED <<lastAuthHashes, fileAuthsByPath, currentAuths, dispatchVars>>
      /\ UNCHANGED configVars
      /\ lastConfigHash' = lastConfigHash /\ config' = config
  BY DEF SnapshotFiles, ReloadKeeps, configVars
<1>2. WatcherTyped /\ ConfigKept /\ ReloadPlaced(r)
  BY DEF WatchInv
<1>3. reload[r] \in Loads
  BY <1>2 DEF WatcherTyped
<1>4. snap \in [Files -> Nat]
  BY <1>2 DEF WatcherTyped, Contents, Parsed, Absent, Gone
<1> HIDE DEF snap
<1>5. /\ new \in Loads /\ new.at = "install" /\ new.cfg = reload[r].cfg
      /\ (~new.first => new.cfg # 0) /\ (new.first => new.cfg = 0)
      /\ new.out = NoUpdates
  BY <1>1, <1>2, <1>3, <1>4 DEF Loads, ReloadPlaced
<1> HIDE DEF new
<1>6. reload'[r] = new /\ \A x \in Reloads : x # r => reload'[x] = reload[x]
  BY <1>1, <1>2, <1>5, ReloadSet
<1>7. ReloadPlaced(r)'
  BY <1>5, <1>6 DEF ReloadPlaced
<1>8. ConfigKept'
  BY <1>1, <1>2, <1>5, <1>6, ConfigMoves DEF Records
<1>9. lastConfigHash' \in Nat /\ config' \in Nat
  BY <1>1, <1>2 DEF WatcherTyped
<1> QED
  BY <1>1, <1>5, <1>7, <1>8, <1>9, ReloadMoves

(* What differs from the watcher's values is what the reload holds then; a *)
(* file whose reading is not outdated gets the value of its hash.          *)
LEMMA Installs ==
  ASSUME WatchInv, Records, NEW r \in Reloads, prepareAuthUpdatesLocked(r)
  PROVE  WatchInv'
<1> DEFINE vals == [id \in Ids |-> IF id \in Files THEN reload[r].snap[id]
                                   ELSE runtimeAuths[id]]
           out == [id \in Ids |->
                     IF vals[id] # currentAuths[id]
                          \/ (reload[r].force /\ vals[id] # Absent)
                     THEN vals[id] ELSE None]
           new == [ReloadIdle EXCEPT !.at = "post", !.first = reload[r].first,
                     !.cfg = reload[r].cfg, !.out = out]
<1>1. /\ reload[r].at = "install" /\ SetReload(r, new) /\ currentAuths' = vals
      /\ disk' = disk /\ events' = events /\ cfgDisk' = cfgDisk
      /\ lastAuthHashes' = lastAuthHashes /\ fileAuthsByPath' = fileAuthsByPath
      /\ runtimeAuths' = runtimeAuths /\ handler' = handler /\ reporter' = reporter
      /\ UNCHANGED <<configVars, dispatchVars, serviceVars>>
  BY DEF prepareAuthUpdatesLocked, ReloadKeeps, configVars
<1>2. /\ DispatchInv /\ WatcherTyped /\ HandlerPlaced /\ ConfigKept
      /\ (\A x \in Reloads : ReloadPlaced(x))
      /\ (\A id \in Ids : Delivered(id)) /\ \A f \in Files : Agrees(f)
  BY DEF WatchInv
<1>3. reload[r] \in Loads /\ ReloadPlaced(r)
  BY <1>2 DEF WatcherTyped
<1>4. /\ vals \in [Ids -> Nat]
      /\ (\A f \in Files : vals[f] = reload[r].snap[f])
      /\ \A id \in Runtimes : vals[id] = runtimeAuths[id]
  BY <1>2, <1>3 DEF WatcherTyped, Loads
<1> HIDE DEF vals
<1>5. out \in Outs /\ \A id \in Ids : \/ out[id] = vals[id]
                                      \/ out[id] = None /\ vals[id] = currentAuths[id]
  BY <1>4 DEF Outs
<1> HIDE DEF out
<1>6. ReloadIdle \in Loads
  BY DEF ReloadIdle, Loads, NoUpdates, Outs, Absent, Gone
<1>7. /\ new \in Loads /\ new.at = "post" /\ new.cfg = reload[r].cfg
      /\ (~new.first => new.cfg # 0) /\ (new.first => new.cfg = 0)
      /\ new.out = out /\ reload[r].out = NoUpdates
  BY <1>1, <1>3, <1>5, <1>6 DEF Loads, ReloadPlaced, ReloadIdle
<1> HIDE DEF new
<1>8. /\ reload' \in [Reloads -> Loads] /\ reload'[r] = new
      /\ \A x \in Reloads : x # r => reload'[x] = reload[x]
  BY <1>1, <1>2, <1>7, ReloadSet
<1>9. WatcherTyped' /\ HandlerPlaced'
  BY <1>1, <1>2, <1>4, <1>8 DEF WatcherTyped, HandlerPlaced, Queued, configVars
<1>10. \A x \in Reloads : ReloadPlaced(x)'
  BY <1>2, <1>7, <1>8 DEF ReloadPlaced
<1>11. DispatchInv' /\ ComesKept
  BY <1>1, <1>2, DispatchRests
<1>12. /\ r \in Hands /\ Held(r) = NoUpdates /\ Held(r)' = out
       /\ \A g \in Hands : g # r => Held(g)' = Held(g)
  BY <1>1, <1>7, <1>8 DEF Hands, Held
<1>13. ASSUME NEW id \in Ids PROVE Delivered(id)'
  <2>1. currentAuths'[id] = vals[id] /\ vals[id] \in Nat
        /\ (id \in Runtimes => currentAuths'[id] = runtimeAuths'[id])
    BY <1>1, <1>4
  <2>2. CASE out[id] = vals[id]
    BY <1>2, <1>12, <2>1, <2>2, DeliveryTaken DEF Records
  <2>3. CASE out[id] = None /\ vals[id] = currentAuths[id]
    <3>1. \A g \in Hands : Held(g)'[id] = Held(g)[id]
      BY <1>12, <2>3 DEF NoUpdates
    <3> QED
      BY <1>1, <1>2, <1>11, <2>1, <2>3, <3>1, DeliveryRests DEF Records, ComesKept
  <2> QED
    BY <1>5, <2>2, <2>3
<1>14. ASSUME NEW f \in Files PROVE Agrees(f)'
  <2>1. /\ Outdated(f)' => f \in unseen'
        /\ f \in unseen' \/ f \notin unseen
             \/ currentAuths'[f] = Parsed(lastAuthHashes'[f])
    BY DEF Records, Unsees
  <2>2. Parsed(lastAuthHashes[f])' = Parsed(lastAuthHashes[f])
        /\ Parsed(lastAuthHashes[f])' = Parsed(lastAuthHashes'[f])
    BY <1>1 DEF Parsed
  <2>3. Agrees(f) /\ (Applying(f)' <=> Applying(f))
    BY <1>1, <1>2 DEF Applying
  <2>4. f \notin unseen => currentAuths'[f] = Parsed(lastAuthHashes[f])
    BY <1>1, <1>4, <2>3 DEF Agrees, Outdated
  <2> QED
    BY <1>1, <2>1, <2>2, <2>3, <2>4 DEF Agrees
<1>15. Reloading({"rescan"}) => Reloading({"rescan"})'
  BY <1>1, <1>8 DEF Reloading
<1>16. \A f \in Files : Looked(f)' /\ Ordered(f)'
  BY <1>1, <1>15, StillLooked DEF Noticed, Queued
<1>17. ConfigKept'
  BY <1>1, <1>2, <1>7, <1>8, ConfigMoves DEF Records
<1> QED
  BY <1>9, <1>10, <1>11, <1>13, <1>14, <1>16, <1>17 DEF WatchInv

(* The first load is over then; another one still owes the hash. *)
LEMMA ReloadPosts ==
  ASSUME WatchInv, Records, NEW r \in Reloads, PostReload(r) PROVE WatchInv'
<1> DEFINE new == IF reload[r].first THEN ReloadIdle
                  ELSE [ReloadIdle EXCEPT !.at = "hash", !.cfg = reload[r].cfg]
<1>1. /\ reload[r].at = "post" /\ SetReload(r, new)
      /\ dispatchAuthUpdates(reload[r].out) /\ UNCHANGED serviceVars
      /\ disk' = disk /\ events' = events /\ cfgDisk' = cfgDisk
      /\ lastAuthHashes' = lastAuthHashes /\ currentAuths' = currentAuths
      /\ fileAuthsByPath' = fileAuthsByPath /\ runtimeAuths' = runtimeAuths
      /\ handler' = handler /\ reporter' = reporter /\ UNCHANGED configVars
  BY DEF PostReload, ReloadKeeps, configVars
<1>2. /\ WatcherTyped /\ HandlerPlaced /\ ConfigKept
      /\ (\A x \in Reloads : ReloadPlaced(x)) /\ \A f \in Files : Agrees(f)
  BY DEF WatchInv
<1>3. reload[r] \in Loads /\ ReloadPlaced(r) /\ ReloadIdle \in Loads
  BY <1>2 DEF WatcherTyped, ReloadIdle, Loads, NoUpdates, Outs, Absent, Gone
<1>4. /\ new \in Loads /\ new.at = (IF reload[r].first THEN "idle" ELSE "hash")
      /\ new.cfg = reload[r].cfg /\ ~new.first /\ new.out = NoUpdates
      /\ (~reload[r].first => new.cfg # 0) /\ (reload[r].first => new.cfg = 0)
  BY <1>1, <1>3 DEF Loads, ReloadPlaced, ReloadIdle
<1> HIDE DEF new
<1>5. /\ reload' \in [Reloads -> Loads] /\ reload'[r] = new
      /\ \A x \in Reloads : x # r => reload'[x] = reload[x]
  BY <1>1, <1>2, <1>4, ReloadSet
<1>6. WatcherTyped' /\ HandlerPlaced'
  BY <1>1, <1>2, <1>5 DEF WatcherTyped, HandlerPlaced, Queued, configVars
<1>7. \A x \in Reloads : ReloadPlaced(x)'
  BY <1>2, <1>4, <1>5 DEF ReloadPlaced
<1>8. /\ r \in Hands /\ Held(r) = reload[r].out /\ Held(r)' = NoUpdates
      /\ \A g \in Hands : g # r => Held(g)' = Held(g)
  BY <1>1, <1>4, <1>5 DEF Hands, Held
<1>9. reload[r].out \in Outs
  BY <1>3 DEF Loads
<1>10. DispatchInv' /\ \A id \in Ids : Delivered(id)'
  BY <1>1, <1>8, <1>9, HandsOver
<1>11. /\ Reloading({"rescan"}) => Reloading({"rescan"})'
       /\ Reloading({"rescan", "snapshot", "install"})
            => Reloading({"rescan", "snapshot", "install"})'
  BY <1>1, <1>5 DEF Reloading
<1>12. ASSUME NEW f \in Files PROVE Agrees(f)'
  BY <1>1, <1>2, <1>11, AgreesKept DEF Records, Applying
<1>13. \A f \in Files : Looked(f)' /\ Ordered(f)'
  BY <1>1, <1>11, StillLooked DEF Noticed, Queued
<1>14. ConfigKept'
  BY <1>1, <1>2, <1>4, <1>5, ConfigMoves DEF Records
<1> QED
  BY <1>6, <1>7, <1>10, <1>12, <1>13, <1>14 DEF WatchInv

(* Unless a version has been missed, the one on disk is in force. *)
LEMMA Remembers ==
  ASSUME WatchInv, Records, NEW r \in Reloads, RememberHash(r) PROVE WatchInv'
<1>1. /\ reload[r].at = "hash" /\ lastConfigHash' = cfgDisk
      /\ SetReload(r, ReloadIdle) /\ ReloadKeeps
      /\ UNCHANGED <<cfgTimer, config, lastAuthHashes, fileAuthsByPath,
                     currentAuths, dispatchVars>>
  BY DEF RememberHash
<1>2. WatcherTyped /\ ConfigKept /\ ReloadPlaced(r)
  BY DEF WatchInv
<1>3. /\ ReloadIdle \in Loads /\ ReloadIdle.at = "idle" /\ ReloadIdle.cfg = 0
      /\ ~ReloadIdle.first /\ ReloadIdle.out = NoUpdates
  BY DEF ReloadIdle, Loads, NoUpdates, Outs, Absent, Gone
<1>4. reload'[r] = ReloadIdle /\ \A x \in Reloads : x # r => reload'[x] = reload[x]
  BY <1>1, <1>2, <1>3, ReloadSet
<1>5. ReloadPlaced(r)'
  BY <1>3, <1>4 DEF ReloadPlaced
<1>6. ConfigKept'
  <2>1. /\ cfgDisk' = cfgDisk /\ config' = config /\ HasRead(r) /\ ~HasRead(r)'
        /\ \A x \in Reloads : x # r => (HasRead(x)' <=> HasRead(x))
    BY <1>1, <1>2, <1>3, <1>4 DEF ReloadKeeps, HasRead, ReloadPlaced
  <2>2. missed' <=> missed
    BY <2>1 DEF Records, Misses
  <2>3. SUFFICES ASSUME ~missed PROVE ConfigKept'
    BY <2>2 DEF ConfigKept
  <2>4. config = cfgDisk
    BY <1>1, <1>2, <2>1, <2>3 DEF ConfigKept
  <2>5. ASSUME NEW x \in Reloads, HasRead(x)' PROVE reload'[x].cfg = cfgDisk'
    BY <1>2, <1>4, <2>1, <2>3, <2>5 DEF ConfigKept
  <2> QED
    BY <1>1, <2>1, <2>4, <2>5 DEF ConfigKept
<1>7. lastConfigHash' \in Nat /\ config' \in Nat
  BY <1>1, <1>2 DEF WatcherTyped
<1> QED
  BY <1>1, <1>3, <1>5, <1>6, <1>7, ReloadMoves

----------------------------------------------------------------------------
(* dispatchRuntimeAuthUpdate *)

LEMMA Reports ==
  ASSUME WatchInv, Records, NEW p \in Reporters, NEW id \in Runtimes,
         ReportRuntime(p, id)
  PROVE  WatchInv'
<1> DEFINE val == IF runtimeAuths[id] = Absent THEN 1 ELSE Gone
           out == [NoUpdates EXCEPT ![id] = val]
<1>1. /\ reporter[p] = NoUpdates /\ reporter' = [reporter EXCEPT ![p] = out]
      /\ runtimeAuths' = [runtimeAuths EXCEPT ![id] = val]
      /\ currentAuths' = [currentAuths EXCEPT ![id] = val]
      /\ disk' = disk /\ events' = events
      /\ lastAuthHashes' = lastAuthHashes /\ fileAuthsByPath' = fileAuthsByPath
      /\ handler' = handler /\ reload' = reload
      /\ UNCHANGED <<configVars, dispatchVars, serviceVars>>
  BY DEF ReportRuntime, ReporterKeeps, cacheVars
<1>2. /\ DispatchInv /\ WatcherTyped /\ HandlerPlaced /\ ConfigKept
      /\ (\A r \in Reloads : ReloadPlaced(r))
      /\ (\A x \in Ids : Delivered(x)) /\ \A f \in Files : Agrees(f)
  BY DEF WatchInv
<1>3. val \in Nat
  BY DEF Gone
<1> HIDE DEF val
<1>4. /\ out \in Outs /\ out[id] = val
      /\ \A x \in Ids : x # id => out[x] = None
  BY <1>3 DEF NoUpdates, Outs
<1> HIDE DEF out
<1>5. /\ reporter' \in [Reporters -> Outs] /\ reporter'[p] = out
      /\ \A q \in Reporters : q # p => reporter'[q] = reporter[q]
  BY <1>1, <1>2, <1>4 DEF WatcherTyped
<1>6. /\ currentAuths' \in [Ids -> Nat] /\ currentAuths'[id] = val
      /\ (\A x \in Ids : x # id => currentAuths'[x] = currentAuths[x])
      /\ runtimeAuths' \in [Runtimes -> Nat] /\ runtimeAuths'[id] = val
      /\ \A x \in Runtimes : x # id => runtimeAuths'[x] = runtimeAuths[x]
  BY <1>1, <1>2, <1>3 DEF WatcherTyped
<1>7. DispatchInv' /\ ComesKept
  BY <1>1, <1>2, DispatchRests
<1>8. WatcherTyped' /\ HandlerPlaced' /\ \A r \in Reloads : ReloadPlaced(r)'
  BY <1>1, <1>2, <1>5, <1>6
     DEF WatcherTyped, HandlerPlaced, ReloadPlaced, Queued, configVars
<1>9. /\ p \in Hands /\ Held(p) = NoUpdates /\ Held(p)' = out
      /\ \A g \in Hands : g # p => Held(g)' = Held(g)
  BY <1>1, <1>5 DEF Hands, Held
<1>10. ASSUME NEW x \in Ids PROVE Delivered(x)'
  <2>1. CASE x = id
    BY <1>2, <1>3, <1>4, <1>6, <1>9, <2>1, DeliveryTaken DEF Records
  <2>2. CASE x # id
    <3>1. \A g \in Hands : Held(g)'[x] = Held(g)[x]
      BY <1>4, <1>9, <2>2 DEF NoUpdates
    <3> QED
      BY <1>2, <1>6, <1>7, <2>2, <3>1, DeliveryRests DEF Records, ComesKept
  <2> QED
    BY <2>1, <2>2
<1>11. ASSUME NEW f \in Files PROVE Agrees(f)'
  <2>1. currentAuths'[f] = currentAuths[f]
    BY <1>6
  <2> QED
    BY <1>1, <1>2, <2>1, AgreesKept DEF Records, Applying, Reloading
<1>12. \A f \in Files : Looked(f)' /\ Ordered(f)'
  BY <1>1, StillLooked DEF Noticed, Queued, Reloading
<1>13. ConfigKept'
  BY <1>1, <1>2, ConfigRests DEF Records
<1> QED
  BY <1>7, <1>8, <1>10, <1>11, <1>12, <1>13 DEF WatchInv

LEMMA ReporterPosts ==
  ASSUME WatchInv, Records, NEW p \in Reporters, PostRuntime(p) PROVE WatchInv'
<1>1. /\ dispatchAuthUpdates(reporter[p]) /\ UNCHANGED serviceVars
      /\ reporter' = [reporter EXCEPT ![p] = NoUpdates]
      /\ disk' = disk /\ events' = events
      /\ lastAuthHashes' = lastAuthHashes /\ fileAuthsByPath' = fileAuthsByPath
      /\ currentAuths' = currentAuths /\ runtimeAuths' = runtimeAuths
      /\ handler' = handler /\ reload' = reload /\ UNCHANGED configVars
  BY DEF PostRuntime, ReporterKeeps, cacheVars, authVars
<1>2. /\ WatcherTyped /\ HandlerPlaced /\ ConfigKept
      /\ (\A r \in Reloads : ReloadPlaced(r)) /\ \A f \in Files : Agrees(f)
  BY DEF WatchInv
<1>3. reporter[p] \in Outs /\ NoUpdates \in Outs
  BY <1>2 DEF WatcherTyped, NoUpdates, Outs
<1>4. /\ reporter' \in [Reporters -> Outs] /\ reporter'[p] = NoUpdates
      /\ \A q \in Reporters : q # p => reporter'[q] = reporter[q]
  BY <1>1, <1>2, <1>3 DEF WatcherTyped
<1>5. /\ p \in Hands /\ Held(p) = reporter[p] /\ Held(p)' = NoUpdates
      /\ \A g \in Hands : g # p => Held(g)' = Held(g)
  BY <1>1, <1>4 DEF Hands, Held
<1>6. DispatchInv' /\ \A id \in Ids : Delivered(id)'
  BY <1>1, <1>3, <1>5, HandsOver
<1>7. WatcherTyped' /\ HandlerPlaced' /\ \A r \in Reloads : ReloadPlaced(r)'
  BY <1>1, <1>2, <1>4 DEF WatcherTyped, HandlerPlaced, ReloadPlaced, Queued, configVars
<1>8. ASSUME NEW f \in Files PROVE Agrees(f)'
  BY <1>1, <1>2, AgreesKept DEF Records, Applying, Reloading
<1>9. \A f \in Files : Looked(f)' /\ Ordered(f)'
  BY <1>1, StillLooked DEF Noticed, Queued, Reloading
<1>10. ConfigKept'
  BY <1>1, <1>2, ConfigRests DEF Records
<1> QED
  BY <1>6, <1>7, <1>8, <1>9, <1>10 DEF WatchInv

----------------------------------------------------------------------------
(* All steps together *)

LEMMA WatcherStep ==
  ASSUME WatchInv, RacesNext PROVE WatchInv'
<1> USE DEF RacesNext
<1>1. Records
  BY DEF Records
<1>2. ASSUME NEW f \in Files,
             \/ WriteBegin(f) \/ ReplaceFile(f) \/ RemoveFile(f) \/ DebounceEnds(f)
             \/ \E v \in 1..MaxVersion : WriteEnd(f, v)
      PROVE  WatchInv'
  BY <1>1, <1>2, WriteBegins, WriteEnds, Replaces, Removes, WindowEnds
<1>3. ASSUME NEW v \in 1..MaxConfig, WriteConfig(v) PROVE WatchInv'
  BY <1>1, <1>3, ConfigWritten
<1>4. CASE HandlerStep
  BY <1>1, <1>4, Takes, Stats, Compares, Reads, Applies, Forgets, Posts
     DEF HandlerStep
<1>5. ASSUME NEW r \in Reloads, ReloadStep(r) PROVE WatchInv'
  BY <1>1, <1>5, Fires, LoadsConfig, Commits, ForgetsAffected, Scans, Snapshots,
     Installs, ReloadPosts, Remembers DEF ReloadStep
<1>6. ASSUME NEW p \in Reporters,
             PostRuntime(p) \/ \E id \in Runtimes : ReportRuntime(p, id)
      PROVE  WatchInv'
  BY <1>1, <1>6, Reports, ReporterPosts
<1>7. CASE ServiceSide(DispatchStep) \/ ServiceSide(ConsumerStep)
  BY <1>1, <1>7, ServiceSteps
<1> QED
  BY <1>2, <1>3, <1>4, <1>5, <1>6, <1>7 DEF WatcherNext

LEMMA Stutters ==
  ASSUME WatchInv, UNCHANGED allVars PROVE WatchInv'
<1> USE DEF allVars, watcherVars, raceVars, fileVars, configVars, cacheVars,
            authVars, goVars
<1>1. DispatchInv' /\ ComesKept
  BY DispatchRests DEF WatchInv
<1>2. WatcherTyped' /\ HandlerPlaced' /\ \A r \in Reloads : ReloadPlaced(r)'
  BY DEF WatchInv, WatcherTyped, HandlerPlaced, ReloadPlaced, Queued
<1>3. ASSUME NEW id \in Ids PROVE Delivered(id)'
  <2>1. \A g \in Hands : Held(g)' = Held(g)
    BY HeldAlike
  <2>2. Holders(id)' = Holders(id) /\ Holders(id) \subseteq Hands
    BY <2>1, HoldersAre
  <2> QED
    BY <1>1, <2>1, <2>2 DEF WatchInv, Delivered, Contended, ComesKept
<1>4. ASSUME NEW f \in Files PROVE Agrees(f)' /\ Looked(f)' /\ Ordered(f)'
  BY DEF WatchInv, Agrees, Outdated, Parsed, Applying, Reloading, Looked, Noticed,
         Queued, Ordered
<1>5. ConfigKept'
  BY DEF WatchInv, ConfigKept, HasRead, Reloading
<1> QED
  BY <1>1, <1>2, <1>3, <1>4, <1>5 DEF WatchInv

(* At rest nothing holds an update back, every file has the hash of its    *)
(* content, and the last configuration read is the one on disk.            *)
LEMMA Settles == WatchInv => SettledInStep
<1> SUFFICES ASSUME WatchInv, Settled PROVE InStep
  BY DEF SettledInStep
<1>1. /\ DispatchInv /\ WatcherTyped /\ HandlerPlaced /\ ConfigKept
      /\ (\A r \in Reloads : ReloadPlaced(r))
      /\ (\A id \in Ids : Delivered(id))
      /\ \A f \in Files : Agrees(f) /\ Looked(f)
  BY DEF WatchInv
<1>2. /\ \A f \in Files : disk[f] # Partial
      /\ events = <<>> /\ handler.at = "idle" /\ ~cfgTimer
      /\ \A r \in Reloads : reload[r].at = "idle"
      /\ \A p \in Reporters : reporter[p] = NoUpdates
      /\ pendingOrder = <<>> /\ batch = <<>> /\ queue = <<>> /\ consumer = "idle"
  BY DEF Settled, NothingUnderWay
<1>3. ASSUME NEW id \in Ids
      PROVE  Holders(id) = {} /\ \A v : Comes(id, v) => applied[id] = v
  <2>1. \A g \in Hands : Held(g) = NoUpdates
    BY <1>1, <1>2 DEF Hands, Held, HandlerPlaced, ReloadPlaced
  <2>2. Holders(id) = {}
    BY <2>1, HoldersAre DEF NoUpdates
  <2>3. Len(pendingOrder) = 0 /\ Len(batch) = 0 /\ Len(queue) = 0
    BY <1>2
  <2>4. /\ pendingUpdates[id] = None /\ drained[id] = None
        /\ ~InSeq(batch, id) /\ ~InSeq(queue, id)
    BY <1>1, <1>2, <2>3 DEF DispatchInv, OrderInv, NoUpdates, InSeq
  <2> QED
    BY <2>2, <2>4 DEF Comes
<1>4. \A id \in Ids \ overtaken : applied[id] = currentAuths[id]
  BY <1>1, <1>3 DEF Delivered
<1>5. \A id \in Runtimes \ overtaken : currentAuths[id] = runtimeAuths[id]
  BY <1>1 DEF Delivered
<1>6. ASSUME NEW f \in Files \ (unseen \cup debounced)
      PROVE  currentAuths[f] = disk[f]
  <2>1. ~Queued(f, "write") /\ ~Queued(f, "remove")
    BY <1>2 DEF Queued
  <2>2. Noticed(f) /\ disk[f] # Partial
    BY <1>1, <1>2, <1>6 DEF Looked
  <2>3. lastAuthHashes[f] = disk[f]
    BY <1>2, <2>1, <2>2 DEF Noticed, Reloading
  <2>4. currentAuths[f] = Parsed(lastAuthHashes[f])
    BY <1>1, <1>2, <1>6 DEF Agrees, Applying, Reloading
  <2> QED
    BY <2>2, <2>3, <2>4 DEF Parsed
<1>7. missed \/ config = cfgDisk
  BY <1>1, <1>2 DEF ConfigKept, Reloading
<1> QED
  BY <1>4, <1>5, <1>6, <1>7 DEF InStep

(* However events, reloads and reports of the watcher (internal/watcher)   *)
(* overlap: once all is handled, the service, the watcher and the files,   *)
(* run time credentials and configuration agree, but for those that one of *)
(* the four races has hit that the watcher does not prevent.               *)
THEOREM WatcherInStep == RacesSpec => []SettledInStep
<1>1. RacesInit => WatchInv
  BY InitInStep
<1>2. WatchInv /\ [RacesNext]_allVars => WatchInv'
  BY WatcherStep, Stutters
<1>3. WatchInv => SettledInStep
  BY Settles
<1> QED
  BY <1>1, <1>2, <1>3, PTL DEF RacesSpec
=============================================================================
