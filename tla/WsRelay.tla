------------------------------ MODULE WsRelay ------------------------------
(***************************************************************************)
(* The websocket relay (internal/wsrelay): requests are sent through a     *)
(* browser's websocket session and answered by messages that carry the     *)
(* request's id.  The service gives every session a random name of its     *)
(* own, so sessions share nothing and one session is modelled, with the    *)
(* goroutines that meet in it: its handler, its reader, whoever runs       *)
(* cleanup (reader, heartbeat or Manager.Stop), the callers of NonStream   *)
(* and Stream, and the goroutine that watches each caller's context.       *)
(*                                                                         *)
(* One action is one operation on the pending map, a channel, the closed   *)
(* flag, the manager's table or the connection.  A send on a closed        *)
(* channel panics and ends the process (panic).  The assignment that       *)
(* empties the pending map is taken as one step.                           *)
(*                                                                         *)
(* External: the browser, which answers a request by an http_response, an  *)
(* error, or stream_start, chunks and stream_end, and the connection,      *)
(* which may break.                                                        *)
(***************************************************************************)
EXTENDS Naturals, Sequences

CONSTANTS
  Requests,   \* message ids, one per call of NonStream or Stream
  NoRequest,
  Kinds,      \* the calls made: "nonstream", "stream"
  Cap,        \* capacity of a request's channel (8 in the code)
  MaxChunks   \* bound: chunks of one answer

ASSUME RelayAssumption ==
  /\ NoRequest \notin Requests
  /\ Kinds \subseteq {"nonstream", "stream"}
  /\ Cap \in Nat \ {0}
  /\ MaxChunks \in Nat

VARIABLES
  wsHandler, \* handleWebsocket: "insert", "connected", "running"
  inMap,    \* the session is in Manager.sessions
  cred,     \* the service holds a credential for the session
  conn,     \* the connection: "up", "broken" or "closed"
  closed,   \* session.closed is closed
  pending,  \* keys of session.pending
  chan,     \* contents of each request's channel
  shut,     \* the channels that are closed
  reader,   \* the reader: where it is and the message it dispatches
  cleaner,  \* cleanup: where it is, the request it holds, those to visit
  caller,   \* where each caller is, its mode and what it has read
  armed,    \* requests with a goroutine that watches the context
  ctx,      \* requests whose context is done
  browser,  \* external: how far the browser's answer is
  panic     \* the process died of a send on a closed channel

sessionVars == <<inMap, cred, conn, closed, pending>>
channelVars == <<chan, shut>>
vars == <<wsHandler, sessionVars, channelVars, reader, cleaner, caller, armed,
          ctx, browser, panic>>

Terminal == {"resp", "error", "end"}
ReaderIdle == [at |-> "read", req |-> NoRequest, msg |-> "none"]

Init ==
  /\ wsHandler = "insert"
  /\ inMap = FALSE
  /\ cred = FALSE
  /\ conn = "up"
  /\ closed = FALSE
  /\ pending = {}
  /\ chan = [r \in Requests |-> <<>>]
  /\ shut = {}
  /\ reader = [ReaderIdle EXCEPT !.at = "absent"]
  /\ cleaner = [at |-> "none", todo |-> {}, req |-> NoRequest]
  /\ caller = [r \in Requests |->
       [at |-> "idle", kind |-> "none", streaming |-> FALSE, result |-> "none"]]
  /\ armed = {}
  /\ ctx = {}
  /\ browser = [r \in Requests |-> [at |-> "unasked", chunks |-> 0]]
  /\ panic = FALSE

----------------------------------------------------------------------------
(* The manager *)

HandlerInsert ==
  /\ wsHandler = "insert"
  /\ wsHandler' = "connected"
  /\ inMap' = TRUE
  /\ UNCHANGED <<cred, conn, closed, pending, channelVars, reader, cleaner,
                 caller, armed, ctx, browser, panic>>

(* onConnected adds the credential; then the reader starts. *)
HandlerConnected ==
  /\ wsHandler = "connected"
  /\ wsHandler' = "running"
  /\ cred' = TRUE
  /\ reader' = ReaderIdle
  /\ UNCHANGED <<inMap, conn, closed, pending, channelVars, cleaner, caller,
                 armed, ctx, browser, panic>>

ConnectionBreaks ==
  /\ conn = "up"
  /\ conn' = "broken"
  /\ UNCHANGED <<wsHandler, inMap, cred, closed, pending, channelVars, reader,
                 cleaner, caller, armed, ctx, browser, panic>>

----------------------------------------------------------------------------
(* cleanup, run once: whoever else calls it waits for the first *)

(* Seeded fault: closed is closed only with the connection. *)
BeginCleanupOpen ==
  /\ cleaner.at = "none"
  /\ closed' = closed
  /\ cleaner' = [cleaner EXCEPT !.at = "range", !.todo = pending]

(* closed is closed first, so a request that Range misses is refused. *)
BeginCleanup ==
  /\ cleaner.at = "none"
  /\ closed' = TRUE
  /\ cleaner' = [cleaner EXCEPT !.at = "range", !.todo = pending]

ReaderFails ==
  /\ reader.at = "read" /\ conn # "up"
  /\ BeginCleanup
  /\ reader' = [reader EXCEPT !.at = "absent"]
  /\ UNCHANGED <<wsHandler, inMap, cred, conn, pending, channelVars, caller,
                 armed, ctx, browser, panic>>

HeartbeatFails ==
  /\ conn = "broken"
  /\ BeginCleanup
  /\ UNCHANGED <<wsHandler, inMap, cred, conn, pending, channelVars, reader,
                 caller, armed, ctx, browser, panic>>

(* Manager.Stop empties the table, then cleans up. *)
Stop ==
  /\ inMap
  /\ inMap' = FALSE
  /\ \/ BeginCleanup
     \/ cleaner.at # "none" /\ UNCHANGED <<closed, cleaner>>
  /\ UNCHANGED <<wsHandler, cred, conn, pending, channelVars, reader, caller,
                 armed, ctx, browser, panic>>

(* Range visits every key it finds; one stored meanwhile may be visited. *)
RangeLoad(r) ==
  /\ cleaner.at = "range"
  /\ r \in pending
  /\ cleaner.req = NoRequest
  /\ r \notin shut
  /\ cleaner' = [cleaner EXCEPT !.req = r, !.todo = @ \ {r}]
  /\ UNCHANGED <<wsHandler, sessionVars, channelVars, reader, caller, armed,
                 ctx, browser, panic>>

Put(r, msg) == [chan EXCEPT ![r] = IF Len(@) < Cap THEN Append(@, msg) ELSE @]

(* Seeded fault: a channel without room for the error stays open. *)
RangeCloseIfRoom ==
  LET r == cleaner.req IN
  /\ r # NoRequest
  /\ IF r \in shut
     THEN panic' = TRUE /\ UNCHANGED <<channelVars, cleaner>>
     ELSE /\ chan' = Put(r, "error")
          /\ shut' = IF Len(chan[r]) < Cap THEN shut \cup {r} ELSE shut
          /\ cleaner' = [cleaner EXCEPT !.req = NoRequest]
          /\ UNCHANGED panic
  /\ UNCHANGED <<wsHandler, sessionVars, reader, caller, armed, ctx, browser>>

(* An error for the caller if there is room, and the channel is closed. *)
RangeClose ==
  LET r == cleaner.req IN
  /\ r # NoRequest
  /\ IF r \in shut
     THEN panic' = TRUE /\ UNCHANGED <<channelVars, cleaner>>
     ELSE /\ chan' = Put(r, "error")
          /\ shut' = shut \cup {r}
          /\ cleaner' = [cleaner EXCEPT !.req = NoRequest]
          /\ UNCHANGED panic
  /\ UNCHANGED <<wsHandler, sessionVars, reader, caller, armed, ctx, browser>>

RangeEnds ==
  /\ cleaner.at = "range" /\ cleaner.req = NoRequest
  /\ cleaner.todo \cap (pending \ shut) = {}
  /\ pending' = {}
  /\ conn' = "closed"
  /\ closed' = TRUE
  /\ cleaner' = [cleaner EXCEPT !.at = "delist", !.todo = {}]
  /\ UNCHANGED <<wsHandler, inMap, cred, channelVars, reader, caller, armed,
                 ctx, browser, panic>>

(* handleSessionClosed: out of the table, then onDisconnected. *)
Delist ==
  /\ cleaner.at = "delist"
  /\ inMap' = FALSE
  /\ cleaner' = [cleaner EXCEPT !.at = "notify"]
  /\ UNCHANGED <<wsHandler, cred, conn, closed, pending, channelVars, reader,
                 caller, armed, ctx, browser, panic>>

Disconnected ==
  /\ cleaner.at = "notify"
  /\ cred' = FALSE
  /\ cleaner' = [cleaner EXCEPT !.at = "done"]
  /\ UNCHANGED <<wsHandler, inMap, conn, closed, pending, channelVars, reader,
                 caller, armed, ctx, browser, panic>>

----------------------------------------------------------------------------
(* The reader: ReadJSON and dispatch *)

BrowserSays(r) ==
  LET b == browser[r]
      ends == [b EXCEPT !.at = "answered"] IN
  {<<"error", ends>>}
    \cup (IF b.at = "asked" THEN {<<"resp", ends>>,
                                  <<"start", [b EXCEPT !.at = "streaming"]>>}
          ELSE {<<"end", ends>>})
    \cup (IF b.at = "streaming" /\ b.chunks < MaxChunks
          THEN {<<"chunk", [b EXCEPT !.chunks = @ + 1]>>} ELSE {})

(* A message for a request that is not pending changes nothing. *)
ReadMessage(r) ==
  /\ reader = ReaderIdle
  /\ conn = "up"
  /\ browser[r].at \in {"asked", "streaming"}
  /\ r \in pending
  /\ \E say \in BrowserSays(r) :
       /\ browser' = [browser EXCEPT ![r] = say[2]]
       /\ reader' = [at |-> "send", req |-> r, msg |-> say[1]]
  /\ UNCHANGED <<wsHandler, sessionVars, channelVars, cleaner, caller, armed,
                 ctx, panic>>

(* The message is dropped when the channel is full. *)
ReaderSend ==
  LET r == reader.req IN
  /\ reader.at = "send"
  /\ IF r \in shut
     THEN panic' = TRUE /\ UNCHANGED <<chan, reader>>
     ELSE /\ chan' = Put(r, reader.msg)
          /\ reader' = IF reader.msg \in Terminal
                       THEN [reader EXCEPT !.at = "finish"] ELSE ReaderIdle
          /\ UNCHANGED panic
  /\ UNCHANGED <<wsHandler, sessionVars, shut, cleaner, caller, armed, ctx,
                 browser>>

(* LoadAndDelete and close *)
DeleteAndClose(r) ==
  /\ pending' = pending \ {r}
  /\ shut' = IF r \in pending THEN shut \cup {r} ELSE shut

ReaderFinish ==
  /\ reader.at = "finish"
  /\ DeleteAndClose(reader.req)
  /\ reader' = ReaderIdle
  /\ UNCHANGED <<wsHandler, inMap, cred, conn, closed, chan, cleaner, caller,
                 armed, ctx, browser, panic>>

----------------------------------------------------------------------------
(* Callers: Manager.Send, session.request, NonStream and Stream *)

Goes(r, where) == caller' = [caller EXCEPT ![r].at = where]
Returns(r, result) ==
  caller' = [caller EXCEPT ![r].at = "done", ![r].result = result]

Begin(r, kind) ==
  /\ caller[r].at = "idle"
  /\ caller' = [caller EXCEPT ![r].kind = kind,
                  ![r].at = IF inMap THEN "store" ELSE "done",
                  ![r].result = IF inMap THEN @ ELSE "error"]
  /\ UNCHANGED <<wsHandler, sessionVars, channelVars, reader, cleaner, armed,
                 ctx, browser, panic>>

Store(r) ==
  /\ caller[r].at = "store"
  /\ pending' = pending \cup {r}
  /\ Goes(r, "load")
  /\ UNCHANGED <<wsHandler, inMap, cred, conn, closed, channelVars, reader,
                 cleaner, armed, ctx, browser, panic>>

(* The entry is read back without a look at whether it is there: if        *)
(* cleanup emptied the map meanwhile the caller's goroutine panics.        *)
LoadBack(r) ==
  /\ caller[r].at = "load"
  /\ IF r \in pending THEN Goes(r, "check") ELSE Returns(r, "panicked")
  /\ UNCHANGED <<wsHandler, sessionVars, channelVars, reader, cleaner, armed,
                 ctx, browser, panic>>

SendFails(r) == DeleteAndClose(r) /\ Returns(r, "error")

SendCheck(r) ==
  /\ caller[r].at = "check"
  /\ IF closed THEN SendFails(r)
     ELSE Goes(r, "write") /\ UNCHANGED <<pending, shut>>
  /\ UNCHANGED <<wsHandler, inMap, cred, conn, closed, chan, reader, cleaner,
                 armed, ctx, browser, panic>>

(* A write may succeed into a connection that is about to be closed. *)
Write(r) ==
  /\ caller[r].at = "write"
  /\ \/ /\ conn # "closed"
        /\ Goes(r, "wait")
        /\ armed' = armed \cup {r}
        /\ browser' = [browser EXCEPT ![r].at = "asked"]
        /\ UNCHANGED <<pending, shut>>
     \/ /\ conn # "up"
        /\ SendFails(r)
        /\ UNCHANGED <<armed, browser>>
  /\ UNCHANGED <<wsHandler, inMap, cred, conn, closed, chan, reader, cleaner,
                 ctx, panic>>

ContextDone(r) ==
  /\ caller[r].at \notin {"idle", "done"}
  /\ r \notin ctx
  /\ ctx' = ctx \cup {r}
  /\ UNCHANGED <<wsHandler, sessionVars, channelVars, reader, cleaner, caller,
                 armed, browser, panic>>

(* select between the context and the session's end: either if both *)
WatchContext(r) ==
  /\ r \in armed
  /\ \/ r \in ctx /\ DeleteAndClose(r)
     \/ closed /\ UNCHANGED <<pending, shut>>
  /\ armed' = armed \ {r}
  /\ UNCHANGED <<wsHandler, inMap, cred, conn, closed, chan, reader, cleaner,
                 caller, ctx, browser, panic>>

Take(r, msg) ==
  LET c == caller[r] IN
  CASE msg \in {"start", "chunk"} -> [c EXCEPT !.streaming = TRUE]
    [] msg = "error" -> [c EXCEPT !.at = "done", !.result = "error"]
    [] OTHER -> [c EXCEPT !.at = "done", !.result = "ok"]

(* NonStream takes a closed channel for the end of a stream. *)
TakeClosed(r) ==
  LET c == caller[r] IN
  [c EXCEPT !.at = "done",
            !.result = IF c.kind = "nonstream" /\ c.streaming THEN "ok"
                       ELSE "error"]

Receive(r) ==
  /\ caller[r].at = "wait"
  /\ \/ /\ chan[r] # <<>>
        /\ caller' = [caller EXCEPT ![r] = Take(r, Head(chan[r]))]
        /\ chan' = [chan EXCEPT ![r] = Tail(@)]
     \/ /\ chan[r] = <<>> /\ r \in shut
        /\ caller' = [caller EXCEPT ![r] = TakeClosed(r)]
        /\ UNCHANGED chan
     \/ /\ r \in ctx
        /\ Returns(r, "cancelled")
        /\ UNCHANGED chan
  /\ UNCHANGED <<wsHandler, sessionVars, shut, reader, cleaner, armed, ctx,
                 browser, panic>>

----------------------------------------------------------------------------

SessionStep ==
  \/ HandlerInsert \/ HandlerConnected
  \/ ReaderFails \/ HeartbeatFails
  \/ (\E r \in Requests : RangeLoad(r)) \/ RangeClose \/ RangeEnds
  \/ Delist \/ Disconnected
  \/ ReaderSend \/ ReaderFinish

CallerStep(r) ==
  Store(r) \/ LoadBack(r) \/ SendCheck(r) \/ Write(r) \/ Receive(r)

Next ==
  /\ ~panic
  /\ \/ SessionStep
     \/ ConnectionBreaks \/ Stop
     \/ \E r \in Requests :
          \/ \E kind \in Kinds : Begin(r, kind)
          \/ CallerStep(r) \/ WatchContext(r)
          \/ ContextDone(r) \/ ReadMessage(r)

Spec == Init /\ [][Next]_vars

(* Every goroutine that can go on goes on.  The browser, the connection    *)
(* and the contexts owe nothing.                                           *)
FairSpec ==
  /\ Spec
  /\ WF_vars(~panic /\ SessionStep)
  /\ \A r \in Requests : WF_vars(~panic /\ CallerStep(r))
                         /\ WF_vars(~panic /\ WatchContext(r))

----------------------------------------------------------------------------
(* Properties *)

(* Once cleanup has emptied the pending map, every caller that is still    *)
(* waiting has a closed channel: a request that was stored while cleanup   *)
(* walked the map is either visited or refused (session.cleanup, request). *)
NoOrphan ==
  cleaner.at \in {"delist", "notify", "done"} =>
    \A r \in Requests : caller[r].at = "wait" => r \in shut

(* A caller that waits returns once its session is closed or its context   *)
(* is done, whatever the browser does and however full its channel is      *)
(* (NonStream, Stream), unless a panic ends the process.                   *)
CallersReturn ==
  \A r \in Requests :
    (caller[r].at = "wait" /\ (closed \/ r \in ctx))
      ~> (caller[r].at = "done" \/ panic)

=============================================================================
