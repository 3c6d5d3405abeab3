--------------------------- MODULE AuthScheduler ---------------------------
(***************************************************************************)
(* How authScheduler (sdk/cliproxy/auth/scheduler.go) orders and hands out *)
(* several credentials of several providers for one model: priority        *)
(* buckets, round-robin cursors that survive a re-index, the weighted      *)
(* cursor over mixed providers, websocket preference, pins and the         *)
(* credentials a request has tried.  The scheduler is a record that the    *)
(* operators below map to its next value; RequestExecution keeps it.       *)
(*                                                                         *)
(* Time is relative: a block is the time it still lasts.  How the copies   *)
(* that the scheduler keeps of the credentials lag behind the manager's    *)
(* records is the subject of AuthManager; here they are the records, and   *)
(* what lags is the index: ready changes when a credential is upserted or  *)
(* the shard is asked.                                                     *)
(***************************************************************************)
EXTENDS Integers, Sequences, FiniteSetsExt

CONSTANTS
  Order,         \* the credentials, sorted by ID
  NoAuth,
  Models, Route, \* upstream models, and the one requests are routed by
  ProviderOf, PriorityOf,
  Websockets,    \* credentials with websocket transport
  WsProviders,   \* codex and xai: they prefer such credentials
  Lists          \* the provider lists of requests

Auths == {Order[i] : i \in DOMAIN Order}
Providers == {ProviderOf[a] : a \in Auths}
Priorities == {PriorityOf[a] : a \in Auths}

ASSUME SchedulerAssumption ==
  /\ Route \in Models /\ NoAuth \notin Auths
  /\ Order \in Seq(Auths) /\ Cardinality(Auths) = Len(Order)
  /\ \A a \in Auths : PriorityOf[a] \in Int
  /\ Lists \subseteq Seq(Providers)

\* A ready view of one priority bucket of one provider's shard.
View(p, n, ws) == [provider |-> p, priority |-> n, ws |-> ws]
Views == {View(ProviderOf[a], PriorityOf[a], ws) : a \in Auths, ws \in BOOLEAN}

Free == [why |-> "none", left |-> 0]
isAuthBlockedForModel(blocks, m) == blocks[m].left > 0

NoTurns == [a \in Auths |-> 0]

\* No shard is built; every cursor is at zero.
rebuild ==
  [built |-> {}, ready |-> {},
   cursor |-> [v \in Views |-> 0], mixed |-> [l \in Lists |-> 0],
   turns |-> NoTurns]

\* The entries of seq at the positions I, in order: SelectSeq by positions, a
\* form without recursion.
AtPositions(seq, I) ==
  [n \in 1 .. Cardinality(I) |-> seq[CHOOSE i \in I : Cardinality({j \in I : j <= i}) = n]]

\* The entries of a view in rotation order.
flat(ready, v) ==
  AtPositions(Order, {i \in DOMAIN Order : /\ Order[i] \in ready
                                           /\ ProviderOf[Order[i]] = v.provider
                                           /\ PriorityOf[Order[i]] = v.priority
                                           /\ v.ws => Order[i] \in Websockets})

normalizeCursor(c, size) == IF size = 0 THEN 0 ELSE c % size

\* The ready credentials that rotate with a.
Bucket(ready, a) ==
  {b \in ready : ProviderOf[b] = ProviderOf[a] /\ PriorityOf[b] = PriorityOf[a]}

\* A bucket that is as it was goes on with the turns of its rotation.
TurnsAfter(s, ready) ==
  [a \in Auths |-> IF Bucket(ready, a) = Bucket(s.ready, a) THEN s.turns[a] ELSE 0]

\* The buckets of provider p are rebuilt; a bucket that existed before keeps
\* its cursors, cut to the new size.
rebuildIndexesLocked(s, p, ready) ==
  [s EXCEPT !.ready = ready,
            !.cursor = [v \in Views |->
               IF v.provider # p THEN @[v]
               ELSE IF flat(s.ready, [v EXCEPT !.ws = FALSE]) = <<>> THEN 0
               ELSE normalizeCursor(@[v], Len(flat(ready, v)))],
            !.turns = TurnsAfter(s, ready)]

\* Blocked entries whose time has come are looked at again.
promoteExpiredLocked(s, auths, p) ==
  LET ready == s.ready \cup {a \in Auths : /\ ProviderOf[a] = p
                                           /\ ~isAuthBlockedForModel(auths[a], Route)}
  IN IF ready = s.ready THEN s ELSE rebuildIndexesLocked(s, p, ready)

\* The shard of p, built when it is first asked for.
ensureModelLocked(s, auths, p) ==
  promoteExpiredLocked([s EXCEPT !.built = @ \cup {p}], auths, p)

\* One credential's entry in the shard of its provider, when its record was
\* old and is blocks.
upsertAuth(s, a, old, blocks) ==
  LET ready == IF isAuthBlockedForModel(blocks, Route) THEN s.ready \ {a}
               ELSE s.ready \cup {a}
  IN IF \/ ProviderOf[a] \notin s.built
        \/ ready = s.ready /\ blocks[Route] = old[Route]
     THEN s
     ELSE rebuildIndexesLocked(s, ProviderOf[a], ready)

-----------------------------------------------------------------------------
\* turns counts the turns each credential of a bucket had in its rotation,
\* less those that all of them had: it was served, or it was passed over
\* because the request could not use it.  It is no state of the scheduler.
HadTurns(s, v, had) ==
  LET once == [a \in Auths |-> s.turns[a] + (IF a \in had THEN 1 ELSE 0)]
      bucket == Bucket(s.ready, CHOOSE a \in had : TRUE)
  IN IF v.ws THEN s.turns
     ELSE IF \A b \in bucket : once[b] > 0
          THEN [b \in Auths |-> IF b \in bucket THEN once[b] - 1 ELSE once[b]]
          ELSE once

None(s) == [auth |-> NoAuth, sched |-> s]

\* Seeded fault: the cursor stays at the credential that was served.
pickRoundRobinStays(s, v, ok) ==
  LET f == flat(s.ready, v)
      At(o) == f[((s.cursor[v] + o) % Len(f)) + 1]
      hits == {o \in 0 .. Len(f) - 1 : At(o) \in ok}
  IN IF hits = {} THEN None(s)
     ELSE LET o == Min(hits)
          IN [auth |-> At(o),
              sched |-> [s EXCEPT !.cursor[v] = (@ + o) % Len(f),
                                  !.turns = HadTurns(s, v, {At(i) : i \in 0 .. o})]]

\* The first entry from the cursor on that may be served; the cursor moves
\* behind it.
pickRoundRobin(s, v, ok) ==
  LET f == flat(s.ready, v)
      At(o) == f[((s.cursor[v] + o) % Len(f)) + 1]
      hits == {o \in 0 .. Len(f) - 1 : At(o) \in ok}
  IN IF hits = {} THEN None(s)
     ELSE LET o == Min(hits)
          IN [auth |-> At(o),
              sched |-> [s EXCEPT !.cursor[v] = ((@ + o) % Len(f)) + 1,
                                  !.turns = HadTurns(s, v, {At(i) : i \in 0 .. o})]]

\* The first entry that may be served; no cursor moves.
pickFirst(s, v, ok) ==
  LET f == flat(s.ready, v)
      hits == {i \in DOMAIN f : f[i] \in ok}
  IN IF hits = {} THEN None(s) ELSE [auth |-> f[Min(hits)], sched |-> s]

\* Somebody of view v is ready and may be served.
HasReady(s, v, ok) ==
  \E a \in ok \cap s.ready :
    /\ ProviderOf[a] = v.provider /\ PriorityOf[a] = v.priority
    /\ v.ws => a \in Websockets

\* The priorities of p at which somebody may be served.  A preference for
\* websockets goes before priority.
ReadyPriorities(s, p, ws, ok) ==
  LET At(w) == {n \in Priorities : HasReady(s, View(p, n, w), ok)}
  IN IF ws /\ At(TRUE) # {} THEN At(TRUE) ELSE At(FALSE)

pickReadyAtPriorityLocked(s, p, ws, n, strategy, ok) ==
  LET v == View(p, n, ws /\ HasReady(s, View(p, n, TRUE), ok))
  IN IF strategy = "fill-first" THEN pickFirst(s, v, ok) ELSE pickRoundRobin(s, v, ok)

pickReadyLocked(s, p, ws, strategy, ok) ==
  LET ready == ReadyPriorities(s, p, ws, ok)
  IN IF ready = {} THEN None(s)
     ELSE pickReadyAtPriorityLocked(s, p, ws, Max(ready), strategy, ok)

pickSingle(s, auths, p, ws, strategy, ok) ==
  pickReadyLocked(ensureModelLocked(s, auths, p), p, ws, strategy, ok)

\* Every shard of the list, brought up to date.
EnsureAll(s, auths, list) ==
  LET upTo[i \in 0 .. Len(list)] ==
        IF i = 0 THEN s ELSE ensureModelLocked(upTo[i - 1], auths, list[i])
  IN upTo[Len(list)]

\* Seeded fault: the last provider that has somebody serves, whatever the
\* priorities.
pickMixedAnyPriority(s0, auths, list, strategy, ok) ==
  LET s == EnsureAll(s0, auths, list)
      pick(i) == pickReadyLocked(s, list[i], FALSE, strategy, ok)
      takers == {i \in DOMAIN list : pick(i).auth # NoAuth}
  IN IF takers = {} THEN None(s) ELSE pick(Max(takers))

\* Of the providers that have priority best, filling takes the first; the
\* rotation gives each provider as many slots as it has ready credentials.
pickMixedAt(s, best, list, strategy, ok) ==
  LET I == DOMAIN list
      end(n) == Cardinality({a \in s.ready : /\ PriorityOf[a] = best
                                             /\ \E j \in 1 .. n : list[j] = ProviderOf[a]})
      pick(i) == pickReadyAtPriorityLocked(s, list[i], FALSE, best, strategy, ok)
      takers == {i \in I : HasReady(s, View(list[i], best, FALSE), ok)}
      start == s.mixed[list] % end(Len(list))
      first == Min({i \in I : start < end(i)})
      step(i) == (i - first + Len(list)) % Len(list)
      chosen == CHOOSE i \in takers : \A j \in takers : step(i) <= step(j)
      slot == IF chosen = first THEN start ELSE end(chosen - 1)
  IN IF strategy = "fill-first" THEN pick(Min(takers))
     ELSE [pick(chosen) EXCEPT !.sched.mixed[list] = slot + 1]

\* The best of the priorities that the list's shards have wins.
pickMixedReady(s, ready, list, strategy, ok) ==
  IF ready = {} THEN None(s) ELSE pickMixedAt(s, Max(ready), list, strategy, ok)

pickMixedLocked(s, list, strategy, ok) ==
  pickMixedReady(s, UNION {ReadyPriorities(s, list[i], FALSE, ok) : i \in DOMAIN list},
                 list, strategy, ok)

pickMixed(s, auths, list, strategy, ok) ==
  pickMixedLocked(EnsureAll(s, auths, list), list, strategy, ok)

\* What pickNextMixed asks of the scheduler: one provider, a pinned
\* credential, or several providers.
pickCredential(s, auths, list, pin, ws, strategy, tried) ==
  IF pin = NoAuth
  THEN IF Len(list) = 1
       THEN pickSingle(s, auths, list[1], ws /\ list[1] \in WsProviders, strategy, Auths \ tried)
       ELSE pickMixed(s, auths, list, strategy, Auths \ tried)
  ELSE IF Len(list) > 1 /\ \A i \in DOMAIN list : list[i] # ProviderOf[pin] THEN None(s)
  ELSE LET p == IF Len(list) = 1 THEN list[1] ELSE ProviderOf[pin]
       IN pickSingle(s, auths, p, FALSE, strategy, {pin} \ tried)

\* The error of a pick that served nobody.
unavailableError(s, auths, list, pin, tried) ==
  LET left == {a \in Auths \ tried : /\ \E i \in DOMAIN list : list[i] = ProviderOf[a]
                                     /\ pin \in {NoAuth, a}}
  IN IF left = {} THEN "notFound"
     ELSE IF \A a \in left : a \notin s.ready /\ auths[a][Route].why = "quota"
          THEN "cooldown"
     ELSE "unavailable"
=============================================================================
