---------------------------- MODULE AuthManager ----------------------------
(***************************************************************************)
(* One credential inside Manager (sdk/cliproxy/auth): the record in        *)
(* Manager.auths, which m.mu guards, and its entry in authScheduler, which *)
(* s.mu guards.  Operations change the record under m.mu and give the      *)
(* scheduler a copy after they have unlocked it, so the two are            *)
(* synchronised late and in any order.  Requests, token refreshes, the     *)
(* management API and the service's watcher goroutine run concurrently.    *)
(*                                                                         *)
(* Copies are values.  Register and Update however pass the scheduler the  *)
(* very record they put into Manager.auths; such a pointer is Live until   *)
(* the record is replaced, and then the value the record had.              *)
(***************************************************************************)
EXTENDS CooldownState, FiniteSets

CONSTANTS
  Callers,     \* goroutines of requests, refreshes and the management API
  Service,     \* the goroutine that consumes the watcher's auth updates
  Live,        \* a pointer to the record Manager.auths holds
  NoAuth,      \* no record, no entry
  Environments, \* the upstreams and the use that are looked at
  MaxToken      \* bound: the newest access token

Credential == [token : Nat, state : Auth]
FileState == [token : Nat, disabled : BOOLEAN]

\* overlap: whether operations overlap; others: whether other credentials are
\* always ready for every model; classes: how the upstream fails; operated:
\* whether the refresh loop refreshes on its own account and the operator
\* disables, enables and deletes the credential; until: bound, the last tick
\* of the clock.
ASSUME AuthManagerAssumption ==
  /\ IsFiniteSet(Callers)
  /\ Service \notin Callers
  /\ Live # NoAuth /\ {Live, NoAuth} \cap Credential = {}
  /\ NoAuth \notin Nat \cup FileState
  /\ Environments \subseteq [overlap : BOOLEAN, others : BOOLEAN, operated : BOOLEAN,
                             classes : SUBSET FailureClass, until : Nat \ {0}]
  /\ MaxToken \in Nat

VARIABLES
  env,         \* the environment; it never changes
  live,        \* Manager.auths[id], or NoAuth
  sched,       \* the credential in authScheduler
  registered,  \* its models in the global model registry
  file,        \* its file: token and disabled flag, or NoAuth
  seen,        \* the file as the watcher last reported it
  now,         \* the clock
  revoked,     \* upstream rejects tokens below this one
  held,        \* tokens of the copies that requests in flight use
  pc,          \* where each goroutine is
  obj,         \* the copy or pointer it holds
  tok,         \* the token a request failed with; NoAuth for the refresh loop
  save         \* what an Update has yet to write to the file

vars == <<env, live, sched, registered, file, seen, now, revoked, held, pc, obj, tok, save>>

Procs == Callers \cup {Service}

FileOf(a) == [token |-> a.token, disabled |-> a.state.disabled]

\* A record synthesised from the file.
FromFile(f) ==
  [token |-> f.token,
   state |-> [FreshAuth EXCEPT !.disabled = f.disabled,
                               !.status = IF f.disabled THEN "disabled" ELSE "active"]]

Absent == [state |-> "absent", next |-> 0]

\* What a pointer to a record shows: the record of Manager.auths or a copy.
Deref(ref) == IF ref = Live THEN live ELSE ref

-----------------------------------------------------------------------------
(***************************************************************************)
(* The scheduler.                                                          *)
(***************************************************************************)
\* upsertEntryLocked and promoteExpiredLocked: the state of an entry.
Evaluate(a, m) ==
  LET b == isAuthBlockedForModel(a.state, m, now) IN
    CASE ~b.blocked -> [state |-> "ready", next |-> 0]
      [] b.reason = "cooldown" -> [state |-> "cooldown", next |-> b.next]
      [] b.reason = "disabled" -> [state |-> "disabled", next |-> 0]
      [] b.reason = "other" -> [state |-> "blocked", next |-> b.next]

removeAuthLocked(s) ==
  [s EXCEPT !.meta = NoAuth, !.supported = {}, !.entries = [m \in Models |-> Absent]]

\* The set of supported models is the one of this moment.
upsertAuthLocked(s, ref) ==
  LET a == Deref(ref) IN
    IF a.state.disabled THEN removeAuthLocked(s)
    ELSE [s EXCEPT !.meta = ref, !.supported = registered,
                   !.entries = [m \in Models |->
                      IF m \in s.shards \cap registered THEN Evaluate(a, m) ELSE Absent]]

\* rebuild starts without shards; ref is NoAuth if the snapshot lacks the auth.
Rebuilt(ref) ==
  LET empty == [removeAuthLocked(sched) EXCEPT !.shards = {}] IN
    IF ref = NoAuth THEN empty ELSE upsertAuthLocked(empty, ref)

promoteExpiredLocked(s, m) ==
  LET e == s.entries[m] IN
    IF e.state \in {"cooldown", "blocked"} /\ e.next # 0 /\ e.next <= now
    THEN [s EXCEPT !.entries[m] = Evaluate(Deref(s.meta), m)] ELSE s

\* A shard is built from the metadata when its model is first asked for.
ensureModelLocked(s, m) ==
  IF m \in s.shards THEN promoteExpiredLocked(s, m)
  ELSE [s EXCEPT !.shards = @ \cup {m},
                 !.entries[m] = IF m \in s.supported THEN Evaluate(Deref(s.meta), m)
                                ELSE Absent]

Ready(s, m) == s.entries[m].state = "ready"

-----------------------------------------------------------------------------
(***************************************************************************)
(* Steps shared by the operations.                                         *)
(***************************************************************************)
Goto(p, label) == pc' = [pc EXCEPT ![p] = label]

\* The record is replaced: pointers to the old one keep its value.
Replace(p, new, ref) ==
  /\ live' = new
  /\ sched' = [sched EXCEPT !.meta = Deref(@)]
  /\ obj' = [q \in Procs |-> IF q = p THEN ref ELSE Deref(obj[q])]

\* scheduler.upsertAuth outside m.mu.
Upsert(p, from, to) ==
  /\ pc[p] = from
  /\ sched' = upsertAuthLocked(sched, obj[p])
  /\ obj' = [obj EXCEPT ![p] = NoAuth]
  /\ Goto(p, to)
  /\ UNCHANGED <<live, registered, file, seen, now, revoked, held, tok, save>>

\* FileTokenStore.Save; the file of a disabled credential is not created.
Save(f) == file' = IF f.disabled /\ file = NoAuth THEN file ELSE f

\* Update under m.mu; there is nothing to update if the record is gone.
Update(p, a, label, missing, keep) ==
  LET new == [a EXCEPT !.state = CarryOver(a.state, live.state, now, FALSE)] IN
    IF live = NoAuth
    THEN /\ obj' = [obj EXCEPT ![p] = NoAuth]
         /\ Goto(p, missing)
         /\ UNCHANGED <<live, sched, save>>
    ELSE /\ Replace(p, new, Live)
         /\ save' = IF keep THEN [save EXCEPT ![p] = FileOf(new)] ELSE save
         /\ Goto(p, label)

-----------------------------------------------------------------------------
(***************************************************************************)
(* Requests.                                                               *)
(***************************************************************************)
\* Seeded fault: the scheduler is not told of a change.
ChangeInPlaceOnly(c, state) ==
  /\ live' = [live EXCEPT !.state = state]
  /\ Save(FileOf(live))
  /\ UNCHANGED <<sched, registered, seen, now, revoked, held, pc, obj, tok, save>>

\* A change under m.mu, in place; the caller keeps a copy for the scheduler.
ChangeInPlace(c, state) ==
  /\ live' = [live EXCEPT !.state = state]
  /\ Save(FileOf(live))
  /\ obj' = [obj EXCEPT ![c] = live']
  /\ Goto(c, "upsert")
  /\ UNCHANGED <<sched, registered, seen, now, revoked, held, tok, save>>

\* MarkResult for a request in flight, up to the unlock.
MarkResultSuccess(c, m) ==
  /\ pc[c] = "idle" /\ held # {} /\ live # NoAuth
  /\ ChangeInPlace(c, MarkSuccess(live.state, m, now))

MarkResultFailure(c, m, class) ==
  /\ pc[c] = "idle" /\ held # {} /\ live # NoAuth
  /\ ChangeInPlace(c, MarkFailure(live.state, m, class, NoRetryAfter, now, FALSE))

\* Picking is one step under s.mu; the request works on a copy.
PickFrom(c, m, s, failed) ==
  /\ sched' = s
  /\ held' = IF Ready(s, m) THEN held \cup {Deref(s.meta).token} ELSE held
  /\ Goto(c, IF Ready(s, m) THEN "idle" ELSE failed)
  /\ UNCHANGED <<live, registered, file, seen, now, revoked, obj, tok, save>>

Pick(c, m) ==
  /\ pc[c] = "idle"
  /\ PickFrom(c, m, ensureModelLocked(sched, m), IF env.others THEN "idle" ELSE "sync")

\* Nothing was ready: the scheduler is rebuilt from a copy of Manager.auths ...
syncSnapshot(c) ==
  /\ pc[c] = "sync"
  /\ obj' = [obj EXCEPT ![c] = live]
  /\ Goto(c, "rebuild")
  /\ UNCHANGED <<live, sched, registered, file, seen, now, revoked, held, tok, save>>

rebuild(c) ==
  /\ pc[c] = "rebuild"
  /\ sched' = Rebuilt(obj[c])
  /\ obj' = [obj EXCEPT ![c] = NoAuth]
  /\ Goto(c, "repick")
  /\ UNCHANGED <<live, registered, file, seen, now, revoked, held, tok, save>>

\* ... and asked once more.
Repick(c, m) == pc[c] = "repick" /\ PickFrom(c, m, ensureModelLocked(sched, m), "idle")

-----------------------------------------------------------------------------
(***************************************************************************)
(* refreshAuthForRequest, serialised by the credential's refresh lock.     *)
(***************************************************************************)
RefreshLockFree ==
  \A q \in Callers : pc[q] \notin {"refreshing", "refreshUpsert", "refreshPersist"}

\* A request's token is rejected, or the refresh loop finds the auth due.
RefreshAsked(c) ==
  /\ pc[c] = "idle"
  /\ \/ \E t \in held : t < revoked /\ tok' = [tok EXCEPT ![c] = t]
     \/ env.operated /\ tok' = [tok EXCEPT ![c] = NoAuth]
  /\ Goto(c, "refresh")
  /\ UNCHANGED <<live, sched, registered, file, seen, now, revoked, held, obj, save>>

\* Seeded fault: whoever gets the lock refreshes.
RefreshBeginAlways(c) ==
  /\ pc[c] = "refresh" /\ RefreshLockFree
  /\ Goto(c, IF live = NoAuth THEN "idle" ELSE "refreshing")
  /\ obj' = [obj EXCEPT ![c] = live]
  /\ UNCHANGED <<live, sched, registered, file, seen, now, revoked, held, tok, save>>

\* A request reuses a refresh that already replaced its token.
RefreshBegin(c) ==
  /\ pc[c] = "refresh" /\ RefreshLockFree
  /\ LET reuse == live # NoAuth /\ tok[c] # NoAuth /\ live.token # tok[c]
         begin == live # NoAuth /\ ~reuse
     IN /\ Goto(c, IF begin THEN "refreshing" ELSE "idle")
        /\ obj' = [obj EXCEPT ![c] = IF begin THEN live ELSE NoAuth]
        /\ held' = IF reuse THEN held \cup {live.token} ELSE held
        /\ tok' = IF begin THEN tok ELSE [tok EXCEPT ![c] = NoAuth]
  /\ UNCHANGED <<live, sched, registered, file, seen, now, revoked, save>>

\* The upstream refused or the context was cancelled; the scheduler learns of
\* an error while m.mu is still held.
RefreshFails(c) ==
  /\ pc[c] = "refreshing"
  /\ \/ UNCHANGED <<live, sched>>
     \/ \E error \in {"unauthorized", "other"} :
          /\ live # NoAuth
          /\ live' = [live EXCEPT
               !.state.lastError = error,
               !.state.unavailable = @ \/ error = "unauthorized",
               !.state.status = IF error = "unauthorized" THEN "error" ELSE @]
          /\ sched' = upsertAuthLocked(sched, live')
  /\ obj' = [obj EXCEPT ![c] = NoAuth]
  /\ tok' = [tok EXCEPT ![c] = NoAuth]
  /\ Goto(c, "idle")
  /\ UNCHANGED <<registered, file, seen, now, revoked, held, save>>

\* The new token is written over a copy taken before the call upstream.
RefreshUpdate(c) ==
  /\ pc[c] = "refreshing" /\ obj[c].token < MaxToken
  /\ LET a == [token |-> obj[c].token + 1, state |-> RefreshedOf(obj[c].state, now)] IN
       /\ Update(c, a, "refreshUpsert", "idle", TRUE)
       /\ held' = IF tok[c] = NoAuth THEN held ELSE held \cup {a.token}
  /\ tok' = [tok EXCEPT ![c] = NoAuth]
  /\ UNCHANGED <<registered, file, seen, now, revoked>>

-----------------------------------------------------------------------------
(***************************************************************************)
(* The management API.                                                     *)
(***************************************************************************)
\* PatchAuthFileStatus works on a copy ...
ToggleRead(c) ==
  /\ env.operated
  /\ pc[c] = "idle" /\ live # NoAuth
  /\ obj' = [obj EXCEPT ![c] = live]
  /\ Goto(c, "toggle")
  /\ UNCHANGED <<live, sched, registered, file, seen, now, revoked, held, tok, save>>

\* ... that it gives to Update.
ToggleUpdate(c) ==
  /\ pc[c] = "toggle"
  /\ LET disabled == ~obj[c].state.disabled IN
       Update(c, [obj[c] EXCEPT !.state.disabled = disabled,
                                !.state.status = IF disabled THEN "disabled" ELSE "active"],
              "updateUpsert", "idle", TRUE)
  /\ UNCHANGED <<registered, file, seen, now, revoked, held, tok>>

\* The rest of Update writes the file, outside m.mu.
PersistUpdate(c, from) ==
  /\ pc[c] = from
  /\ Save(save[c])
  /\ save' = [save EXCEPT ![c] = NoAuth]
  /\ Goto(c, "idle")
  /\ UNCHANGED <<live, sched, registered, seen, now, revoked, held, obj, tok>>

\* ResetQuota; it leaves without a word to the scheduler if the file cannot be
\* written.
ResetQuota(c) ==
  /\ pc[c] = "idle" /\ live # NoAuth
  /\ live' = [live EXCEPT !.state = ResetQuotaOf(live.state, now)]
  /\ \/ /\ Save(FileOf(live))
        /\ obj' = [obj EXCEPT ![c] = live']
        /\ Goto(c, "upsert")
     \/ UNCHANGED <<file, obj, pc>>
  /\ UNCHANGED <<sched, registered, seen, now, revoked, held, tok, save>>

\* DeleteAuthFile removes the file, then the record; the models of the
\* credential stay registered until the watcher reports the file as gone.
DeleteFile(c) ==
  /\ env.operated
  /\ pc[c] = "idle" /\ file # NoAuth
  /\ file' = NoAuth
  /\ Goto(c, "remove")
  /\ UNCHANGED <<live, sched, registered, seen, now, revoked, held, obj, tok, save>>

\* Remove returns early if there is no record.
RemoveRecord(p) ==
  /\ pc[p] = "remove"
  /\ IF live = NoAuth THEN Goto(p, "idle") /\ UNCHANGED <<live, sched, obj>>
     ELSE Replace(p, NoAuth, NoAuth) /\ Goto(p, "removeEntry")
  /\ UNCHANGED <<registered, file, seen, now, revoked, held, tok, save>>

RemoveEntry(p) ==
  /\ pc[p] = "removeEntry"
  /\ sched' = removeAuthLocked(sched)
  /\ Goto(p, "idle")
  /\ UNCHANGED <<live, registered, file, seen, now, revoked, held, obj, tok, save>>

-----------------------------------------------------------------------------
(***************************************************************************)
(* The service: handleAuthUpdates, one update at a time.                   *)
(***************************************************************************)
\* The watcher reports a file as new or changed.
ServiceRead ==
  /\ pc[Service] = "idle" /\ file # NoAuth
  /\ seen' = file
  /\ obj' = [obj EXCEPT ![Service] = FromFile(file)]
  /\ Goto(Service, "take")
  /\ UNCHANGED <<live, sched, registered, file, now, revoked, held, tok, save>>

\* The service takes the report from its queue.  The new record takes the
\* ModelStates of the one it finds.
ServiceTake ==
  /\ pc[Service] = "take"
  /\ LET a == obj[Service]
         both == live # NoAuth /\ ~IsDisabled(a.state) /\ ~IsDisabled(live.state)
     IN obj' = [obj EXCEPT ![Service] =
                  IF both THEN [a EXCEPT !.state.models = live.state.models] ELSE a]
  /\ Goto(Service, IF live = NoAuth THEN "add" ELSE "update")
  /\ UNCHANGED <<live, sched, registered, file, seen, now, revoked, held, tok, save>>

ServiceUpdate ==
  /\ pc[Service] = "update"
  /\ Update(Service, obj[Service], "registerUpsert", "register", FALSE)
  /\ UNCHANGED <<registered, file, seen, now, revoked, held, tok>>

\* Register puts the record in place whatever is there.
ServiceAdd ==
  /\ pc[Service] = "add"
  /\ Replace(Service, obj[Service], Live)
  /\ Goto(Service, "registerUpsert")
  /\ UNCHANGED <<registered, file, seen, now, revoked, held, tok, save>>

registerModelsForAuth ==
  /\ pc[Service] = "register"
  /\ registered' = IF seen.disabled THEN {} ELSE Models
  /\ Goto(Service, "reconcile")
  /\ UNCHANGED <<live, sched, file, seen, now, revoked, held, obj, tok, save>>

ReconcileRegistryModelStates ==
  /\ pc[Service] = "reconcile"
  /\ LET new == ReconcileOf(live.state, registered, now) IN
       IF live # NoAuth /\ new # live.state
       THEN /\ live' = [live EXCEPT !.state = new]
            /\ obj' = [obj EXCEPT ![Service] = live']
            /\ Goto(Service, "reconcileUpsert")
       ELSE Goto(Service, "refreshEntry") /\ UNCHANGED <<live, obj>>
  /\ UNCHANGED <<sched, registered, file, seen, now, revoked, held, tok, save>>

\* Seeded fault: the entry keeps the models it was registered with.
RefreshSchedulerEntrySkipped ==
  /\ pc[Service] = "refreshEntry"
  /\ Goto(Service, "idle")
  /\ UNCHANGED <<live, sched, registered, file, seen, now, revoked, held, obj, tok, save>>

\* The entry is made again now that the models are registered.
RefreshSchedulerEntry ==
  /\ pc[Service] = "refreshEntry"
  /\ obj' = [obj EXCEPT ![Service] = live]
  /\ Goto(Service, IF live = NoAuth THEN "idle" ELSE "entryUpsert")
  /\ UNCHANGED <<live, sched, registered, file, seen, now, revoked, held, tok, save>>

\* Seeded fault: the models stay registered when the credential goes.
ServiceRemoveOnly ==
  /\ pc[Service] = "idle" /\ file = NoAuth /\ seen # NoAuth
  /\ seen' = NoAuth
  /\ Goto(Service, "remove")
  /\ UNCHANGED <<live, sched, registered, file, now, revoked, held, obj, tok, save>>

\* The watcher reports the file as gone: applyCoreAuthRemoval unregisters the
\* models before it removes the record.
ServiceRemove ==
  /\ pc[Service] = "idle" /\ file = NoAuth /\ seen # NoAuth
  /\ seen' = NoAuth
  /\ registered' = {}
  /\ Goto(Service, "remove")
  /\ UNCHANGED <<live, sched, file, now, revoked, held, obj, tok, save>>

-----------------------------------------------------------------------------
(***************************************************************************)
(* The environment.                                                        *)
(***************************************************************************)
Tick ==
  /\ now < env.until
  /\ now' = now + 1
  /\ UNCHANGED <<live, sched, registered, file, seen, revoked, held, pc, obj, tok, save>>

\* The upstream stops accepting the current token.  (The bound leaves room for
\* a needless refresh of the next one.)
Revoke ==
  /\ live # NoAuth /\ revoked <= live.token /\ live.token + 1 < MaxToken
  /\ revoked' = live.token + 1
  /\ UNCHANGED <<live, sched, registered, file, seen, now, held, pc, obj, tok, save>>

\* Somebody removes the file, or puts it back.
FileChanges ==
  /\ file' = IF file = NoAuth THEN [token |-> revoked, disabled |-> FALSE] ELSE NoAuth
  /\ UNCHANGED <<live, sched, registered, seen, now, revoked, held, pc, obj, tok, save>>

Init ==
  LET a == [token |-> 0, state |-> FreshAuth] IN
    /\ env \in Environments
    /\ live = a
    /\ sched = [meta |-> a, supported |-> Models, shards |-> {},
                entries |-> [m \in Models |-> Absent]]
    /\ registered = Models
    /\ file = FileOf(a)
    /\ seen = FileOf(a)
    /\ now = 1
    /\ revoked = 0
    /\ held = {}
    /\ pc = [p \in Procs |-> "idle"]
    /\ obj = [p \in Procs |-> NoAuth]
    /\ tok = [c \in Callers |-> NoAuth]
    /\ save = [p \in Procs |-> NoAuth]

Request(c) ==
  \/ \E m \in Models :
       \/ MarkResultSuccess(c, m)
       \/ \E class \in env.classes : MarkResultFailure(c, m, class)
       \/ Pick(c, m)
       \/ Repick(c, m)
  \/ Upsert(c, "upsert", "idle")
  \/ syncSnapshot(c)
  \/ rebuild(c)

Refresh(c) ==
  \/ RefreshAsked(c)
  \/ RefreshBegin(c)
  \/ RefreshFails(c)
  \/ RefreshUpdate(c)
  \/ Upsert(c, "refreshUpsert", "refreshPersist")
  \/ PersistUpdate(c, "refreshPersist")

Manage(c) ==
  \/ ToggleRead(c)
  \/ ToggleUpdate(c)
  \/ Upsert(c, "updateUpsert", "persist")
  \/ PersistUpdate(c, "persist")
  \/ ResetQuota(c)
  \/ DeleteFile(c)
  \/ RemoveRecord(c)
  \/ RemoveEntry(c)

Serve ==
  \/ ServiceRead
  \/ ServiceTake
  \/ ServiceUpdate
  \/ ServiceAdd
  \/ Upsert(Service, "registerUpsert", "register")
  \/ registerModelsForAuth
  \/ ReconcileRegistryModelStates
  \/ Upsert(Service, "reconcileUpsert", "refreshEntry")
  \/ RefreshSchedulerEntry
  \/ Upsert(Service, "entryUpsert", "idle")
  \/ ServiceRemove
  \/ RemoveRecord(Service)
  \/ RemoveEntry(Service)

\* An environment without overlap takes up an operation when the others have
\* returned.
MayStep(p) == ~env.overlap => \A q \in Procs \ {p} : pc[q] = "idle"

Step ==
  \/ \E c \in Callers : MayStep(c) /\ (Request(c) \/ Refresh(c) \/ Manage(c))
  \/ MayStep(Service) /\ Serve
  \/ Tick
  \/ Revoke
  \/ FileChanges

Next == Step /\ UNCHANGED env

Spec == Init /\ [][Next]_vars

-----------------------------------------------------------------------------
Settled == \A p \in Procs : pc[p] = "idle"

\* What a request that asks for m now would be given.
Offered(m) == Ready(ensureModelLocked(sched, m), m)

\* A removed credential is never offered again once its removal has returned,
\* whatever results and refreshes of it come in late, unless the operator's
\* calls overlap with them.
RemovedNotOffered ==
  (env.overlap => ~env.operated)
    /\ live = NoAuth /\ pc[Service] = "idle" /\ file = NoAuth /\ seen = NoAuth
    /\ (\A c \in Callers : pc[c] # "removeEntry") =>
    \A m \in Models : ~Offered(m)

\* "Without this, newly added auths ... are invisible to the scheduler": when
\* everything has settled an enabled credential is in the scheduler with its
\* models, whichever late copy of it came last, unless the operator's calls or
\* rebuilds overlap with its registration.
VisibleWhenSettled ==
  (env.overlap => env.others /\ ~env.operated)
    /\ Settled /\ live # NoAuth /\ ~live.state.disabled =>
    sched.meta # NoAuth /\ sched.supported = registered

\* "upsertAuth incrementally synchronizes one auth into the scheduler": when
\* everything has settled the scheduler offers no model the record blocks, if
\* no operation overlapped another.
SchedulerInSync ==
  ~env.overlap /\ Settled /\ live # NoAuth =>
    \A m \in Models : Offered(m) => ~Blocked(live.state, m, now)

\* "concurrent callers reuse a refresh that already replaced the access token
\* that produced the unauthorized response": a token that is still good is
\* never refreshed on behalf of requests.
GoodTokenKept == ~env.operated /\ live # NoAuth => live.token <= revoked
=============================================================================
