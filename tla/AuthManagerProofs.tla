------------------------- MODULE AuthManagerProofs -------------------------
(***************************************************************************)
(* Proofs about AuthManager: what the scheduler says of a credential whose *)
(* record changes under another lock, for any number of concurrent         *)
(* callers, models and tokens.                                             *)
(***************************************************************************)
EXTENDS AuthManager, TLAPS

\* The lemmas about the operators of CooldownState; the variables of the
\* module they come from do not occur in them.
CP == INSTANCE AuthCooldownProofs
        WITH Environments <- {}, MaxNow <- 1, auth <- live, noCooling <- FALSE,
             phase <- "running", booting <- FALSE, store <- {}, due <- FALSE,
             saving <- FALSE, snapshot <- {}, saveFailed <- FALSE, loaded <- {}

-----------------------------------------------------------------------------
(***************************************************************************)
(* The operators of CooldownState on a credential's state.                 *)
(***************************************************************************)
LEMMA SameStates ==
  /\ CP!Auth = Auth /\ CP!FreshAuth = FreshAuth
  /\ CP!CleanState = CleanState /\ CP!NoState = NoState /\ CP!NoQuota = NoQuota
<1>1. CP!Shift = Shift
  BY DEF CP!Shift, Shift
<1>2. CP!Auth = Auth
  BY <1>1 DEF CP!Level, Level, CP!Quota, Quota, CP!ModelState, ModelState, CP!Auth, Auth,
     CP!ErrorKind, ErrorKind
<1>3. /\ CP!CleanState = CleanState /\ CP!NoState = NoState /\ CP!FreshAuth = FreshAuth
      /\ CP!NoQuota = NoQuota
  BY DEF CP!CleanState, CleanState, CP!NoState, NoState, CP!FreshAuth, FreshAuth,
     CP!NoQuota, NoQuota
<1> QED BY <1>2, <1>3

\* So are its operators: the lemmas of its proofs speak of this model's.
LEMMA SameOperators ==
  ASSUME NEW a, NEW b, NEW t, NEW m, NEW class, NEW supported
  PROVE  /\ CP!MarkSuccess(a, m, t) = MarkSuccess(a, m, t)
         /\ CP!MarkFailure(a, m, class, NoRetryAfter, t, FALSE) = MarkFailure(a, m, class, NoRetryAfter, t, FALSE)
         /\ CP!RefreshedOf(a, t) = RefreshedOf(a, t)
         /\ CP!ResetQuotaOf(a, t) = ResetQuotaOf(a, t)
         /\ CP!ReconcileOf(a, supported, t) = ReconcileOf(a, supported, t)
         /\ CP!CarryOver(a, b, t, FALSE) = CarryOver(a, b, t, FALSE)
<1>1. \A x : CP!Known(x) = Known(x) /\ CP!IsDisabled(x) = IsDisabled(x)
  BY DEF CP!Known, Known, CP!IsDisabled, IsDisabled
<1>2. \A x : CP!updateAggregatedAvailability(x, t) = updateAggregatedAvailability(x, t)
  BY DEF CP!updateAggregatedAvailability, updateAggregatedAvailability, CP!Expire, Expire,
     CP!Known, Known, CP!Cooling, Cooling, CP!MinOrZero, MinOrZero, CP!NoQuota, NoQuota,
     CP!Min, Min, CP!Max, Max
<1>3. \A x : CP!ClearStatusIfHealthy(x) = ClearStatusIfHealthy(x)
  BY DEF CP!ClearStatusIfHealthy, ClearStatusIfHealthy, CP!hasModelError, hasModelError,
     CP!Known, Known
<1>4. \A x : CP!clearCooldownStateForAuth(x, t) = clearCooldownStateForAuth(x, t)
  BY <1>1, <1>2, SameStates DEF CP!clearCooldownStateForAuth, clearCooldownStateForAuth
<1>5. \A x : CP!FailedState(x, class, NoRetryAfter, t, FALSE) = FailedState(x, class, NoRetryAfter, t, FALSE)
  <2>1. CP!Shift = Shift
    BY DEF CP!Shift, Shift
  <2> QED BY <2>1 DEF CP!FailedState, FailedState, CP!ErrorOf, ErrorOf, CP!RetryAt, RetryAt,
           CP!PauseOf, PauseOf, CP!nextCloudflareCooldown, nextCloudflareCooldown,
           CP!nextQuotaCooldown, nextQuotaCooldown, CP!QuotaAfter429, QuotaAfter429,
           CP!quotaCooldownAfterFailure, quotaCooldownAfterFailure, CP!NoRetryAfter, NoRetryAfter
<1>6. CP!MarkSuccess(a, m, t) = MarkSuccess(a, m, t)
  BY <1>2, <1>3, SameStates DEF CP!MarkSuccess, MarkSuccess
<1>7. CP!MarkFailure(a, m, class, NoRetryAfter, t, FALSE) = MarkFailure(a, m, class, NoRetryAfter, t, FALSE)
  BY <1>2, <1>5 DEF CP!MarkFailure, MarkFailure, CP!ErrorOf, ErrorOf
<1>8. CP!RefreshedOf(a, t) = RefreshedOf(a, t)
  BY <1>1, <1>2, SameStates DEF CP!RefreshedOf, RefreshedOf
<1>9. CP!ResetQuotaOf(a, t) = ResetQuotaOf(a, t)
  BY <1>1, <1>3, <1>4, SameStates DEF CP!ResetQuotaOf, ResetQuotaOf
<1>10. CP!ReconcileOf(a, supported, t) = ReconcileOf(a, supported, t)
  BY <1>2, <1>3, SameStates DEF CP!ReconcileOf, ReconcileOf
<1>11. CP!CarryOver(a, b, t, FALSE) = CarryOver(a, b, t, FALSE)
  BY <1>1, <1>4 DEF CP!CarryOver, CarryOver
<1> QED BY <1>6, <1>7, <1>8, <1>9, <1>10, <1>11

\* A state whose status agrees with the disabled flag.
StateOK(a) == a \in Auth /\ (a.status = "disabled" => a.disabled)

\* Nothing is cooling, now or later.
Free(a) == \A m \in Models : ~(a.models[m].known /\ a.models[m].unavailable)

\* The assumptions of the cooldown model hold of the constants chosen here.
LEMMA CooldownAssumptions == CP!CooldownAssumption /\ CP!AuthCooldownAssumption
BY CooldownAssumption DEF CP!CooldownAssumption, CP!AuthCooldownAssumption

\* MarkResult keeps the form of a credential's state and its disabled flag.
LEMMA StateKept ==
  ASSUME NEW a, StateOK(a), NEW t \in Nat, t # 0, NEW m \in Models, NEW class
  PROVE  /\ StateOK(MarkSuccess(a, m, t)) /\ MarkSuccess(a, m, t).disabled = a.disabled
         /\ StateOK(MarkFailure(a, m, class, NoRetryAfter, t, FALSE))
         /\ MarkFailure(a, m, class, NoRetryAfter, t, FALSE).disabled = a.disabled
<1> DEFINE dis == a.disabled
<1>1. dis \in BOOLEAN /\ CP!Live(a, dis)
  BY SameStates DEF StateOK, Auth, CP!Live
<1>2. FALSE \in BOOLEAN /\ 0 \in Nat
  OBVIOUS
<1>3. \A x : CP!Live(x, dis) => StateOK(x) /\ x.disabled = a.disabled
  BY SameStates DEF StateOK, CP!Live
<1> HIDE DEF dis
<1>6. NoRetryAfter \in CP!RetryAfters
  BY DEF NoRetryAfter, CP!RetryAfters, CP!NoRetryAfter
<1>4. CP!Live(CP!MarkSuccess(a, m, t), dis)
  BY <1>1, <1>2, CP!SuccessMarked, CooldownAssumptions
<1>5. CP!Live(CP!MarkFailure(a, m, class, NoRetryAfter, t, FALSE), dis)
  BY <1>1, <1>2, <1>6, CP!FailureMarked, CooldownAssumptions
<1> QED BY <1>3, <1>4, <1>5, SameOperators

\* So does the reconciliation with the models of the registry.
LEMMA StateReconciled ==
  ASSUME NEW a, StateOK(a), NEW t \in Nat, t # 0, NEW supported \in SUBSET Models
  PROVE  /\ StateOK(ReconcileOf(a, supported, t))
         /\ ReconcileOf(a, supported, t).disabled = a.disabled
<1> DEFINE dis == a.disabled
<1>1. dis \in BOOLEAN /\ CP!Live(a, dis)
  BY SameStates DEF StateOK, Auth, CP!Live
<1>2. FALSE \in BOOLEAN /\ 0 \in Nat
  OBVIOUS
<1>3. \A x : CP!Live(x, dis) => StateOK(x) /\ x.disabled = a.disabled
  BY SameStates DEF StateOK, CP!Live
<1> HIDE DEF dis
<1>4. CP!Live(CP!ReconcileOf(a, supported, t), dis)
  BY <1>1, <1>2, CP!Reconciled, CooldownAssumptions
<1> QED BY <1>3, <1>4, SameOperators

\* So do a refresh, a reset, which leaves no block, and a reload that carries
\* blocks over.
LEMMA StateReset ==
  ASSUME NEW a, StateOK(a), NEW t \in Nat, NEW b, StateOK(b)
  PROVE  /\ StateOK(RefreshedOf(a, t)) /\ RefreshedOf(a, t).disabled = a.disabled
         /\ StateOK(ResetQuotaOf(a, t)) /\ ResetQuotaOf(a, t).disabled = a.disabled
         /\ Free(ResetQuotaOf(a, t))
         /\ StateOK(CarryOver(a, b, t, FALSE)) /\ CarryOver(a, b, t, FALSE).disabled = a.disabled
<1> DEFINE dis == a.disabled
<1>1. dis \in BOOLEAN /\ CP!Live(a, dis)
  BY SameStates DEF StateOK, Auth, CP!Live
<1>2. FALSE \in BOOLEAN /\ b \in CP!Auth
  BY SameStates DEF StateOK
<1>3. \A x : CP!Live(x, dis) => StateOK(x) /\ x.disabled = a.disabled
  BY SameStates DEF StateOK, CP!Live
<1> HIDE DEF dis
<1>4. CP!Live(CP!RefreshedOf(a, t), dis)
  BY <1>1, CP!RefreshedLive, CooldownAssumptions
<1> DEFINE r == CP!ResetQuotaOf(a, t)
<1>5. CP!Live(r, dis) /\ \A m \in CP!Known(r) : ~r.models[m].unavailable
  BY <1>1, <1>2, CP!QuotaReset, CooldownAssumptions
<1>6. CP!Live(CP!CarryOver(a, b, t, FALSE), dis)
  BY <1>1, <1>2, CP!CarriedLive, CooldownAssumptions
<1>7. Free(r)
  BY <1>5 DEF Free, CP!Known
<1> QED BY <1>3, <1>4, <1>5, <1>6, <1>7, SameOperators

-----------------------------------------------------------------------------
(***************************************************************************)
(* The inductive invariant.                                                *)
(***************************************************************************)
Cred == {a \in Credential : StateOK(a.state)}
Entry == [state : {"absent", "ready", "cooldown", "blocked", "disabled"}, next : Nat]

CallerLabel == {"idle", "upsert", "sync", "rebuild", "repick", "refresh", "refreshing",
                "refreshUpsert", "refreshPersist", "toggle", "updateUpsert", "persist",
                "remove", "removeEntry"}
ServiceLabel == {"idle", "take", "add", "update", "registerUpsert", "register",
                 "reconcile", "reconcileUpsert", "refreshEntry", "entryUpsert", "remove",
                 "removeEntry"}

\* Where a goroutine has a copy that it is going to write back ...
Writing == {"refreshing", "toggle", "take", "add", "update"}

\* ... or a copy or pointer that it is about to give to the scheduler.
Syncing == {"upsert", "refreshUpsert", "updateUpsert", "registerUpsert", "reconcileUpsert",
            "entryUpsert"}

\* Where the service is between a report of the watcher and the new entry.
Registering == {"take", "add", "update", "registerUpsert", "register", "reconcile",
                "reconcileUpsert", "refreshEntry", "entryUpsert"}

NoEntries(s) == s.supported = {} /\ \A m \in Models : s.entries[m].state = "absent"

\* What a scheduler can hold when x is the record of Manager.auths.
SchedOK(s, x) ==
  /\ s \in [meta : Cred \cup {Live, NoAuth}, supported : SUBSET Models,
            shards : SUBSET Models, entries : [Models -> Entry]]
  /\ s.meta = Live => x # NoAuth
  /\ s.meta = NoAuth => NoEntries(s)

Kinds ==
  /\ env \in Environments
  /\ live \in Cred \cup {NoAuth}
  /\ SchedOK(sched, live)
  /\ registered \in SUBSET Models
  /\ file \in FileState \cup {NoAuth}
  /\ seen \in FileState \cup {NoAuth}
  /\ now \in Nat \ {0}
  /\ revoked \in Nat
  /\ held \in SUBSET Nat

\* What the goroutines hold, by where they are.
Holdings ==
  /\ pc \in [Procs -> CallerLabel \cup ServiceLabel]
  /\ \A c \in Callers : pc[c] \in CallerLabel
  /\ pc[Service] \in ServiceLabel
  /\ obj \in [Procs -> Cred \cup {Live, NoAuth}]
  /\ \A p \in Procs : /\ obj[p] = Live => live # NoAuth
                      /\ pc[p] \in Writing => obj[p] \in Cred
                      /\ pc[p] \in Syncing => obj[p] # NoAuth
  /\ tok \in [Callers -> Nat \cup {NoAuth}]
  /\ save \in [Procs -> FileState \cup {NoAuth}]
  /\ \A p \in Procs : pc[p] \in {"refreshUpsert", "refreshPersist", "updateUpsert", "persist"}
                        => save[p] \in FileState
  /\ pc[Service] \in Registering => seen # NoAuth

\* No copy is ahead of the upstream, and who refreshes has a rejected token.
Tokens ==
  ~env.operated =>
    /\ live # NoAuth => live.token <= revoked
    /\ file # NoAuth => file.token <= revoked
    /\ \A p \in Procs : /\ obj[p] \in Cred => obj[p].token <= revoked
                        /\ save[p] \in FileState => save[p].token <= revoked
    /\ \A c \in Callers : /\ pc[c] = "refresh" => tok[c] \in Nat /\ tok[c] < revoked
                          /\ pc[c] = "refreshing" => obj[c].token < revoked

\* Without the operator only the service removes the record and nothing is
\* disabled.
Removal ==
  /\ seen = NoAuth => registered = {}
  /\ pc[Service] \in {"remove", "removeEntry"} => seen = NoAuth
  /\ ~env.operated =>
       /\ \A c \in Callers :
            pc[c] \notin {"toggle", "updateUpsert", "persist", "remove", "removeEntry"}
       /\ live = NoAuth => \/ seen = NoAuth /\ pc[Service] # "remove"
                           \/ pc[Service] \in {"take", "add"}
       /\ seen = NoAuth /\ pc[Service] \notin {"remove", "removeEntry"} => NoEntries(sched)

Enabled(a) == a \in Cred => ~a.state.disabled

InScheduler == sched.meta # NoAuth /\ sched.supported = registered

\* Without the operator and without rebuilds.
Visible ==
  env.others /\ ~env.operated =>
    /\ \A c \in Callers : pc[c] \notin {"sync", "rebuild", "repick"}
    /\ Enabled(live) /\ \A p \in Procs : Enabled(obj[p])
    /\ file # NoAuth => ~file.disabled
    /\ \A p \in Procs : save[p] \in FileState => ~save[p].disabled
    /\ pc[Service] = "removeEntry" => live = NoAuth
    /\ pc[Service] \in {"idle", "take", "update"} /\ live # NoAuth => InScheduler

\* The scheduler's copy is as good as the record: the same, or from before a
\* reset that the scheduler was not told of.
InStep ==
  /\ sched.meta # NoAuth => \/ Deref(sched.meta).state = live.state
                            \/ Free(live.state)
  /\ \A m \in Models : Ready(sched, m) => ~Blocked(live.state, m, now)
  /\ live.state.disabled => sched.meta = NoAuth

\* One operation at a time.
Alone ==
  ~env.overlap =>
    /\ \A p, q \in Procs : p = q \/ pc[p] = "idle" \/ pc[q] = "idle"
    /\ \A p \in Procs : /\ pc[p] \in Syncing \cup {"rebuild"} => Deref(obj[p]) = live
                        /\ pc[p] = "removeEntry" => live = NoAuth
    /\ live = NoAuth /\ (\A p \in Procs : pc[p] # "removeEntry") => sched.meta = NoAuth
    /\ live # NoAuth /\ (\A p \in Procs : pc[p] \notin Syncing \ {"entryUpsert"}) => InStep
    /\ live # NoAuth /\ (\A p \in Procs : pc[p] \notin Syncing)
         /\ pc[Service] \notin {"reconcile", "refreshEntry", "remove"}
         /\ ~live.state.disabled => InScheduler

IInv == Kinds /\ Holdings /\ Tokens /\ Removal /\ Visible /\ Alone

-----------------------------------------------------------------------------
(***************************************************************************)
(* The operations of the scheduler.                                        *)
(***************************************************************************)
LEMMA Distinct ==
  Live # NoAuth /\ Live \notin Cred /\ NoAuth \notin Cred /\ NoAuth \notin Nat \cup FileState
BY AuthManagerAssumption DEF Cred

\* What a pointer shows is a record.
LEMMA Shown ==
  ASSUME NEW ref \in Cred \cup {Live}, live \in Cred \cup {NoAuth},
         ref = Live => live # NoAuth
  PROVE  Deref(ref) \in Cred
BY Distinct DEF Deref

\* An entry is ready exactly if the copy does not block its model.
LEMMA Evaluated ==
  ASSUME NEW a \in Cred, NEW m \in Models, now \in Nat
  PROVE  /\ Evaluate(a, m) \in Entry
         /\ Evaluate(a, m).state = "ready" => ~Blocked(a.state, m, now)
<1> DEFINE b == isAuthBlockedForModel(a.state, m, now)
<1>1. /\ a.state \in Auth /\ a.state.models[m] \in ModelState
      /\ a.state.quota \in Quota /\ a.state.models[m].quota \in Quota
  BY DEF Cred, Credential, StateOK, Auth, ModelState
<1>2. /\ CooldownBlock(a.state.models[m], now).next \in Nat
      /\ CooldownBlock(a.state, now).next \in Nat
  BY <1>1 DEF CooldownBlock, Auth, ModelState, Quota
<1>3. /\ b.next \in Nat /\ b.blocked \in BOOLEAN
      /\ b.blocked => b.reason \in {"cooldown", "disabled", "other"}
  BY <1>1, <1>2 DEF isAuthBlockedForModel, NotBlocked, CooldownBlock
<1>4. b.blocked = Blocked(a.state, m, now)
  BY DEF Blocked
<1> HIDE DEF b
<1>5. Evaluate(a, m) = CASE ~b.blocked -> [state |-> "ready", next |-> 0]
                         [] b.reason = "cooldown" -> [state |-> "cooldown", next |-> b.next]
                         [] b.reason = "disabled" -> [state |-> "disabled", next |-> 0]
                         [] b.reason = "other" -> [state |-> "blocked", next |-> b.next]
  BY DEF Evaluate, b
<1>6. CASE ~b.blocked
  BY <1>3, <1>4, <1>5, <1>6 DEF Entry
<1>7. CASE b.blocked
  BY <1>3, <1>4, <1>5, <1>7 DEF Entry
<1> QED BY <1>3, <1>6, <1>7

\* removeAuthLocked leaves no entry.
LEMMA Removed ==
  ASSUME NEW s, NEW x, NEW y, SchedOK(s, y)
  PROVE  LET u == removeAuthLocked(s) IN
           SchedOK(u, x) /\ u.meta = NoAuth /\ NoEntries(u) /\ u.shards = s.shards
BY Distinct DEF SchedOK, removeAuthLocked, NoEntries, Absent, Entry

\* upsertAuthLocked leaves the entries of an enabled record, and none of a
\* disabled one; whatever is ready is not blocked in the record.
LEMMA Upserted ==
  ASSUME NEW s, NEW y, SchedOK(s, y), NEW x,
         live \in Cred \cup {NoAuth}, registered \in SUBSET Models, now \in Nat,
         NEW ref \in Cred \cup {Live}, ref = Live => live # NoAuth /\ x # NoAuth
  PROVE  LET u == upsertAuthLocked(s, ref) IN
           /\ SchedOK(u, x)
           /\ registered = {} => NoEntries(u)
           /\ Deref(ref).state.disabled => u.meta = NoAuth
           /\ ~Deref(ref).state.disabled => u.meta = ref /\ u.supported = registered
           /\ \A m \in Models : Ready(u, m) => ~Blocked(Deref(ref).state, m, now)
<1> DEFINE a == Deref(ref)
           e == [m \in Models |-> IF m \in s.shards \cap registered THEN Evaluate(a, m)
                                  ELSE Absent]
           u == upsertAuthLocked(s, ref)
<1>1. a \in Cred
  BY Shown
<1> HIDE DEF a
<1>2. e \in [Models -> Entry]
  BY <1>1, Evaluated DEF Absent, Entry
<1>3. \A m \in Models : e[m].state = "ready" => ~Blocked(a.state, m, now)
  BY <1>1, Evaluated DEF Absent
<1>4. registered = {} => \A m \in Models : e[m].state = "absent"
  BY DEF Absent
<1>5. u = IF a.state.disabled THEN removeAuthLocked(s)
          ELSE [s EXCEPT !.meta = ref, !.supported = registered, !.entries = e]
  BY DEF a, upsertAuthLocked
<1> HIDE DEF e, u
<1>6. CASE a.state.disabled
  <2>1. u = removeAuthLocked(s)
    BY <1>5, <1>6
  <2>2. SchedOK(u, x) /\ u.meta = NoAuth /\ NoEntries(u)
    BY <2>1, Removed
  <2>3. \A m \in Models : ~Ready(u, m)
    BY <2>2 DEF NoEntries, Ready
  <2> QED BY <1>6, <2>2, <2>3 DEF a, u
<1>7. CASE ~a.state.disabled
  <2>1. /\ u.meta = ref /\ u.supported = registered /\ u.entries = e
        /\ u \in [meta : Cred \cup {Live, NoAuth}, supported : SUBSET Models,
                  shards : SUBSET Models, entries : [Models -> Entry]]
    BY <1>2, <1>5, <1>7 DEF SchedOK
  <2>2. SchedOK(u, x)
    BY <2>1, Distinct DEF SchedOK
  <2>3. registered = {} => NoEntries(u)
    BY <1>4, <2>1 DEF NoEntries
  <2>4. \A m \in Models : Ready(u, m) => ~Blocked(a.state, m, now)
    BY <1>3, <2>1 DEF Ready
  <2> QED BY <1>7, <2>1, <2>2, <2>3, <2>4 DEF a, u
<1> QED BY <1>6, <1>7 DEF u

\* The same of a rebuild from the manager's record.
LEMMA RebuiltOK ==
  ASSUME NEW s, SchedOK(sched, live), live \in Cred \cup {NoAuth},
         registered \in SUBSET Models, now \in Nat,
         NEW ref \in Cred \cup {Live, NoAuth}, ref = Live => live # NoAuth
  PROVE  LET u == Rebuilt(ref) IN
           /\ SchedOK(u, live)
           /\ registered = {} => NoEntries(u)
           /\ ref = NoAuth => u.meta = NoAuth
           /\ ref # NoAuth /\ Deref(ref).state.disabled => u.meta = NoAuth
           /\ ref # NoAuth /\ ~Deref(ref).state.disabled =>
                u.meta = ref /\ u.supported = registered
           /\ ref # NoAuth => \A m \in Models :
                Ready(u, m) => ~Blocked(Deref(ref).state, m, now)
<1> DEFINE empty == [removeAuthLocked(sched) EXCEPT !.shards = {}]
<1>1. SchedOK(empty, live) /\ empty.meta = NoAuth /\ NoEntries(empty)
  BY Distinct DEF SchedOK, removeAuthLocked, NoEntries, Absent, Entry
<1>2. Rebuilt(ref) = IF ref = NoAuth THEN empty ELSE upsertAuthLocked(empty, ref)
  BY DEF Rebuilt
<1> HIDE DEF empty
<1>3. CASE ref = NoAuth
  BY <1>1, <1>2, <1>3
<1>4. CASE ref # NoAuth
  <2>1. ref \in Cred \cup {Live}
    BY <1>4
  <2> QED BY <1>1, <1>2, <1>4, <2>1, Upserted
<1> QED BY <1>3, <1>4

\* A shard that is asked for is evaluated from what the scheduler holds.
LEMMA Ensured ==
  ASSUME NEW s, SchedOK(s, live), live \in Cred \cup {NoAuth}, now \in Nat, NEW m \in Models
  PROVE  LET u == ensureModelLocked(s, m) IN
           /\ SchedOK(u, live) /\ u.meta = s.meta /\ u.supported = s.supported
           /\ NoEntries(s) => NoEntries(u)
           /\ Ready(u, m) => s.meta # NoAuth /\ Deref(s.meta) \in Cred
           /\ \A n \in Models : Ready(u, n) =>
                Ready(s, n) \/ (s.meta # NoAuth /\ ~Blocked(Deref(s.meta).state, n, now))
<1> DEFINE a == Deref(s.meta)
           u == ensureModelLocked(s, m)
<1>1. s.meta # NoAuth => a \in Cred
  BY Shown DEF SchedOK
<1>2. s.meta # NoAuth => /\ Evaluate(a, m) \in Entry
                         /\ Evaluate(a, m).state = "ready" => ~Blocked(a.state, m, now)
  BY <1>1, Evaluated
<1> HIDE DEF a
<1>3. \/ u = s
      \/ /\ s.meta # NoAuth /\ ~NoEntries(s)
         /\ \E ss \in SUBSET Models :
              u = [s EXCEPT !.shards = ss, !.entries = [s.entries EXCEPT ![m] = Evaluate(a, m)]]
      \/ \E ss \in SUBSET Models :
           u = [s EXCEPT !.shards = ss, !.entries = [s.entries EXCEPT ![m] = Absent]]
  <2>1. CASE m \in s.shards
    <3>1. u = promoteExpiredLocked(s, m)
      BY <2>1 DEF ensureModelLocked
    <3>2. CASE u = s
      BY <3>2
    <3>3. CASE u # s
      <4>1. /\ s.entries[m].state \in {"cooldown", "blocked"}
            /\ u = [s EXCEPT !.entries[m] = Evaluate(a, m)]
        BY <3>1, <3>3 DEF promoteExpiredLocked, a
      <4>2. ~NoEntries(s) /\ s.meta # NoAuth
        BY <4>1 DEF NoEntries, SchedOK
      <4>3. u = [s EXCEPT !.shards = s.shards,
                          !.entries = [s.entries EXCEPT ![m] = Evaluate(a, m)]]
        BY <4>1 DEF SchedOK
      <4> QED BY <4>2, <4>3 DEF SchedOK
    <3> QED BY <3>2, <3>3
  <2>2. CASE m \notin s.shards
    <3> DEFINE ss == s.shards \cup {m}
    <3>1. ss \in SUBSET Models
      BY DEF SchedOK
    <3>2. CASE m \in s.supported
      <4>1. ~NoEntries(s) /\ s.meta # NoAuth
        BY <3>2 DEF NoEntries, SchedOK
      <4>2. u = [s EXCEPT !.shards = ss,
                          !.entries = [s.entries EXCEPT ![m] = Evaluate(a, m)]]
        BY <2>2, <3>2 DEF ensureModelLocked, a, SchedOK
      <4> QED BY <3>1, <4>1, <4>2
    <3>3. CASE m \notin s.supported
      <4>1. u = [s EXCEPT !.shards = ss, !.entries = [s.entries EXCEPT ![m] = Absent]]
        BY <2>2, <3>3 DEF ensureModelLocked, SchedOK
      <4> QED BY <3>1, <4>1
    <3> QED BY <3>2, <3>3
  <2> QED BY <2>1, <2>2
<1> HIDE DEF u
<1>4. CASE u = s
  <2>1. Ready(s, m) => s.meta # NoAuth
    BY DEF Ready, SchedOK, NoEntries
  <2> QED BY <1>1, <1>4, <2>1 DEF u, a
<1>5. ASSUME NEW ss \in SUBSET Models, NEW e \in Entry,
             e = Absent \/ (s.meta # NoAuth /\ ~NoEntries(s) /\ e = Evaluate(a, m)),
             u = [s EXCEPT !.shards = ss, !.entries = [s.entries EXCEPT ![m] = e]]
      PROVE  /\ SchedOK(u, live) /\ u.meta = s.meta /\ u.supported = s.supported
             /\ NoEntries(s) => NoEntries(u)
             /\ Ready(u, m) => s.meta # NoAuth /\ a \in Cred
             /\ \A n \in Models : Ready(u, n) =>
                  Ready(s, n) \/ (s.meta # NoAuth /\ ~Blocked(a.state, n, now))
  <2>1. /\ u.meta = s.meta /\ u.supported = s.supported /\ u.shards = ss
        /\ u.entries = [s.entries EXCEPT ![m] = e]
        /\ u \in [meta : Cred \cup {Live, NoAuth}, supported : SUBSET Models,
                  shards : SUBSET Models, entries : [Models -> Entry]]
    BY <1>5 DEF SchedOK
  <2>2. /\ u.entries[m] = e
        /\ \A n \in Models : n # m => u.entries[n] = s.entries[n]
    BY <2>1 DEF SchedOK
  <2>3. NoEntries(s) => NoEntries(u)
    BY <1>5, <2>1, <2>2 DEF NoEntries, Absent
  <2>4. SchedOK(u, live)
    BY <2>1, <2>3 DEF SchedOK
  <2>5. Ready(u, m) => s.meta # NoAuth /\ a \in Cred /\ ~Blocked(a.state, m, now)
    BY <1>1, <1>2, <1>5, <2>2 DEF Ready, Absent
  <2> QED BY <2>1, <2>2, <2>3, <2>4, <2>5 DEF Ready
<1>6. Absent \in Entry
  BY DEF Absent, Entry
<1> QED BY <1>2, <1>3, <1>4, <1>5, <1>6 DEF u, a

-----------------------------------------------------------------------------
(***************************************************************************)
(* Steps that several operations share.                                    *)
(***************************************************************************)
\* The record is replaced: no pointer is left but the one handed out.
LEMMA Replaced ==
  ASSUME Kinds, Holdings, NEW p \in Procs, NEW new \in Cred \cup {NoAuth},
         NEW ref \in Cred \cup {Live, NoAuth}, ref = Live => new # NoAuth,
         Replace(p, new, ref)
  PROVE  /\ live' = new /\ SchedOK(sched', live')
         /\ sched'.meta = Deref(sched.meta) /\ sched'.meta # Live
         /\ sched'.supported = sched.supported /\ sched'.entries = sched.entries
         /\ obj' \in [Procs -> Cred \cup {Live, NoAuth}]
         /\ obj'[p] = ref
         /\ \A q \in Procs \ {p} : /\ obj'[q] = Deref(obj[q]) /\ obj'[q] # Live
                                   /\ obj[q] \in Cred => obj'[q] = obj[q]
                                   /\ obj[q] # NoAuth => obj'[q] \in Cred
<1>1. /\ \A q \in Procs : obj[q] \in Cred \cup {Live, NoAuth}
      /\ \A q \in Procs : obj[q] = Live => live # NoAuth
      /\ live \in Cred \cup {NoAuth}
  BY DEF Kinds, Holdings
<1>2. \A q \in Procs : /\ Deref(obj[q]) \in Cred \cup {NoAuth} /\ Deref(obj[q]) # Live
                       /\ obj[q] \in Cred => Deref(obj[q]) = obj[q]
                       /\ obj[q] # NoAuth => Deref(obj[q]) \in Cred
  BY <1>1, Distinct DEF Deref
<1>3. /\ obj' = [q \in Procs |-> IF q = p THEN ref ELSE Deref(obj[q])]
      /\ live' = new
      /\ sched' = [sched EXCEPT !.meta = Deref(sched.meta)]
  BY DEF Replace
<1>4. /\ sched.meta \in Cred \cup {Live, NoAuth} /\ sched.meta = Live => live # NoAuth
      /\ Deref(sched.meta) = NoAuth => sched.meta = NoAuth
      /\ Deref(sched.meta) \in Cred \cup {NoAuth} /\ Deref(sched.meta) # Live
  BY <1>1, Distinct DEF Kinds, SchedOK, Deref
<1>5. /\ sched'.meta = Deref(sched.meta) /\ sched'.supported = sched.supported
      /\ sched'.entries = sched.entries /\ sched'.shards = sched.shards
      /\ sched' \in [meta : Cred \cup {Live, NoAuth}, supported : SUBSET Models,
                     shards : SUBSET Models, entries : [Models -> Entry]]
  BY <1>3, <1>4 DEF Kinds, SchedOK
<1>6. SchedOK(sched', live')
  BY <1>4, <1>5 DEF Kinds, SchedOK, NoEntries
<1>7. obj' \in [Procs -> Cred \cup {Live, NoAuth}]
  BY <1>2, <1>3
<1>8. \A q \in Procs \ {p} : obj'[q] = Deref(obj[q])
  BY <1>3
<1> QED BY <1>2, <1>3, <1>4, <1>5, <1>6, <1>7, <1>8

\* Update writes the record it is given, with the cooldowns of the old one.
LEMMA Updated ==
  ASSUME Kinds, NEW p \in Procs, NEW a \in Cred, NEW label, NEW missing,
         NEW keep \in BOOLEAN, Update(p, a, label, missing, keep)
  PROVE  \/ /\ live = NoAuth /\ obj' = [obj EXCEPT ![p] = NoAuth]
            /\ Goto(p, missing) /\ UNCHANGED <<live, sched, save>>
         \/ /\ live # NoAuth /\ Goto(p, label)
            /\ \E new \in Cred :
                 /\ new.token = a.token /\ new.state.disabled = a.state.disabled
                 /\ Replace(p, new, Live)
                 /\ save' = IF keep THEN [save EXCEPT ![p] = FileOf(new)] ELSE save
<1> DEFINE st == CarryOver(a.state, live.state, now, FALSE)
           new == [a EXCEPT !.state = st]
<1>1. CASE live = NoAuth
  BY <1>1 DEF Update
<1>2. CASE live # NoAuth
  <2>1. StateOK(a.state) /\ StateOK(live.state) /\ now \in Nat
    BY <1>2 DEF Kinds, Cred
  <2>2. StateOK(st) /\ st.disabled = a.state.disabled
    BY <2>1, StateReset
  <2> HIDE DEF st
  <2>3. new \in Cred /\ new.token = a.token /\ new.state = st
    BY <2>2 DEF Cred, Credential, StateOK
  <2>4. /\ Replace(p, new, Live) /\ Goto(p, label)
        /\ save' = IF keep THEN [save EXCEPT ![p] = FileOf(new)] ELSE save
    BY <1>2 DEF Update, st
  <2> QED BY <1>2, <2>2, <2>3, <2>4
<1> QED BY <1>1, <1>2

\* What is written of a credential: its token and whether it is disabled.
LEMMA FileWritten ==
  ASSUME Kinds, NEW a \in Cred
  PROVE  /\ FileOf(a) \in FileState /\ FileOf(a).token = a.token
         /\ FileOf(a).disabled = a.state.disabled
BY DEF FileOf, FileState, Cred, Credential, StateOK, Auth

\* The store holds what was saved last, or refuses.
LEMMA Saved ==
  ASSUME Kinds, NEW f \in FileState, Save(f)
  PROVE  file' \in FileState \cup {NoAuth} /\ file' \in {f, file}
BY DEF Kinds, Save

\* A change under m.mu keeps the kind of the record.
LEMMA Changed ==
  ASSUME Kinds, live # NoAuth, NEW state, StateOK(state),
         live' = [live EXCEPT !.state = state]
  PROVE  live' \in Cred /\ live'.token = live.token /\ live'.state = state
BY DEF Kinds, Cred, Credential, StateOK

-----------------------------------------------------------------------------
(***************************************************************************)
(* What each variable and each goroutine can hold.                         *)
(***************************************************************************)
Persisting == {"refreshUpsert", "refreshPersist", "updateUpsert", "persist"}

\* A goroutine p goes to a label with o in its hands; the others keep theirs.
LEMMA Moved ==
  ASSUME Kinds, Holdings, NEW p \in Procs, NEW label, NEW o,
         pc' = [pc EXCEPT ![p] = label],
         p \in Callers => label \in CallerLabel,
         p = Service => label \in ServiceLabel,
         obj' \in [Procs -> Cred \cup {Live, NoAuth}], obj'[p] = o,
         \A q \in Procs \ {p} : /\ obj[q] \in Cred => obj'[q] \in Cred
                                /\ obj[q] # NoAuth => obj'[q] # NoAuth
                                /\ obj'[q] = Live => live' # NoAuth,
         o = Live => live' # NoAuth,
         label \in Writing => o \in Cred,
         label \in Syncing => o # NoAuth,
         tok' \in [Callers -> Nat \cup {NoAuth}],
         save' \in [Procs -> FileState \cup {NoAuth}],
         \A q \in Procs \ {p} : save'[q] = save[q],
         label \in Persisting => save'[p] \in FileState,
         p # Service => seen' = seen,
         p = Service /\ label \in Registering => seen' # NoAuth
  PROVE  Holdings'
<1>1. Service \in Procs /\ Service \notin Callers /\ \A c \in Callers : c \in Procs
  BY AuthManagerAssumption DEF Procs
<1>2. /\ pc' \in [Procs -> CallerLabel \cup ServiceLabel]
      /\ pc'[p] = label /\ \A q \in Procs \ {p} : pc'[q] = pc[q]
  BY <1>1 DEF Holdings, Procs
<1>3. (\A c \in Callers : pc'[c] \in CallerLabel) /\ pc'[Service] \in ServiceLabel
  BY <1>1, <1>2 DEF Holdings
<1>4. \A q \in Procs : /\ obj'[q] = Live => live' # NoAuth
                       /\ pc'[q] \in Writing => obj'[q] \in Cred
                       /\ pc'[q] \in Syncing => obj'[q] # NoAuth
  BY <1>2 DEF Holdings
<1>5. \A q \in Procs : pc'[q] \in Persisting => save'[q] \in FileState
  BY <1>2 DEF Holdings, Persisting
<1>6. pc'[Service] \in Registering => seen' # NoAuth
  BY <1>1, <1>2 DEF Holdings
<1> QED BY <1>2, <1>3, <1>4, <1>5, <1>6 DEF Holdings, Persisting

\* The same with the other goroutines' hands untouched.
LEMMA MovedAlone ==
  ASSUME Kinds, Holdings, NEW p \in Procs, NEW label, NEW o \in Cred \cup {Live, NoAuth},
         pc' = [pc EXCEPT ![p] = label],
         p \in Callers => label \in CallerLabel,
         p = Service => label \in ServiceLabel,
         obj' = [obj EXCEPT ![p] = o],
         live # NoAuth => live' # NoAuth,
         o = Live => live' # NoAuth,
         label \in Writing => o \in Cred,
         label \in Syncing => o # NoAuth,
         tok' \in [Callers -> Nat \cup {NoAuth}],
         save' \in [Procs -> FileState \cup {NoAuth}],
         \A q \in Procs \ {p} : save'[q] = save[q],
         label \in Persisting => save'[p] \in FileState,
         p # Service => seen' = seen,
         p = Service /\ label \in Registering => seen' # NoAuth
  PROVE  Holdings'
<1>1. obj' \in [Procs -> Cred \cup {Live, NoAuth}] /\ obj'[p] = o
  BY DEF Holdings
<1>2. \A q \in Procs \ {p} : obj'[q] = obj[q]
  BY DEF Holdings
<1>3. \A q \in Procs \ {p} : /\ obj[q] \in Cred => obj'[q] \in Cred
                             /\ obj[q] # NoAuth => obj'[q] # NoAuth
                             /\ obj'[q] = Live => live' # NoAuth
  BY <1>2 DEF Holdings
<1> QED BY <1>1, <1>3, Moved

\* Callers are not the service.
LEMMA CallerFacts ==
  ASSUME NEW c \in Callers
  PROVE  c \in Procs /\ c # Service
BY AuthManagerAssumption DEF Procs

\* What the label sets say of each label.
LEMMA Labels ==
  /\ \A l \in {"idle", "sync", "repick", "refresh", "rebuild"} :
       l \in CallerLabel /\ l \notin Writing /\ l \notin Syncing /\ l \notin Persisting
  /\ \A l \in {"refreshUpsert", "updateUpsert"} :
       l \in CallerLabel /\ l \notin Writing /\ l \in Syncing /\ l \in Persisting
  /\ \A l \in {"refreshPersist", "persist"} :
       l \in CallerLabel /\ l \notin Writing /\ l \notin Syncing /\ l \in Persisting
  /\ "upsert" \in CallerLabel /\ "upsert" \notin Writing /\ "upsert" \notin Persisting
  /\ "upsert" \in Syncing
  /\ \A l \in {"refreshing", "toggle"} :
       l \in CallerLabel /\ l \in Writing /\ l \notin Syncing /\ l \notin Persisting
  /\ \A l \in {"remove", "removeEntry", "idle"} :
       /\ l \in CallerLabel /\ l \in ServiceLabel /\ l \notin Registering
       /\ l \notin Writing /\ l \notin Syncing /\ l \notin Persisting
  /\ \A l \in {"register", "reconcile", "refreshEntry"} :
       /\ l \in ServiceLabel /\ l \in Registering
       /\ l \notin Writing /\ l \notin Syncing /\ l \notin Persisting
  /\ \A l \in {"registerUpsert", "reconcileUpsert", "entryUpsert"} :
       /\ l \in ServiceLabel /\ l \in Registering
       /\ l \notin Writing /\ l \in Syncing /\ l \notin Persisting
  /\ \A l \in {"take", "add", "update"} :
       /\ l \in ServiceLabel /\ l \in Registering
       /\ l \in Writing /\ l \notin Syncing /\ l \notin Persisting
BY DEF CallerLabel, ServiceLabel, Writing, Syncing, Persisting, Registering

\* MarkResult and a reset keep the types and the holdings.
LEMMA ChangeKinds ==
  ASSUME Kinds, Holdings, NEW c \in Callers, live # NoAuth, NEW state, StateOK(state),
         ChangeInPlace(c, state), env' = env
  PROVE  Kinds' /\ Holdings'
<1>1. live' \in Cred /\ live' # NoAuth
  BY Changed, Distinct DEF ChangeInPlace
<1>2. file' \in FileState \cup {NoAuth}
  <2>1. FileOf(live) \in FileState
    BY FileWritten DEF Kinds
  <2> QED BY <2>1, Saved DEF ChangeInPlace
<1>3. Kinds'
  BY <1>1, <1>2 DEF Kinds, ChangeInPlace, SchedOK, NoEntries
<1>4. Holdings'
  BY <1>1, CallerFacts, Labels, MovedAlone DEF ChangeInPlace, Goto, Holdings
<1> QED BY <1>3, <1>4

\* So does a pick.
LEMMA PickKinds ==
  ASSUME Kinds, Holdings, NEW c \in Callers, NEW m \in Models,
         NEW failed \in {"idle", "sync"}, pc[c] \in {"idle", "repick"},
         PickFrom(c, m, ensureModelLocked(sched, m), failed), env' = env
  PROVE  Kinds' /\ Holdings'
<1>1. /\ sched' = ensureModelLocked(sched, m)
      /\ SchedOK(sched', live)
      /\ Ready(sched', m) => Deref(sched'.meta) \in Cred
  BY Ensured DEF PickFrom, Kinds
<1>2. held' \in SUBSET Nat
  BY <1>1 DEF PickFrom, Kinds, Cred, Credential
<1>3. Kinds'
  BY <1>1, <1>2 DEF PickFrom, Kinds
<1>4. \E label \in {"idle", "sync"} : pc' = [pc EXCEPT ![c] = label]
  BY DEF PickFrom, Goto
<1>5. obj' = [obj EXCEPT ![c] = obj[c]]
  BY CallerFacts DEF PickFrom, Holdings
<1>6. Holdings'
  <2> PICK label \in {"idle", "sync"} : pc' = [pc EXCEPT ![c] = label]
    BY <1>4
  <2>1. c \in Procs /\ obj[c] \in Cred \cup {Live, NoAuth} /\ obj[c] = Live => live # NoAuth
    BY CallerFacts DEF Holdings
  <2> QED BY <1>5, <2>1, CallerFacts, Labels, MovedAlone DEF PickFrom, Holdings
<1> QED BY <1>3, <1>6

\* So does the scheduler's upsert after a change.
LEMMA UpsertKinds ==
  ASSUME Kinds, Holdings, NEW p \in Procs, NEW from, NEW to, Upsert(p, from, to), env' = env,
         <<from, to>> \in {<<"upsert", "idle">>, <<"refreshUpsert", "refreshPersist">>,
                           <<"updateUpsert", "persist">>, <<"registerUpsert", "register">>,
                           <<"reconcileUpsert", "refreshEntry">>, <<"entryUpsert", "idle">>},
         p \in Callers => to \in {"idle", "refreshPersist", "persist"},
         p = Service => to \in {"register", "refreshEntry", "idle"}
  PROVE  Kinds' /\ Holdings'
<1>1. from \in Syncing /\ pc[p] = from
  BY Labels DEF Upsert
<1>2. /\ obj[p] \in Cred \cup {Live}
      /\ obj[p] = Live => live # NoAuth
  BY <1>1 DEF Holdings
<1>3. SchedOK(sched', live)
  <2>1. /\ SchedOK(sched, live) /\ live \in Cred \cup {NoAuth}
        /\ registered \in SUBSET Models /\ now \in Nat
        /\ sched' = upsertAuthLocked(sched, obj[p])
    BY DEF Upsert, Kinds
  <2> QED BY <1>2, <2>1, Upserted
<1>4. Kinds'
  BY <1>3 DEF Upsert, Kinds
<1>5. to \in Persisting => save[p] \in FileState
  BY <1>1 DEF Holdings, Persisting
<1>6. p = Service => seen # NoAuth
  <2>1. p = Service => from \in {"registerUpsert", "reconcileUpsert", "entryUpsert"}
    BY <1>1 DEF Holdings, ServiceLabel
  <2> QED BY <1>1, <2>1, Labels DEF Holdings
<1>7. /\ p \in Callers => to \in CallerLabel
      /\ p = Service => to \in ServiceLabel
      /\ to \notin Writing /\ to \notin Syncing
  BY Labels
<1>8. /\ obj' = [obj EXCEPT ![p] = NoAuth] /\ pc' = [pc EXCEPT ![p] = to]
      /\ live' = live /\ seen' = seen /\ save' = save
      /\ tok' \in [Callers -> Nat \cup {NoAuth}]
      /\ save' \in [Procs -> FileState \cup {NoAuth}]
  BY DEF Upsert, Goto, Holdings
<1>9. NoAuth \in Cred \cup {Live, NoAuth} /\ NoAuth # Live
  BY Distinct
<1>10. Holdings'
  BY <1>5, <1>6, <1>7, <1>8, <1>9, MovedAlone
<1> QED BY <1>4, <1>10

\* So does a rebuild of the scheduler.
LEMMA RebuildKinds ==
  ASSUME Kinds, Holdings, NEW c \in Callers, syncSnapshot(c) \/ rebuild(c), env' = env
  PROVE  Kinds' /\ Holdings'
<1>1. c \in Procs /\ c # Service
  BY CallerFacts
<1>2. CASE syncSnapshot(c)
  <2>1. Kinds'
    BY <1>2 DEF syncSnapshot, Kinds
  <2>2. live \in Cred \cup {Live, NoAuth} /\ live # Live
    BY Distinct DEF Kinds
  <2>3. Holdings'
    BY <1>1, <1>2, <2>2, Labels, MovedAlone DEF syncSnapshot, Goto, Holdings
  <2> QED BY <2>1, <2>3
<1>3. CASE rebuild(c)
  <2>1. obj[c] \in Cred \cup {Live, NoAuth} /\ (obj[c] = Live => live # NoAuth)
    BY <1>1 DEF Holdings
  <2>2. SchedOK(sched', live)
    BY <1>3, <2>1, RebuiltOK DEF rebuild, Kinds
  <2>3. Kinds'
    BY <1>3, <2>2 DEF rebuild, Kinds
  <2>4. Holdings'
    BY <1>1, <1>3, Labels, Distinct, MovedAlone DEF rebuild, Goto, Holdings
  <2> QED BY <2>3, <2>4
<1> QED BY <1>2, <1>3

\* An Update whose copy is a record.
LEMMA UpdateKinds ==
  ASSUME Kinds, Holdings, NEW p \in Procs, NEW a \in Cred, NEW label, NEW missing,
         NEW keep \in BOOLEAN, Update(p, a, label, missing, keep),
         \/ p \in Callers /\ keep /\ label \in {"refreshUpsert", "updateUpsert"}
            /\ missing = "idle"
         \/ p = Service /\ ~keep /\ pc[p] = "update" /\ label = "registerUpsert"
            /\ missing = "register",
         tok' \in [Callers -> Nat \cup {NoAuth}], held' \in SUBSET Nat,
         UNCHANGED <<env, registered, file, seen, now, revoked>>
  PROVE  Kinds' /\ Holdings'
<1>1. p = Service => seen # NoAuth
  BY Labels, CallerFacts DEF Holdings
<1>2. CASE /\ live = NoAuth /\ obj' = [obj EXCEPT ![p] = NoAuth]
           /\ Goto(p, missing) /\ UNCHANGED <<live, sched, save>>
  <2>1. Kinds'
    BY <1>2 DEF Kinds
  <2>2. /\ p \in Callers => missing \in CallerLabel
        /\ p = Service => missing \in ServiceLabel
        /\ missing \notin Writing /\ missing \notin Syncing /\ missing \notin Persisting
    BY Labels, CallerFacts
  <2>3. Holdings'
    BY <1>1, <1>2, <2>2, Distinct, MovedAlone DEF Goto, Holdings
  <2> QED BY <2>1, <2>3
<1>3. ASSUME live # NoAuth, Goto(p, label), NEW new \in Cred, Replace(p, new, Live),
             save' = IF keep THEN [save EXCEPT ![p] = FileOf(new)] ELSE save
      PROVE  Kinds' /\ Holdings'
  <2>1. new # NoAuth
    BY Distinct
  <2>2. /\ live' = new /\ SchedOK(sched', live')
        /\ obj' \in [Procs -> Cred \cup {Live, NoAuth}] /\ obj'[p] = Live
        /\ \A q \in Procs \ {p} : /\ obj'[q] # Live
                                  /\ obj[q] \in Cred => obj'[q] = obj[q]
                                  /\ obj[q] # NoAuth => obj'[q] \in Cred
    BY <1>3, <2>1, Replaced
  <2>3. Kinds'
    BY <2>2 DEF Kinds
  <2>4. FileOf(new) \in FileState
    BY FileWritten
  <2>5. /\ save' \in [Procs -> FileState \cup {NoAuth}]
        /\ \A q \in Procs \ {p} : save'[q] = save[q]
        /\ keep => save'[p] \in FileState
    BY <1>3, <2>4 DEF Holdings
  <2>6. /\ p \in Callers => label \in CallerLabel
        /\ p = Service => label \in ServiceLabel
        /\ label \notin Writing
        /\ label \in Persisting => keep
    BY Labels, CallerFacts
  <2>7. \A q \in Procs \ {p} : /\ obj[q] \in Cred => obj'[q] \in Cred
                               /\ obj[q] # NoAuth => obj'[q] # NoAuth
                               /\ obj'[q] = Live => live' # NoAuth
    BY <2>2, Distinct
  <2>8. pc' = [pc EXCEPT ![p] = label] /\ live' # NoAuth /\ seen' = seen
    BY <1>3, <2>1, <2>2 DEF Goto
  <2>9. Holdings'
    BY <1>1, <2>2, <2>5, <2>6, <2>7, <2>8, Distinct, Moved
  <2> QED BY <2>3, <2>9
<1> QED BY <1>2, <1>3, Updated

\* So does the write to the store.
LEMMA PersistKinds ==
  ASSUME Kinds, Holdings, NEW c \in Callers, NEW from \in {"refreshPersist", "persist"},
         PersistUpdate(c, from), env' = env
  PROVE  Kinds' /\ Holdings'
<1>1. c \in Procs /\ c # Service
  BY CallerFacts
<1>2. save[c] \in FileState
  BY <1>1 DEF PersistUpdate, Holdings
<1>3. file' \in FileState \cup {NoAuth}
  BY <1>2, Saved DEF PersistUpdate
<1>4. Kinds'
  BY <1>3 DEF PersistUpdate, Kinds
<1>5. /\ obj' = [obj EXCEPT ![c] = obj[c]] /\ pc' = [pc EXCEPT ![c] = "idle"]
      /\ obj[c] \in Cred \cup {Live, NoAuth} /\ (obj[c] = Live => live # NoAuth)
      /\ save' \in [Procs -> FileState \cup {NoAuth}]
      /\ \A q \in Procs \ {c} : save'[q] = save[q]
      /\ live' = live /\ seen' = seen /\ tok' = tok
  BY <1>1 DEF PersistUpdate, Goto, Holdings
<1>6. Holdings'
  BY <1>1, <1>5, Labels, MovedAlone DEF Holdings
<1> QED BY <1>4, <1>6

\* The record a refresh writes.
LEMMA RefreshCopied ==
  ASSUME Kinds, Holdings, NEW c \in Callers, RefreshUpdate(c)
  PROVE  LET a == [token |-> obj[c].token + 1, state |-> RefreshedOf(obj[c].state, now)] IN
           /\ a \in Cred /\ a.token \in Nat
           /\ obj[c] \in Cred /\ a.state.disabled = obj[c].state.disabled
<1> DEFINE a == [token |-> obj[c].token + 1, state |-> RefreshedOf(obj[c].state, now)]
<1>1. obj[c] \in Cred /\ now \in Nat
  BY CallerFacts, Labels DEF RefreshUpdate, Holdings, Kinds
<1>2. StateOK(obj[c].state) /\ obj[c].token \in Nat
  BY <1>1 DEF Cred, Credential
<1>3. /\ StateOK(RefreshedOf(obj[c].state, now))
      /\ RefreshedOf(obj[c].state, now).disabled = obj[c].state.disabled
  BY <1>1, <1>2, StateReset
<1> QED BY <1>1, <1>2, <1>3 DEF Cred, Credential, StateOK

\* A refresh keeps the types and the holdings.
LEMMA RefreshKinds ==
  ASSUME Kinds, Holdings, NEW c \in Callers, Refresh(c), env' = env
  PROVE  Kinds' /\ Holdings'
<1>1. c \in Procs /\ c # Service
  BY CallerFacts
<1>2. CASE RefreshAsked(c)
  <2>1. Kinds'
    BY <1>2 DEF RefreshAsked, Kinds
  <2>2. tok' \in [Callers -> Nat \cup {NoAuth}]
    BY <1>2 DEF RefreshAsked, Kinds, Holdings
  <2>3. obj' = [obj EXCEPT ![c] = obj[c]] /\ obj[c] \in Cred \cup {Live, NoAuth}
        /\ (obj[c] = Live => live # NoAuth)
    BY <1>1, <1>2 DEF RefreshAsked, Holdings
  <2>4. Holdings'
    BY <1>1, <1>2, <2>2, <2>3, Labels, MovedAlone DEF RefreshAsked, Goto, Holdings
  <2> QED BY <2>1, <2>4
<1>3. CASE RefreshBegin(c)
  <2>1. Kinds'
    BY <1>3 DEF RefreshBegin, Kinds, Cred, Credential
  <2>2. \E label \in {"refreshing", "idle"}, o \in Cred \cup {NoAuth} :
          /\ pc' = [pc EXCEPT ![c] = label] /\ obj' = [obj EXCEPT ![c] = o]
          /\ label = "refreshing" => o \in Cred
    BY <1>3 DEF RefreshBegin, Goto, Kinds
  <2>3. tok' \in [Callers -> Nat \cup {NoAuth}]
    BY <1>3 DEF RefreshBegin, Holdings
  <2>4. Holdings'
    <3> PICK label \in {"refreshing", "idle"}, o \in Cred \cup {NoAuth} :
          /\ pc' = [pc EXCEPT ![c] = label] /\ obj' = [obj EXCEPT ![c] = o]
          /\ label = "refreshing" => o \in Cred
      BY <2>2
    <3>1. /\ label \in CallerLabel /\ label \notin Syncing /\ label \notin Persisting
          /\ label \in Writing => o \in Cred
      BY Labels
    <3>2. o \in Cred \cup {Live, NoAuth} /\ o # Live
      BY Distinct
    <3>3. live' = live /\ seen' = seen /\ save' = save
      BY <1>3 DEF RefreshBegin
    <3> QED BY <1>1, <2>3, <3>1, <3>2, <3>3, MovedAlone DEF Holdings
  <2> QED BY <2>1, <2>4
<1>4. CASE RefreshFails(c)
  <2>1. /\ live' \in Cred \cup {NoAuth} /\ SchedOK(sched', live')
        /\ live # NoAuth => live' # NoAuth
    <3>1. CASE UNCHANGED <<live, sched>>
      BY <3>1 DEF Kinds
    <3>2. ASSUME NEW error \in {"unauthorized", "other"}, live # NoAuth,
                 live' = [live EXCEPT
                   !.state.lastError = error,
                   !.state.unavailable = @ \/ error = "unauthorized",
                   !.state.status = IF error = "unauthorized" THEN "error" ELSE @],
                 sched' = upsertAuthLocked(sched, live')
          PROVE  live' \in Cred /\ SchedOK(sched', live')
      <4>1. live' \in Cred
        BY <3>2 DEF Kinds, Cred, Credential, StateOK, Auth, ErrorKind
      <4>2. live' # Live
        BY <4>1, Distinct
      <4>3. SchedOK(sched, live) /\ live \in Cred \cup {NoAuth} /\ now \in Nat
            /\ registered \in SUBSET Models
        BY DEF Kinds
      <4> DEFINE x == live'
      <4> HIDE DEF x
      <4>4. x \in Cred \cup {Live} /\ x # Live
        BY <4>1, <4>2 DEF x
      <4>5. SchedOK(upsertAuthLocked(sched, x), x)
        BY <4>3, <4>4, Upserted
      <4> QED BY <3>2, <4>1, <4>5 DEF x
    <3> QED BY <1>4, <3>1, <3>2, Distinct DEF RefreshFails
  <2>2. Kinds'
    BY <1>4, <2>1 DEF RefreshFails, Kinds
  <2>3. /\ obj' = [obj EXCEPT ![c] = NoAuth] /\ pc' = [pc EXCEPT ![c] = "idle"]
        /\ tok' \in [Callers -> Nat \cup {NoAuth}] /\ save' = save /\ seen' = seen
    BY <1>4 DEF RefreshFails, Goto, Holdings
  <2>4. Holdings'
    BY <1>1, <2>1, <2>3, Labels, Distinct, MovedAlone DEF Holdings
  <2> QED BY <2>2, <2>4
<1>5. CASE RefreshUpdate(c)
  <2> DEFINE a == [token |-> obj[c].token + 1, state |-> RefreshedOf(obj[c].state, now)]
  <2>1. a \in Cred /\ a.token \in Nat
    BY <1>5, RefreshCopied
  <2>2. /\ Update(c, a, "refreshUpsert", "idle", TRUE)
        /\ tok' \in [Callers -> Nat \cup {NoAuth}]
        /\ UNCHANGED <<env, registered, file, seen, now, revoked>>
    BY <1>5 DEF RefreshUpdate, Holdings
  <2>3. held' \in SUBSET Nat
    BY <1>5, <2>1 DEF RefreshUpdate, Kinds
  <2> HIDE DEF a
  <2> QED BY <1>1, <2>1, <2>2, <2>3, UpdateKinds
<1>6. CASE Upsert(c, "refreshUpsert", "refreshPersist")
  BY <1>1, <1>6, UpsertKinds
<1>7. CASE PersistUpdate(c, "refreshPersist")
  BY <1>7, PersistKinds
<1> QED BY <1>2, <1>3, <1>4, <1>5, <1>6, <1>7 DEF Refresh

\* So does a removal.
LEMMA RemoveKinds ==
  ASSUME Kinds, Holdings, NEW p \in Procs, RemoveRecord(p) \/ RemoveEntry(p), env' = env
  PROVE  Kinds' /\ Holdings'
<1>1. obj[p] \in Cred \cup {Live, NoAuth} /\ (obj[p] = Live => live # NoAuth)
  BY DEF Holdings
<1>2. CASE RemoveEntry(p)
  <2>1. SchedOK(sched', live)
    BY <1>2, Removed DEF RemoveEntry, Kinds
  <2>2. Kinds'
    BY <1>2, <2>1 DEF RemoveEntry, Kinds
  <2>3. /\ obj' = [obj EXCEPT ![p] = obj[p]] /\ pc' = [pc EXCEPT ![p] = "idle"]
        /\ UNCHANGED <<live, seen, tok, save>>
    BY <1>2 DEF RemoveEntry, Goto, Holdings
  <2>4. Holdings'
    BY <1>1, <2>3, Labels, MovedAlone DEF Holdings
  <2> QED BY <2>2, <2>4
<1>3. CASE RemoveRecord(p) /\ live = NoAuth
  <2>1. Kinds'
    BY <1>3 DEF RemoveRecord, Kinds
  <2>2. /\ obj' = [obj EXCEPT ![p] = obj[p]] /\ pc' = [pc EXCEPT ![p] = "idle"]
        /\ UNCHANGED <<live, seen, tok, save>>
    BY <1>3 DEF RemoveRecord, Goto, Holdings
  <2>3. Holdings'
    BY <1>1, <2>2, Labels, MovedAlone DEF Holdings
  <2> QED BY <2>1, <2>3
<1>4. CASE RemoveRecord(p) /\ live # NoAuth
  <2>1. /\ Replace(p, NoAuth, NoAuth) /\ pc' = [pc EXCEPT ![p] = "removeEntry"]
        /\ UNCHANGED <<registered, file, seen, now, revoked, held, tok, save>>
    BY <1>4 DEF RemoveRecord, Goto
  <2>2. /\ live' = NoAuth /\ SchedOK(sched', live')
        /\ obj' \in [Procs -> Cred \cup {Live, NoAuth}] /\ obj'[p] = NoAuth
        /\ \A q \in Procs \ {p} : /\ obj'[q] # Live
                                  /\ obj[q] \in Cred => obj'[q] = obj[q]
                                  /\ obj[q] # NoAuth => obj'[q] \in Cred
    BY <2>1, Distinct, Replaced
  <2>3. Kinds'
    BY <2>1, <2>2 DEF Kinds
  <2>4. \A q \in Procs \ {p} : /\ obj[q] \in Cred => obj'[q] \in Cred
                               /\ obj[q] # NoAuth => obj'[q] # NoAuth
                               /\ obj'[q] = Live => live' # NoAuth
    BY <2>2, Distinct
  <2>5. Holdings'
    BY <2>1, <2>2, <2>4, Labels, Distinct, Moved DEF Holdings
  <2> QED BY <2>3, <2>5
<1> QED BY <1>2, <1>3, <1>4

\* A copy with the flag flipped.
Toggled(a) ==
  [a EXCEPT !.state.disabled = ~a.state.disabled,
            !.state.status = IF ~a.state.disabled THEN "disabled" ELSE "active"]

\* A toggle keeps the token.
LEMMA ToggleCopied ==
  ASSUME NEW a \in Cred
  PROVE  Toggled(a) \in Cred /\ Toggled(a).token = a.token
BY DEF Toggled, Cred, Credential, StateOK, Auth

\* The operator's calls keep the types and the holdings.
LEMMA ManageKinds ==
  ASSUME Kinds, Holdings, NEW c \in Callers, Manage(c), env' = env
  PROVE  Kinds' /\ Holdings'
<1>1. c \in Procs /\ c # Service
  BY CallerFacts
<1>2. CASE ToggleRead(c)
  <2>1. Kinds'
    BY <1>2 DEF ToggleRead, Kinds
  <2>2. live \in Cred
    BY <1>2 DEF ToggleRead, Kinds
  <2>3. Holdings'
    BY <1>1, <1>2, <2>2, Labels, Distinct, MovedAlone DEF ToggleRead, Goto, Holdings
  <2> QED BY <2>1, <2>3
<1>3. CASE ToggleUpdate(c)
  <2>1. obj[c] \in Cred
    BY <1>1, <1>3, Labels DEF ToggleUpdate, Holdings
  <2>2. Toggled(obj[c]) \in Cred
    BY <2>1, ToggleCopied
  <2>3. /\ Update(c, Toggled(obj[c]), "updateUpsert", "idle", TRUE)
        /\ tok' \in [Callers -> Nat \cup {NoAuth}] /\ held' \in SUBSET Nat
        /\ UNCHANGED <<env, registered, file, seen, now, revoked>>
    BY <1>3 DEF ToggleUpdate, Toggled, Holdings, Kinds
  <2> QED BY <1>1, <2>2, <2>3, UpdateKinds
<1>4. CASE Upsert(c, "updateUpsert", "persist")
  BY <1>1, <1>4, UpsertKinds
<1>5. CASE PersistUpdate(c, "persist")
  BY <1>5, PersistKinds
<1>6. CASE ResetQuota(c)
  <2> DEFINE st == ResetQuotaOf(live.state, now)
  <2>1. StateOK(live.state) /\ now \in Nat /\ live \in Cred
    BY <1>6 DEF ResetQuota, Kinds, Cred
  <2>2. StateOK(st)
    BY <2>1, StateReset
  <2>3. live' = [live EXCEPT !.state = st] /\ live # NoAuth
    BY <1>6 DEF ResetQuota
  <2> HIDE DEF st
  <2>4. live' \in Cred /\ live' # NoAuth /\ live' # Live
    BY <2>2, <2>3, Changed, Distinct
  <2>5. file' \in FileState \cup {NoAuth}
    <3>1. FileOf(live) \in FileState
      BY <2>1, FileWritten
    <3> QED BY <1>6, <3>1, Saved DEF ResetQuota, Kinds
  <2>6. Kinds'
    BY <1>6, <2>4, <2>5 DEF ResetQuota, Kinds, SchedOK, NoEntries
  <2>7. /\ UNCHANGED <<seen, tok, save>>
        /\ \/ pc' = [pc EXCEPT ![c] = "upsert"] /\ obj' = [obj EXCEPT ![c] = live']
           \/ pc' = pc /\ obj' = obj
    BY <1>6 DEF ResetQuota, Goto
  <2>8. CASE pc' = [pc EXCEPT ![c] = "upsert"] /\ obj' = [obj EXCEPT ![c] = live']
    <3>1. Holdings'
      BY <1>1, <2>4, <2>7, <2>8, Labels, MovedAlone DEF Holdings
    <3> QED BY <2>6, <3>1
  <2>9. CASE pc' = pc /\ obj' = obj
    <3>1. Holdings'
      BY <2>4, <2>7, <2>9 DEF Holdings
    <3> QED BY <2>6, <3>1
  <2> QED BY <2>7, <2>8, <2>9
<1>7. CASE DeleteFile(c)
  <2>1. Kinds'
    BY <1>7 DEF DeleteFile, Kinds
  <2>2. /\ obj' = [obj EXCEPT ![c] = obj[c]] /\ pc' = [pc EXCEPT ![c] = "remove"]
        /\ obj[c] \in Cred \cup {Live, NoAuth} /\ (obj[c] = Live => live # NoAuth)
        /\ UNCHANGED <<live, seen, tok, save>>
    BY <1>1, <1>7 DEF DeleteFile, Goto, Holdings
  <2>3. Holdings'
    BY <1>1, <2>2, Labels, MovedAlone DEF Holdings
  <2> QED BY <2>1, <2>3
<1>8. CASE RemoveRecord(c) \/ RemoveEntry(c)
  BY <1>1, <1>8, RemoveKinds
<1> QED BY <1>2, <1>3, <1>4, <1>5, <1>6, <1>7, <1>8 DEF Manage

\* A record synthesised from a file.
LEMMA ReadFromFile ==
  ASSUME NEW f \in FileState
  PROVE  /\ FromFile(f) \in Cred /\ FromFile(f).token = f.token
         /\ FromFile(f).state.disabled = f.disabled
<1>1. FreshAuth \in Auth
  <2>1. CP!FreshAuth \in CP!Auth
    BY CooldownAssumptions, CP!FreshLive DEF CP!Live
  <2> QED BY <2>1, SameStates
<1> QED BY <1>1 DEF FromFile, FileState, Cred, Credential, StateOK, Auth

\* What the service reads: the file's token and flag.
LEMMA ServiceCopied ==
  ASSUME Kinds, Holdings, ServiceRead
  PROVE  \E a \in Cred : /\ obj' = [obj EXCEPT ![Service] = a]
                         /\ a.token = file.token /\ a.state.disabled = file.disabled
<1>1. file \in FileState
  BY DEF ServiceRead, Kinds
<1> QED BY <1>1, ReadFromFile DEF ServiceRead

\* What it takes: the same record, with the model states of the one it finds.
LEMMA ServiceTaken ==
  ASSUME Kinds, Holdings, ServiceTake
  PROVE  \E a \in Cred : /\ obj' = [obj EXCEPT ![Service] = a]
                         /\ a.token = obj[Service].token
                         /\ a.state.disabled = obj[Service].state.disabled
<1> DEFINE a == obj[Service]
           both == live # NoAuth /\ ~IsDisabled(a.state) /\ ~IsDisabled(live.state)
           b == [a EXCEPT !.state.models = live.state.models]
<1>1. a \in Cred
  BY Labels DEF ServiceTake, Holdings, Procs
<1>2. ASSUME live # NoAuth
      PROVE  b \in Cred /\ b.token = a.token /\ b.state.disabled = a.state.disabled
  <2>1. live.state.models \in [Models -> ModelState]
    BY <1>2 DEF Kinds, Cred, Credential, StateOK, Auth
  <2> HIDE DEF a
  <2> QED BY <1>1, <2>1 DEF Cred, Credential, StateOK, Auth
<1>3. obj' = [obj EXCEPT ![Service] = IF both THEN b ELSE a]
  BY DEF ServiceTake
<1>4. both => live # NoAuth
  OBVIOUS
<1> HIDE DEF both, b
<1> QED BY <1>1, <1>2, <1>3, <1>4 DEF a

\* The service's application of an update keeps the types and the holdings.
LEMMA ServeKinds ==
  ASSUME Kinds, Holdings, Serve, env' = env
  PROVE  Kinds' /\ Holdings'
<1>1. Service \in Procs /\ Service \notin Callers
  BY AuthManagerAssumption DEF Procs
<1> DEFINE p == Service
<1>2. /\ obj[p] \in Cred \cup {Live, NoAuth} /\ (obj[p] = Live => live # NoAuth)
      /\ pc[p] \in Registering => seen # NoAuth
      /\ pc[p] \in Writing => obj[p] \in Cred
      /\ obj = [obj EXCEPT ![p] = obj[p]]
      /\ tok \in [Callers -> Nat \cup {NoAuth}]
      /\ save \in [Procs -> FileState \cup {NoAuth}]
  BY <1>1 DEF Holdings
<1>3. CASE ServiceRead
  <2>1. Kinds'
    BY <1>3 DEF ServiceRead, Kinds
  <2> PICK a \in Cred : obj' = [obj EXCEPT ![p] = a]
    BY <1>3, ServiceCopied
  <2>2. /\ pc' = [pc EXCEPT ![p] = "take"]
        /\ seen' # NoAuth /\ UNCHANGED <<live, tok, save>>
    BY <1>3 DEF ServiceRead, Goto
  <2>3. Holdings'
    BY <1>1, <1>2, <2>2, Labels, Distinct, MovedAlone
  <2> QED BY <2>1, <2>3
<1>14. CASE ServiceTake
  <2>1. Kinds'
    BY <1>14 DEF ServiceTake, Kinds
  <2> PICK a \in Cred : obj' = [obj EXCEPT ![p] = a]
    BY <1>14, ServiceTaken
  <2> PICK label \in {"add", "update"} : pc' = [pc EXCEPT ![p] = label]
    BY <1>14 DEF ServiceTake, Goto
  <2>2. seen # NoAuth /\ UNCHANGED <<live, seen, tok, save>>
    BY <1>2, <1>14, Labels DEF ServiceTake
  <2>3. Holdings'
    BY <1>1, <1>2, <2>2, Labels, Distinct, MovedAlone
  <2> QED BY <2>1, <2>3
<1>4. CASE ServiceUpdate
  <2>1. obj[p] \in Cred
    BY <1>2, <1>4, Labels DEF ServiceUpdate
  <2>2. /\ Update(p, obj[p], "registerUpsert", "register", FALSE) /\ pc[p] = "update"
        /\ UNCHANGED <<env, registered, file, seen, now, revoked, held, tok>>
    BY <1>4 DEF ServiceUpdate
  <2>3. held' \in SUBSET Nat
    BY <2>2 DEF Kinds
  <2> QED BY <1>1, <1>2, <2>1, <2>2, <2>3, UpdateKinds
<1>5. CASE ServiceAdd
  <2>1. obj[p] \in Cred /\ seen # NoAuth
    BY <1>2, <1>5, Labels DEF ServiceAdd
  <2>2. /\ Replace(p, obj[p], Live) /\ pc' = [pc EXCEPT ![p] = "registerUpsert"]
        /\ UNCHANGED <<registered, file, seen, now, revoked, held, tok, save>>
    BY <1>5 DEF ServiceAdd, Goto
  <2>3. /\ live' = obj[p] /\ SchedOK(sched', live')
        /\ obj' \in [Procs -> Cred \cup {Live, NoAuth}] /\ obj'[p] = Live
        /\ \A q \in Procs \ {p} : /\ obj'[q] # Live
                                  /\ obj[q] \in Cred => obj'[q] = obj[q]
                                  /\ obj[q] # NoAuth => obj'[q] \in Cred
    BY <1>1, <2>1, <2>2, Distinct, Replaced
  <2>4. Kinds'
    BY <2>1, <2>2, <2>3 DEF Kinds
  <2>5. \A q \in Procs \ {p} : /\ obj[q] \in Cred => obj'[q] \in Cred
                               /\ obj[q] # NoAuth => obj'[q] # NoAuth
                               /\ obj'[q] = Live => live' # NoAuth
    BY <2>3, Distinct
  <2>6. live' # NoAuth
    BY <2>1, <2>3, Distinct
  <2>7. Holdings'
    BY <1>1, <1>2, <2>1, <2>2, <2>3, <2>5, <2>6, Labels, Distinct, Moved
  <2> QED BY <2>4, <2>7
<1>6. CASE Upsert(Service, "registerUpsert", "register")
  BY <1>1, <1>6, UpsertKinds
<1>7. CASE registerModelsForAuth
  <2>1. Kinds'
    BY <1>7 DEF registerModelsForAuth, Kinds
  <2>2. /\ obj' = [obj EXCEPT ![p] = obj[p]] /\ pc' = [pc EXCEPT ![p] = "reconcile"]
        /\ seen' # NoAuth /\ UNCHANGED <<live, tok, save>>
    BY <1>2, <1>7, Labels DEF registerModelsForAuth, Goto
  <2>3. Holdings'
    BY <1>1, <1>2, <2>2, Labels, MovedAlone
  <2> QED BY <2>1, <2>3
<1>8. CASE ReconcileRegistryModelStates
  <2> DEFINE new == ReconcileOf(live.state, registered, now)
  <2>1. seen # NoAuth
    BY <1>2, <1>8, Labels DEF ReconcileRegistryModelStates
  <2>2. CASE live # NoAuth /\ new # live.state
    <3>1. /\ live' = [live EXCEPT !.state = new] /\ obj' = [obj EXCEPT ![p] = live']
          /\ pc' = [pc EXCEPT ![p] = "reconcileUpsert"]
          /\ UNCHANGED <<sched, registered, file, seen, now, revoked, held, tok, save>>
      BY <1>8, <2>2 DEF ReconcileRegistryModelStates, Goto
    <3>2. StateOK(live.state) /\ now \in Nat /\ now # 0 /\ registered \in SUBSET Models
      BY <2>2 DEF Kinds, Cred
    <3>3. StateOK(new)
      BY <3>2, StateReconciled
    <3> HIDE DEF new
    <3>4. live' \in Cred /\ live' # NoAuth /\ live' # Live
      BY <2>2, <3>1, <3>3, Changed, Distinct
    <3>5. Kinds'
      BY <3>1, <3>4 DEF Kinds, SchedOK, NoEntries
    <3>6. Holdings'
      BY <1>1, <1>2, <2>1, <3>1, <3>4, Labels, MovedAlone
    <3> QED BY <3>5, <3>6
  <2>3. CASE ~(live # NoAuth /\ new # live.state)
    <3>1. /\ obj' = [obj EXCEPT ![p] = obj[p]] /\ pc' = [pc EXCEPT ![p] = "refreshEntry"]
          /\ UNCHANGED <<live, sched, registered, file, seen, now, revoked, held, tok, save>>
      BY <1>2, <1>8, <2>3 DEF ReconcileRegistryModelStates, Goto
    <3>2. Kinds'
      BY <3>1 DEF Kinds
    <3>3. Holdings'
      BY <1>1, <1>2, <2>1, <3>1, Labels, MovedAlone
    <3> QED BY <3>2, <3>3
  <2> QED BY <2>2, <2>3
<1>9. CASE Upsert(Service, "reconcileUpsert", "refreshEntry")
  BY <1>1, <1>9, UpsertKinds
<1>10. CASE RefreshSchedulerEntry
  <2>1. Kinds'
    BY <1>10 DEF RefreshSchedulerEntry, Kinds
  <2>2. /\ seen # NoAuth /\ UNCHANGED <<live, seen, tok, save>>
        /\ obj' = [obj EXCEPT ![p] = live]
        /\ live \in Cred \cup {Live, NoAuth} /\ live # Live
    BY <1>2, <1>10, Labels, Distinct DEF RefreshSchedulerEntry, Kinds
  <2>3. CASE live = NoAuth
    <3>1. pc' = [pc EXCEPT ![p] = "idle"]
      BY <1>10, <2>3 DEF RefreshSchedulerEntry, Goto
    <3> QED BY <1>1, <1>2, <2>1, <2>2, <3>1, Labels, MovedAlone
  <2>4. CASE live # NoAuth
    <3>1. pc' = [pc EXCEPT ![p] = "entryUpsert"]
      BY <1>10, <2>4 DEF RefreshSchedulerEntry, Goto
    <3> QED BY <1>1, <1>2, <2>1, <2>2, <2>4, <3>1, Labels, MovedAlone
  <2> QED BY <2>3, <2>4
<1>11. CASE Upsert(Service, "entryUpsert", "idle")
  BY <1>1, <1>11, UpsertKinds
<1>12. CASE ServiceRemove
  <2>1. Kinds'
    BY <1>12 DEF ServiceRemove, Kinds
  <2>2. /\ obj' = [obj EXCEPT ![p] = obj[p]] /\ pc' = [pc EXCEPT ![p] = "remove"]
        /\ UNCHANGED <<live, tok, save>>
    BY <1>2, <1>12 DEF ServiceRemove, Goto
  <2>3. Holdings'
    BY <1>1, <1>2, <2>2, Labels, MovedAlone
  <2> QED BY <2>1, <2>3
<1>13. CASE RemoveRecord(Service) \/ RemoveEntry(Service)
  BY <1>1, <1>13, RemoveKinds
<1> QED BY <1>3, <1>4, <1>5, <1>6, <1>7, <1>8, <1>9, <1>10, <1>11, <1>12, <1>13, <1>14 DEF Serve

\* So does every step of a request.
LEMMA RequestKinds ==
  ASSUME Kinds, Holdings, NEW c \in Callers, Request(c), env' = env
  PROVE  Kinds' /\ Holdings'
<1>1. c \in Procs
  BY CallerFacts
<1>2. ASSUME NEW m \in Models, MarkResultSuccess(c, m)
      PROVE  Kinds' /\ Holdings'
  <2>1. StateOK(live.state) /\ now \in Nat /\ now # 0 /\ live # NoAuth
    BY <1>2 DEF MarkResultSuccess, Kinds, Cred
  <2>2. StateOK(MarkSuccess(live.state, m, now))
    BY <2>1, StateKept
  <2> QED BY <1>2, <2>1, <2>2, ChangeKinds DEF MarkResultSuccess
<1>3. ASSUME NEW m \in Models, NEW class \in env.classes, MarkResultFailure(c, m, class)
      PROVE  Kinds' /\ Holdings'
  <2>1. StateOK(live.state) /\ now \in Nat /\ now # 0 /\ live # NoAuth
    BY <1>3 DEF MarkResultFailure, Kinds, Cred
  <2>2. StateOK(MarkFailure(live.state, m, class, NoRetryAfter, now, FALSE))
    BY <2>1, StateKept
  <2> QED BY <1>3, <2>1, <2>2, ChangeKinds DEF MarkResultFailure
<1>4. ASSUME NEW m \in Models, Pick(c, m) \/ Repick(c, m)
      PROVE  Kinds' /\ Holdings'
  BY <1>4, PickKinds DEF Pick, Repick
<1>5. CASE Upsert(c, "upsert", "idle")
  BY <1>1, <1>5, CallerFacts, UpsertKinds
<1>6. CASE syncSnapshot(c) \/ rebuild(c)
  BY <1>6, RebuildKinds
<1> QED BY <1>2, <1>3, <1>4, <1>5, <1>6 DEF Request

\* So does every step.
LEMMA KindsKept == Kinds /\ Holdings /\ Next => Kinds' /\ Holdings'
<1> SUFFICES ASSUME Kinds, Holdings, Next PROVE Kinds' /\ Holdings'
  OBVIOUS
<1>1. env' = env
  BY DEF Next
<1>2. ASSUME NEW c \in Callers, Request(c) \/ Refresh(c) \/ Manage(c)
      PROVE  Kinds' /\ Holdings'
  BY <1>1, <1>2, RequestKinds, RefreshKinds, ManageKinds
<1>3. CASE Serve
  BY <1>1, <1>3, ServeKinds
<1>4. CASE Tick \/ Revoke \/ FileChanges
  <2>1. Kinds'
    <3>1. CASE Tick
      BY <1>1, <3>1 DEF Tick, Kinds
    <3>2. CASE Revoke
      <4>1. live.token \in Nat
        BY <3>2 DEF Revoke, Kinds, Cred, Credential
      <4> QED BY <1>1, <3>2, <4>1 DEF Revoke, Kinds
    <3>3. CASE FileChanges
      <4>1. [token |-> revoked, disabled |-> FALSE] \in FileState
        BY DEF Kinds, FileState
      <4> QED BY <1>1, <3>3, <4>1 DEF FileChanges, Kinds
    <3> QED BY <1>4, <3>1, <3>2, <3>3
  <2>2. Holdings'
    BY <1>4 DEF Tick, Revoke, FileChanges, Holdings
  <2> QED BY <2>1, <2>2
<1> QED BY <1>2, <1>3, <1>4 DEF Next, Step

\* The first record is an enabled credential.
LEMMA FirstRecord ==
  LET a == [token |-> 0, state |-> FreshAuth] IN
    a \in Cred /\ FileOf(a) \in FileState /\ ~a.state.disabled
<1> DEFINE a == [token |-> 0, state |-> FreshAuth]
<1>1. FreshAuth \in Auth /\ FreshAuth.disabled = FALSE /\ FreshAuth.status = "active"
  <2>1. CP!FreshAuth \in CP!Auth
    BY CooldownAssumptions, CP!FreshLive DEF CP!Live
  <2> QED BY <2>1, SameStates DEF FreshAuth
<1> QED BY <1>1 DEF Cred, Credential, StateOK, FileOf, FileState

\* Types and holdings at the start.
LEMMA KindsInit == Init => Kinds /\ Holdings
<1> SUFFICES ASSUME Init PROVE Kinds /\ Holdings
  OBVIOUS
<1> DEFINE a == [token |-> 0, state |-> FreshAuth]
<1>1. a \in Cred /\ FileOf(a) \in FileState
  BY FirstRecord
<1>2. SchedOK(sched, live)
  BY <1>1, Distinct DEF Init, SchedOK, Entry, Absent
<1>3. Kinds
  BY <1>1, <1>2 DEF Init, Kinds
<1>4. Holdings
  BY <1>1, Distinct, AuthManagerAssumption
     DEF Init, Holdings, Procs, CallerLabel, ServiceLabel, Writing, Syncing, Registering
<1> QED BY <1>3, <1>4

-----------------------------------------------------------------------------
(***************************************************************************)
(* No token is refreshed that is still good.                               *)
(***************************************************************************)
\* A goroutine p goes to a label; nothing it leaves behind is ahead of the
\* upstream.
LEMMA TokensMoved ==
  ASSUME Kinds, Holdings, Tokens, ~env.operated, env' = env, revoked' = revoked,
         NEW p \in Procs, NEW label, pc' = [pc EXCEPT ![p] = label],
         live' # NoAuth => live'.token <= revoked,
         file' # NoAuth => file'.token <= revoked,
         obj'[p] \in Cred => obj'[p].token <= revoked,
         save'[p] \in FileState => save'[p].token <= revoked,
         \A q \in Procs \ {p} : /\ obj'[q] \in {obj[q], Deref(obj[q])}
                                /\ save'[q] = save[q],
         \A c \in Callers \ {p} : tok'[c] = tok[c],
         label = "refresh" => p \in Callers /\ tok'[p] \in Nat /\ tok'[p] < revoked,
         label = "refreshing" => obj'[p].token < revoked
  PROVE  Tokens'
<1>1. pc'[p] = label /\ \A q \in Procs \ {p} : pc'[q] = pc[q]
  BY DEF Holdings
<1>2. \A q \in Procs \ {p} : obj'[q] \in Cred => obj'[q].token <= revoked
  BY Distinct DEF Tokens, Deref
<1>3. \A q \in Procs \ {p} : pc[q] = "refreshing" => obj'[q] = obj[q]
  <2>1. \A q \in Procs : pc[q] = "refreshing" => obj[q] \in Cred
    BY Labels DEF Holdings
  <2> QED BY <2>1, Distinct DEF Deref
<1>4. \A c \in Callers : c \in Procs
  BY CallerFacts
<1> QED BY <1>1, <1>2, <1>3, <1>4 DEF Tokens

\* A request refreshes only the token it was refused with.
LEMMA RequestTokens ==
  ASSUME Kinds, Holdings, Tokens, ~env.operated, env' = env,
         NEW c \in Callers, Request(c)
  PROVE  Tokens'
<1>1. c \in Procs
  BY CallerFacts
<1>2. ASSUME NEW state, StateOK(state), live # NoAuth, ChangeInPlace(c, state)
      PROVE  Tokens'
  <2>1. live' \in Cred /\ live'.token <= revoked
    BY <1>2, Changed DEF ChangeInPlace, Tokens
  <2>2. file' # NoAuth => file'.token <= revoked
    BY <1>2 DEF ChangeInPlace, Save, FileOf, Tokens
  <2>3. /\ pc' = [pc EXCEPT ![c] = "upsert"] /\ obj'[c] = live'
        /\ \A q \in Procs \ {c} : obj'[q] = obj[q]
        /\ UNCHANGED <<revoked, tok, save>>
    BY <1>1, <1>2 DEF ChangeInPlace, Goto, Holdings
  <2> QED BY <1>1, <2>1, <2>2, <2>3, TokensMoved DEF Tokens
<1>3. ASSUME NEW m \in Models, MarkResultSuccess(c, m)
      PROVE  Tokens'
  <2>1. StateOK(live.state) /\ now \in Nat /\ now # 0 /\ live # NoAuth
    BY <1>3 DEF MarkResultSuccess, Kinds, Cred
  <2>2. StateOK(MarkSuccess(live.state, m, now))
    BY <2>1, StateKept
  <2> QED BY <1>2, <1>3, <2>1, <2>2 DEF MarkResultSuccess
<1>4. ASSUME NEW m \in Models, NEW class \in env.classes, MarkResultFailure(c, m, class)
      PROVE  Tokens'
  <2>1. StateOK(live.state) /\ now \in Nat /\ now # 0 /\ live # NoAuth
    BY <1>4 DEF MarkResultFailure, Kinds, Cred
  <2>2. StateOK(MarkFailure(live.state, m, class, NoRetryAfter, now, FALSE))
    BY <2>1, StateKept
  <2> QED BY <1>2, <1>4, <2>1, <2>2 DEF MarkResultFailure
<1>5. ASSUME NEW m \in Models, Pick(c, m) \/ Repick(c, m)
      PROVE  Tokens'
  <2>1. UNCHANGED <<live, file, revoked, obj, tok, save>>
    BY <1>5 DEF Pick, Repick, PickFrom
  <2>2. \E label \in {"idle", "sync"} : pc' = [pc EXCEPT ![c] = label]
    BY <1>5 DEF Pick, Repick, PickFrom, Goto
  <2> QED BY <1>1, <2>1, <2>2, TokensMoved DEF Tokens
<1>6. CASE Upsert(c, "upsert", "idle") \/ rebuild(c)
  <2>1. /\ UNCHANGED <<live, file, revoked, tok, save>>
        /\ obj'[c] = NoAuth /\ \A q \in Procs \ {c} : obj'[q] = obj[q]
    BY <1>1, <1>6 DEF Upsert, rebuild, Holdings
  <2>2. \E label \in {"idle", "repick"} : pc' = [pc EXCEPT ![c] = label]
    BY <1>6 DEF Upsert, rebuild, Goto
  <2> QED BY <1>1, <2>1, <2>2, Distinct, TokensMoved DEF Tokens
<1>7. CASE syncSnapshot(c)
  <2>1. /\ UNCHANGED <<live, file, revoked, tok, save>>
        /\ obj'[c] = live /\ \A q \in Procs \ {c} : obj'[q] = obj[q]
        /\ pc' = [pc EXCEPT ![c] = "rebuild"]
    BY <1>1, <1>7 DEF syncSnapshot, Goto, Holdings
  <2> QED BY <1>1, <2>1, Distinct, TokensMoved DEF Tokens
<1> QED BY <1>3, <1>4, <1>5, <1>6, <1>7 DEF Request

\* An Update with a copy that is not ahead.
LEMMA UpdateTokens ==
  ASSUME Kinds, Holdings, Tokens, ~env.operated, env' = env, revoked' = revoked,
         NEW p \in Procs, NEW a \in Cred, NEW label, NEW missing, NEW keep \in BOOLEAN,
         Update(p, a, label, missing, keep), a.token <= revoked,
         {label, missing} \cap {"refresh", "refreshing"} = {},
         \A c \in Callers \ {p} : tok'[c] = tok[c], file' = file
  PROVE  Tokens'
<1>1. CASE /\ live = NoAuth /\ obj' = [obj EXCEPT ![p] = NoAuth]
           /\ Goto(p, missing) /\ UNCHANGED <<live, sched, save>>
  <2>1. /\ obj'[p] = NoAuth /\ \A q \in Procs \ {p} : obj'[q] = obj[q]
        /\ pc' = [pc EXCEPT ![p] = missing]
    BY <1>1 DEF Goto, Holdings
  <2> QED BY <1>1, <2>1, Distinct, TokensMoved DEF Tokens
<1>2. ASSUME Goto(p, label), NEW new \in Cred, new.token = a.token, Replace(p, new, Live),
             save' = IF keep THEN [save EXCEPT ![p] = FileOf(new)] ELSE save
      PROVE  Tokens'
  <2>1. new # NoAuth
    BY Distinct
  <2>2. /\ live' = new /\ obj'[p] = Live
        /\ \A q \in Procs \ {p} : obj'[q] = Deref(obj[q])
    BY <1>2, <2>1, Replaced
  <2>3. FileOf(new).token = a.token
    BY <1>2, FileWritten
  <2>4. /\ save'[p] \in FileState => save'[p].token <= revoked
        /\ \A q \in Procs \ {p} : save'[q] = save[q]
    BY <1>2, <2>3 DEF Holdings, Tokens
  <2>5. pc' = [pc EXCEPT ![p] = label]
    BY <1>2 DEF Goto
  <2> QED BY <1>2, <2>2, <2>4, <2>5, Distinct, TokensMoved DEF Tokens
<1> QED BY <1>1, <1>2, Updated

\* A refresh replaces a revoked token by the next one.
LEMMA RefreshTokens ==
  ASSUME Kinds, Holdings, Tokens, ~env.operated, env' = env,
         NEW c \in Callers, Refresh(c)
  PROVE  Tokens'
<1>1. c \in Procs
  BY CallerFacts
<1>2. CASE RefreshAsked(c)
  <2>1. PICK t \in held : t < revoked /\ tok' = [tok EXCEPT ![c] = t]
    BY <1>2 DEF RefreshAsked
  <2>2. t \in Nat
    BY DEF Kinds
  <2>3. /\ tok'[c] = t /\ \A q \in Callers \ {c} : tok'[q] = tok[q]
        /\ UNCHANGED <<live, file, revoked, obj, save>>
        /\ pc' = [pc EXCEPT ![c] = "refresh"]
    BY <1>2, <2>1 DEF RefreshAsked, Goto, Holdings
  <2> QED BY <1>1, <2>1, <2>2, <2>3, TokensMoved DEF Tokens
<1>3. CASE RefreshBegin(c)
  <2>1. tok[c] \in Nat /\ tok[c] < revoked /\ tok[c] # NoAuth
    BY <1>3, Distinct DEF RefreshBegin, Tokens
  <2>2. /\ \A q \in Callers \ {c} : tok'[q] = tok[q]
        /\ \A q \in Procs \ {c} : obj'[q] = obj[q]
        /\ UNCHANGED <<live, file, revoked, save>>
    BY <1>1, <1>3 DEF RefreshBegin, Holdings
  <2>3. CASE live # NoAuth /\ live.token = tok[c]
    <3>1. pc' = [pc EXCEPT ![c] = "refreshing"] /\ obj'[c] = live
      BY <1>1, <1>3, <2>3 DEF RefreshBegin, Goto, Holdings
    <3> QED BY <1>1, <2>1, <2>2, <2>3, <3>1, TokensMoved DEF Tokens
  <2>4. CASE ~(live # NoAuth /\ live.token = tok[c])
    <3>1. pc' = [pc EXCEPT ![c] = "idle"] /\ obj'[c] = NoAuth
      BY <1>1, <1>3, <2>1, <2>4 DEF RefreshBegin, Goto, Holdings
    <3> QED BY <1>1, <2>2, <3>1, Distinct, TokensMoved DEF Tokens
  <2> QED BY <2>3, <2>4
<1>4. CASE RefreshFails(c)
  <2>1. live' # NoAuth => live'.token <= revoked
    <3>1. live' = live \/ (live # NoAuth /\ live'.token = live.token)
      BY <1>4 DEF RefreshFails, Kinds, Cred, Credential
    <3> QED BY <3>1 DEF Tokens
  <2>2. /\ \A q \in Callers \ {c} : tok'[q] = tok[q]
        /\ obj'[c] = NoAuth /\ \A q \in Procs \ {c} : obj'[q] = obj[q]
        /\ UNCHANGED <<file, revoked, save>>
        /\ pc' = [pc EXCEPT ![c] = "idle"]
    BY <1>1, <1>4 DEF RefreshFails, Goto, Holdings
  <2> QED BY <1>1, <2>1, <2>2, Distinct, TokensMoved DEF Tokens
<1>5. CASE RefreshUpdate(c)
  <2> DEFINE a == [token |-> obj[c].token + 1, state |-> RefreshedOf(obj[c].state, now)]
  <2>1. a \in Cred /\ obj[c] \in Cred
    BY <1>5, RefreshCopied
  <2>2. obj[c].token < revoked /\ obj[c].token \in Nat /\ revoked \in Nat
    BY <1>5, <2>1 DEF RefreshUpdate, Tokens, Cred, Credential, Kinds
  <2>3. a.token <= revoked
    BY <2>2
  <2>4. /\ Update(c, a, "refreshUpsert", "idle", TRUE)
        /\ UNCHANGED <<file, revoked>>
        /\ \A q \in Callers \ {c} : tok'[q] = tok[q]
    BY <1>5 DEF RefreshUpdate, Holdings
  <2> HIDE DEF a
  <2> QED BY <1>1, <2>1, <2>3, <2>4, UpdateTokens
<1>6. CASE Upsert(c, "refreshUpsert", "refreshPersist")
  <2>1. /\ UNCHANGED <<live, file, revoked, tok, save>>
        /\ obj'[c] = NoAuth /\ \A q \in Procs \ {c} : obj'[q] = obj[q]
        /\ pc' = [pc EXCEPT ![c] = "refreshPersist"]
    BY <1>1, <1>6 DEF Upsert, Goto, Holdings
  <2> QED BY <1>1, <2>1, Distinct, TokensMoved DEF Tokens
<1>7. CASE PersistUpdate(c, "refreshPersist")
  <2>1. save[c] \in FileState
    BY <1>1, <1>7, Labels DEF PersistUpdate, Holdings, Persisting
  <2>2. /\ UNCHANGED <<live, revoked, tok, obj>>
        /\ save'[c] = NoAuth /\ \A q \in Procs \ {c} : save'[q] = save[q]
        /\ pc' = [pc EXCEPT ![c] = "idle"]
    BY <1>1, <1>7 DEF PersistUpdate, Goto, Holdings
  <2>3. file' # NoAuth => file'.token <= revoked
    BY <1>1, <1>7, <2>1 DEF PersistUpdate, Save, Tokens
  <2>4. save'[c] \in FileState => save'[c].token <= revoked
    BY <2>2, Distinct
  <2> QED BY <1>1, <2>2, <2>3, <2>4, TokensMoved DEF Tokens
<1> QED BY <1>2, <1>3, <1>4, <1>5, <1>6, <1>7 DEF Refresh

\* A removal takes tokens away.
LEMMA RemoveTokens ==
  ASSUME Kinds, Holdings, Tokens, ~env.operated, env' = env, NEW p \in Procs,
         RemoveRecord(p) \/ RemoveEntry(p)
  PROVE  Tokens'
<1>1. CASE RemoveEntry(p) \/ (RemoveRecord(p) /\ live = NoAuth)
  <2>1. /\ UNCHANGED <<live, file, revoked, tok, save, obj>>
        /\ pc' = [pc EXCEPT ![p] = "idle"]
    BY <1>1 DEF RemoveEntry, RemoveRecord, Goto
  <2> QED BY <2>1, TokensMoved DEF Tokens
<1>2. CASE RemoveRecord(p) /\ live # NoAuth
  <2>1. /\ Replace(p, NoAuth, NoAuth) /\ pc' = [pc EXCEPT ![p] = "removeEntry"]
        /\ UNCHANGED <<file, revoked, tok, save>>
    BY <1>2 DEF RemoveRecord, Goto
  <2>2. /\ live' = NoAuth /\ obj'[p] = NoAuth
        /\ \A q \in Procs \ {p} : obj'[q] = Deref(obj[q])
    BY <2>1, Distinct, Replaced
  <2> QED BY <2>1, <2>2, Distinct, TokensMoved DEF Tokens
<1> QED BY <1>1, <1>2

\* The operator's calls bring no token.
LEMMA ManageTokens ==
  ASSUME Kinds, Holdings, Tokens, ~env.operated, env' = env,
         NEW c \in Callers, Manage(c)
  PROVE  Tokens'
<1>1. c \in Procs
  BY CallerFacts
<1>2. CASE ToggleUpdate(c)
  <2>1. obj[c] \in Cred
    BY <1>1, <1>2, Labels DEF ToggleUpdate, Holdings
  <2>2. Toggled(obj[c]) \in Cred /\ Toggled(obj[c]).token <= revoked
    BY <1>1, <2>1, ToggleCopied DEF Tokens
  <2>3. /\ Update(c, Toggled(obj[c]), "updateUpsert", "idle", TRUE)
        /\ UNCHANGED <<file, revoked, tok>>
    BY <1>2 DEF ToggleUpdate, Toggled
  <2> QED BY <1>1, <2>2, <2>3, UpdateTokens
<1>3. CASE Upsert(c, "updateUpsert", "persist")
  <2>1. /\ UNCHANGED <<live, file, revoked, tok, save>>
        /\ obj'[c] = NoAuth /\ \A q \in Procs \ {c} : obj'[q] = obj[q]
        /\ pc' = [pc EXCEPT ![c] = "persist"]
    BY <1>1, <1>3 DEF Upsert, Goto, Holdings
  <2> QED BY <1>1, <2>1, Distinct, TokensMoved DEF Tokens
<1>4. CASE PersistUpdate(c, "persist")
  <2>1. save[c] \in FileState
    BY <1>1, <1>4, Labels DEF PersistUpdate, Holdings, Persisting
  <2>2. /\ UNCHANGED <<live, revoked, tok, obj>>
        /\ save'[c] = NoAuth /\ \A q \in Procs \ {c} : save'[q] = save[q]
        /\ pc' = [pc EXCEPT ![c] = "idle"]
    BY <1>1, <1>4 DEF PersistUpdate, Goto, Holdings
  <2>3. file' # NoAuth => file'.token <= revoked
    BY <1>1, <1>4, <2>1 DEF PersistUpdate, Save, Tokens
  <2>4. save'[c] \in FileState => save'[c].token <= revoked
    BY <2>2, Distinct
  <2> QED BY <1>1, <2>2, <2>3, <2>4, TokensMoved DEF Tokens
<1>5. CASE ResetQuota(c)
  <2>1. live # NoAuth /\ live' = [live EXCEPT !.state = ResetQuotaOf(live.state, now)]
    BY <1>5 DEF ResetQuota
  <2>2. live'.token <= revoked
    BY <2>1 DEF Kinds, Cred, Credential, Tokens
  <2>3. file' # NoAuth => file'.token <= revoked
    BY <1>5 DEF ResetQuota, Save, FileOf, Tokens
  <2>4. /\ obj'[c] \in {obj[c], live'} /\ \A q \in Procs \ {c} : obj'[q] = obj[q]
        /\ UNCHANGED <<revoked, tok, save>>
    BY <1>1, <1>5 DEF ResetQuota, Holdings
  <2>5. \E label \in {"idle", "upsert"} : pc' = [pc EXCEPT ![c] = label]
    BY <1>1, <1>5 DEF ResetQuota, Goto, Holdings
  <2>6. obj'[c] \in Cred => obj'[c].token <= revoked
    BY <1>1, <2>2, <2>4 DEF Tokens
  <2> QED BY <1>1, <2>2, <2>3, <2>4, <2>5, <2>6, TokensMoved DEF Tokens
<1>6. CASE RemoveRecord(c) \/ RemoveEntry(c)
  BY <1>1, <1>6, RemoveTokens
<1> QED BY <1>2, <1>3, <1>4, <1>5, <1>6 DEF Manage, ToggleRead, DeleteFile

\* The service brings the token of the file.
LEMMA ServeTokens ==
  ASSUME Kinds, Holdings, Tokens, ~env.operated, env' = env, Serve
  PROVE  Tokens'
<1>1. Service \in Procs /\ Service \notin Callers
  BY AuthManagerAssumption DEF Procs
<1>2. CASE ServiceRead
  <2> PICK a \in Cred : obj' = [obj EXCEPT ![Service] = a] /\ a.token = file.token
    BY <1>2, ServiceCopied
  <2>1. pc' = [pc EXCEPT ![Service] = "take"]
    BY <1>2 DEF ServiceRead, Goto
  <2>2. /\ obj'[Service] = a /\ \A q \in Procs \ {Service} : obj'[q] = obj[q]
        /\ UNCHANGED <<live, file, revoked, tok, save>> /\ a.token <= revoked
    BY <1>1, <1>2 DEF ServiceRead, Holdings, Tokens
  <2> QED BY <1>1, <2>1, <2>2, TokensMoved DEF Tokens
<1>10. CASE ServiceTake
  <2> PICK a \in Cred : obj' = [obj EXCEPT ![Service] = a] /\ a.token = obj[Service].token
    BY <1>10, ServiceTaken
  <2>1. \E label \in {"add", "update"} : pc' = [pc EXCEPT ![Service] = label]
    BY <1>10 DEF ServiceTake, Goto
  <2>2. obj[Service] \in Cred
    BY <1>1, <1>10, Labels DEF ServiceTake, Holdings
  <2>3. /\ obj'[Service] = a /\ \A q \in Procs \ {Service} : obj'[q] = obj[q]
        /\ UNCHANGED <<live, file, revoked, tok, save>> /\ a.token <= revoked
    BY <1>1, <1>10, <2>2 DEF ServiceTake, Holdings, Tokens
  <2> QED BY <1>1, <2>1, <2>3, TokensMoved DEF Tokens
<1>3. CASE ServiceUpdate
  <2>1. obj[Service] \in Cred
    BY <1>1, <1>3, Labels DEF ServiceUpdate, Holdings
  <2>2. /\ Update(Service, obj[Service], "registerUpsert", "register", FALSE)
        /\ UNCHANGED <<file, revoked, tok>> /\ obj[Service].token <= revoked
    BY <1>1, <1>3, <2>1 DEF ServiceUpdate, Tokens
  <2> QED BY <1>1, <2>1, <2>2, UpdateTokens
<1>4. CASE ServiceAdd
  <2>1. obj[Service] \in Cred /\ obj[Service].token <= revoked
    BY <1>1, <1>4, Labels DEF ServiceAdd, Holdings, Tokens
  <2>2. /\ Replace(Service, obj[Service], Live)
        /\ pc' = [pc EXCEPT ![Service] = "registerUpsert"]
        /\ UNCHANGED <<file, revoked, tok, save>>
    BY <1>4 DEF ServiceAdd, Goto
  <2>3. /\ live' = obj[Service] /\ obj'[Service] = Live
        /\ \A q \in Procs \ {Service} : obj'[q] = Deref(obj[q])
    BY <1>1, <2>1, <2>2, Distinct, Replaced
  <2> QED BY <1>1, <2>1, <2>2, <2>3, Distinct, TokensMoved DEF Tokens
<1>5. CASE \/ Upsert(Service, "registerUpsert", "register")
           \/ Upsert(Service, "reconcileUpsert", "refreshEntry")
           \/ Upsert(Service, "entryUpsert", "idle")
  <2>1. /\ UNCHANGED <<live, file, revoked, tok, save>>
        /\ obj'[Service] = NoAuth /\ \A q \in Procs \ {Service} : obj'[q] = obj[q]
    BY <1>1, <1>5 DEF Upsert, Holdings
  <2>2. \E label \in {"register", "refreshEntry", "idle"} : pc' = [pc EXCEPT ![Service] = label]
    BY <1>5 DEF Upsert, Goto
  <2> QED BY <1>1, <2>1, <2>2, Distinct, TokensMoved DEF Tokens
<1>6. CASE registerModelsForAuth \/ ServiceRemove
  <2>1. UNCHANGED <<live, file, revoked, tok, save, obj>>
    BY <1>6 DEF registerModelsForAuth, ServiceRemove
  <2>2. \E label \in {"reconcile", "remove"} : pc' = [pc EXCEPT ![Service] = label]
    BY <1>6 DEF registerModelsForAuth, ServiceRemove, Goto
  <2> QED BY <1>1, <2>1, <2>2, TokensMoved DEF Tokens
<1>7. CASE ReconcileRegistryModelStates
  <2>1. \/ live' = live /\ obj' = obj
        \/ /\ live # NoAuth /\ live'.token = live.token
           /\ obj' = [obj EXCEPT ![Service] = live']
    BY <1>7 DEF ReconcileRegistryModelStates, Kinds, Cred, Credential
  <2>2. \E label \in {"reconcileUpsert", "refreshEntry"} : pc' = [pc EXCEPT ![Service] = label]
    BY <1>7 DEF ReconcileRegistryModelStates, Goto
  <2>3. UNCHANGED <<file, revoked, tok, save>>
    BY <1>7 DEF ReconcileRegistryModelStates
  <2>4. /\ live' # NoAuth => live'.token <= revoked
        /\ obj'[Service] \in Cred => obj'[Service].token <= revoked
        /\ \A q \in Procs \ {Service} : obj'[q] = obj[q]
    BY <1>1, <2>1 DEF Tokens, Holdings
  <2> QED BY <1>1, <2>2, <2>3, <2>4, TokensMoved DEF Tokens
<1>8. CASE RefreshSchedulerEntry
  <2>1. /\ UNCHANGED <<live, file, revoked, tok, save>>
        /\ obj'[Service] = live /\ \A q \in Procs \ {Service} : obj'[q] = obj[q]
    BY <1>1, <1>8 DEF RefreshSchedulerEntry, Holdings
  <2>2. \E label \in {"idle", "entryUpsert"} : pc' = [pc EXCEPT ![Service] = label]
    BY <1>8 DEF RefreshSchedulerEntry, Goto
  <2> QED BY <1>1, <2>1, <2>2, Distinct, TokensMoved DEF Tokens
<1>9. CASE RemoveRecord(Service) \/ RemoveEntry(Service)
  BY <1>1, <1>9, RemoveTokens
<1> QED BY <1>2, <1>3, <1>4, <1>5, <1>6, <1>7, <1>8, <1>9, <1>10 DEF Serve

\* Every step keeps the tokens in order.
LEMMA TokensKept == Kinds /\ Holdings /\ Tokens /\ Next => Tokens'
<1> SUFFICES ASSUME Kinds, Holdings, Tokens, Next PROVE Tokens'
  OBVIOUS
<1>1. env' = env
  BY DEF Next
<1>2. CASE env.operated
  BY <1>1, <1>2 DEF Tokens
<1>3. CASE ~env.operated
  <2>1. ASSUME NEW c \in Callers, Request(c) \/ Refresh(c) \/ Manage(c)
        PROVE  Tokens'
    BY <1>1, <1>3, <2>1, RequestTokens, RefreshTokens, ManageTokens
  <2>2. CASE Serve
    BY <1>1, <1>3, <2>2, ServeTokens
  <2>3. CASE Tick
    BY <1>1, <2>3 DEF Tick, Tokens
  <2>4. CASE FileChanges
    <3>1. file' # NoAuth => file'.token <= revoked
      BY <2>4 DEF FileChanges, Kinds
    <3> QED BY <1>1, <2>4, <3>1 DEF FileChanges, Tokens
  <2>5. CASE Revoke
    <3>1. live.token \in Nat /\ revoked \in Nat /\ revoked' \in Nat /\ revoked <= revoked'
      BY <2>5 DEF Revoke, Kinds, Cred, Credential
    <3>2. \A n \in Nat : (n <= revoked => n <= revoked') /\ (n < revoked => n < revoked')
      BY <3>1
    <3>3. /\ live # NoAuth => live.token \in Nat
          /\ file # NoAuth => file.token \in Nat
      BY DEF Kinds, Cred, Credential, FileState
    <3>4. \A p \in Procs : /\ obj[p] \in Cred => obj[p].token \in Nat
                           /\ save[p] \in FileState => save[p].token \in Nat
      BY DEF Cred, Credential, FileState
    <3>5. \A c \in Callers : pc[c] = "refreshing" => obj[c].token \in Nat
      BY CallerFacts, Labels, <3>4 DEF Holdings
    <3>6. UNCHANGED <<live, file, pc, obj, tok, save>>
      BY <2>5 DEF Revoke
    <3> HIDE DEF Revoke
    <3> QED BY <1>1, <3>2, <3>3, <3>4, <3>5, <3>6 DEF Tokens
  <2> QED BY <2>1, <2>2, <2>3, <2>4, <2>5 DEF Next, Step
<1> QED BY <1>2, <1>3

\* The tokens at the start.
LEMMA TokensInit == Init => Tokens
BY Distinct, CallerFacts DEF Init, Tokens, FileOf

-----------------------------------------------------------------------------
(***************************************************************************)
(* What a removed credential leaves behind.                                *)
(***************************************************************************)
Operator == {"toggle", "updateUpsert", "persist", "remove", "removeEntry"}

\* An Update replaces a record and makes none.
LEMMA UpdateKeeps ==
  ASSUME Kinds, Holdings, NEW p \in Procs, NEW a \in Cred, NEW label, NEW missing,
         NEW keep \in BOOLEAN, Update(p, a, label, missing, keep)
  PROVE  /\ live = NoAuth <=> live' = NoAuth
         /\ live = NoAuth => sched' = sched
         /\ live # NoAuth => sched'.meta = Deref(sched.meta)
         /\ sched'.supported = sched.supported /\ sched'.entries = sched.entries
         /\ pc' = [pc EXCEPT ![p] = IF live = NoAuth THEN missing ELSE label]
<1>1. CASE live = NoAuth
  BY <1>1 DEF Update, Goto
<1>2. CASE live # NoAuth
  <2>1. PICK new \in Cred : Replace(p, new, Live)
    BY <1>2, Updated
  <2>2. new # NoAuth
    BY Distinct
  <2>3. Goto(p, label)
    BY <1>2 DEF Update
  <2>4. /\ live' = new /\ sched'.meta = Deref(sched.meta)
        /\ sched'.supported = sched.supported /\ sched'.entries = sched.entries
    BY <2>1, <2>2, Replaced
  <2> QED BY <1>2, <2>2, <2>3, <2>4 DEF Goto
<1> QED BY <1>1, <1>2

\* Without an operator callers make no record, remove none and register no
\* model.
LEMMA CallerEffect ==
  ASSUME Kinds, Holdings, ~env.operated, NEW c \in Callers, pc[c] \notin Operator,
         Request(c) \/ Refresh(c) \/ Manage(c)
  PROVE  /\ UNCHANGED <<seen, registered>>
         /\ pc'[c] \notin Operator /\ \A q \in Procs \ {c} : pc'[q] = pc[q]
         /\ live = NoAuth <=> live' = NoAuth
         /\ NoEntries(sched) /\ registered = {} => NoEntries(sched')
<1>1. c \in Procs /\ c # Service /\ pc \in [Procs -> CallerLabel \cup ServiceLabel]
  BY CallerFacts DEF Holdings
<1>2. SchedOK(sched, live) /\ live \in Cred \cup {NoAuth} /\ registered \in SUBSET Models
      /\ now \in Nat
  BY DEF Kinds
<1>3. ASSUME NEW m \in Models, NEW class,
             \/ MarkResultSuccess(c, m)
             \/ MarkResultFailure(c, m, class)
      PROVE  /\ UNCHANGED <<seen, registered, sched>> /\ live # NoAuth
             /\ pc' = [pc EXCEPT ![c] = "upsert"]
             /\ live' # NoAuth
  <2>1. StateOK(live.state) /\ now \in Nat /\ now # 0 /\ live # NoAuth
    BY <1>3 DEF MarkResultSuccess, MarkResultFailure, Kinds, Cred
  <2>2. /\ StateOK(MarkSuccess(live.state, m, now))
        /\ StateOK(MarkFailure(live.state, m, class, NoRetryAfter, now, FALSE))
    BY <2>1, StateKept
  <2>3. PICK st : StateOK(st) /\ ChangeInPlace(c, st)
    BY <1>3, <2>2 DEF MarkResultSuccess, MarkResultFailure
  <2>4. live' \in Cred
    BY <2>1, <2>3, Changed DEF ChangeInPlace
  <2> QED BY <2>1, <2>3, <2>4, Distinct DEF ChangeInPlace, Goto
<1>4. ASSUME NEW m \in Models, Pick(c, m) \/ Repick(c, m)
      PROVE  /\ UNCHANGED <<seen, registered, live>>
             /\ \E label \in {"idle", "sync"} : pc' = [pc EXCEPT ![c] = label]
             /\ NoEntries(sched) => NoEntries(sched')
  <2>1. sched' = ensureModelLocked(sched, m)
    BY <1>4 DEF Pick, Repick, PickFrom
  <2>2. NoEntries(sched) => NoEntries(sched')
    BY <1>2, <2>1, Ensured
  <2>3. \E label \in {"idle", "sync"} : pc' = [pc EXCEPT ![c] = label]
    BY <1>4 DEF Pick, Repick, PickFrom, Goto
  <2>4. UNCHANGED <<seen, registered, live>>
    BY <1>4 DEF Pick, Repick, PickFrom
  <2> QED BY <2>2, <2>3, <2>4
<1>5. ASSUME NEW from \in {"upsert", "refreshUpsert", "updateUpsert"},
             NEW to \in {"idle", "refreshPersist", "persist"}, Upsert(c, from, to)
      PROVE  /\ UNCHANGED <<seen, registered, live>> /\ pc' = [pc EXCEPT ![c] = to]
             /\ registered = {} => NoEntries(sched')
  <2>1. obj[c] \in Cred \cup {Live} /\ (obj[c] = Live => live # NoAuth)
    BY <1>1, <1>5, Labels DEF Upsert, Holdings
  <2>2. registered = {} => NoEntries(sched')
    BY <1>2, <1>5, <2>1, Upserted DEF Upsert
  <2> QED BY <1>5, <2>2 DEF Upsert, Goto
<1>6. ASSUME syncSnapshot(c) \/ rebuild(c)
      PROVE  /\ UNCHANGED <<seen, registered, live>>
             /\ \E label \in {"rebuild", "repick"} : pc' = [pc EXCEPT ![c] = label]
             /\ NoEntries(sched) /\ registered = {} => NoEntries(sched')
  <2>1. CASE syncSnapshot(c)
    BY <2>1 DEF syncSnapshot, Goto
  <2>2. CASE rebuild(c)
    <3>1. obj[c] \in Cred \cup {Live, NoAuth} /\ (obj[c] = Live => live # NoAuth)
      BY <1>1 DEF Holdings
    <3>2. registered = {} => NoEntries(sched')
      BY <1>2, <2>2, <3>1, RebuiltOK DEF rebuild
    <3> QED BY <2>2, <3>2 DEF rebuild, Goto
  <2> QED BY <1>6, <2>1, <2>2
<1>7. ASSUME RefreshAsked(c) \/ RefreshBegin(c)
      PROVE  /\ UNCHANGED <<seen, registered, live, sched>>
             /\ \E label \in {"refresh", "refreshing", "idle"} : pc' = [pc EXCEPT ![c] = label]
  BY <1>7 DEF RefreshAsked, RefreshBegin, Goto
<1>8. ASSUME RefreshFails(c)
      PROVE  /\ UNCHANGED <<seen, registered>> /\ pc' = [pc EXCEPT ![c] = "idle"]
             /\ live = NoAuth <=> live' = NoAuth
             /\ NoEntries(sched) /\ registered = {} => NoEntries(sched')
  <2>1. UNCHANGED <<seen, registered>> /\ pc' = [pc EXCEPT ![c] = "idle"]
    BY <1>8 DEF RefreshFails, Goto
  <2>2. CASE UNCHANGED <<live, sched>>
    BY <2>1, <2>2
  <2>3. ASSUME NEW error \in {"unauthorized", "other"}, live # NoAuth,
               live' = [live EXCEPT
                 !.state.lastError = error,
                 !.state.unavailable = @ \/ error = "unauthorized",
                 !.state.status = IF error = "unauthorized" THEN "error" ELSE @],
               sched' = upsertAuthLocked(sched, live')
        PROVE  live' # NoAuth /\ (registered = {} => NoEntries(sched'))
    <3> DEFINE x == live'
    <3>1. x \in Cred
      BY <2>3 DEF Kinds, Cred, Credential, StateOK, Auth, ErrorKind
    <3>2. sched' = upsertAuthLocked(sched, x)
      BY <2>3
    <3> HIDE DEF x
    <3>3. x \in Cred \cup {Live} /\ x # Live /\ x # NoAuth
      BY <3>1, Distinct
    <3>4. registered = {} => NoEntries(sched')
      BY <1>2, <3>2, <3>3, Upserted
    <3> QED BY <3>3, <3>4 DEF x
  <2> QED BY <1>8, <2>1, <2>2, <2>3 DEF RefreshFails
<1>9. ASSUME RefreshUpdate(c)
      PROVE  /\ UNCHANGED <<seen, registered>>
             /\ \E label \in {"refreshUpsert", "idle"} : pc' = [pc EXCEPT ![c] = label]
             /\ live = NoAuth <=> live' = NoAuth
             /\ NoEntries(sched) => NoEntries(sched')
  <2> DEFINE a == [token |-> obj[c].token + 1, state |-> RefreshedOf(obj[c].state, now)]
  <2>1. a \in Cred /\ Update(c, a, "refreshUpsert", "idle", TRUE)
    BY <1>9, RefreshCopied DEF RefreshUpdate
  <2> HIDE DEF a
  <2>2. /\ live = NoAuth <=> live' = NoAuth
        /\ sched'.supported = sched.supported /\ sched'.entries = sched.entries
        /\ \E label \in {"refreshUpsert", "idle"} : pc' = [pc EXCEPT ![c] = label]
    BY <1>1, <2>1, UpdateKeeps
  <2> QED BY <1>9, <2>2 DEF RefreshUpdate, NoEntries
<1>10. ASSUME PersistUpdate(c, "refreshPersist")
       PROVE  UNCHANGED <<seen, registered, live, sched>> /\ pc' = [pc EXCEPT ![c] = "idle"]
  BY <1>10 DEF PersistUpdate, Goto
<1>11. ASSUME ResetQuota(c)
       PROVE  /\ UNCHANGED <<seen, registered, sched>> /\ live # NoAuth /\ live' # NoAuth
              /\ \E label \in {"upsert", "idle"} : pc' = [pc EXCEPT ![c] = label]
  <2>1. StateOK(live.state) /\ live # NoAuth
    BY <1>11 DEF ResetQuota, Kinds, Cred
  <2>2. StateOK(ResetQuotaOf(live.state, now))
    BY <1>2, <2>1, StateReset
  <2>3. live' \in Cred
    BY <1>11, <2>1, <2>2, Changed DEF ResetQuota
  <2> QED BY <1>1, <1>11, <2>1, <2>3, Distinct DEF ResetQuota, Goto
<1>12. /\ ~ToggleRead(c) /\ ~ToggleUpdate(c) /\ ~Upsert(c, "updateUpsert", "persist")
       /\ ~PersistUpdate(c, "persist") /\ ~DeleteFile(c) /\ ~RemoveRecord(c) /\ ~RemoveEntry(c)
  BY DEF ToggleRead, ToggleUpdate, Upsert, PersistUpdate, DeleteFile, RemoveRecord,
     RemoveEntry, Operator
<1>13. \A label : label \notin Operator /\ pc' = [pc EXCEPT ![c] = label] =>
         pc'[c] \notin Operator /\ \A q \in Procs \ {c} : pc'[q] = pc[q]
  BY <1>1
<1>14. \A label \in {"upsert", "idle", "sync", "rebuild", "repick", "refresh", "refreshing",
                     "refreshUpsert", "refreshPersist"} : label \notin Operator
  BY DEF Operator
<1>15. CASE Request(c)
  BY <1>3, <1>4, <1>5, <1>6, <1>13, <1>14, <1>15 DEF Request
<1>16. CASE Refresh(c)
  BY <1>5, <1>7, <1>8, <1>9, <1>10, <1>13, <1>14, <1>16 DEF Refresh, NoEntries
<1>17. CASE Manage(c)
  BY <1>11, <1>12, <1>13, <1>14, <1>17 DEF Manage
<1> QED BY <1>15, <1>16, <1>17

\* Only the service changes what is registered.
LEMMA CallerLeaves ==
  ASSUME Holdings, NEW c \in Callers, Request(c) \/ Refresh(c) \/ Manage(c)
  PROVE  UNCHANGED <<seen, registered, now, revoked>> /\ pc'[Service] = pc[Service]
<1> USE CallerFacts DEF Goto, Update, Procs, Holdings
<1>1. CASE Request(c)
  BY <1>1 DEF Request, MarkResultSuccess, MarkResultFailure, ChangeInPlace, Pick, Repick,
     PickFrom, Upsert, syncSnapshot, rebuild
<1>2. CASE Refresh(c)
  BY <1>2 DEF Refresh, RefreshAsked, RefreshBegin, RefreshFails, RefreshUpdate, Upsert,
     PersistUpdate
<1>3. CASE Manage(c)
  BY <1>3 DEF Manage, ToggleRead, ToggleUpdate, Upsert, PersistUpdate, ResetQuota, DeleteFile,
     RemoveRecord, RemoveEntry
<1> QED BY <1>1, <1>2, <1>3

\* The service removes the record before the registry's models and the
\* scheduler's entries.
LEMMA ServeRemoval ==
  ASSUME Kinds, Holdings, Removal, env' = env, Serve
  PROVE  Removal'
<1>1. /\ Service \in Procs /\ pc \in [Procs -> CallerLabel \cup ServiceLabel]
      /\ \A c \in Callers : c \in Procs /\ c # Service
  BY CallerFacts DEF Procs, Holdings
<1>2. /\ SchedOK(sched, live) /\ live \in Cred \cup {NoAuth}
      /\ registered \in SUBSET Models /\ now \in Nat
  BY DEF Kinds
<1>3. pc[Service] \in Registering => seen # NoAuth
  BY DEF Holdings
<1>4. ASSUME NEW label, pc' = [pc EXCEPT ![Service] = label]
      PROVE  /\ pc'[Service] = label
             /\ \A c \in Callers : pc'[c] = pc[c]
  BY <1>1, <1>4
<1>5. CASE ServiceRead
  <2>1. seen' # NoAuth /\ UNCHANGED <<live, registered, sched>>
    BY <1>5 DEF ServiceRead
  <2>2. pc'[Service] = "take" /\ \A c \in Callers : pc'[c] = pc[c]
    BY <1>4, <1>5 DEF ServiceRead, Goto
  <2> QED BY <2>1, <2>2 DEF Removal
<1>16. CASE ServiceTake
  <2>1. seen # NoAuth /\ UNCHANGED <<live, registered, seen, sched>>
    BY <1>3, <1>16, Labels DEF ServiceTake
  <2>2. pc' = [pc EXCEPT ![Service] = IF live = NoAuth THEN "add" ELSE "update"]
    BY <1>16 DEF ServiceTake, Goto
  <2>3. /\ pc'[Service] = IF live = NoAuth THEN "add" ELSE "update"
        /\ \A c \in Callers : pc'[c] = pc[c]
    BY <2>2, <1>4
  <2> QED BY <2>1, <2>3 DEF Removal
<1>6. CASE ServiceUpdate
  <2>1. obj[Service] \in Cred /\ seen # NoAuth
    BY <1>1, <1>3, <1>6, Labels DEF ServiceUpdate, Holdings
  <2>2. /\ live = NoAuth <=> live' = NoAuth
        /\ pc' = [pc EXCEPT ![Service] = IF live = NoAuth THEN "register" ELSE "registerUpsert"]
    BY <1>1, <1>6, <2>1, UpdateKeeps DEF ServiceUpdate
  <2>3. /\ pc'[Service] = IF live = NoAuth THEN "register" ELSE "registerUpsert"
        /\ \A c \in Callers : pc'[c] = pc[c]
    BY <2>2, <1>4
  <2>4. ~env.operated => live # NoAuth
    BY <1>6, <2>1 DEF Removal, ServiceUpdate
  <2>5. UNCHANGED <<seen, registered>>
    BY <1>6 DEF ServiceUpdate
  <2> QED BY <2>1, <2>2, <2>3, <2>4, <2>5 DEF Removal
<1>7. CASE ServiceAdd
  <2>1. obj[Service] \in Cred /\ seen # NoAuth
    BY <1>1, <1>3, <1>7, Labels DEF ServiceAdd, Holdings
  <2>2. live' # NoAuth
    BY <1>7, <2>1, Distinct DEF ServiceAdd, Replace
  <2>3. pc'[Service] = "registerUpsert" /\ \A c \in Callers : pc'[c] = pc[c]
    BY <1>7, <1>4 DEF ServiceAdd, Goto
  <2>4. UNCHANGED <<seen, registered>>
    BY <1>7 DEF ServiceAdd
  <2> QED BY <2>1, <2>2, <2>3, <2>4 DEF Removal
<1>8. ASSUME NEW label, pc' = [pc EXCEPT ![Service] = label], seen # NoAuth, seen' = seen,
             label \notin {"remove", "removeEntry"},
             live = NoAuth <=> live' = NoAuth, pc[Service] \notin {"take", "add"}
      PROVE  Removal'
  <2>1. pc'[Service] = label /\ \A c \in Callers : pc'[c] = pc[c]
    BY <1>8, <1>4
  <2> QED BY <1>8, <2>1 DEF Removal
<1>9. CASE \/ Upsert(Service, "registerUpsert", "register")
           \/ Upsert(Service, "reconcileUpsert", "refreshEntry")
           \/ Upsert(Service, "entryUpsert", "idle")
  <2>1. seen # NoAuth /\ pc[Service] \notin {"take", "add"}
    BY <1>3, <1>9, Labels DEF Upsert
  <2> QED BY <1>8, <1>9, <2>1 DEF Upsert, Goto
<1>10. CASE registerModelsForAuth
  <2>1. seen # NoAuth /\ pc[Service] \notin {"take", "add"}
    BY <1>3, <1>10, Labels DEF registerModelsForAuth
  <2>2. \E label \in {"reconcile"} : pc' = [pc EXCEPT ![Service] = label]
    BY <1>10 DEF registerModelsForAuth, Goto
  <2>3. UNCHANGED <<seen, live>>
    BY <1>10 DEF registerModelsForAuth
  <2> QED BY <1>8, <2>1, <2>2, <2>3
<1>11. CASE ReconcileRegistryModelStates
  <2>1. seen # NoAuth /\ pc[Service] \notin {"take", "add"}
    BY <1>3, <1>11, Labels DEF ReconcileRegistryModelStates
  <2>2. live = NoAuth <=> live' = NoAuth
    <3> DEFINE new == ReconcileOf(live.state, registered, now)
    <3>1. CASE live' = live
      BY <3>1
    <3>2. CASE live # NoAuth /\ live' = [live EXCEPT !.state = new]
      <4>1. StateOK(live.state) /\ now # 0
        BY <3>2 DEF Kinds, Cred
      <4>2. StateOK(new)
        BY <1>2, <4>1, StateReconciled
      <4> HIDE DEF new
      <4>3. live' \in Cred
        BY <3>2, <4>2, Changed
      <4> QED BY <3>2, <4>3, Distinct
    <3> QED BY <1>11, <3>1, <3>2 DEF ReconcileRegistryModelStates
  <2>3. \E label \in {"reconcileUpsert", "refreshEntry"} : pc' = [pc EXCEPT ![Service] = label]
    BY <1>11 DEF ReconcileRegistryModelStates, Goto
  <2>4. seen' = seen
    BY <1>11 DEF ReconcileRegistryModelStates
  <2> QED BY <1>8, <2>1, <2>2, <2>3, <2>4
<1>12. CASE RefreshSchedulerEntry
  <2>1. seen # NoAuth /\ pc[Service] \notin {"take", "add"}
    BY <1>3, <1>12, Labels DEF RefreshSchedulerEntry
  <2>2. \E label \in {"idle", "entryUpsert"} : pc' = [pc EXCEPT ![Service] = label]
    BY <1>12 DEF RefreshSchedulerEntry, Goto
  <2>3. UNCHANGED <<seen, live>>
    BY <1>12 DEF RefreshSchedulerEntry
  <2> QED BY <1>8, <2>1, <2>2, <2>3
<1>13. CASE ServiceRemove
  <2>1. pc'[Service] = "remove" /\ \A c \in Callers : pc'[c] = pc[c]
    BY <1>4, <1>13 DEF ServiceRemove, Goto
  <2>2. ~env.operated => live # NoAuth
    BY <1>13 DEF ServiceRemove, Removal
  <2>3. registered' = {} /\ live' = live /\ seen' = NoAuth
    BY <1>13 DEF ServiceRemove
  <2> QED BY <2>1, <2>2, <2>3 DEF Removal
<1>14. CASE RemoveRecord(Service)
  <2>1. UNCHANGED <<seen, registered>> /\ pc[Service] = "remove"
    BY <1>14 DEF RemoveRecord
  <2>2. CASE env.operated
    <3>1. seen = NoAuth
      BY <2>1 DEF Removal
    <3> QED BY <2>1, <2>2, <3>1 DEF Removal
  <2>3. CASE ~env.operated
    <3>1. live # NoAuth
      BY <2>1, <2>3 DEF Removal
    <3>2. live' = NoAuth /\ pc' = [pc EXCEPT ![Service] = "removeEntry"]
      BY <1>14, <3>1 DEF RemoveRecord, Replace, Goto
    <3>3. pc'[Service] = "removeEntry" /\ \A c \in Callers : pc'[c] = pc[c]
      BY <1>4, <3>2
    <3>4. seen = NoAuth
      BY <2>1 DEF Removal
    <3> QED BY <2>1, <3>2, <3>3, <3>4 DEF Removal
  <2> QED BY <2>2, <2>3
<1>15. CASE RemoveEntry(Service)
  <2>1. /\ UNCHANGED <<seen, registered, live>> /\ pc[Service] = "removeEntry"
        /\ pc'[Service] = "idle" /\ \A c \in Callers : pc'[c] = pc[c]
    BY <1>4, <1>15 DEF RemoveEntry, Goto
  <2>2. NoEntries(sched')
    BY <1>2, <1>15, Removed DEF RemoveEntry
  <2> QED BY <2>1, <2>2 DEF Removal
<1> QED BY <1>5, <1>6, <1>7, <1>9, <1>10, <1>11, <1>12, <1>13, <1>14, <1>15, <1>16 DEF Serve

\* Every step keeps what a removal must leave.
LEMMA RemovalKept == Kinds /\ Holdings /\ Removal /\ Next => Removal'
<1> SUFFICES ASSUME Kinds, Holdings, Removal, Next PROVE Removal'
  OBVIOUS
<1>1. env' = env
  BY DEF Next
<1>2. ASSUME NEW c \in Callers, Request(c) \/ Refresh(c) \/ Manage(c)
      PROVE  Removal'
  <2>1. UNCHANGED <<seen, registered>> /\ pc'[Service] = pc[Service]
    BY <1>2, CallerLeaves
  <2>2. CASE env.operated
    BY <1>1, <2>1, <2>2 DEF Removal
  <2>3. CASE ~env.operated
    <3>1. pc[c] \notin Operator
      BY <2>3 DEF Removal, Operator
    <3>2. /\ pc'[c] \notin Operator /\ \A q \in Procs \ {c} : pc'[q] = pc[q]
          /\ live = NoAuth <=> live' = NoAuth
          /\ NoEntries(sched) /\ registered = {} => NoEntries(sched')
      BY <1>2, <2>3, <3>1, CallerEffect
    <3>3. /\ pc'[Service] = pc[Service]
          /\ \A d \in Callers : d # c => pc'[d] = pc[d]
      BY <3>2, CallerFacts DEF Procs
    <3>4. pc'[c] \notin {"toggle", "updateUpsert", "persist", "remove", "removeEntry"}
      BY <3>2 DEF Operator
    <3> QED BY <1>1, <2>1, <3>2, <3>3, <3>4 DEF Removal
  <2> QED BY <2>2, <2>3
<1>3. CASE Serve
  BY <1>1, <1>3, ServeRemoval
<1>4. CASE Tick \/ Revoke \/ FileChanges
  BY <1>1, <1>4 DEF Tick, Revoke, FileChanges, Removal
<1> QED BY <1>2, <1>3, <1>4 DEF Next, Step

\* What a removal must leave, at the start.
LEMMA RemovalInit == Init => Removal
<1> SUFFICES ASSUME Init PROVE Removal
  OBVIOUS
<1>1. Service \in Procs /\ \A c \in Callers : c \in Procs
  BY CallerFacts DEF Procs
<1>2. FileOf(live) \in FileState /\ live # NoAuth
  BY FirstRecord, Distinct DEF Init
<1>3. seen # NoAuth /\ \A p \in Procs : pc[p] = "idle"
  BY <1>2, Distinct DEF Init
<1> QED BY <1>1, <1>2, <1>3 DEF Removal

-----------------------------------------------------------------------------
(***************************************************************************)
(* An enabled credential stays visible.                                    *)
(***************************************************************************)
Rebuilding == {"sync", "rebuild", "repick"}

\* A step that keeps records and references enabled, and the scheduler told,
\* keeps the credential visible.
LEMMA VisibleMoved ==
  ASSUME Kinds, Holdings, Visible, env.others, ~env.operated, env' = env,
         NEW p \in Procs, NEW label, pc' = [pc EXCEPT ![p] = label],
         label \notin Rebuilding, Enabled(live'), Enabled(obj'[p]),
         \A q \in Procs \ {p} : /\ obj'[q] \in {obj[q], Deref(obj[q])}
                                /\ save'[q] = save[q],
         file' # NoAuth => ~file'.disabled,
         save'[p] \in FileState => ~save'[p].disabled,
         pc'[Service] = "removeEntry" => live' = NoAuth,
         pc'[Service] \in {"idle", "take", "update"} /\ live' # NoAuth => InScheduler'
  PROVE  Visible'
<1>1. pc'[p] = label /\ \A q \in Procs \ {p} : pc'[q] = pc[q]
  BY DEF Holdings
<1>2. \A c \in Callers : c \in Procs /\ pc'[c] \notin {"sync", "rebuild", "repick"}
  BY <1>1, CallerFacts DEF Visible, Rebuilding
<1>3. \A q \in Procs : Enabled(obj'[q])
  BY DEF Visible, Deref
<1>4. Visible' = (env'.others /\ ~env'.operated =>
        /\ \A c \in Callers : pc'[c] \notin {"sync", "rebuild", "repick"}
        /\ Enabled(live') /\ \A q \in Procs : Enabled(obj'[q])
        /\ file' # NoAuth => ~file'.disabled
        /\ \A q \in Procs : save'[q] \in FileState => ~save'[q].disabled
        /\ pc'[Service] = "removeEntry" => live' = NoAuth
        /\ pc'[Service] \in {"idle", "take", "update"} /\ live' # NoAuth => InScheduler')
  BY DEF Visible, Enabled
<1> QED BY <1>2, <1>3, <1>4 DEF Visible

\* An upsert of an enabled copy.
LEMMA UpsertVisible ==
  ASSUME Kinds, NEW ref \in Cred \cup {Live}, ref = Live => live # NoAuth,
         Enabled(Deref(ref)), sched' = upsertAuthLocked(sched, ref), registered' = registered
  PROVE  InScheduler'
<1>1. Deref(ref) \in Cred
  BY Shown DEF Kinds
<1>2. /\ SchedOK(sched, live) /\ live \in Cred \cup {NoAuth}
      /\ registered \in SUBSET Models /\ now \in Nat
  BY DEF Kinds
<1>3. sched'.meta = ref /\ sched'.supported = registered
  BY <1>1, <1>2, Upserted DEF Enabled
<1> QED BY <1>3, Distinct DEF InScheduler

\* The calls keep the credential visible.
LEMMA CallerVisible ==
  ASSUME Kinds, Holdings, Removal, Visible, env.others, ~env.operated, env' = env,
         NEW c \in Callers, Request(c) \/ Refresh(c) \/ Manage(c)
  PROVE  Visible'
<1>1. c \in Procs /\ c # Service /\ pc[c] \notin Operator /\ pc[c] \notin Rebuilding
  BY CallerFacts DEF Removal, Visible, Operator, Rebuilding
<1>2. /\ UNCHANGED <<seen, registered, now>> /\ pc'[Service] = pc[Service]
      /\ live = NoAuth <=> live' = NoAuth
  BY <1>1, CallerEffect, CallerLeaves
<1>3. ASSUME NEW label, pc' = [pc EXCEPT ![c] = label],
             label \notin Rebuilding, Enabled(live'), Enabled(obj'[c]),
             \A q \in Procs \ {c} : /\ obj'[q] \in {obj[q], Deref(obj[q])}
                                    /\ save'[q] = save[q],
             file' # NoAuth => ~file'.disabled,
             save'[c] \in FileState => ~save'[c].disabled,
             InScheduler => InScheduler'
      PROVE  Visible'
  <2>1. /\ pc'[Service] = "removeEntry" => live' = NoAuth
        /\ pc'[Service] \in {"idle", "take", "update"} /\ live' # NoAuth => InScheduler'
    BY <1>2, <1>3 DEF Visible
  <2> QED BY <1>1, <1>3, <2>1, VisibleMoved
<1>4. \A label \in {"idle", "upsert", "refresh", "refreshing", "refreshUpsert",
                    "refreshPersist"} : label \notin Rebuilding
  BY DEF Rebuilding
<1>5. Enabled(live) /\ (\A q \in Procs : Enabled(obj[q])) /\ Enabled(NoAuth) /\ Enabled(Live)
  BY Distinct DEF Visible, Enabled
<1>6. ASSUME NEW state, StateOK(state), state.disabled = live.state.disabled, live # NoAuth,
             live' = [live EXCEPT !.state = state],
             Save(FileOf(live)) \/ file' = file
      PROVE  /\ live' \in Cred /\ Enabled(live')
             /\ file' # NoAuth => ~file'.disabled
  <2>1. live \in Cred /\ live' \in Cred /\ live'.state = state
    BY <1>6, Changed DEF Kinds
  <2>2. ~live.state.disabled /\ Enabled(live')
    BY <1>5, <1>6, <2>1 DEF Enabled
  <2>3. FileOf(live).disabled = live.state.disabled
    BY DEF FileOf
  <2> QED BY <1>6, <2>1, <2>2, <2>3 DEF Save, Visible
<1>7. ASSUME NEW m \in Models, NEW class,
             \/ MarkResultSuccess(c, m)
             \/ MarkResultFailure(c, m, class)
      PROVE  Visible'
  <2>1. StateOK(live.state) /\ now \in Nat /\ now # 0 /\ live # NoAuth
    BY <1>7 DEF MarkResultSuccess, MarkResultFailure, Kinds, Cred
  <2>2. PICK st : StateOK(st) /\ st.disabled = live.state.disabled /\ ChangeInPlace(c, st)
    BY <1>7, <2>1, StateKept DEF MarkResultSuccess, MarkResultFailure
  <2>3. file' # NoAuth => ~file'.disabled
    BY <1>6, <2>1, <2>2 DEF ChangeInPlace
  <2>4. Enabled(live')
    BY <1>6, <2>1, <2>2 DEF ChangeInPlace
  <2>5. /\ pc' = [pc EXCEPT ![c] = "upsert"] /\ obj'[c] = live' /\ UNCHANGED <<save, sched>>
        /\ \A q \in Procs \ {c} : obj'[q] = obj[q]
    BY <1>1, <2>2 DEF ChangeInPlace, Goto, Holdings
  <2>6. save'[c] \in FileState => ~save'[c].disabled
    BY <1>1, <2>5 DEF Visible
  <2>7. InScheduler => InScheduler'
    BY <1>2, <2>5 DEF InScheduler
  <2> QED BY <1>3, <1>4, <2>3, <2>4, <2>5, <2>6, <2>7
<1>8. ASSUME NEW m \in Models, Pick(c, m) \/ Repick(c, m)
      PROVE  Visible'
  <2>1. Pick(c, m)
    BY <1>1, <1>8 DEF Repick, Rebuilding
  <2>2. /\ pc' = [pc EXCEPT ![c] = "idle"] /\ UNCHANGED <<live, file, obj, save>>
        /\ sched' = ensureModelLocked(sched, m)
    BY <2>1 DEF Pick, PickFrom, Goto
  <2>3. sched'.meta = sched.meta /\ sched'.supported = sched.supported
    BY <2>2, Ensured DEF Kinds
  <2>4. InScheduler => InScheduler'
    BY <1>2, <2>3 DEF InScheduler
  <2> QED BY <1>1, <1>3, <1>4, <1>5, <2>2, <2>4 DEF Visible
<1>9. ASSUME NEW from \in {"upsert", "refreshUpsert"}, NEW to \in {"idle", "refreshPersist"},
             Upsert(c, from, to)
      PROVE  Visible'
  <2>1. obj[c] \in Cred \cup {Live} /\ (obj[c] = Live => live # NoAuth)
    BY <1>1, <1>9, Labels DEF Upsert, Holdings
  <2>2. Enabled(Deref(obj[c]))
    BY <1>1, <1>5 DEF Deref
  <2>3. /\ pc' = [pc EXCEPT ![c] = to] /\ obj'[c] = NoAuth /\ UNCHANGED <<live, file, save>>
        /\ \A q \in Procs \ {c} : obj'[q] = obj[q]
        /\ sched' = upsertAuthLocked(sched, obj[c])
    BY <1>1, <1>9 DEF Upsert, Goto, Holdings
  <2>4. InScheduler'
    BY <1>2, <2>1, <2>2, <2>3, UpsertVisible
  <2> QED BY <1>1, <1>3, <1>4, <1>5, <2>3, <2>4 DEF Visible
<1>10. CASE RefreshAsked(c) \/ RefreshBegin(c)
  <2>1. \E label \in {"refresh", "refreshing", "idle"} : pc' = [pc EXCEPT ![c] = label]
    BY <1>10 DEF RefreshAsked, RefreshBegin, Goto
  <2>2. /\ UNCHANGED <<live, file, save, sched>> /\ obj'[c] \in {obj[c], live, NoAuth}
        /\ \A q \in Procs \ {c} : obj'[q] = obj[q]
    BY <1>1, <1>10 DEF RefreshAsked, RefreshBegin, Holdings
  <2>3. InScheduler => InScheduler'
    BY <1>2, <2>2 DEF InScheduler
  <2> QED BY <1>1, <1>3, <1>4, <1>5, <2>1, <2>2, <2>3 DEF Visible
<1>11. CASE RefreshFails(c)
  <2>1. /\ pc' = [pc EXCEPT ![c] = "idle"] /\ obj'[c] = NoAuth /\ UNCHANGED <<file, save>>
        /\ \A q \in Procs \ {c} : obj'[q] = obj[q]
    BY <1>1, <1>11 DEF RefreshFails, Goto, Holdings
  <2>2. CASE UNCHANGED <<live, sched>>
    <3>1. InScheduler => InScheduler'
      BY <1>2, <2>2 DEF InScheduler
    <3> QED BY <1>1, <1>3, <1>4, <1>5, <2>1, <2>2, <3>1 DEF Visible
  <2>3. ASSUME NEW error \in {"unauthorized", "other"}, live # NoAuth,
               live' = [live EXCEPT
                 !.state.lastError = error,
                 !.state.unavailable = @ \/ error = "unauthorized",
                 !.state.status = IF error = "unauthorized" THEN "error" ELSE @],
               sched' = upsertAuthLocked(sched, live')
        PROVE  Visible'
    <3> DEFINE x == live'
    <3>1. live \in Cred
      BY <2>3 DEF Kinds
    <3>2. x \in Cred /\ x.state.disabled = live.state.disabled
      <4>1. x \in Cred
        BY <2>3, <3>1 DEF Cred, Credential, StateOK, Auth, ErrorKind
      <4>2. x.state.disabled = live.state.disabled
        BY <2>3, <3>1 DEF Cred, Credential, StateOK, Auth
      <4> QED BY <4>1, <4>2
    <3>3. sched' = upsertAuthLocked(sched, x)
      BY <2>3
    <3> HIDE DEF x
    <3>4. x \in Cred \cup {Live} /\ x # Live /\ Enabled(x) /\ Deref(x) = x
      BY <1>5, <3>1, <3>2, Distinct DEF Enabled, Deref
    <3>5. InScheduler'
      BY <1>2, <3>3, <3>4, UpsertVisible
    <3>6. Enabled(live')
      BY <3>4 DEF x
    <3> QED BY <1>1, <1>3, <1>4, <1>5, <2>1, <3>5, <3>6 DEF Visible
  <2> QED BY <1>11, <2>2, <2>3 DEF RefreshFails
<1>12. CASE RefreshUpdate(c)
  <2> DEFINE a == [token |-> obj[c].token + 1, state |-> RefreshedOf(obj[c].state, now)]
  <2>1. /\ a \in Cred /\ obj[c] \in Cred /\ a.state.disabled = obj[c].state.disabled
        /\ Update(c, a, "refreshUpsert", "idle", TRUE) /\ file' = file
    BY <1>12, RefreshCopied DEF RefreshUpdate
  <2> HIDE DEF a
  <2>2. ~a.state.disabled
    BY <1>1, <1>5, <2>1 DEF Enabled
  <2>3. InScheduler => InScheduler'
    <3>1. /\ live = NoAuth => sched' = sched
          /\ live # NoAuth => sched'.meta = Deref(sched.meta)
          /\ sched'.supported = sched.supported
      BY <1>1, <2>1, UpdateKeeps
    <3>2. sched'.meta = NoAuth => sched.meta = NoAuth
      BY <3>1 DEF Deref
    <3> QED BY <1>2, <3>1, <3>2 DEF InScheduler
  <2>4. CASE live = NoAuth
    <3>1. /\ pc' = [pc EXCEPT ![c] = "idle"] /\ obj'[c] = NoAuth /\ UNCHANGED <<live, save>>
          /\ \A q \in Procs \ {c} : obj'[q] = obj[q]
      BY <1>1, <2>1, <2>4 DEF Update, Goto, Holdings
    <3> QED BY <1>1, <1>3, <1>4, <1>5, <2>1, <2>3, <3>1 DEF Visible
  <2>5. CASE live # NoAuth
    <3>1. PICK new \in Cred : /\ new.state.disabled = a.state.disabled
                              /\ Replace(c, new, Live)
                              /\ save' = [save EXCEPT ![c] = FileOf(new)]
      <4> DEFINE keep == TRUE
      <4>1. keep \in BOOLEAN /\ Update(c, a, "refreshUpsert", "idle", keep)
        BY <2>1
      <4> HIDE DEF keep
      <4>2. \E new \in Cred :
              /\ new.state.disabled = a.state.disabled
              /\ Replace(c, new, Live)
              /\ save' = IF keep THEN [save EXCEPT ![c] = FileOf(new)] ELSE save
        BY <1>1, <2>1, <2>5, <4>1, Updated
      <4> QED BY <4>2 DEF keep
    <3>2. new # NoAuth
      BY Distinct
    <3>3. /\ live' = new /\ obj'[c] = Live
          /\ \A q \in Procs \ {c} : obj'[q] = Deref(obj[q])
      BY <1>1, <3>1, <3>2, Replaced
    <3>4. /\ save'[c] \in FileState => ~save'[c].disabled
          /\ \A q \in Procs \ {c} : save'[q] = save[q]
      BY <1>1, <2>2, <3>1 DEF FileOf, Holdings
    <3>5. pc' = [pc EXCEPT ![c] = "refreshUpsert"] /\ Enabled(live')
      BY <2>1, <2>2, <2>5, <3>1, <3>3 DEF Update, Goto, Enabled
    <3> QED BY <1>1, <1>3, <1>4, <1>5, <2>1, <2>3, <3>3, <3>4, <3>5 DEF Visible
  <2> QED BY <2>4, <2>5
<1>13. CASE PersistUpdate(c, "refreshPersist")
  <2>1. save[c] \in FileState
    BY <1>1, <1>13, Labels DEF PersistUpdate, Holdings, Persisting
  <2>2. /\ UNCHANGED <<live, sched, obj>>
        /\ save'[c] = NoAuth /\ \A q \in Procs \ {c} : save'[q] = save[q]
        /\ pc' = [pc EXCEPT ![c] = "idle"]
    BY <1>1, <1>13 DEF PersistUpdate, Goto, Holdings
  <2>3. file' # NoAuth => ~file'.disabled
    BY <1>1, <1>13, <2>1 DEF PersistUpdate, Save, Visible
  <2>4. save'[c] \in FileState => ~save'[c].disabled
    BY <2>2, Distinct
  <2>5. InScheduler => InScheduler'
    BY <1>2, <2>2 DEF InScheduler
  <2> QED BY <1>1, <1>3, <1>4, <1>5, <2>2, <2>3, <2>4, <2>5
<1>14. CASE ResetQuota(c)
  <2> DEFINE st == ResetQuotaOf(live.state, now)
  <2>1. StateOK(live.state) /\ live # NoAuth /\ now \in Nat
    BY <1>14 DEF ResetQuota, Kinds, Cred
  <2>2. StateOK(st) /\ st.disabled = live.state.disabled
    BY <2>1, StateReset
  <2>3. live' = [live EXCEPT !.state = st] /\ (Save(FileOf(live)) \/ file' = file)
    BY <1>14 DEF ResetQuota
  <2> HIDE DEF st
  <2>4. /\ Enabled(live')
        /\ file' # NoAuth => ~file'.disabled
    BY <1>6, <2>1, <2>2, <2>3
  <2>5. /\ obj'[c] \in {obj[c], live'} /\ \A q \in Procs \ {c} : obj'[q] = obj[q]
        /\ UNCHANGED <<save, sched>>
    BY <1>1, <1>14 DEF ResetQuota, Holdings
  <2>6. \E label \in {"idle", "upsert"} : pc' = [pc EXCEPT ![c] = label]
    BY <1>1, <1>14 DEF ResetQuota, Goto, Holdings
  <2>7. InScheduler => InScheduler'
    BY <1>2, <2>5 DEF InScheduler
  <2> QED BY <1>1, <1>3, <1>4, <1>5, <2>4, <2>5, <2>6, <2>7 DEF Visible
<1>15. /\ ~ToggleRead(c) /\ ~ToggleUpdate(c) /\ ~Upsert(c, "updateUpsert", "persist")
       /\ ~PersistUpdate(c, "persist") /\ ~DeleteFile(c) /\ ~RemoveRecord(c) /\ ~RemoveEntry(c)
       /\ ~syncSnapshot(c) /\ ~rebuild(c)
  BY <1>1 DEF ToggleRead, ToggleUpdate, Upsert, PersistUpdate, DeleteFile, RemoveRecord,
     RemoveEntry, Operator, syncSnapshot, rebuild, Rebuilding
<1> QED BY <1>7, <1>8, <1>9, <1>10, <1>11, <1>12, <1>13, <1>14, <1>15
        DEF Request, Refresh, Manage

\* The service's application of an update keeps it visible, or makes it so.
LEMMA ServeVisible ==
  ASSUME Kinds, Holdings, Removal, Visible, env.others, ~env.operated, env' = env, Serve
  PROVE  Visible'
<1>1. Service \in Procs /\ pc \in [Procs -> CallerLabel \cup ServiceLabel]
  BY DEF Procs, Holdings
<1>2. Enabled(live) /\ (\A q \in Procs : Enabled(obj[q])) /\ Enabled(NoAuth) /\ Enabled(Live)
  BY Distinct DEF Visible, Enabled
<1>3. ASSUME NEW label \in ServiceLabel, pc' = [pc EXCEPT ![Service] = label],
             Enabled(live'), Enabled(obj'[Service]), UNCHANGED <<file, save>>,
             \A q \in Procs \ {Service} : obj'[q] \in {obj[q], Deref(obj[q])},
             label = "removeEntry" => live' = NoAuth,
             label \in {"idle", "take", "update"} /\ live' # NoAuth => InScheduler'
      PROVE  Visible'
  <2>1. label \notin Rebuilding /\ pc'[Service] = label
    BY <1>1, <1>3 DEF ServiceLabel, Rebuilding
  <2>2. save'[Service] \in FileState => ~save'[Service].disabled
    BY <1>1, <1>3 DEF Visible
  <2>3. file' # NoAuth => ~file'.disabled
    BY <1>3 DEF Visible
  <2> QED BY <1>1, <1>3, <2>1, <2>2, <2>3, VisibleMoved
<1>4. CASE ServiceRead
  <2> PICK a \in Cred : obj' = [obj EXCEPT ![Service] = a] /\ a.state.disabled = file.disabled
    BY <1>4, ServiceCopied
  <2>1. Enabled(a)
    BY <1>4 DEF ServiceRead, Visible, Enabled
  <2>2. /\ obj'[Service] = a /\ \A q \in Procs \ {Service} : obj'[q] = obj[q]
        /\ UNCHANGED <<live, file, save, sched, registered>>
    BY <1>1, <1>4 DEF ServiceRead, Holdings
  <2>3. live # NoAuth => InScheduler'
    BY <1>4, <2>2 DEF ServiceRead, Visible, InScheduler
  <2>4. pc' = [pc EXCEPT ![Service] = "take"] /\ "take" \in ServiceLabel
    BY <1>4, Labels DEF ServiceRead, Goto
  <2> QED BY <1>2, <1>3, <2>1, <2>2, <2>3, <2>4
<1>14. CASE ServiceTake
  <2> PICK a \in Cred : /\ obj' = [obj EXCEPT ![Service] = a]
                        /\ a.state.disabled = obj[Service].state.disabled
    BY <1>14, ServiceTaken
  <2>1. obj[Service] \in Cred
    BY <1>1, <1>14, Labels DEF ServiceTake, Holdings
  <2>2. Enabled(a)
    BY <1>1, <2>1 DEF Visible, Enabled
  <2>3. /\ obj'[Service] = a /\ \A q \in Procs \ {Service} : obj'[q] = obj[q]
        /\ UNCHANGED <<live, file, save, sched, registered>>
    BY <1>1, <1>14 DEF ServiceTake, Holdings
  <2>4. live # NoAuth => InScheduler'
    BY <1>14, <2>3 DEF ServiceTake, Visible, InScheduler
  <2>5. PICK label \in {"add", "update"} : pc' = [pc EXCEPT ![Service] = label]
    BY <1>14 DEF ServiceTake, Goto
  <2>6. label \in ServiceLabel
    BY Labels
  <2> QED BY <1>2, <1>3, <2>2, <2>3, <2>4, <2>5, <2>6
<1>5. CASE ServiceUpdate
  <2>1. obj[Service] \in Cred
    BY <1>1, <1>5, Labels DEF ServiceUpdate, Holdings
  <2>2. /\ Update(Service, obj[Service], "registerUpsert", "register", FALSE)
        /\ file' = file
    BY <1>5 DEF ServiceUpdate
  <2>3. CASE live = NoAuth
    <3>1. /\ pc' = [pc EXCEPT ![Service] = "register"] /\ obj'[Service] = NoAuth
          /\ UNCHANGED <<live, save>> /\ \A q \in Procs \ {Service} : obj'[q] = obj[q]
      BY <1>1, <2>2, <2>3 DEF Update, Goto, Holdings
    <3> QED BY <1>2, <1>3, <2>2, <3>1, Labels
  <2>4. CASE live # NoAuth
    <3>1. PICK new \in Cred : /\ new.state.disabled = obj[Service].state.disabled
                              /\ Replace(Service, new, Live)
      BY <1>1, <2>1, <2>2, <2>4, Updated
    <3>2. new # NoAuth /\ Enabled(new)
      BY <1>1, <1>2, <2>1, <3>1, Distinct DEF Enabled
    <3>3. /\ live' = new /\ obj'[Service] = Live
          /\ \A q \in Procs \ {Service} : obj'[q] = Deref(obj[q])
      BY <1>1, <3>1, <3>2, Replaced
    <3>4. pc' = [pc EXCEPT ![Service] = "registerUpsert"] /\ save' = save
      BY <2>2, <2>4 DEF Update, Goto
    <3> QED BY <1>2, <1>3, <2>2, <3>2, <3>3, <3>4, Labels
  <2> QED BY <2>3, <2>4
<1>6. CASE ServiceAdd
  <2>1. obj[Service] \in Cred
    BY <1>1, <1>6, Labels DEF ServiceAdd, Holdings
  <2>2. /\ Replace(Service, obj[Service], Live) /\ UNCHANGED <<file, save>>
        /\ pc' = [pc EXCEPT ![Service] = "registerUpsert"]
    BY <1>6 DEF ServiceAdd, Goto
  <2>3. /\ live' = obj[Service] /\ obj'[Service] = Live
        /\ \A q \in Procs \ {Service} : obj'[q] = Deref(obj[q])
    BY <1>1, <2>1, <2>2, Distinct, Replaced
  <2>4. Enabled(live')
    BY <1>1, <1>2, <2>3
  <2> QED BY <1>2, <1>3, <2>2, <2>3, <2>4, Labels
<1>7. ASSUME NEW from \in {"registerUpsert", "reconcileUpsert", "entryUpsert"},
             NEW to \in {"register", "refreshEntry", "idle"}, Upsert(Service, from, to)
      PROVE  Visible'
  <2>1. obj[Service] \in Cred \cup {Live} /\ (obj[Service] = Live => live # NoAuth)
    BY <1>1, <1>7, Labels DEF Upsert, Holdings
  <2>2. Enabled(Deref(obj[Service]))
    BY <1>1, <1>2 DEF Deref
  <2>3. /\ pc' = [pc EXCEPT ![Service] = to] /\ obj'[Service] = NoAuth
        /\ UNCHANGED <<live, file, save, registered>>
        /\ \A q \in Procs \ {Service} : obj'[q] = obj[q]
        /\ sched' = upsertAuthLocked(sched, obj[Service])
    BY <1>1, <1>7 DEF Upsert, Goto, Holdings
  <2>4. InScheduler'
    BY <2>1, <2>2, <2>3, UpsertVisible
  <2>5. to \in ServiceLabel
    BY Labels
  <2> QED BY <1>2, <1>3, <2>3, <2>4, <2>5
<1>8. CASE registerModelsForAuth \/ ServiceRemove
  <2>1. PICK label \in {"reconcile", "remove"} : pc' = [pc EXCEPT ![Service] = label]
    BY <1>8 DEF registerModelsForAuth, ServiceRemove, Goto
  <2>2. UNCHANGED <<live, file, save, obj>>
    BY <1>8 DEF registerModelsForAuth, ServiceRemove
  <2>3. label \in ServiceLabel
    BY Labels
  <2> QED BY <1>1, <1>2, <1>3, <2>1, <2>2, <2>3
<1>9. CASE ReconcileRegistryModelStates
  <2> DEFINE new == ReconcileOf(live.state, registered, now)
  <2>1. PICK label \in {"reconcileUpsert", "refreshEntry"} : pc' = [pc EXCEPT ![Service] = label]
    BY <1>9 DEF ReconcileRegistryModelStates, Goto
  <2>2. label \in ServiceLabel /\ UNCHANGED <<file, save>>
    BY <1>9, Labels DEF ReconcileRegistryModelStates
  <2>3. CASE live' = live /\ obj' = obj
    BY <1>1, <1>2, <1>3, <2>1, <2>2, <2>3
  <2>4. CASE /\ live # NoAuth /\ live' = [live EXCEPT !.state = new]
             /\ obj' = [obj EXCEPT ![Service] = live']
    <3>1. live \in Cred /\ StateOK(live.state) /\ now \in Nat /\ now # 0
          /\ registered \in SUBSET Models
      BY <2>4 DEF Kinds, Cred
    <3>2. StateOK(new) /\ new.disabled = live.state.disabled
      BY <3>1, StateReconciled
    <3> HIDE DEF new
    <3>3. live' \in Cred /\ live'.state = new
      BY <2>4, <3>2, Changed
    <3>4. Enabled(live')
      BY <1>2, <3>1, <3>2, <3>3 DEF Enabled
    <3>5. obj'[Service] = live' /\ \A q \in Procs \ {Service} : obj'[q] = obj[q]
      BY <1>1, <2>4 DEF Holdings
    <3> QED BY <1>3, <2>1, <2>2, <3>4, <3>5
  <2> QED BY <1>9, <2>3, <2>4 DEF ReconcileRegistryModelStates
<1>10. CASE RefreshSchedulerEntry
  <2>1. PICK label \in {"idle", "entryUpsert"} : /\ pc' = [pc EXCEPT ![Service] = label]
                                                 /\ label = "idle" => live = NoAuth
    BY <1>10 DEF RefreshSchedulerEntry, Goto
  <2>2. /\ UNCHANGED <<live, file, save>> /\ obj'[Service] = live
        /\ \A q \in Procs \ {Service} : obj'[q] = obj[q]
    BY <1>1, <1>10 DEF RefreshSchedulerEntry, Holdings
  <2>3. label \in ServiceLabel
    BY Labels
  <2> QED BY <1>2, <1>3, <2>1, <2>2, <2>3
<1>11. CASE RemoveEntry(Service)
  <2>1. /\ UNCHANGED <<live, file, save, obj>> /\ pc' = [pc EXCEPT ![Service] = "idle"]
        /\ live = NoAuth
    BY <1>11 DEF RemoveEntry, Goto, Visible
  <2> QED BY <1>1, <1>2, <1>3, <2>1, Labels
<1>12. CASE RemoveRecord(Service) /\ live = NoAuth
  <2>1. /\ UNCHANGED <<live, file, save, obj>> /\ pc' = [pc EXCEPT ![Service] = "idle"]
    BY <1>12 DEF RemoveRecord, Goto
  <2> QED BY <1>1, <1>2, <1>3, <1>12, <2>1, Labels
<1>13. CASE RemoveRecord(Service) /\ live # NoAuth
  <2>1. /\ Replace(Service, NoAuth, NoAuth) /\ UNCHANGED <<file, save>>
        /\ pc' = [pc EXCEPT ![Service] = "removeEntry"]
    BY <1>13 DEF RemoveRecord, Goto
  <2>2. /\ live' = NoAuth /\ obj'[Service] = NoAuth
        /\ \A q \in Procs \ {Service} : obj'[q] = Deref(obj[q])
    BY <1>1, <2>1, Distinct, Replaced
  <2> QED BY <1>2, <1>3, <2>1, <2>2, Labels
<1> QED BY <1>4, <1>5, <1>6, <1>7, <1>8, <1>9, <1>10, <1>11, <1>12, <1>13, <1>14 DEF Serve

\* Every step keeps it visible.
LEMMA VisibleKept == Kinds /\ Holdings /\ Removal /\ Visible /\ Next => Visible'
<1> SUFFICES ASSUME Kinds, Holdings, Removal, Visible, Next PROVE Visible'
  OBVIOUS
<1>1. env' = env
  BY DEF Next
<1>2. CASE ~(env.others /\ ~env.operated)
  BY <1>1, <1>2 DEF Visible
<1>3. CASE env.others /\ ~env.operated
  <2>1. ASSUME NEW c \in Callers, Request(c) \/ Refresh(c) \/ Manage(c)
        PROVE  Visible'
    BY <1>1, <1>3, <2>1, CallerVisible
  <2>2. CASE Serve
    BY <1>1, <1>3, <2>2, ServeVisible
  <2>3. CASE Tick \/ Revoke
    BY <1>1, <2>3 DEF Tick, Revoke, Visible, Enabled, InScheduler
  <2>4. CASE FileChanges
    <3>1. file' # NoAuth => ~file'.disabled
      BY <2>4 DEF FileChanges
    <3> QED BY <1>1, <2>4, <3>1 DEF FileChanges, Visible, Enabled, InScheduler
  <2> QED BY <2>1, <2>2, <2>3, <2>4 DEF Next, Step
<1> QED BY <1>2, <1>3

\* Visibility at the start.
LEMMA VisibleInit == Init => Visible
<1> SUFFICES ASSUME Init PROVE Visible
  OBVIOUS
<1>1. Service \in Procs /\ \A c \in Callers : c \in Procs
  BY CallerFacts DEF Procs
<1>2. /\ live \in Cred /\ ~live.state.disabled /\ live # NoAuth
      /\ sched.meta = live /\ sched.supported = registered
      /\ file = FileOf(live)
  BY FirstRecord, Distinct DEF Init
<1>3. \A p \in Procs : pc[p] = "idle" /\ obj[p] = NoAuth /\ save[p] = NoAuth
  BY DEF Init
<1> QED BY <1>1, <1>2, <1>3, Distinct DEF Visible, Enabled, InScheduler, FileOf

-----------------------------------------------------------------------------
(***************************************************************************)
(* One operation at a time: the scheduler is in step with the record.      *)
(***************************************************************************)
LEMMA BlockedMeans ==
  ASSUME NEW a \in Auth, NEW m \in Models, NEW t \in Nat
  PROVE  Blocked(a, m, t) <=> IsDisabled(a) \/ Cooling(a.models[m], t)
<1>1. m # NoModel
  BY CooldownAssumption
<1> QED BY <1>1 DEF Blocked, isAuthBlockedForModel, CooldownBlock, NotBlocked

\* A credential without blocks is not blocked.
LEMMA FreeNotBlocked ==
  ASSUME NEW a, StateOK(a), Free(a), ~a.disabled, NEW m \in Models, NEW t \in Nat
  PROVE  ~Blocked(a, m, t)
BY BlockedMeans DEF StateOK, Free, IsDisabled, Cooling

\* A model that is not blocked now is not blocked later.
LEMMA NotBlockedLater ==
  ASSUME NEW a, StateOK(a), NEW m \in Models, NEW t \in Nat, ~Blocked(a, m, t)
  PROVE  ~Blocked(a, m, t + 1)
<1>1. a.models[m].nextRetry \in Nat
  BY DEF StateOK, Auth, ModelState
<1> QED BY <1>1, BlockedMeans DEF StateOK, Cooling

\* The scheduler after an upsert shows the record.
LEMMA UpsertedNow ==
  ASSUME Kinds, NEW ref \in Cred \cup {Live}, ref = Live => live # NoAuth
  PROVE  LET u == upsertAuthLocked(sched, ref) IN
           /\ Deref(ref).state.disabled => u.meta = NoAuth
           /\ ~Deref(ref).state.disabled => u.meta = ref /\ u.supported = registered
           /\ \A m \in Models : Ready(u, m) => ~Blocked(Deref(ref).state, m, now)
<1>1. /\ SchedOK(sched, live) /\ live \in Cred \cup {NoAuth}
      /\ registered \in SUBSET Models /\ now \in Nat
      /\ ref = Live => live # NoAuth /\ live # NoAuth
  BY DEF Kinds
<1>2. SchedOK(upsertAuthLocked(sched, ref), live)
  BY <1>1, Upserted
<1>3. ASSUME NEW m \in Models, Ready(upsertAuthLocked(sched, ref), m)
      PROVE  ~Blocked(Deref(ref).state, m, now)
  BY <1>1, <1>2, <1>3, Upserted
<1>4. LET u == upsertAuthLocked(sched, ref) IN
        /\ Deref(ref).state.disabled => u.meta = NoAuth
        /\ ~Deref(ref).state.disabled => u.meta = ref /\ u.supported = registered
  BY <1>1, <1>2, Upserted
<1> QED BY <1>3, <1>4

\* An upsert of the record as it is brings the scheduler in step.
LEMMA UpsertInStep ==
  ASSUME Kinds, NEW ref \in Cred \cup {Live}, ref = Live => live # NoAuth,
         sched' = upsertAuthLocked(sched, ref), live' = Deref(ref), now' = now,
         registered' = registered
  PROVE  InStep' /\ (~live'.state.disabled => InScheduler')
<1>1. /\ SchedOK(sched, live) /\ live \in Cred \cup {NoAuth}
      /\ registered \in SUBSET Models /\ now \in Nat
  BY DEF Kinds
<1> DEFINE x == Deref(ref)
<1>2. x \in Cred /\ (ref # Live => ref = x)
  BY <1>1, Shown DEF Deref
<1>3. /\ x.state.disabled => sched'.meta = NoAuth
      /\ ~x.state.disabled => sched'.meta = ref /\ sched'.supported = registered
      /\ \A m \in Models : Ready(sched', m) => ~Blocked(x.state, m, now)
  BY UpsertedNow
<1>4. live' = x
  OBVIOUS
<1> HIDE DEF x
<1>5. sched'.meta # NoAuth => (Deref(sched.meta))' = live'
  BY <1>2, <1>3, <1>4 DEF Deref
<1>6. InStep'
  BY <1>3, <1>4, <1>5 DEF InStep, Ready
<1>7. ~live'.state.disabled => InScheduler'
  BY <1>2, <1>3, <1>4, Distinct DEF InScheduler
<1> QED BY <1>6, <1>7

\* The state seen by the one goroutine that is not idle.
One(p) ==
  /\ \A q \in Procs \ {p} : pc[q] = "idle"
  /\ pc[p] \in Syncing \cup {"rebuild"} => Deref(obj[p]) = live
  /\ pc[p] = "removeEntry" => live = NoAuth
  /\ live = NoAuth /\ pc[p] # "removeEntry" => sched.meta = NoAuth
  /\ live # NoAuth /\ pc[p] \notin Syncing \ {"entryUpsert"} => InStep
  /\ live # NoAuth /\ pc[p] \notin Syncing \cup {"reconcile", "refreshEntry"}
       /\ ~(p = Service /\ pc[p] = "remove") /\ ~live.state.disabled => InScheduler

\* A goroutine that finds everybody else idle runs alone.
LEMMA AloneOne ==
  ASSUME Holdings, Alone, ~env.overlap, NEW p \in Procs, \A q \in Procs \ {p} : pc[q] = "idle"
  PROVE  One(p)
<1>1. Service \in Procs /\ "idle" \notin Syncing
  BY Labels DEF Procs
<1>2. p # Service => pc[Service] = "idle"
  BY <1>1
<1>3. pc[p] # "removeEntry" => \A q \in Procs : pc[q] # "removeEntry"
  OBVIOUS
<1>4. /\ pc[p] \notin Syncing \ {"entryUpsert"} =>
           \A q \in Procs : pc[q] \notin Syncing \ {"entryUpsert"}
      /\ pc[p] \notin Syncing => \A q \in Procs : pc[q] \notin Syncing
  BY <1>1
<1> QED BY <1>2, <1>3, <1>4 DEF Alone, One

\* What one goroutine keeps while it runs alone.
LEMMA OneAlone ==
  ASSUME Holdings', NEW p \in Procs, One(p)'
  PROVE  Alone'
<1>1. Service \in Procs /\ "idle" \notin Syncing
  BY Labels DEF Procs
<1>2. /\ \A q, r \in Procs : q = r \/ pc'[q] = "idle" \/ pc'[r] = "idle"
      /\ \A q \in Procs : /\ pc'[q] \in Syncing \cup {"rebuild"} => (Deref(obj[q]))' = live'
                          /\ pc'[q] = "removeEntry" => live' = NoAuth
  BY <1>1 DEF One
<1>3. p # Service => pc'[p] \notin {"reconcile", "refreshEntry"}
  BY DEF Holdings, Procs, CallerLabel
<1> QED BY <1>1, <1>2, <1>3 DEF Alone, One

\* A step that leaves the record and the scheduler alone.
LEMMA OneSame ==
  ASSUME Holdings, NEW p \in Procs, One(p), NEW label, pc' = [pc EXCEPT ![p] = label],
         UNCHANGED <<live, sched, now, registered>>,
         label \in Syncing \cup {"rebuild"} => label = "rebuild" \/ label = "entryUpsert",
         label \in {"rebuild", "entryUpsert"} => Deref(obj'[p]) = live,
         label # "removeEntry", pc[p] # "removeEntry",
         pc[p] \notin Syncing,
         pc[p] \in {"reconcile", "refreshEntry"} =>
           label \in {"refreshEntry", "entryUpsert"} \/ live = NoAuth,
         ~(p = Service /\ pc[p] = "remove") \/ live = NoAuth
  PROVE  One(p)'
<1>1. pc'[p] = label /\ \A q \in Procs \ {p} : pc'[q] = pc[q]
  BY DEF Holdings
<1>2. "entryUpsert" \in Syncing
  BY Labels
<1>3. /\ (Deref(obj[p]))' = Deref(obj'[p])
      /\ InStep => InStep'
      /\ InScheduler => InScheduler'
  <2>1. (Deref(obj[p]))' = Deref(obj'[p]) /\ (Deref(sched.meta))' = Deref(sched.meta)
    BY DEF Deref
  <2>2. InStep => InStep'
    BY <2>1 DEF InStep, Ready
  <2>3. InScheduler => InScheduler'
    BY DEF InScheduler
  <2> QED BY <2>1, <2>2, <2>3
<1>4. One(p)' = (/\ \A q \in Procs \ {p} : pc'[q] = "idle"
                 /\ pc'[p] \in Syncing \cup {"rebuild"} => (Deref(obj[p]))' = live'
                 /\ pc'[p] = "removeEntry" => live' = NoAuth
                 /\ live' = NoAuth /\ pc'[p] # "removeEntry" => sched'.meta = NoAuth
                 /\ live' # NoAuth /\ pc'[p] \notin Syncing \ {"entryUpsert"} => InStep'
                 /\ live' # NoAuth /\ pc'[p] \notin Syncing \cup {"reconcile", "refreshEntry"}
                      /\ ~(p = Service /\ pc'[p] = "remove") /\ ~live'.state.disabled
                      => InScheduler')
  BY DEF One
<1> QED BY <1>1, <1>2, <1>3, <1>4 DEF One

\* A step after which the goroutine is about to tell the scheduler.
LEMMA OneTells ==
  ASSUME Kinds, Holdings, NEW p \in Procs, One(p), NEW label, pc' = [pc EXCEPT ![p] = label],
         label \in Syncing \ {"entryUpsert"}, live' \in Cred, obj'[p] = live' \/ obj'[p] = Live
  PROVE  One(p)'
<1>1. pc'[p] = label /\ \A q \in Procs \ {p} : pc'[q] = pc[q]
  BY DEF Holdings
<1>2. live' # NoAuth /\ label \notin {"removeEntry", "rebuild"}
  BY Distinct, Labels
<1>3. (Deref(obj[p]))' = live'
  BY DEF Deref
<1> QED BY <1>1, <1>2, <1>3 DEF One

\* A step after which there is no record and no entry.
LEMMA OneGone ==
  ASSUME Holdings, NEW p \in Procs, One(p), NEW label, pc' = [pc EXCEPT ![p] = label],
         live' = NoAuth, label \notin Syncing \cup {"rebuild"},
         label = "removeEntry" \/ sched'.meta = NoAuth
  PROVE  One(p)'
<1>1. pc'[p] = label /\ \A q \in Procs \ {p} : pc'[q] = pc[q]
  BY DEF Holdings
<1> QED BY <1>1 DEF One

\* A step that brings the scheduler in step.
LEMMA OneSynced ==
  ASSUME Holdings, NEW p \in Procs, One(p), NEW label, pc' = [pc EXCEPT ![p] = label],
         live' # NoAuth, label \notin Syncing \cup {"rebuild", "removeEntry"},
         InStep', ~live'.state.disabled => InScheduler'
  PROVE  One(p)'
<1>1. pc'[p] = label /\ \A q \in Procs \ {p} : pc'[q] = pc[q]
  BY DEF Holdings
<1> QED BY <1>1 DEF One

\* An Update leaves a record that the scheduler is about to be told of.
LEMMA UpdateOne ==
  ASSUME Kinds, Holdings, NEW p \in Procs, One(p), NEW a \in Cred, NEW label, NEW missing,
         NEW keep \in BOOLEAN, Update(p, a, label, missing, keep),
         label \in Syncing \ {"entryUpsert"},
         missing \notin Syncing \cup {"rebuild", "removeEntry"}, pc[p] # "removeEntry"
  PROVE  One(p)'
<1>1. CASE live = NoAuth
  <2>1. /\ live' = NoAuth /\ pc' = [pc EXCEPT ![p] = missing] /\ sched' = sched
    BY <1>1 DEF Update, Goto
  <2>2. sched'.meta = NoAuth
    BY <1>1, <2>1 DEF One
  <2> QED BY <2>1, <2>2, OneGone
<1>2. CASE live # NoAuth
  <2>1. PICK new \in Cred : Replace(p, new, Live)
    BY <1>2, Updated
  <2>2. new # NoAuth
    BY Distinct
  <2>3. live' = new /\ obj'[p] = Live
    BY <2>1, <2>2, Replaced
  <2>4. pc' = [pc EXCEPT ![p] = label]
    BY <1>2 DEF Update, Goto
  <2> QED BY <2>3, <2>4, OneTells
<1> QED BY <1>1, <1>2

\* The upsert that ends a change, run alone.
LEMMA UpsertOne ==
  ASSUME Kinds, Holdings, NEW p \in Procs, One(p), NEW from \in Syncing, NEW to,
         Upsert(p, from, to),
         to \notin Syncing \cup {"rebuild", "removeEntry"}
  PROVE  One(p)'
<1>1. /\ pc[p] = from /\ pc' = [pc EXCEPT ![p] = to]
      /\ sched' = upsertAuthLocked(sched, obj[p])
      /\ UNCHANGED <<live, registered, now>>
  BY DEF Upsert, Goto
<1>2. /\ obj[p] \in Cred \cup {Live}
      /\ obj[p] = Live => live # NoAuth
      /\ Deref(obj[p]) = live
  BY <1>1 DEF Holdings, One
<1>3. live' = Deref(obj[p]) /\ live' # NoAuth
  BY <1>1, <1>2, Shown, Distinct DEF Kinds
<1>4. InStep' /\ (~live'.state.disabled => InScheduler')
  BY <1>1, <1>2, <1>3, UpsertInStep
<1> QED BY <1>1, <1>3, <1>4, OneSynced

\* A removal, run alone.
LEMMA RemoveOne ==
  ASSUME Kinds, Holdings, NEW p \in Procs, One(p), RemoveRecord(p) \/ RemoveEntry(p)
  PROVE  One(p)'
<1>1. /\ "idle" \notin Syncing \cup {"rebuild"}
      /\ "removeEntry" \notin Syncing \cup {"rebuild"}
  BY Labels
<1>2. CASE RemoveRecord(p) /\ live = NoAuth
  <2>1. /\ live' = NoAuth /\ sched' = sched /\ pc' = [pc EXCEPT ![p] = "idle"]
        /\ sched.meta = NoAuth
    BY <1>2 DEF RemoveRecord, Goto, One
  <2> QED BY <1>1, <2>1, OneGone
<1>3. CASE RemoveRecord(p) /\ live # NoAuth
  <2>1. live' = NoAuth /\ pc' = [pc EXCEPT ![p] = "removeEntry"]
    BY <1>3 DEF RemoveRecord, Replace, Goto
  <2> QED BY <1>1, <2>1, OneGone
<1>4. CASE RemoveEntry(p)
  <2>1. live' = NoAuth /\ pc' = [pc EXCEPT ![p] = "idle"]
    BY <1>4 DEF RemoveEntry, Goto, One
  <2>2. sched'.meta = NoAuth
    BY <1>4 DEF RemoveEntry, removeAuthLocked, Kinds, SchedOK
  <2> QED BY <1>1, <2>1, <2>2, OneGone
<1> QED BY <1>2, <1>3, <1>4

\* Evaluating an entry again does not put the scheduler out of step.
LEMMA PickOne ==
  ASSUME Kinds, Holdings, NEW c \in Callers, One(c), NEW m \in Models,
         Pick(c, m) \/ Repick(c, m)
  PROVE  One(c)'
<1>1. c \in Procs /\ pc[c] \in {"idle", "repick"}
  BY CallerFacts DEF Pick, Repick
<1>2. PICK label \in {"idle", "sync"} : pc' = [pc EXCEPT ![c] = label]
  BY DEF Pick, Repick, PickFrom, Goto
<1>3. label \notin Syncing \cup {"rebuild", "removeEntry"} /\ pc[c] \notin Syncing
  BY <1>1, Labels
<1>4. UNCHANGED <<live, registered, now>> /\ sched' = ensureModelLocked(sched, m)
  BY DEF Pick, Repick, PickFrom
<1>5. /\ SchedOK(sched, live) /\ live \in Cred \cup {NoAuth} /\ now \in Nat
  BY DEF Kinds
<1>6. /\ sched'.meta = sched.meta /\ sched'.supported = sched.supported
      /\ \A n \in Models : Ready(sched', n) =>
           Ready(sched, n) \/ (sched.meta # NoAuth /\ ~Blocked(Deref(sched.meta).state, n, now))
  BY <1>4, <1>5, Ensured
<1>7. CASE live = NoAuth
  <2>1. sched'.meta = NoAuth
    BY <1>1, <1>6, <1>7 DEF One
  <2> QED BY <1>1, <1>2, <1>3, <1>4, <1>7, <2>1, OneGone
<1>8. CASE live # NoAuth
  <2>1. InStep /\ (~live.state.disabled => InScheduler)
    BY <1>1, <1>3, <1>8 DEF One
  <2>2. (Deref(sched.meta))' = Deref(sched.meta)
    BY <1>4, <1>6 DEF Deref
  <2>3. ASSUME NEW n \in Models, Ready(sched', n)
        PROVE  ~Blocked(live.state, n, now)
    <3>1. CASE Ready(sched, n)
      BY <2>1, <3>1 DEF InStep
    <3>2. CASE sched.meta # NoAuth /\ ~Blocked(Deref(sched.meta).state, n, now)
      <4>1. CASE Deref(sched.meta).state = live.state
        BY <3>2, <4>1
      <4>2. CASE Free(live.state)
        <5>1. StateOK(live.state) /\ ~live.state.disabled
          BY <1>5, <1>8, <2>1, <3>2 DEF InStep, Cred
        <5> QED BY <1>5, <4>2, <5>1, FreeNotBlocked
      <4> QED BY <2>1, <3>2, <4>1, <4>2 DEF InStep
    <3> QED BY <1>6, <2>3, <3>1, <3>2
  <2>4. InStep'
    BY <1>4, <1>6, <2>1, <2>2, <2>3 DEF InStep
  <2>5. ~live'.state.disabled => InScheduler'
    BY <1>4, <1>6, <2>1 DEF InScheduler
  <2> QED BY <1>1, <1>2, <1>3, <1>4, <1>8, <2>4, <2>5, OneSynced
<1> QED BY <1>7, <1>8

\* The scheduler is made again from a copy that is still the record.
LEMMA RebuildOne ==
  ASSUME Kinds, Holdings, NEW c \in Callers, One(c), syncSnapshot(c) \/ rebuild(c)
  PROVE  One(c)'
<1>1. c \in Procs /\ c # Service
  BY CallerFacts
<1>2. /\ SchedOK(sched, live) /\ live \in Cred \cup {NoAuth} /\ now \in Nat
      /\ registered \in SUBSET Models /\ live # Live
  BY Distinct DEF Kinds
<1>3. CASE syncSnapshot(c)
  <2>1. /\ pc[c] = "sync" /\ pc' = [pc EXCEPT ![c] = "rebuild"]
        /\ UNCHANGED <<live, sched, now, registered>> /\ obj'[c] = live
    BY <1>1, <1>3 DEF syncSnapshot, Goto, Holdings
  <2>2. Deref(obj'[c]) = live
    BY <1>2, <2>1 DEF Deref
  <2>3. "sync" \notin Syncing
    BY Labels
  <2> QED BY <1>1, <2>1, <2>2, <2>3, OneSame
<1>4. CASE rebuild(c)
  <2>1. /\ pc[c] = "rebuild" /\ pc' = [pc EXCEPT ![c] = "repick"]
        /\ UNCHANGED <<live, now, registered>> /\ sched' = Rebuilt(obj[c])
    BY <1>4 DEF rebuild, Goto
  <2>2. "repick" \notin Syncing \cup {"rebuild", "removeEntry"}
    BY Labels
  <2>3. /\ obj[c] \in Cred \cup {Live, NoAuth}
        /\ obj[c] = Live => live # NoAuth
        /\ Deref(obj[c]) = live
    BY <1>1, <2>1 DEF Holdings, One
  <2>4. CASE live = NoAuth
    <3>1. obj[c] = NoAuth
      BY <2>3, <2>4 DEF Deref
    <3>2. sched'.meta = NoAuth
      BY <1>2, <2>1, <3>1, Distinct, RebuiltOK
    <3> QED BY <1>1, <2>1, <2>2, <2>4, <3>2, OneGone
  <2>5. CASE live # NoAuth
    <3>1. obj[c] \in Cred \cup {Live} /\ obj[c] # NoAuth
      BY <2>3, <2>5, Distinct DEF Deref
    <3> DEFINE u == Rebuilt(obj[c])
    <3>2. /\ live.state.disabled => u.meta = NoAuth
          /\ ~live.state.disabled => u.meta = obj[c] /\ u.supported = registered
      BY <1>2, <2>3, <3>1, RebuiltOK
    <3>3. ASSUME NEW m \in Models, Ready(u, m)
          PROVE  ~Blocked(live.state, m, now)
      BY <1>2, <2>3, <3>1, <3>3, RebuiltOK
    <3> HIDE DEF u
    <3>4. sched' = u
      BY <2>1 DEF u
    <3>5. sched'.meta # NoAuth => (Deref(sched.meta))' = live'
      BY <2>1, <2>3, <3>2, <3>4 DEF Deref
    <3>6. InStep'
      BY <2>1, <3>2, <3>3, <3>4, <3>5 DEF InStep
    <3>7. ~live'.state.disabled => InScheduler'
      BY <2>1, <3>1, <3>2, <3>4 DEF InScheduler
    <3> QED BY <1>1, <2>1, <2>2, <2>5, <3>6, <3>7, OneSynced
  <2> QED BY <2>4, <2>5
<1> QED BY <1>3, <1>4

\* A request, run alone.
LEMMA RequestOne ==
  ASSUME Kinds, Holdings, NEW c \in Callers, One(c), Request(c)
  PROVE  One(c)'
<1>1. c \in Procs
  BY CallerFacts
<1>2. ASSUME NEW m \in Models, NEW class,
             \/ MarkResultSuccess(c, m)
             \/ MarkResultFailure(c, m, class)
      PROVE  One(c)'
  <2>1. StateOK(live.state) /\ now \in Nat /\ now # 0 /\ live # NoAuth
    BY <1>2 DEF MarkResultSuccess, MarkResultFailure, Kinds, Cred
  <2>2. /\ StateOK(MarkSuccess(live.state, m, now))
        /\ StateOK(MarkFailure(live.state, m, class, NoRetryAfter, now, FALSE))
    BY <2>1, StateKept
  <2>3. PICK st : StateOK(st) /\ ChangeInPlace(c, st)
    BY <1>2, <2>2 DEF MarkResultSuccess, MarkResultFailure
  <2>4. live' \in Cred
    BY <2>1, <2>3, Changed DEF ChangeInPlace
  <2>5. pc' = [pc EXCEPT ![c] = "upsert"] /\ obj'[c] = live'
    BY <1>1, <2>3 DEF ChangeInPlace, Goto, Holdings
  <2>6. "upsert" \in Syncing \ {"entryUpsert"}
    BY Labels
  <2> QED BY <1>1, <2>4, <2>5, <2>6, OneTells
<1>3. CASE Upsert(c, "upsert", "idle")
  <2>1. "upsert" \in Syncing /\ "idle" \notin Syncing \cup {"rebuild", "removeEntry"}
    BY Labels
  <2> QED BY <1>1, <1>3, <2>1, UpsertOne
<1> QED BY <1>2, <1>3, PickOne, RebuildOne DEF Request

\* A refresh, run alone.
LEMMA RefreshOne ==
  ASSUME Kinds, Holdings, NEW c \in Callers, One(c), Refresh(c)
  PROVE  One(c)'
<1>1. c \in Procs /\ c # Service
  BY CallerFacts
<1>2. \A l \in {"idle", "refresh", "refreshing", "refreshPersist"} :
        l \notin Syncing /\ l \notin Syncing \cup {"rebuild", "removeEntry"}
  BY Labels
<1>3. CASE RefreshAsked(c) \/ RefreshBegin(c)
  <2>1. PICK label \in {"refresh", "refreshing", "idle"} : pc' = [pc EXCEPT ![c] = label]
    BY <1>3 DEF RefreshAsked, RefreshBegin, Goto
  <2>2. UNCHANGED <<live, sched, now, registered>> /\ pc[c] \in {"idle", "refresh"}
    BY <1>3 DEF RefreshAsked, RefreshBegin
  <2>3. /\ label \notin Syncing \cup {"rebuild", "removeEntry"} /\ label # "entryUpsert"
        /\ pc[c] \notin Syncing
    BY <1>2, <2>2
  <2> QED BY <1>1, <2>1, <2>2, <2>3, OneSame
<1>4. CASE RefreshFails(c)
  <2>1. pc' = [pc EXCEPT ![c] = "idle"] /\ pc[c] = "refreshing"
        /\ UNCHANGED <<now, registered>>
    BY <1>4 DEF RefreshFails, Goto
  <2>2. CASE UNCHANGED <<live, sched>>
    BY <1>1, <1>2, <2>1, <2>2, OneSame
  <2>3. ASSUME NEW error \in {"unauthorized", "other"}, live # NoAuth,
               live' = [live EXCEPT
                 !.state.lastError = error,
                 !.state.unavailable = @ \/ error = "unauthorized",
                 !.state.status = IF error = "unauthorized" THEN "error" ELSE @],
               sched' = upsertAuthLocked(sched, live')
        PROVE  One(c)'
    <3> DEFINE x == live'
    <3>1. x \in Cred
      BY <2>3 DEF Kinds, Cred, Credential, StateOK, Auth, ErrorKind
    <3>2. sched' = upsertAuthLocked(sched, x) /\ live' = x
      BY <2>3
    <3> HIDE DEF x
    <3>3. x \in Cred \cup {Live} /\ x # Live /\ x # NoAuth /\ Deref(x) = x
      BY <3>1, Distinct DEF Deref
    <3>4. InStep' /\ (~live'.state.disabled => InScheduler')
      BY <2>1, <3>2, <3>3, UpsertInStep
    <3> QED BY <1>1, <1>2, <2>1, <3>2, <3>3, <3>4, OneSynced
  <2> QED BY <1>4, <2>2, <2>3 DEF RefreshFails
<1>5. CASE RefreshUpdate(c)
  <2> DEFINE a == [token |-> obj[c].token + 1, state |-> RefreshedOf(obj[c].state, now)]
  <2>1. a \in Cred /\ Update(c, a, "refreshUpsert", "idle", TRUE) /\ pc[c] = "refreshing"
    BY <1>5, RefreshCopied DEF RefreshUpdate
  <2> HIDE DEF a
  <2>2. "refreshUpsert" \in Syncing \ {"entryUpsert"}
    BY Labels
  <2> QED BY <1>1, <1>2, <2>1, <2>2, UpdateOne
<1>6. CASE Upsert(c, "refreshUpsert", "refreshPersist")
  <2>1. "refreshUpsert" \in Syncing
    BY Labels
  <2> QED BY <1>1, <1>2, <1>6, <2>1, UpsertOne
<1>7. CASE PersistUpdate(c, "refreshPersist")
  <2>1. /\ pc' = [pc EXCEPT ![c] = "idle"] /\ UNCHANGED <<live, sched, now, registered>>
        /\ pc[c] = "refreshPersist"
    BY <1>7 DEF PersistUpdate, Goto
  <2> QED BY <1>1, <1>2, <2>1, OneSame
<1> QED BY <1>3, <1>4, <1>5, <1>6, <1>7 DEF Refresh

\* The operator's calls, run alone.
LEMMA ManageOne ==
  ASSUME Kinds, Holdings, NEW c \in Callers, One(c), Manage(c)
  PROVE  One(c)'
<1>1. c \in Procs /\ c # Service
  BY CallerFacts
<1>2. \A l \in {"idle", "toggle", "persist", "remove"} :
        l \notin Syncing /\ l \notin Syncing \cup {"rebuild", "removeEntry"}
  BY Labels
<1>3. CASE ToggleRead(c)
  <2>1. /\ pc' = [pc EXCEPT ![c] = "toggle"] /\ UNCHANGED <<live, sched, now, registered>>
        /\ pc[c] = "idle"
    BY <1>3 DEF ToggleRead, Goto
  <2> QED BY <1>1, <1>2, <2>1, OneSame
<1>4. CASE ToggleUpdate(c)
  <2>1. obj[c] \in Cred /\ pc[c] = "toggle"
    BY <1>1, <1>4, Labels DEF ToggleUpdate, Holdings
  <2>2. Toggled(obj[c]) \in Cred
    BY <2>1, ToggleCopied
  <2>3. Update(c, Toggled(obj[c]), "updateUpsert", "idle", TRUE)
    BY <1>4 DEF ToggleUpdate, Toggled
  <2>4. "updateUpsert" \in Syncing \ {"entryUpsert"}
    BY Labels
  <2> QED BY <1>1, <1>2, <2>1, <2>2, <2>3, <2>4, UpdateOne
<1>5. CASE Upsert(c, "updateUpsert", "persist")
  <2>1. "updateUpsert" \in Syncing
    BY Labels
  <2> QED BY <1>1, <1>2, <1>5, <2>1, UpsertOne
<1>6. CASE PersistUpdate(c, "persist")
  <2>1. /\ pc' = [pc EXCEPT ![c] = "idle"] /\ UNCHANGED <<live, sched, now, registered>>
        /\ pc[c] = "persist"
    BY <1>6 DEF PersistUpdate, Goto
  <2> QED BY <1>1, <1>2, <2>1, OneSame
<1>7. CASE ResetQuota(c)
  <2> DEFINE st == ResetQuotaOf(live.state, now)
  <2>1. /\ StateOK(live.state) /\ live # NoAuth /\ now \in Nat
        /\ UNCHANGED <<sched, now, registered>> /\ pc[c] = "idle"
    BY <1>7 DEF ResetQuota, Kinds, Cred
  <2>2. StateOK(st) /\ st.disabled = live.state.disabled /\ Free(st)
    BY <2>1, StateReset
  <2>3. live' = [live EXCEPT !.state = st]
    BY <1>7 DEF ResetQuota
  <2> HIDE DEF st
  <2>4. live' \in Cred /\ live'.state = st /\ live' # NoAuth
    BY <2>1, <2>2, <2>3, Changed, Distinct
  <2>5. CASE pc' = [pc EXCEPT ![c] = "upsert"] /\ obj' = [obj EXCEPT ![c] = live']
    <3>1. obj'[c] = live'
      BY <1>1, <2>5 DEF Holdings
    <3>2. "upsert" \in Syncing \ {"entryUpsert"}
      BY Labels
    <3> QED BY <1>1, <2>4, <2>5, <3>1, <3>2, OneTells
  <2>6. CASE pc' = pc
    <3>1. pc' = [pc EXCEPT ![c] = "idle"]
      BY <1>1, <2>1, <2>6 DEF Holdings
    <3>2. InStep /\ (~live.state.disabled => InScheduler)
      BY <1>2, <2>1 DEF One
    <3>3. ASSUME NEW m \in Models, Ready(sched, m)
          PROVE  ~Blocked(st, m, now)
      <4>1. sched.meta # NoAuth
        BY <3>3 DEF Kinds, SchedOK, NoEntries, Ready
      <4>2. ~st.disabled
        BY <2>2, <3>2, <4>1 DEF InStep
      <4> QED BY <2>1, <2>2, <4>2, FreeNotBlocked
    <3>4. InStep'
      BY <2>1, <2>2, <2>4, <3>2, <3>3 DEF InStep, Ready
    <3>5. ~live'.state.disabled => InScheduler'
      BY <2>1, <2>2, <2>4, <3>2 DEF InScheduler
    <3> QED BY <1>1, <1>2, <2>4, <3>1, <3>4, <3>5, OneSynced
  <2> QED BY <1>7, <2>5, <2>6 DEF ResetQuota, Goto
<1>8. CASE DeleteFile(c)
  <2>1. /\ pc' = [pc EXCEPT ![c] = "remove"] /\ UNCHANGED <<live, sched, now, registered>>
        /\ pc[c] = "idle"
    BY <1>8 DEF DeleteFile, Goto
  <2> QED BY <1>1, <1>2, <2>1, OneSame
<1>9. CASE RemoveRecord(c) \/ RemoveEntry(c)
  BY <1>1, <1>9, RemoveOne
<1> QED BY <1>3, <1>4, <1>5, <1>6, <1>7, <1>8, <1>9 DEF Manage

\* The service's application of an update, run alone.
LEMMA ServeOne ==
  ASSUME Kinds, Holdings, One(Service), Serve
  PROVE  One(Service)'
<1>1. Service \in Procs
  BY DEF Procs
<1>2. \A l \in {"idle", "take", "add", "update", "register", "reconcile", "refreshEntry",
               "remove"} :
        l \notin Syncing /\ l \notin Syncing \cup {"rebuild", "removeEntry"}
  BY Labels
<1>3. /\ "registerUpsert" \in Syncing \ {"entryUpsert"}
      /\ "reconcileUpsert" \in Syncing \ {"entryUpsert"} /\ "entryUpsert" \in Syncing
  BY Labels
<1>4. CASE ServiceRead
  <2>1. /\ pc' = [pc EXCEPT ![Service] = "take"] /\ pc[Service] = "idle"
        /\ UNCHANGED <<live, sched, now, registered>>
    BY <1>4 DEF ServiceRead, Goto
  <2> QED BY <1>1, <1>2, <2>1, OneSame
<1>13. CASE ServiceTake
  <2>1. PICK label \in {"add", "update"} : pc' = [pc EXCEPT ![Service] = label]
    BY <1>13 DEF ServiceTake, Goto
  <2>2. UNCHANGED <<live, sched, now, registered>> /\ pc[Service] = "take"
    BY <1>13 DEF ServiceTake
  <2> QED BY <1>1, <1>2, <2>1, <2>2, OneSame
<1>5. CASE ServiceUpdate
  <2>1. /\ Update(Service, obj[Service], "registerUpsert", "register", FALSE)
        /\ obj[Service] \in Cred /\ pc[Service] = "update"
    BY <1>1, <1>5, Labels DEF ServiceUpdate, Holdings
  <2> QED BY <1>1, <1>2, <1>3, <2>1, UpdateOne
<1>6. CASE ServiceAdd
  <2>1. /\ obj[Service] \in Cred /\ Replace(Service, obj[Service], Live)
        /\ pc' = [pc EXCEPT ![Service] = "registerUpsert"]
    BY <1>1, <1>6, Labels DEF ServiceAdd, Goto, Holdings
  <2>2. live' = obj[Service] /\ obj'[Service] = Live
    BY <1>1, <2>1, Distinct, Replaced
  <2> QED BY <1>1, <1>3, <2>1, <2>2, OneTells
<1>7. CASE \/ Upsert(Service, "registerUpsert", "register")
           \/ Upsert(Service, "reconcileUpsert", "refreshEntry")
           \/ Upsert(Service, "entryUpsert", "idle")
  BY <1>1, <1>2, <1>3, <1>7, UpsertOne
<1>8. CASE registerModelsForAuth
  <2>1. /\ pc' = [pc EXCEPT ![Service] = "reconcile"] /\ UNCHANGED <<live, sched, now>>
        /\ pc[Service] = "register"
    BY <1>8 DEF registerModelsForAuth, Goto
  <2>2. /\ live # NoAuth => InStep
        /\ live = NoAuth => sched.meta = NoAuth
        /\ \A q \in Procs \ {Service} : pc[q] = "idle"
    BY <1>2, <2>1 DEF One
  <2>3. (Deref(sched.meta))' = Deref(sched.meta)
    BY <2>1 DEF Deref
  <2>4. live # NoAuth => InStep'
    BY <2>1, <2>2, <2>3 DEF InStep, Ready
  <2>5. pc'[Service] = "reconcile" /\ \A q \in Procs \ {Service} : pc'[q] = pc[q]
    BY <1>1, <2>1 DEF Holdings
  <2> QED BY <1>2, <2>1, <2>2, <2>4, <2>5 DEF One
<1>9. CASE ServiceRemove
  <2>1. /\ pc' = [pc EXCEPT ![Service] = "remove"] /\ UNCHANGED <<live, sched, now>>
        /\ pc[Service] = "idle"
    BY <1>9 DEF ServiceRemove, Goto
  <2>2. /\ live # NoAuth => InStep
        /\ live = NoAuth => sched.meta = NoAuth
        /\ \A q \in Procs \ {Service} : pc[q] = "idle"
    BY <1>2, <2>1 DEF One
  <2>3. (Deref(sched.meta))' = Deref(sched.meta)
    BY <2>1 DEF Deref
  <2>4. live # NoAuth => InStep'
    BY <2>1, <2>2, <2>3 DEF InStep, Ready
  <2>5. pc'[Service] = "remove" /\ \A q \in Procs \ {Service} : pc'[q] = pc[q]
    BY <1>1, <2>1 DEF Holdings
  <2> QED BY <1>2, <2>1, <2>2, <2>4, <2>5 DEF One
<1>10. CASE ReconcileRegistryModelStates
  <2> DEFINE new == ReconcileOf(live.state, registered, now)
  <2>1. CASE live # NoAuth /\ new # live.state
    <3>1. /\ live' = [live EXCEPT !.state = new] /\ obj'[Service] = live'
          /\ pc' = [pc EXCEPT ![Service] = "reconcileUpsert"]
      BY <1>1, <1>10, <2>1 DEF ReconcileRegistryModelStates, Goto, Holdings
    <3>2. StateOK(live.state) /\ now \in Nat /\ now # 0 /\ registered \in SUBSET Models
      BY <2>1 DEF Kinds, Cred
    <3>3. StateOK(new)
      BY <3>2, StateReconciled
    <3> HIDE DEF new
    <3>4. live' \in Cred
      BY <2>1, <3>1, <3>3, Changed
    <3> QED BY <1>1, <1>3, <3>1, <3>4, OneTells
  <2>2. CASE ~(live # NoAuth /\ new # live.state)
    <3>1. /\ pc' = [pc EXCEPT ![Service] = "refreshEntry"] /\ pc[Service] = "reconcile"
          /\ UNCHANGED <<live, sched, now, registered>>
      BY <1>10, <2>2 DEF ReconcileRegistryModelStates, Goto
    <3> QED BY <1>1, <1>2, <3>1, OneSame
  <2> QED BY <2>1, <2>2
<1>11. CASE RefreshSchedulerEntry
  <2>1. PICK label \in {"idle", "entryUpsert"} :
          /\ pc' = [pc EXCEPT ![Service] = label]
          /\ label = "idle" => live = NoAuth
    BY <1>11 DEF RefreshSchedulerEntry, Goto
  <2>2. /\ UNCHANGED <<live, sched, now, registered>> /\ pc[Service] = "refreshEntry"
        /\ obj'[Service] = live
    BY <1>1, <1>11 DEF RefreshSchedulerEntry, Holdings
  <2>3. Deref(obj'[Service]) = live
    BY <2>2, Distinct DEF Deref, Kinds
  <2> QED BY <1>1, <1>2, <2>1, <2>2, <2>3, OneSame
<1>12. CASE RemoveRecord(Service) \/ RemoveEntry(Service)
  BY <1>1, <1>12, RemoveOne
<1> QED BY <1>4, <1>5, <1>6, <1>7, <1>8, <1>9, <1>10, <1>11, <1>12, <1>13 DEF Serve

\* Every step keeps the index in step while calls do not overlap.
LEMMA AloneKept == Kinds /\ Holdings /\ Alone /\ Next /\ Holdings' => Alone'
<1> SUFFICES ASSUME Kinds, Holdings, Alone, Next, Holdings' PROVE Alone'
  OBVIOUS
<1>1. env' = env
  BY DEF Next
<1>2. CASE env.overlap
  BY <1>1, <1>2 DEF Alone
<1>3. CASE ~env.overlap
  <2>1. ASSUME NEW c \in Callers, MayStep(c), Request(c) \/ Refresh(c) \/ Manage(c)
        PROVE  Alone'
    <3>1. c \in Procs
      BY CallerFacts
    <3>2. One(c)
      BY <1>3, <2>1, <3>1, AloneOne DEF MayStep
    <3>3. One(c)'
      BY <2>1, <3>2, RequestOne, RefreshOne, ManageOne
    <3> QED BY <3>1, <3>3, OneAlone
  <2>2. CASE MayStep(Service) /\ Serve
    <3>1. Service \in Procs
      BY DEF Procs
    <3>2. One(Service)
      BY <1>3, <2>2, <3>1, AloneOne DEF MayStep
    <3>3. One(Service)'
      BY <2>2, <3>2, ServeOne
    <3> QED BY <3>1, <3>3, OneAlone
  <2>3. CASE Tick \/ Revoke \/ FileChanges
    <3>1. /\ UNCHANGED <<live, sched, registered, pc, obj>> /\ now \in Nat
          /\ now' = now \/ now' = now + 1
      BY <2>3 DEF Tick, Revoke, FileChanges, Kinds
    <3>2. /\ (Deref(sched.meta))' = Deref(sched.meta)
          /\ \A p \in Procs : (Deref(obj[p]))' = Deref(obj[p])
      BY <3>1 DEF Deref
    <3>3. live # NoAuth => StateOK(live.state)
      BY DEF Kinds, Cred
    <3>4. live # NoAuth /\ InStep => InStep'
      <4>1. ASSUME live # NoAuth, InStep, NEW m \in Models, Ready(sched, m)
            PROVE  ~Blocked(live.state, m, now')
        BY <3>1, <3>3, <4>1, NotBlockedLater DEF InStep
      <4> QED BY <3>1, <3>2, <4>1 DEF InStep, Ready
    <3>5. InScheduler => InScheduler'
      BY <3>1 DEF InScheduler
    <3> QED BY <1>1, <3>1, <3>2, <3>4, <3>5 DEF Alone
  <2> QED BY <2>1, <2>2, <2>3 DEF Next, Step
<1> QED BY <1>2, <1>3

\* The index is in step at the start.
LEMMA AloneInit == Init => Alone
<1> SUFFICES ASSUME Init PROVE Alone
  OBVIOUS
<1>1. /\ live \in Cred /\ live # NoAuth /\ ~live.state.disabled
      /\ sched.meta = live /\ sched.supported = registered
      /\ \A m \in Models : sched.entries[m] = Absent
  BY FirstRecord, Distinct DEF Init
<1>2. InStep /\ InScheduler
  BY <1>1, Distinct DEF InStep, InScheduler, Deref, Ready, Absent
<1>3. \A p \in Procs : pc[p] \notin Syncing \cup {"rebuild", "removeEntry"} /\ pc[p] = "idle"
  BY Labels DEF Init
<1> QED BY <1>1, <1>2, <1>3 DEF Alone

-----------------------------------------------------------------------------
(***************************************************************************)
(* The theorems.                                                           *)
(***************************************************************************)
\* The inductive invariant: who may hold which copy of the credential between
\* the change of its record under m.mu and the call of the scheduler under
\* s.mu, and what the scheduler can hold meanwhile.
THEOREM Invariance == Spec => []IInv
<1>1. Init => IInv
  BY KindsInit, TokensInit, RemovalInit, VisibleInit, AloneInit DEF IInv
<1>2. IInv /\ [Next]_vars => IInv'
  <2> SUFFICES ASSUME IInv, [Next]_vars PROVE IInv'
    OBVIOUS
  <2>1. CASE Next
    BY <2>1, KindsKept, TokensKept, RemovalKept, VisibleKept, AloneKept DEF IInv
  <2>2. CASE UNCHANGED vars
    <3>1. Kinds' /\ Holdings'
      BY <2>2 DEF IInv, vars, Kinds, Holdings, SchedOK, NoEntries
    <3>2. Tokens' /\ Removal'
      BY <2>2 DEF IInv, vars, Tokens, Removal, NoEntries
    <3>3. Visible' /\ Alone'
      BY <2>2 DEF IInv, vars, Visible, Enabled, InScheduler, Alone, InStep, Deref, Ready
    <3> QED BY <3>1, <3>2, <3>3 DEF IInv
  <2> QED BY <2>1, <2>2
<1> QED BY <1>1, <1>2, PTL DEF Spec

\* refreshAuthForUnauthorized refreshes only the token that was refused: no
\* number of requests that fail with the same token refresh its successor.
THEOREM TokensGood == Spec => []GoodTokenKept
<1>1. IInv => GoodTokenKept
  BY DEF IInv, Tokens, GoodTokenKept
<1> QED BY <1>1, Invariance, PTL

\* Without entries no model is offered.
LEMMA NothingOffered ==
  ASSUME Kinds, NoEntries(sched), NEW m \in Models
  PROVE  ~Offered(m)
<1>1. SchedOK(sched, live) /\ live \in Cred \cup {NoAuth} /\ now \in Nat
  BY DEF Kinds
<1>2. NoEntries(ensureModelLocked(sched, m))
  BY <1>1, Ensured
<1> QED BY <1>2 DEF NoEntries, Offered, Ready

\* Manager.Remove and the calls of upsertAuth that come in after it: what the
\* scheduler holds of a credential that is gone is never offered.
THEOREM RemovedGone == Spec => []RemovedNotOffered
<1>1. IInv => RemovedNotOffered
  <2> SUFFICES ASSUME IInv, env.overlap => ~env.operated, live = NoAuth,
                      pc[Service] = "idle", seen = NoAuth,
                      \A c \in Callers : pc[c] # "removeEntry",
                      NEW m \in Models
               PROVE  ~Offered(m)
    BY DEF RemovedNotOffered
  <2>1. CASE ~env.operated
    BY <2>1, NothingOffered DEF IInv, Removal
  <2>2. CASE ~env.overlap
    <3>1. \A p \in Procs : pc[p] # "removeEntry"
      BY DEF Procs
    <3>2. sched.meta = NoAuth
      BY <2>2, <3>1 DEF IInv, Alone
    <3>3. NoEntries(sched)
      BY <3>2 DEF IInv, Kinds, SchedOK
    <3> QED BY <3>3, NothingOffered DEF IInv
  <2> QED BY <2>1, <2>2
<1> QED BY <1>1, Invariance, PTL

\* RefreshSchedulerEntry after registerModelsForAuth: with every goroutine idle
\* an enabled credential is in the scheduler with the models of the registry.
THEOREM VisibleSettled == Spec => []VisibleWhenSettled
<1>1. IInv => VisibleWhenSettled
  <2> SUFFICES ASSUME IInv, env.overlap => env.others /\ ~env.operated, Settled,
                      live # NoAuth, ~live.state.disabled
               PROVE  InScheduler
    BY DEF VisibleWhenSettled, InScheduler
  <2>1. /\ pc[Service] = "idle"
        /\ \A p \in Procs : pc[p] \notin Syncing
    BY Labels DEF Settled, Procs
  <2>2. CASE env.overlap
    BY <2>1, <2>2 DEF IInv, Visible
  <2>3. CASE ~env.overlap
    BY <2>1, <2>3 DEF IInv, Alone
  <2> QED BY <2>2, <2>3
<1> QED BY <1>1, Invariance, PTL

\* upsertAuth and MarkResult: operations that do not overlap leave no entry
\* that offers a model the record blocks.
THEOREM InSync == Spec => []SchedulerInSync
<1>1. IInv => SchedulerInSync
  <2> SUFFICES ASSUME IInv, ~env.overlap, Settled, live # NoAuth, NEW m \in Models, Offered(m)
               PROVE  ~Blocked(live.state, m, now)
    BY DEF SchedulerInSync
  <2>1. \A p \in Procs : pc[p] \notin Syncing
    BY Labels DEF Settled
  <2>2. InStep
    BY <2>1 DEF IInv, Alone
  <2>3. SchedOK(sched, live) /\ live \in Cred \cup {NoAuth} /\ now \in Nat
    BY DEF IInv, Kinds
  <2>4. CASE Ready(sched, m)
    BY <2>2, <2>4 DEF InStep
  <2>5. CASE sched.meta # NoAuth /\ ~Blocked(Deref(sched.meta).state, m, now)
    <3>1. CASE Deref(sched.meta).state = live.state
      BY <2>5, <3>1
    <3>2. CASE Free(live.state)
      <4>1. StateOK(live.state) /\ ~live.state.disabled
        BY <2>2, <2>3, <2>5 DEF InStep, Cred
      <4> QED BY <2>3, <3>2, <4>1, FreeNotBlocked
    <3> QED BY <2>2, <2>5, <3>1, <3>2 DEF InStep
  <2>6. Ready(sched, m) \/ (sched.meta # NoAuth /\ ~Blocked(Deref(sched.meta).state, m, now))
    <3> DEFINE u == ensureModelLocked(sched, m)
    <3>1. Ready(u, m)
      BY DEF Offered
    <3>2. \A n \in Models : Ready(u, n) =>
            Ready(sched, n) \/ (sched.meta # NoAuth /\ ~Blocked(Deref(sched.meta).state, n, now))
      BY <2>3, Ensured
    <3> HIDE DEF u
    <3> QED BY <3>1, <3>2
  <2> QED BY <2>4, <2>5, <2>6
<1> QED BY <1>1, Invariance, PTL
=============================================================================
