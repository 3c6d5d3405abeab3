--------------------------- MODULE AuthCooldown ----------------------------
(***************************************************************************)
(* The cooldown life of one registered credential: results of concurrent   *)
(* requests arrive in any order (each applied atomically under             *)
(* Manager.mu), time passes, the operator resets the quota or switches     *)
(* cooling off and on, the watcher re-registers the credential and its     *)
(* models, the cooldown records are persisted outside Manager.mu, and the  *)
(* process crashes and restarts.                                           *)
(***************************************************************************)
EXTENDS CooldownState

CONSTANTS
  Environments,  \* the deployments and upstreams that are looked at
  MaxNow         \* bound: the last tick of the clock

\* models: those results come in for, NoModel for results without a model;
\* classes: how the upstream fails; retryAfters: the Retry-After of a 429;
\* saves: save-cooldown-status, there is a cooldown state store.
ASSUME AuthCooldownAssumption ==
  /\ Environments \subseteq [models : SUBSET (Models \cup {NoModel}),
                             classes : SUBSET FailureClass,
                             retryAfters : SUBSET RetryAfters,
                             saves : BOOLEAN]
  /\ MaxNow \in Nat \ {0}

VARIABLES
  env,        \* the environment; it never changes
  auth,       \* the record m.auths holds
  now,        \* the clock
  noCooling,  \* disable-cooling of the runtime config
  phase,      \* where the service is, see below
  booting,    \* the process has started and the watcher has not added the auth
  store,      \* the records of the cooldown state store
  due,        \* some caller is about to persist the cooldown records
  saving,     \* a persist has copied the records and not saved them yet
  snapshot,   \* the records that persist copied
  saveFailed, \* the last Save returned an error
  loaded      \* the records RestoreCooldownStates loaded

persistVars == <<store, due, saving, snapshot, saveFailed>>
vars == <<env, auth, now, noCooling, phase, booting, persistVars, loaded>>

(***************************************************************************)
(* phase:                                                                  *)
(*   "running"    nothing below is under way                               *)
(*   "committing" a config was applied, with configCooldownMu held         *)
(*   "saving"     ... and its persist has copied the records               *)
(*   "loading"    RestoreCooldownStates is about to load the store         *)
(*   "restoring"  ... has loaded it and is about to lock m.mu              *)
(*   "starting"   the server runs, the watcher has not added the auth      *)
(*   "updated"    Manager.Update returned, models are being registered     *)
(***************************************************************************)
Phase == {"running", "committing", "saving", "loading", "restoring", "starting", "updated"}

TypeOK ==
  /\ env \in Environments
  /\ auth \in Auth
  /\ now \in 1..MaxNow
  /\ noCooling \in BOOLEAN
  /\ phase \in Phase
  /\ booting \in BOOLEAN
  /\ store \subseteq Record
  /\ due \in BOOLEAN
  /\ saving \in BOOLEAN
  /\ snapshot \subseteq Record
  /\ saveFailed \in BOOLEAN
  /\ loaded \subseteq Record

Init ==
  /\ env \in Environments
  /\ auth = FreshAuth
  /\ now = 1
  /\ noCooling = FALSE
  /\ phase = "running"
  /\ booting = FALSE
  /\ store = {}
  /\ due = FALSE
  /\ saving = FALSE
  /\ snapshot = {}
  /\ saveFailed = FALSE
  /\ loaded = {}

Records(a) == cooldownStateRecords(a, now, noCooling)

\* A change under m.mu; the caller persists the records if they changed.
Apply(new) ==
  /\ auth' = new
  /\ due' = (due \/ (env.saves /\ Records(new) # Records(auth)))
  /\ UNCHANGED <<now, noCooling, phase, booting, store, saving, snapshot, saveFailed,
                 loaded>>

\* Requests are served except before the server of a new process is up.
Serving == ~(booting /\ phase \in {"loading", "restoring"})

ResultSuccess(m) ==
  /\ Serving
  /\ Apply(IF m = NoModel THEN clearAuthStateOnSuccess(auth) ELSE MarkSuccess(auth, m, now))

ResultFailure(m, class, ra) ==
  /\ Serving
  /\ class # "quota" => ra = NoRetryAfter
  /\ Apply(IF m = NoModel THEN applyAuthFailureState(auth, class, ra, now, noCooling)
           ELSE MarkFailure(auth, m, class, ra, now, noCooling))

\* The operator resets the quota of the credential.
ResetQuota == Serving /\ Apply(ResetQuotaOf(auth, now))

Tick ==
  /\ now < MaxNow
  /\ now' = now + 1
  /\ UNCHANGED <<auth, noCooling, phase, booting, persistVars, loaded>>

-----------------------------------------------------------------------------
\* A config update holds configCooldownMu until its own save is done.
ConfigCommits == phase \in {"committing", "saving"}

\* persistCooldownStates: the records of this moment are copied ...
PersistSnapshot ==
  /\ due /\ ~saving /\ ~ConfigCommits
  /\ due' = FALSE
  /\ saving' = TRUE
  /\ snapshot' = Records(auth)
  /\ UNCHANGED <<auth, now, noCooling, phase, booting, store, saveFailed, loaded>>

\* ... and saved without m.mu; an error is only logged.
PersistSave ==
  /\ saving
  /\ saving' = FALSE
  /\ snapshot' = {}
  /\ \/ store' = snapshot /\ saveFailed' = FALSE
     \/ UNCHANGED store /\ saveFailed' = TRUE
  /\ UNCHANGED <<auth, now, noCooling, phase, booting, due, loaded>>

-----------------------------------------------------------------------------
(***************************************************************************)
(* A config update (ApplyConfigWithCooldownStateStore, then                *)
(* RestoreCooldownStates) of a running service.                            *)
(***************************************************************************)
ConfigApply(disable) ==
  /\ phase = "running" /\ ~saving /\ ~booting
  /\ noCooling' = disable
  /\ auth' = IF disable THEN clearCooldownStateForAuth(auth, now) ELSE auth
  /\ phase' = IF env.saves THEN "committing" ELSE phase
  /\ UNCHANGED <<now, booting, persistVars, loaded>>

ConfigSnapshot ==
  /\ phase = "committing"
  /\ snapshot' = Records(auth)
  /\ phase' = "saving"
  /\ UNCHANGED <<auth, now, noCooling, booting, store, due, saving, saveFailed, loaded>>

\* A failed save ends the update.
ConfigSave ==
  /\ phase = "saving"
  /\ snapshot' = {}
  /\ \/ store' = snapshot /\ saveFailed' = FALSE /\ phase' = "loading"
     \/ UNCHANGED store /\ saveFailed' = TRUE /\ phase' = "running"
  /\ UNCHANGED <<auth, now, noCooling, booting, due, saving, loaded>>

AfterRestore == IF booting THEN "starting" ELSE "running"

\* RestoreCooldownStates reads the store; an error is only logged ...
RestoreLoad ==
  /\ phase = "loading"
  /\ \/ loaded' = store /\ phase' = "restoring"
     \/ UNCHANGED loaded /\ phase' = AfterRestore
  /\ UNCHANGED <<auth, now, noCooling, booting, persistVars>>

\* ... applies what it read under m.mu, and persists unless it read nothing.
RestoreApply ==
  /\ phase = "restoring"
  /\ auth' = RestoreOf(auth, loaded, now, noCooling)
  /\ due' = (due \/ loaded # {})
  /\ loaded' = {}
  /\ phase' = AfterRestore
  /\ UNCHANGED <<now, noCooling, booting, store, saving, snapshot, saveFailed>>

-----------------------------------------------------------------------------
(***************************************************************************)
(* A crash, the start of the new process, and the watcher.                 *)
(***************************************************************************)
\* Files keep tokens and metadata only: the loaded record is fresh.  There is
\* nothing to restore without a store.
Crash ==
  /\ auth' = FreshAuth
  /\ phase' = IF env.saves THEN "loading" ELSE "starting"
  /\ booting' = TRUE
  /\ due' = FALSE
  /\ saving' = FALSE
  /\ snapshot' = {}
  /\ saveFailed' = FALSE
  /\ loaded' = {}
  /\ UNCHANGED <<now, noCooling, store>>

\* The watcher reports the file as new (at start) or modified: Update takes
\* the ModelStates over.  It persists records only if it cleared a cooldown.
WatcherUpdate ==
  /\ phase \in {"running", "starting"}
  /\ auth' = CarryOver(FreshAuth, auth, now, noCooling)
  /\ phase' = "updated"
  /\ UNCHANGED <<now, noCooling, booting, persistVars, loaded>>

\* ... and model registration reconciles them; nothing is persisted.
Reconcile(supported) ==
  /\ phase = "updated"
  /\ auth' = ReconcileOf(auth, supported, now)
  /\ phase' = "running"
  /\ booting' = FALSE
  /\ UNCHANGED <<now, noCooling, persistVars, loaded>>

-----------------------------------------------------------------------------
Step ==
  \/ \E m \in env.models :
       \/ ResultSuccess(m)
       \/ \E class \in env.classes, ra \in env.retryAfters : ResultFailure(m, class, ra)
  \/ ResetQuota
  \/ Tick
  \/ PersistSnapshot
  \/ PersistSave
  \/ \E disable \in BOOLEAN : ConfigApply(disable)
  \/ ConfigSnapshot
  \/ ConfigSave
  \/ RestoreLoad
  \/ RestoreApply
  \/ Crash
  \/ WatcherUpdate
  \/ \E supported \in SUBSET Models : Reconcile(supported)

Next == Step /\ UNCHANGED env

Spec == Init /\ [][Next]_vars

-----------------------------------------------------------------------------
\* The credential as a whole is blocked exactly while every model it has a
\* state for is blocked, however much time has passed since it was
\* aggregated.  Between Update and Reconcile the aggregate is not maintained,
\* results without a model block the credential alone, and a restore puts the
\* credential's own block back whatever its models did since it was saved.
AggregateAgrees ==
  phase # "updated" /\ NoModel \notin env.models /\ ~env.saves =>
    (Blocked(auth, NoModel, now) <=>
       Known(auth) # {} /\ \A m \in Known(auth) : Blocked(auth, m, now))

EndOf(a, m) == IF m = NoModel THEN a.nextRetry ELSE a.models[m].nextRetry

\* When no persist is outstanding and the last one succeeded, every block is
\* in the store with its own end.
BlocksSaved ==
  env.saves /\ ~due /\ ~saving /\ ~ConfigCommits /\ ~saveFailed /\ ~noCooling =>
    \A m \in Models \cup {NoModel} : Blocked(auth, m, now) =>
      \E r \in store : r.model = m /\ r.nextRetry = EndOf(auth, m)

\* Nothing writes the store while a process starts.  The restore puts every
\* unexpired record of it in force again, the credential's own too, each with
\* its own end, and blocks no other model.
BlocksRestored ==
  booting /\ phase \in {"loading", "restoring"} =>
    /\ store' = store
    /\ phase = "restoring" /\ phase' = "starting" /\ ~noCooling =>
         /\ \A r \in store : r.nextRetry > now =>
              Blocked(auth', r.model, now) /\ EndOf(auth', r.model) = r.nextRetry
         /\ \A m \in Models : Blocked(auth', m, now) =>
              \E r \in store : r.model = m /\ r.nextRetry > now

\* A block is saved with the persist that follows it, and a new process puts
\* what was saved in force again.  Persists are asynchronous: a block whose
\* records were not saved when the process died is lost, and so is every block
\* if the store cannot be read.  A restored block lasts until the watcher's
\* first event for the credential, which resets it (WatcherUpdate, Reconcile).
CooldownsDurable == []BlocksSaved /\ [][BlocksRestored]_vars

\* "a burst of concurrent in-flight failures advances the backoff ladder at
\* most once per window": a level is never reached before all the windows
\* below it have passed, whatever errors and restarts come in between, but for
\* Cloudflare challenges, which climb at once, and for upstreams that ask for
\* a shorter pause, which replaces the window.
LadderPaced ==
  "cloudflare" \notin env.classes
    /\ (\A ra \in env.retryAfters : ra = NoRetryAfter \/ ra >= QuotaMax) =>
    \A m \in Models :
      LET level == auth.models[m].quota.level IN
        level > 0 => now > QuotaBase * (Shift[level - 1] - 1)
=============================================================================
