--------------------------- MODULE ModelRegistry ---------------------------
(***************************************************************************)
(* The global model registry (internal/registry/model_registry.go): which  *)
(* client (credential) offers which model under which provider, which      *)
(* clients are over quota or suspended for a model, and the per-handler    *)
(* cache of the model list.  One action is one critical section of the     *)
(* registry's mutex.                                                       *)
(*                                                                         *)
(* The marks come from the auth conductor, which decides them under its    *)
(* own lock and calls the registry afterwards, one call after the other    *)
(* (MarkResult, ResetQuota and the token refresh in sdk/cliproxy/auth): a  *)
(* caller here is one goroutine between that decision and its last call.   *)
(*                                                                         *)
(* An absent map entry is the zero of its type: a client without models,   *)
(* a provider with count 0, a registration with count 0.  A model's        *)
(* metadata is one member of Infos; the clones handed out are not shared.  *)
(***************************************************************************)
EXTENDS Integers, Sequences, FiniteSetsExt

CONSTANTS
  Clients,     \* client (auth) ids
  Models,      \* model ids
  Providers,   \* provider names, in lower case
  NoProvider,  \* no entry in clientProviders
  Infos,       \* ModelInfo values
  NoInfo,      \* the metadata of a model nobody registers
  Handlers,    \* handler types of the model list
  Callers,     \* goroutines of the conductor that hold a result
  Readers,     \* goroutines inside GetAvailableModels
  Window,      \* modelQuotaExceededWindow, in ticks
  MaxCopies,   \* bound: how often a client lists one model
  MaxClock     \* bound: ticks

ASSUME RegistryAssumption ==
  /\ IsFiniteSet(Clients)
  /\ NoProvider \notin Providers
  /\ NoInfo \notin Infos
  /\ Window \in Nat \ {0}
  /\ MaxCopies \in Nat \ {0}
  /\ MaxClock \in Nat

VARIABLES
  models,           \* r.models
  clientModels,     \* r.clientModels: copies of each model
  clientProviders,  \* r.clientProviders
  cache,            \* r.availableModelsCache
  clock,            \* time.Now(), in ticks
  call,             \* the registry calls a caller has still to make
  reader            \* where a reader of the list is

registryVars == <<models, clientModels, clientProviders, cache>>
allVars == <<registryVars, clock, call, reader>>

Never == -1                            \* no entry, or the zero time.Time
Reasons == {"none", "quota", "other"}  \* SuspendedClients, "none": no entry
Registration ==
  [count: Nat, providers: [Providers -> Nat], info: Infos \cup {NoInfo},
   quota: [Clients -> Int], suspended: [Clients -> Reasons]]
NoRegistration ==
  [count |-> 0, providers |-> [p \in Providers |-> 0], info |-> NoInfo,
   quota |-> [c \in Clients |-> Never],
   suspended |-> [c \in Clients |-> "none"]]

NoCopies == [m \in Models |-> 0]
Lists == [Models -> Infos \cup {NoInfo}]   \* NoInfo: not in the list
NoEntry == [valid |-> FALSE, list |-> [m \in Models |-> NoInfo],
            expiresAt |-> Never]

NoCall == [todo |-> <<>>, client |-> NoProvider, model |-> NoInfo]
Idle == [at |-> "idle", handler |-> NoInfo, now |-> 0]

RegistryInit ==
  /\ models = [m \in Models |-> NoRegistration]
  /\ clientModels = [c \in Clients |-> NoCopies]
  /\ clientProviders = [c \in Clients |-> NoProvider]
  /\ cache = [h \in Handlers |-> NoEntry]
  /\ clock = 0
  /\ call = [g \in Callers |-> NoCall]
  /\ reader = [g \in Readers |-> Idle]

invalidateAvailableModelsCacheLocked == cache' = [h \in Handlers |-> NoEntry]

----------------------------------------------------------------------------
(* Registration *)

Less(a, b) == IF a > b THEN a - b ELSE 0
Lower(a, b) == IF a < b THEN a ELSE b

(* n calls of addModelRegistration for one model. *)
addModelRegistration(reg, p, info, n) ==
  IF n = 0 THEN reg
  ELSE [reg EXCEPT !.count = @ + n, !.providers[p] = @ + n, !.info = info]

(* The marks of client c go, whatever its copies. *)
ClearMarks(reg, c) ==
  [reg EXCEPT !.quota[c] = Never, !.suspended[c] = "none"]

(* n calls of removeModelRegistration, or n rounds of the loop of          *)
(* unregisterClientInternal: the registration goes with its last count.    *)
removeModelRegistration(reg, c, p, n) ==
  IF n = 0 THEN reg
  ELSE IF reg.count <= n THEN NoRegistration
  ELSE [ClearMarks(reg, c) EXCEPT !.count = @ - n, !.providers[p] = Less(@, n)]

(* Seeded fault: overlapping copies stay with the old provider. *)
ReconcileKeepsProvider(reg, c, op, p, old, new, info) ==
  LET r2 == removeModelRegistration(reg, c, op, Less(old, new))
      r3 == addModelRegistration(r2, p, info, Less(new, old))
  IN IF new = 0 THEN r3 ELSE [ClearMarks(r3, c) EXCEPT !.info = info]

(* One model of a client that is registered already: old and new are its   *)
(* copies, op and p its provider before and after.  Overlapping copies     *)
(* move to the new provider, the others are removed or added.              *)
ReconcileModel(reg, c, op, p, old, new, info) ==
  LET both  == Lower(old, new)
      moved == IF op = p THEN 0 ELSE both
      r1 == [reg EXCEPT !.providers[op] = Less(@, moved)]
      r2 == removeModelRegistration(r1, c, op, Less(old, new))
      r3 == addModelRegistration(r2, p, info, Less(new, old))
  IN IF new = 0 THEN r3
     ELSE [ClearMarks(r3, c) EXCEPT !.info = info,
                                    !.providers[p] = @ + moved]

unregisterClientInternal(c) ==
  /\ models' = [m \in Models |->
        removeModelRegistration(models[m], c, clientProviders[c],
                                clientModels[c][m])]
  /\ clientModels' = [clientModels EXCEPT ![c] = NoCopies]
  /\ clientProviders' = [clientProviders EXCEPT ![c] = NoProvider]

(* RegisterClient with copies[m] entries for model m: a client that is     *)
(* not registered is added, another one reconciled with its old entry.     *)
RegisterClient(c, p, copies, info) ==
  LET old == clientModels[c]
      new(m) == IF old = NoCopies
                THEN addModelRegistration(models[m], p, info, copies[m])
                ELSE ReconcileModel(models[m], c, clientProviders[c], p,
                                    old[m], copies[m], info)
  IN /\ copies # NoCopies
     /\ models' = [m \in Models |-> new(m)]
     /\ clientModels' = [clientModels EXCEPT ![c] = copies]
     /\ clientProviders' = [clientProviders EXCEPT ![c] = p]
     /\ invalidateAvailableModelsCacheLocked
     /\ UNCHANGED <<clock, call, reader>>

(* Also RegisterClient without any model. *)
UnregisterClient(c) ==
  /\ clientModels[c] # NoCopies
  /\ unregisterClientInternal(c)
  /\ invalidateAvailableModelsCacheLocked
  /\ UNCHANGED <<clock, call, reader>>

----------------------------------------------------------------------------
(* Marks *)

Registered(c, m) == clientModels[c][m] > 0
Exists(m) == models[m].count > 0

(* Neither call asks whether the client still offers the model. *)
SetModelQuotaExceeded(c, m) ==
  IF Exists(m)
  THEN /\ models' = [models EXCEPT ![m].quota[c] = clock]
       /\ invalidateAvailableModelsCacheLocked
  ELSE UNCHANGED <<models, cache>>

(* Seeded fault: the cached lists survive. *)
ClearModelQuotaKeepsCache(c, m) ==
  /\ models' = IF Exists(m) THEN [models EXCEPT ![m].quota[c] = Never]
               ELSE models
  /\ UNCHANGED cache

ClearModelQuotaExceeded(c, m) ==
  IF Exists(m)
  THEN /\ models' = [models EXCEPT ![m].quota[c] = Never]
       /\ invalidateAvailableModelsCacheLocked
  ELSE UNCHANGED <<models, cache>>

(* A client that is suspended keeps its first reason. *)
SuspendClientModel(c, m, reason) ==
  IF Exists(m) /\ models[m].suspended[c] = "none"
  THEN /\ models' = [models EXCEPT ![m].suspended[c] = reason]
       /\ invalidateAvailableModelsCacheLocked
  ELSE UNCHANGED <<models, cache>>

ResumeClientModel(c, m) ==
  IF Exists(m) /\ models[m].suspended[c] # "none"
  THEN /\ models' = [models EXCEPT ![m].suspended[c] = "none"]
       /\ invalidateAvailableModelsCacheLocked
  ELSE UNCHANGED <<models, cache>>

(* What a goroutine of the conductor does to the registry once it has      *)
(* unlocked: a success or a reset, a 429, another failure that suspends,   *)
(* and a token refresh.                                                    *)
Calls == {<<"clear", "resume">>, <<"set", "suspendQuota">>,
          <<"suspendOther">>, <<"resume">>}

Decide(g, c, m, todo) ==
  /\ call[g] = NoCall
  /\ Registered(c, m)
  /\ call' = [call EXCEPT ![g] = [todo |-> todo, client |-> c, model |-> m]]
  /\ UNCHANGED <<registryVars, clock, reader>>

CallStep(g) ==
  LET k == call[g] IN
  /\ k # NoCall
  /\ \/ Head(k.todo) = "clear" /\ ClearModelQuotaExceeded(k.client, k.model)
     \/ Head(k.todo) = "set" /\ SetModelQuotaExceeded(k.client, k.model)
     \/ Head(k.todo) = "resume" /\ ResumeClientModel(k.client, k.model)
     \/ /\ Head(k.todo) = "suspendQuota"
        /\ SuspendClientModel(k.client, k.model, "quota")
     \/ /\ Head(k.todo) = "suspendOther"
        /\ SuspendClientModel(k.client, k.model, "other")
  /\ call' = [call EXCEPT ![g] = IF Len(k.todo) = 1 THEN NoCall
                                 ELSE [k EXCEPT !.todo = Tail(@)]]
  /\ UNCHANGED <<clientModels, clientProviders, clock, reader>>

OverQuota(reg, c, now) == reg.quota[c] # Never /\ now < reg.quota[c] + Window

CleanupExpiredQuotas ==
  LET clean(reg) == [reg EXCEPT !.quota = [c \in Clients |->
                       IF OverQuota(reg, c, clock) THEN @[c] ELSE Never]]
      cleaned == [m \in Models |-> clean(models[m])]
  IN /\ cleaned # models
     /\ models' = cleaned
     /\ invalidateAvailableModelsCacheLocked
     /\ UNCHANGED <<clientModels, clientProviders, clock, call, reader>>

----------------------------------------------------------------------------
(* Reading *)

Over(reg, now) == {c \in Clients : OverQuota(reg, c, now)}
SuspendedFor(reg, reasons) == {c \in Clients : reg.suspended[c] \in reasons}

(* Whether buildAvailableModelsLocked and GetAvailableModelsByProvider     *)
(* list a model with this many copies, over-quota clients and clients      *)
(* suspended for quota or for another reason.                              *)
Shown(copies, over, cooling, other) ==
  \/ Less(copies, over + other) > 0
  \/ copies > 0 /\ (over > 0 \/ cooling > 0) /\ other = 0

buildList(now) ==
  [m \in Models |->
     LET reg == models[m] IN
     IF Shown(reg.count, Cardinality(Over(reg, now)),
              Cardinality(SuspendedFor(reg, {"quota"})),
              Cardinality(SuspendedFor(reg, {"other"})))
     THEN reg.info ELSE NoInfo]

Recoveries(now) == {models[mc[1]].quota[mc[2]] + Window :
  mc \in {x \in Models \X Clients : OverQuota(models[x[1]], x[2], now)}}

(* The list is good until the first client recovers from its quota. *)
buildAvailableModelsLocked(now) ==
  [valid |-> TRUE, list |-> buildList(now),
   expiresAt |-> IF Recoveries(now) = {} THEN Never ELSE Min(Recoveries(now))]

Usable(entry, now) ==
  entry.valid /\ (entry.expiresAt = Never \/ now < entry.expiresAt)

(* GetAvailableModels reads the clock, looks at the cache under the read   *)
(* lock and, on a miss, again under the write lock, with the same time.    *)
ListBegin(g, h) ==
  /\ reader[g] = Idle
  /\ reader' = [reader EXCEPT ![g] =
                  [at |-> "look", handler |-> h, now |-> clock]]
  /\ UNCHANGED <<registryVars, clock, call>>

ListLook(g) ==
  /\ reader[g].at = "look"
  /\ reader' = [reader EXCEPT ![g] =
                  IF Usable(cache[@.handler], @.now) THEN Idle
                  ELSE [@ EXCEPT !.at = "fill"]]
  /\ UNCHANGED <<registryVars, clock, call>>

ListFill(g) ==
  LET r == reader[g] IN
  /\ r.at = "fill"
  /\ cache' = IF Usable(cache[r.handler], r.now) THEN cache
              ELSE [cache EXCEPT ![r.handler] =
                      buildAvailableModelsLocked(r.now)]
  /\ reader' = [reader EXCEPT ![g] = Idle]
  /\ UNCHANGED <<models, clientModels, clientProviders, clock, call>>

ClockTicks ==
  /\ clock < MaxClock
  /\ clock' = clock + 1
  /\ UNCHANGED <<registryVars, call, reader>>

----------------------------------------------------------------------------

RegistryNext ==
  \/ \E c \in Clients, p \in Providers, info \in Infos :
       \E copies \in [Models -> 0..MaxCopies] :
         RegisterClient(c, p, copies, info)
  \/ \E c \in Clients : UnregisterClient(c)
  \/ \E g \in Callers, c \in Clients, m \in Models, todo \in Calls :
       Decide(g, c, m, todo)
  \/ \E g \in Callers : CallStep(g)
  \/ CleanupExpiredQuotas
  \/ \E g \in Readers, h \in Handlers : ListBegin(g, h)
  \/ \E g \in Readers : ListLook(g) \/ ListFill(g)
  \/ ClockTicks

RegistrySpec == RegistryInit /\ [][RegistryNext]_allVars

----------------------------------------------------------------------------
(* Properties *)

Copies(m) == [c \in Clients |-> clientModels[c][m]]
CopiesUnder(m, p) ==
  SumFunctionOnSet(Copies(m), {c \in Clients : clientProviders[c] = p})

(* After any series of registrations, re-registrations with other copies   *)
(* or another provider and unregistrations, the count a registration keeps *)
(* for each provider, and its total, are what its clients list: a client   *)
(* that moves to another provider takes its copies along, and a model      *)
(* without clients is gone (RegisterClient, unregisterClientInternal).     *)
CountsAgree ==
  \A m \in Models :
    /\ \A p \in Providers : models[m].providers[p] = CopiesUnder(m, p)
    /\ models[m].count = SumFunctionOnSet(Copies(m), Clients)
    /\ models[m].count = 0 => models[m] = NoRegistration

(* Whatever a reader would find in the cache now is what building the list *)
(* now would give, also when the entry was filled with a time read before  *)
(* marks changed and clients recovered (GetAvailableModels).               *)
CacheFresh ==
  \A h \in Handlers :
    Usable(cache[h], clock) => cache[h].list = buildList(clock)

=============================================================================
