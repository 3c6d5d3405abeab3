--------------------------- MODULE CooldownState ---------------------------
(***************************************************************************)
(* The cooldown state of one credential (Auth and its ModelStates in       *)
(* sdk/cliproxy/auth/types.go) and the functions of conductor_cooldown.go  *)
(* and selector.go that compute it.  They run under Manager.mu on one      *)
(* record, so each is an operator from records to records.                 *)
(*                                                                         *)
(* Time is a natural number of ticks; 0 is the zero time.Time.  Durations  *)
(* are constants, so that only their order matters.  A ModelState whose    *)
(* Status is StatusError always has a LastError and the reverse, so the    *)
(* model status is left out.                                               *)
(***************************************************************************)
EXTENDS Integers, FiniteSetsExt

CONSTANTS
  Models,          \* models a credential may have a ModelState for
  NoModel,         \* the model "" of an auth-level result or record
  QuotaBase,       \* quotaBackoffBase (1 s)
  QuotaMax,        \* quotaBackoffMax (30 min)
  CloudflareMin,   \* the floor of a Cloudflare cooldown (10 s)
  TransientPause,  \* nextTransientErrorRetryAfter; 0 if switched off
  AuthPause,       \* 30 min after 401, 402, 403 and invalid_grant
  LongPause        \* 12 h after 404 and model_not_supported

ASSUME CooldownAssumption ==
  /\ NoModel \notin Models
  /\ QuotaBase \in Nat \ {0}
  /\ QuotaMax \in Nat /\ QuotaMax >= QuotaBase
  /\ CloudflareMin \in Nat
  /\ TransientPause \in Nat
  /\ AuthPause \in Nat \ {0}
  /\ LongPause \in Nat \ {0}

\* statusCodeFromResult and the is...ResultError tests sort failures into
\* these; an invalid_grant with status 401 behaves like "unauthorized":
FailureClass == {"requestScoped", "support", "cloudflare", "grant", "unauthorized",
                 "payment", "notFound", "quota", "transient", "other"}
ErrorKind == {"none", "unauthorized", "other"}

\* 1 << level
Shift[level \in Nat] == IF level = 0 THEN 1 ELSE 2 * Shift[level - 1]

\* The rungs of the ladder: a level is only reached from one whose pause was
\* below the maximum.
Level == {l \in 0..QuotaMax : l = 0 \/ QuotaBase * Shift[l - 1] < QuotaMax}
Quota == [exceeded : BOOLEAN, recoverAt : Nat, level : Level]
NoQuota == [exceeded |-> FALSE, recoverAt |-> 0, level |-> 0]

ModelState == [known : BOOLEAN, unavailable : BOOLEAN, nextRetry : Nat,
               lastError : ErrorKind, quota : Quota]

\* A ModelState as ensureModelState creates and resetModelState leaves it.
CleanState == [known |-> TRUE, unavailable |-> FALSE, nextRetry |-> 0,
               lastError |-> "none", quota |-> NoQuota]

\* No entry in Auth.ModelStates.
NoState == [CleanState EXCEPT !.known = FALSE]

Auth == [disabled : BOOLEAN, status : {"active", "error", "disabled"},
         unavailable : BOOLEAN, nextRetry : Nat, lastError : ErrorKind,
         quota : Quota, models : [Models -> ModelState]]

\* A credential as the watcher reads it from its file or from the config.
FreshAuth == [disabled |-> FALSE, status |-> "active", unavailable |-> FALSE,
              nextRetry |-> 0, lastError |-> "none", quota |-> NoQuota,
              models |-> [m \in Models |-> NoState]]

Known(auth) == {m \in Models : auth.models[m].known}
IsDisabled(auth) == auth.disabled \/ auth.status = "disabled"

-----------------------------------------------------------------------------
(***************************************************************************)
(* The backoff ladder.                                                     *)
(***************************************************************************)
\* Seeded fault: the level goes on growing once the pause has its maximum.
nextQuotaCooldownUncapped(level) ==
  LET cooldown == QuotaBase * Shift[level] IN
    [pause |-> IF cooldown >= QuotaMax THEN QuotaMax ELSE cooldown, level |-> level + 1]

nextQuotaCooldown(level) ==
  LET cooldown == QuotaBase * Shift[level] IN
    IF cooldown >= QuotaMax THEN [pause |-> QuotaMax, level |-> level]
    ELSE [pause |-> cooldown, level |-> level + 1]

\* Seeded fault: a failure inside an open window climbs the ladder too.
quotaEscalatesAlways(quota, now) ==
  LET next == nextQuotaCooldown(quota.level) IN
    [exceeded |-> TRUE, recoverAt |-> now + next.pause, level |-> next.level]

\* A failure inside an open quota window reuses the window.
quotaCooldownAfterFailure(quota, now) ==
  LET next == nextQuotaCooldown(quota.level) IN
    IF quota.recoverAt > now
    THEN [exceeded |-> TRUE, recoverAt |-> quota.recoverAt, level |-> quota.level]
    ELSE [exceeded |-> TRUE, recoverAt |-> now + next.pause, level |-> next.level]

\* A Cloudflare challenge climbs the ladder whatever window is open.
nextCloudflareCooldown(quota, now, noCooling) ==
  LET next == nextQuotaCooldown(quota.level)
      pause == IF next.pause < CloudflareMin THEN CloudflareMin ELSE next.pause
  IN IF noCooling THEN [exceeded |-> TRUE, recoverAt |-> 0, level |-> quota.level]
     ELSE [exceeded |-> TRUE, recoverAt |-> now + pause, level |-> next.level]

\* The Retry-After of a failure: nil, or a duration, which may be 0.
NoRetryAfter == -1
RetryAfters == Nat \cup {NoRetryAfter}

\* The Quota after a 429: the upstream's own pause, or the ladder's.
QuotaAfter429(quota, ra, now, noCooling) ==
  CASE noCooling -> [exceeded |-> TRUE, recoverAt |-> 0, level |-> quota.level]
    [] ~noCooling /\ ra # NoRetryAfter ->
         [exceeded |-> TRUE, recoverAt |-> now + ra, level |-> quota.level]
    [] OTHER -> quotaCooldownAfterFailure(quota, now)

\* The fixed cooldowns; 0 is no cooldown.
PauseOf(class) ==
  CASE class \in {"grant", "unauthorized", "payment"} -> AuthPause
    [] class = "notFound" -> LongPause
    [] class = "transient" -> TransientPause
    [] OTHER -> 0

RetryAt(class, now, noCooling) ==
  IF noCooling \/ PauseOf(class) = 0 THEN 0 ELSE now + PauseOf(class)

ErrorOf(class) == IF class = "unauthorized" THEN "unauthorized" ELSE "other"

-----------------------------------------------------------------------------
(***************************************************************************)
(* The state of a credential as a whole.                                   *)
(***************************************************************************)
\* A cooldown that has passed is dropped in place; its Quota stays.
Expire(state, now) ==
  IF state.known /\ state.unavailable /\ state.nextRetry # 0 /\ state.nextRetry <= now
  THEN [state EXCEPT !.unavailable = FALSE, !.nextRetry = 0]
  ELSE state

Cooling(state, now) == state.known /\ state.unavailable /\ state.nextRetry > now

MinOrZero(S) == IF S = {} THEN 0 ELSE Min(S)

\* Seeded fault: the credential comes back with its last model.
updateAggregatedLatest(auth, now) ==
  LET models == [m \in Models |-> Expire(auth.models[m], now)]
      cooling == {m \in Known(auth) : Cooling(models[m], now)}
      all == cooling # {} /\ cooling = Known(auth)
      over == {m \in Known(auth) : models[m].quota.exceeded}
  IN [auth EXCEPT
        !.models = models,
        !.unavailable = all,
        !.nextRetry = IF all THEN Max({models[m].nextRetry : m \in cooling}) ELSE 0,
        !.quota = IF over = {} THEN NoQuota
                  ELSE [exceeded |-> TRUE,
                        recoverAt |-> MinOrZero({models[m].quota.recoverAt : m \in over} \ {0}),
                        level |-> Max({models[m].quota.level : m \in over})]]

\* The credential is unavailable while every ModelState it has is cooling.
updateAggregatedAvailability(auth, now) ==
  LET models == [m \in Models |-> Expire(auth.models[m], now)]
      cooling == {m \in Known(auth) : Cooling(models[m], now)}
      all == cooling # {} /\ cooling = Known(auth)
      over == {m \in Known(auth) : models[m].quota.exceeded}
  IN [auth EXCEPT
        !.models = models,
        !.unavailable = all,
        !.nextRetry = IF all THEN Min({models[m].nextRetry : m \in cooling}) ELSE 0,
        !.quota = IF over = {} THEN NoQuota
                  ELSE [exceeded |-> TRUE,
                        recoverAt |-> MinOrZero({models[m].quota.recoverAt : m \in over} \ {0}),
                        level |-> Max({models[m].quota.level : m \in over})]]

hasModelError(auth) == \E m \in Known(auth) : auth.models[m].lastError # "none"

\* LastError and Status are cleared once no model has an error.
ClearStatusIfHealthy(auth) ==
  IF hasModelError(auth) THEN auth
  ELSE [auth EXCEPT !.lastError = "none", !.status = "active"]

\* clearCooldownStateForAuth; errors and status stay.
clearCooldownStateForAuth(auth, now) ==
  LET cooled(r) == r.unavailable \/ r.nextRetry # 0 \/ r.quota.exceeded
                     \/ r.quota.recoverAt # 0
      cleared(r) == IF cooled(r)
                    THEN [r EXCEPT !.unavailable = FALSE, !.nextRetry = 0, !.quota = NoQuota]
                    ELSE r
      models == [m \in Models |-> IF auth.models[m].known THEN cleared(auth.models[m])
                                  ELSE auth.models[m]]
      whole == [cleared(auth) EXCEPT !.models = models]
  IN IF Known(auth) = {} THEN whole ELSE updateAggregatedAvailability(whole, now)

-----------------------------------------------------------------------------
(***************************************************************************)
(* MarkResult: what a result does to the record.                           *)
(***************************************************************************)
MarkSuccess(auth, m, now) ==
  ClearStatusIfHealthy(
    updateAggregatedAvailability([auth EXCEPT !.models[m] = CleanState], now))

\* One ModelState after a failure of the given class.
FailedState(state, class, ra, now, noCooling) ==
  LET failed == [state EXCEPT !.known = TRUE, !.unavailable = TRUE,
                              !.lastError = ErrorOf(class)]
      withQuota(q) == [failed EXCEPT !.nextRetry = q.recoverAt, !.quota = q]
  IN CASE class = "support" -> [failed EXCEPT !.nextRetry = now + LongPause]
       [] class = "cloudflare" ->
            withQuota(nextCloudflareCooldown(state.quota, now, noCooling))
       [] class = "quota" -> withQuota(QuotaAfter429(state.quota, ra, now, noCooling))
       [] OTHER -> [failed EXCEPT !.nextRetry = RetryAt(class, now, noCooling)]

MarkFailure(auth, m, class, ra, now, noCooling) ==
  IF class = "requestScoped" THEN auth
  ELSE updateAggregatedAvailability(
         [auth EXCEPT !.models[m] = FailedState(@, class, ra, now, noCooling),
                      !.status = "error",
                      !.lastError = ErrorOf(class)], now)

clearAuthStateOnSuccess(auth) ==
  [auth EXCEPT !.unavailable = FALSE, !.status = "active", !.quota = NoQuota,
               !.lastError = "none", !.nextRetry = 0]

\* The default class leaves NextRetryAfter as it was, and so does "support",
\* which is only looked for in results that name a model.
applyAuthFailureState(auth, class, ra, now, noCooling) ==
  LET failed == [auth EXCEPT !.unavailable = TRUE, !.status = "error",
                             !.lastError = ErrorOf(class)]
      withQuota(q) == [failed EXCEPT !.nextRetry = q.recoverAt, !.quota = q]
  IN CASE class = "requestScoped" -> auth
       [] class = "cloudflare" ->
            withQuota(nextCloudflareCooldown(auth.quota, now, noCooling))
       [] class = "quota" -> withQuota(QuotaAfter429(auth.quota, ra, now, noCooling))
       [] class \in {"support", "other"} -> failed
       [] OTHER -> [failed EXCEPT !.nextRetry = RetryAt(class, now, noCooling)]

-----------------------------------------------------------------------------
(***************************************************************************)
(* isAuthBlockedForModel: whether a request may use the credential, why    *)
(* not, and when to look again.                                            *)
(***************************************************************************)
NotBlocked == [blocked |-> FALSE, reason |-> "none", next |-> 0]

CooldownBlock(r, now) ==
  [blocked |-> TRUE,
   reason  |-> IF r.quota.exceeded THEN "cooldown" ELSE "other",
   next    |-> IF r.quota.recoverAt > now THEN r.quota.recoverAt ELSE r.nextRetry]

isAuthBlockedForModel(auth, m, now) ==
  CASE IsDisabled(auth) -> [blocked |-> TRUE, reason |-> "disabled", next |-> 0]
    [] ~IsDisabled(auth) /\ m \in Models /\ Cooling(auth.models[m], now) ->
         CooldownBlock(auth.models[m], now)
    [] ~IsDisabled(auth) /\ m = NoModel /\ auth.unavailable /\ auth.nextRetry > now ->
         CooldownBlock(auth, now)
    [] OTHER -> NotBlocked

Blocked(auth, m, now) == isAuthBlockedForModel(auth, m, now).blocked

-----------------------------------------------------------------------------
(***************************************************************************)
(* Operations on a whole record.                                           *)
(***************************************************************************)
\* ResetQuota: every ModelState is reset, the cooldown cleared.
ResetQuotaOf(auth, now) ==
  LET reset == [auth EXCEPT !.models = [m \in Models |->
                  IF @[m].known THEN CleanState ELSE @[m]]]
      cleared == clearCooldownStateForAuth(reset, now)
  IN IF IsDisabled(auth) THEN cleared ELSE ClearStatusIfHealthy(cleared)

\* ReconcileRegistryModelStates: states of models that are no longer in the
\* registry are dropped, the others reset; nothing to do if all are clean.
ReconcileOf(auth, supported, now) ==
  LET models == [m \in Models |-> IF ~auth.models[m].known THEN auth.models[m]
                                  ELSE IF m \in supported THEN CleanState ELSE NoState]
  IN IF models = auth.models THEN auth
     ELSE ClearStatusIfHealthy(
            updateAggregatedAvailability([auth EXCEPT !.models = models], now))

\* clearUnauthorizedModelStates and the other resets of a successful refresh.
RefreshedOf(auth, now) ==
  LET hit == {m \in Known(auth) : auth.models[m].lastError = "unauthorized"}
      base == [auth EXCEPT !.lastError = "none", !.unavailable = FALSE,
                           !.status = IF @ = "error" THEN "active" ELSE @]
      reset == [base EXCEPT !.models = [m \in Models |->
                  IF m \in hit THEN CleanState ELSE @[m]]]
  IN IF hit = {} THEN base ELSE updateAggregatedAvailability(reset, now)

\* Update: the runtime state a new record takes over from the existing one.
CarryOver(new, existing, now, noCooling) ==
  LET carried == IF ~IsDisabled(existing) /\ ~IsDisabled(new) /\ Known(new) = {}
                 THEN [new EXCEPT !.models = existing.models] ELSE new
  IN IF noCooling \/ IsDisabled(new) THEN clearCooldownStateForAuth(carried, now)
     ELSE carried

-----------------------------------------------------------------------------
(***************************************************************************)
(* Persisted cooldown records.                                             *)
(***************************************************************************)
Record == [model : Models \cup {NoModel}, nextRetry : Nat, quota : Quota,
           lastError : ErrorKind]

RecordOf(m, r) ==
  [model |-> m, nextRetry |-> r.nextRetry, quota |-> r.quota, lastError |-> r.lastError]

\* Seeded fault: only the aggregated state of the credential is written.
cooldownRecordsAuthOnly(auth, now, noCooling) ==
  IF IsDisabled(auth) \/ noCooling \/ ~(auth.unavailable /\ auth.nextRetry > now) THEN {}
  ELSE {RecordOf(NoModel, auth)}

\* cooldownStateRecordsForAuthLocked: what is cooling now, if cooling is on.
cooldownStateRecords(auth, now, noCooling) ==
  IF IsDisabled(auth) \/ noCooling THEN {}
  ELSE (IF auth.unavailable /\ auth.nextRetry > now THEN {RecordOf(NoModel, auth)} ELSE {})
       \cup {RecordOf(m, auth.models[m]) : m \in {n \in Models : Cooling(auth.models[n], now)}}

\* Seeded fault: the credential's own record goes first, and the aggregate of
\* the models restored after it replaces it.
RestoreWholeFirst(auth, records, now, noCooling) ==
  LET live == {r \in records : r.nextRetry > now}
      ofModel(m) == {r \in live : r.model = m}
      first(m) == CHOOSE x \in ofModel(m) : TRUE
      state(r) == [known |-> TRUE, unavailable |-> TRUE, nextRetry |-> r.nextRetry,
                   lastError |-> r.lastError, quota |-> r.quota]
      whole == IF ofModel(NoModel) = {} THEN auth
               ELSE [auth EXCEPT !.unavailable = TRUE,
                                 !.nextRetry = first(NoModel).nextRetry]
      models == [m \in Models |-> IF ofModel(m) = {} THEN auth.models[m] ELSE state(first(m))]
  IN IF IsDisabled(auth) \/ noCooling THEN auth
     ELSE IF \A m \in Models : ofModel(m) = {} THEN whole
     ELSE updateAggregatedAvailability([whole EXCEPT !.models = models], now)

\* restoreCooldownRecordLocked for the unexpired records, models first.
RestoreOf(auth, records, now, noCooling) ==
  LET live == {r \in records : r.nextRetry > now}
      quotaOf(r) == IF r.quota.exceeded /\ r.quota.recoverAt = 0
                    THEN [r.quota EXCEPT !.recoverAt = r.nextRetry] ELSE r.quota
      ofModel(m) == {r \in live : r.model = m}
      models == [m \in Models |->
                   IF ofModel(m) = {} THEN auth.models[m]
                   ELSE LET r == CHOOSE x \in ofModel(m) : TRUE IN
                     [known |-> TRUE, unavailable |-> TRUE, nextRetry |-> r.nextRetry,
                      lastError |-> r.lastError, quota |-> quotaOf(r)]]
      aggregated == IF \A m \in Models : ofModel(m) = {} THEN auth
                    ELSE updateAggregatedAvailability([auth EXCEPT !.models = models], now)
      whole == ofModel(NoModel)
  IN IF IsDisabled(auth) \/ noCooling THEN auth
     ELSE IF whole = {} THEN aggregated
     ELSE LET r == CHOOSE x \in whole : TRUE IN
       [aggregated EXCEPT !.unavailable = TRUE, !.status = "error",
                          !.nextRetry = r.nextRetry, !.quota = quotaOf(r),
                          !.lastError = r.lastError]
=============================================================================
