------------------------- MODULE AuthCooldownProofs -------------------------
(***************************************************************************)
(* Proofs about AuthCooldown: types, the aggregate of a credential's       *)
(* models, the durability of cooldowns and the pace of the backoff ladder, *)
(* for every set of models, every ladder, all pauses and environments.     *)
(***************************************************************************)
EXTENDS AuthCooldown, WellFoundedInduction, TLAPS

-----------------------------------------------------------------------------
(***************************************************************************)
(* Numbers.  Induction is by the least counterexample.                     *)
(***************************************************************************)
NatLess == {p \in Nat \X Nat : p[1] < p[2]}

\* A set of numbers that is not empty has a least one.
LEMMA LeastNumber ==
  ASSUME NEW S \in SUBSET Nat, S # {}
  PROVE  \E x \in S : \A y \in S : x <= y
<1>1. IsWellFoundedOn(NatLess, Nat)
  BY NatLessThanWellFounded DEF NatLess, OpToRel
<1>2. PICK x \in S : \A y \in S : <<y, x>> \notin NatLess
  BY WFMin, <1>1
<1>3. ASSUME NEW y \in S PROVE x <= y
  <2>1. <<y, x>> \in Nat \X Nat
    OBVIOUS
  <2>2. ~(<<y, x>>[1] < <<y, x>>[2])
    BY <2>1, <1>2 DEF NatLess
  <2>3. <<y, x>>[1] = y /\ <<y, x>>[2] = x
    OBVIOUS
  <2>4. y \in Nat /\ x \in Nat /\ ~(y < x)
    BY <2>2, <2>3
  <2> HIDE <1>2
  <2> QED BY <2>4
<1> QED BY <1>3

\* The minimum of a set of times.
LEMMA MinNat ==
  ASSUME NEW S \in SUBSET Nat, S # {}
  PROVE  Min(S) \in S /\ \A y \in S : Min(S) <= y
BY LeastNumber DEF Min

\* The least of some times, or zero, is a time.
LEMMA MinOrZeroNat ==
  ASSUME NEW S \in SUBSET Nat
  PROVE  MinOrZero(S) \in Nat
BY MinNat DEF MinOrZero

\* The maximum of a bounded set of levels.
LEMMA MaxNat ==
  ASSUME NEW n \in Nat, NEW S \in SUBSET (0 .. n), S # {}
  PROVE  Max(S) \in S
<1> DEFINE T == {n - y : y \in S}
<1>1. T \in SUBSET Nat /\ T # {}
  OBVIOUS
<1> HIDE DEF T
<1>2. PICK t \in T : \A u \in T : t <= u
  BY <1>1, LeastNumber
<1>3. PICK x \in S : t = n - x
  BY DEF T
<1>4. \A y \in S : x >= y
  <2> TAKE y \in S
  <2>1. n - y \in T
    BY DEF T
  <2>2. n - x <= n - y
    BY <2>1, <1>2, <1>3
  <2> QED BY <2>2
<1> QED BY <1>4 DEF Max

-----------------------------------------------------------------------------
(***************************************************************************)
(* 1 << level: the recursive definition has a solution, because each level *)
(* has a table of the levels up to it and the tables agree.                *)
(***************************************************************************)
Table(g, n) ==
  /\ g \in [0 .. n -> Nat \ {0}]
  /\ g[0] = 1
  /\ \A i \in 1 .. n : g[i] = 2 * g[i - 1]

\* There is a table of the powers of two up to every number.
LEMMA TablesExist == \A n \in Nat : \E g : Table(g, n)
<1> DEFINE S == {n \in Nat : ~ \E g : Table(g, n)}
<1> SUFFICES ASSUME S # {} PROVE FALSE
  OBVIOUS
<1>1. PICK n \in S : \A k \in S : n <= k
  <2>1. S \in SUBSET Nat
    OBVIOUS
  <2> HIDE DEF S
  <2> QED BY <2>1, LeastNumber
<1>2. n # 0
  <2>1. Table([i \in 0 .. 0 |-> 1], 0)
    BY DEF Table
  <2> QED BY <2>1
<1>3. n \in Nat /\ n - 1 \in Nat /\ n - 1 \notin S
  BY <1>1, <1>2
<1>4. PICK g : Table(g, n - 1)
  BY <1>3
<1> DEFINE h == [i \in 0 .. n |-> IF i = n THEN 2 * g[n - 1] ELSE g[i]]
<1>5. Table(h, n)
  <2>1. \A i \in 0 .. n - 1 : h[i] = g[i]
    BY <1>3
  <2>2. h[n] = 2 * g[n - 1]
    BY <1>3
  <2>3. \A i \in 0 .. n : h[i] \in Nat \ {0}
    <3> TAKE i \in 0 .. n
    <3>1. CASE i = n
      BY <1>3, <1>4, <2>2, <3>1 DEF Table
    <3>2. CASE i # n
      <4>1. i \in 0 .. n - 1
        BY <1>3, <3>2
      <4> QED BY <1>4, <2>1, <4>1 DEF Table
    <3> QED BY <3>1, <3>2
  <2>4. h \in [0 .. n -> Nat \ {0}]
    BY <2>3
  <2> HIDE DEF h
  <2>5. h[0] = 1
    BY <1>3, <1>4, <2>1 DEF Table
  <2>6. \A i \in 1 .. n : h[i] = 2 * h[i - 1]
    <3> TAKE i \in 1 .. n
    <3>1. i - 1 \in 0 .. n - 1
      BY <1>3
    <3>2. CASE i = n
      BY <2>1, <2>2, <3>1, <3>2
    <3>3. CASE i # n
      <4>1. i \in 0 .. n - 1 /\ i \in 1 .. n - 1
        BY <1>3, <3>3
      <4> QED BY <1>4, <2>1, <3>1, <4>1 DEF Table
    <3> QED BY <3>2, <3>3
  <2> QED BY <2>4, <2>5, <2>6 DEF Table
<1> QED BY <1>5

\* Two such tables say the same.
LEMMA TablesAgree ==
  ASSUME NEW n \in Nat, NEW k \in Nat, NEW g, NEW h, Table(g, n), Table(h, k)
  PROVE  \A i \in Nat : i <= n /\ i <= k => g[i] = h[i]
<1> DEFINE S == {i \in Nat : i <= n /\ i <= k /\ g[i] # h[i]}
<1> SUFFICES ASSUME S # {} PROVE FALSE
  OBVIOUS
<1>1. PICK i \in S : \A j \in S : i <= j
  <2>1. S \in SUBSET Nat
    OBVIOUS
  <2> HIDE DEF S
  <2> QED BY <2>1, LeastNumber
<1>2. i # 0
  BY DEF Table
<1>3. i - 1 \in Nat /\ i - 1 \notin S
  BY <1>1, <1>2
<1> QED BY <1>1, <1>2, <1>3 DEF Table

\* So Shift, which is defined by recursion, satisfies its equation.
LEMMA ShiftEquation == Shift = [n \in Nat |-> IF n = 0 THEN 1 ELSE 2 * Shift[n - 1]]
<1> DEFINE T(n) == CHOOSE g : Table(g, n)
           f == [n \in Nat |-> T(n)[n]]
<1>1. \A n \in Nat : Table(T(n), n)
  BY TablesExist
<1> HIDE DEF T
<1>2. f[0] = 1
  BY <1>1 DEF Table
<1>3. \A n \in Nat \ {0} : f[n] = 2 * f[n - 1]
  <2> TAKE n \in Nat \ {0}
  <2>1. T(n)[n] = 2 * T(n)[n - 1]
    BY <1>1 DEF Table
  <2>2. T(n)[n - 1] = T(n - 1)[n - 1]
    BY <1>1, TablesAgree
  <2> QED BY <2>1, <2>2
<1>4. f = [n \in Nat |-> IF n = 0 THEN 1 ELSE 2 * f[n - 1]]
  <2> HIDE DEF f
  <2>1. f = [n \in Nat |-> f[n]]
    BY DEF f
  <2> QED BY <1>2, <1>3, <2>1
<1> HIDE DEF f
<1> QED BY <1>4 DEF Shift

\* The windows of the ladder double, and outgrow every bound.
LEMMA ShiftDoubles ==
  /\ Shift[0] = 1
  /\ \A n \in Nat : Shift[n + 1] = 2 * Shift[n]
BY ShiftEquation

\* A power of two is greater than its exponent.
LEMMA ShiftGrows == \A n \in Nat : Shift[n] \in Nat /\ Shift[n] > n
<1> DEFINE S == {n \in Nat : ~(Shift[n] \in Nat /\ Shift[n] > n)}
<1> SUFFICES ASSUME S # {} PROVE FALSE
  OBVIOUS
<1>1. PICK n \in S : \A k \in S : n <= k
  <2>1. S \in SUBSET Nat
    OBVIOUS
  <2> HIDE DEF S
  <2> QED BY <2>1, LeastNumber
<1>2. n # 0
  BY ShiftDoubles
<1>3. n - 1 \in Nat /\ n - 1 \notin S
  BY <1>1, <1>2
<1>4. Shift[(n - 1) + 1] = 2 * Shift[n - 1] /\ (n - 1) + 1 = n
  BY <1>3, ShiftDoubles
<1> QED BY <1>1, <1>3, <1>4

-----------------------------------------------------------------------------
(***************************************************************************)
(* The operators of CooldownState map records to records.                  *)
(***************************************************************************)
LEMMA LevelRange == Level \subseteq 0 .. QuotaMax /\ 0 \in Level
BY CooldownAssumption DEF Level

\* No quota is a quota state.
LEMMA NoQuotaTyped == NoQuota \in Quota
BY LevelRange DEF NoQuota, Quota

\* The states that credentials start from are states.
LEMMA StatesTyped == CleanState \in ModelState /\ NoState \in ModelState /\ FreshAuth \in Auth
<1>1. CleanState \in ModelState
  BY NoQuotaTyped DEF CleanState, ModelState, ErrorKind
<1>2. NoState \in ModelState
  BY <1>1 DEF NoState, ModelState
<1>3. FreshAuth \in Auth
  BY <1>2, NoQuotaTyped DEF FreshAuth, Auth, ErrorKind
<1> QED BY <1>1, <1>2, <1>3

\* nextQuotaCooldown answers with a pause and a level.
LEMMA NextCooldownTyped ==
  ASSUME NEW level \in Level
  PROVE  nextQuotaCooldown(level).pause \in Nat /\ nextQuotaCooldown(level).level \in Level
<1>1. level \in Nat /\ Shift[level] \in Nat /\ Shift[level] > level
  BY LevelRange, ShiftGrows
<1> DEFINE cooldown == QuotaBase * Shift[level]
<1>2. cooldown \in Nat /\ cooldown >= Shift[level]
  <2>1. QuotaBase \in Nat /\ QuotaBase >= 1
    BY CooldownAssumption
  <2>2. \A x, y \in Nat : x >= 1 => x * y \in Nat /\ x * y >= y
    OBVIOUS
  <2> QED BY <1>1, <2>1, <2>2
<1>3. CASE cooldown >= QuotaMax
  BY <1>3, CooldownAssumption DEF nextQuotaCooldown
<1>4. CASE ~(cooldown >= QuotaMax)
  <2>1. nextQuotaCooldown(level) = [pause |-> cooldown, level |-> level + 1]
    BY <1>4 DEF nextQuotaCooldown
  <2>2. cooldown < QuotaMax /\ QuotaMax \in Nat
    BY <1>2, <1>4, CooldownAssumption
  <2>3. (level + 1) - 1 = level /\ level + 1 \in 0 .. QuotaMax
    BY <1>1, <1>2, <2>2
  <2>4. level + 1 \in Level
    BY <2>2, <2>3 DEF Level
  <2> QED BY <1>2, <2>1, <2>4
<1> QED BY <1>3, <1>4

\* The three ways in which a 429 changes a quota state make a quota state.
LEMMA QuotaOpsTyped ==
  ASSUME NEW q \in Quota, NEW t \in Nat, NEW off \in BOOLEAN, NEW ra \in RetryAfters
  PROVE  /\ quotaCooldownAfterFailure(q, t) \in Quota
         /\ nextCloudflareCooldown(q, t, off) \in Quota
         /\ QuotaAfter429(q, ra, t, off) \in Quota
<1>1. q.level \in Level /\ q.recoverAt \in Nat
  BY DEF Quota
<1> DEFINE next == nextQuotaCooldown(q.level)
<1>2. next.pause \in Nat /\ next.level \in Level
  BY <1>1, NextCooldownTyped
<1> HIDE DEF next
<1>3. quotaCooldownAfterFailure(q, t) \in Quota
  BY <1>1, <1>2 DEF quotaCooldownAfterFailure, next, Quota
<1> DEFINE pause == IF next.pause < CloudflareMin THEN CloudflareMin ELSE next.pause
<1>4. pause \in Nat
  BY <1>2, CooldownAssumption
<1> HIDE DEF pause
<1>5. nextCloudflareCooldown(q, t, off) \in Quota
  <2>1. nextCloudflareCooldown(q, t, off)
          = IF off THEN [exceeded |-> TRUE, recoverAt |-> 0, level |-> q.level]
            ELSE [exceeded |-> TRUE, recoverAt |-> t + pause, level |-> next.level]
    BY DEF nextCloudflareCooldown, next, pause
  <2> QED BY <1>1, <1>2, <1>4, <2>1 DEF Quota
<1>6. QuotaAfter429(q, ra, t, off) \in Quota
  <2>1. CASE off
    BY <1>1, <2>1 DEF QuotaAfter429, Quota
  <2>2. CASE ~off /\ ra # NoRetryAfter
    BY <1>1, <2>2 DEF QuotaAfter429, Quota, RetryAfters
  <2>3. CASE ~off /\ ra = NoRetryAfter
    BY <1>3, <2>3 DEF QuotaAfter429
  <2> QED BY <2>1, <2>2, <2>3
<1> QED BY <1>3, <1>5, <1>6

\* A state whose time is over is a state.
LEMMA ExpireTyped ==
  ASSUME NEW s \in ModelState, NEW t \in Nat
  PROVE  Expire(s, t) \in ModelState
BY DEF Expire, ModelState

\* The time of the next retry is a time.
LEMMA RetryAtTyped ==
  ASSUME NEW class, NEW t \in Nat, NEW off \in BOOLEAN
  PROVE  RetryAt(class, t, off) \in Nat
BY CooldownAssumption DEF RetryAt, PauseOf

\* What a failure makes of a model's state is a state.
LEMMA FailedStateTyped ==
  ASSUME NEW s \in ModelState, NEW class, NEW ra \in RetryAfters, NEW t \in Nat, NEW off \in BOOLEAN
  PROVE  FailedState(s, class, ra, t, off) \in ModelState
<1> DEFINE failed == [s EXCEPT !.known = TRUE, !.unavailable = TRUE,
                               !.lastError = ErrorOf(class)]
           withQuota(q) == [failed EXCEPT !.nextRetry = q.recoverAt, !.quota = q]
<1>1. failed \in ModelState
  BY DEF ModelState, ErrorOf, ErrorKind
<1> HIDE DEF failed
<1>2. \A q \in Quota : withQuota(q) \in ModelState
  BY <1>1 DEF ModelState, Quota
<1>3. \A n \in Nat : [failed EXCEPT !.nextRetry = n] \in ModelState
  BY <1>1 DEF ModelState
<1>4. s.quota \in Quota
  BY DEF ModelState
<1>5. t + LongPause \in Nat
  BY CooldownAssumption
<1> HIDE DEF withQuota
<1>6. \/ FailedState(s, class, ra, t, off) = [failed EXCEPT !.nextRetry = t + LongPause]
      \/ FailedState(s, class, ra, t, off) = withQuota(nextCloudflareCooldown(s.quota, t, off))
      \/ FailedState(s, class, ra, t, off) = withQuota(QuotaAfter429(s.quota, ra, t, off))
      \/ FailedState(s, class, ra, t, off) = [failed EXCEPT !.nextRetry = RetryAt(class, t, off)]
  BY DEF FailedState, failed, withQuota
<1> QED BY <1>2, <1>3, <1>4, <1>5, <1>6, QuotaOpsTyped, RetryAtTyped

\* What an aggregate says while it says that the credential is unavailable:
\* every model is, and the credential comes back with the first of them.
AllDown(a) ==
  a.unavailable =>
    /\ Known(a) # {}
    /\ \A m \in Known(a) : a.models[m].unavailable /\ a.models[m].nextRetry >= a.nextRetry
    /\ \E m \in Known(a) : a.models[m].nextRetry = a.nextRetry

\* What it says otherwise: some model is free.  A model that is free at a time
\* is free later on.
SomeUp(a, t) ==
  ~a.unavailable => Known(a) = {} \/ \E m \in Known(a) : ~Cooling(a.models[m], t)

\* updateAggregatedAvailability drops what has passed and aggregates the rest.
LEMMA Aggregated ==
  ASSUME NEW a \in Auth, NEW t \in Nat
  PROVE  LET b == updateAggregatedAvailability(a, t) IN
           /\ b \in Auth
           /\ b.models = [m \in Models |-> Expire(a.models[m], t)]
           /\ b.disabled = a.disabled /\ b.status = a.status
           /\ AllDown(b) /\ SomeUp(b, t)
<1> DEFINE b == updateAggregatedAvailability(a, t)
           models == [m \in Models |-> Expire(a.models[m], t)]
           cooling == {m \in Known(a) : Cooling(models[m], t)}
           all == cooling # {} /\ cooling = Known(a)
           over == {m \in Known(a) : models[m].quota.exceeded}
           times == {models[m].nextRetry : m \in cooling}
           next == IF all THEN Min(times) ELSE 0
           recover == MinOrZero({models[m].quota.recoverAt : m \in over} \ {0})
           levels == {models[m].quota.level : m \in over}
           quota == IF over = {} THEN NoQuota
                    ELSE [exceeded |-> TRUE, recoverAt |-> recover, level |-> Max(levels)]
<1>1. a.models \in [Models -> ModelState] /\ Known(a) \subseteq Models
  BY DEF Auth, Known
<1>2. models \in [Models -> ModelState]
  BY <1>1, ExpireTyped
<1>3. b = [a EXCEPT !.models = models, !.unavailable = all, !.nextRetry = next, !.quota = quota]
  BY DEF updateAggregatedAvailability
<1>4. times \in SUBSET Nat /\ (all => times # {})
  BY <1>1, <1>2 DEF ModelState
<1>5. next \in Nat
  <2> HIDE DEF times, all
  <2> QED BY <1>4, MinNat
<1>6. quota \in Quota
  <2>1. {models[m].quota.recoverAt : m \in over} \ {0} \in SUBSET Nat
    BY <1>1, <1>2 DEF ModelState, Quota
  <2>2. recover \in Nat
    BY <2>1, MinOrZeroNat
  <2>3. levels \in SUBSET Level /\ (over # {} => levels # {})
    <3>1. \A m \in over : models[m].quota.level \in Level
      BY <1>1, <1>2 DEF ModelState, Quota
    <3> HIDE DEF over, models
    <3> QED BY <3>1
  <2>4. over # {} => Max(levels) \in Level
    <3> HIDE DEF levels, over
    <3> QED BY <2>3, LevelRange, MaxNat, CooldownAssumption
  <2> HIDE DEF recover, levels, over
  <2> QED BY <2>2, <2>4, NoQuotaTyped DEF Quota
<1>7. all \in BOOLEAN
  OBVIOUS
<1>8. \A m \in Models : models[m].known = a.models[m].known
  BY <1>1 DEF Expire, ModelState
<1>9. all => /\ next \in times
             /\ \A m \in Known(a) : models[m].nextRetry >= next
  <2> SUFFICES ASSUME all PROVE next \in times /\ \A m \in Known(a) : models[m].nextRetry >= next
    OBVIOUS
  <2>1. next = Min(times) /\ cooling = Known(a)
    OBVIOUS
  <2>2. \A m \in cooling : models[m].nextRetry \in times
    OBVIOUS
  <2> HIDE DEF times, next, all, cooling
  <2>3. next \in times /\ \A y \in times : next <= y
    BY <1>4, <2>1, MinNat
  <2> QED BY <1>4, <2>1, <2>2, <2>3
<1>10. all => Known(a) # {} /\ \A m \in Known(a) : models[m].unavailable
  BY DEF Cooling
<1>11. ~all => Known(a) = {} \/ \E m \in Known(a) : ~Cooling(models[m], t)
  OBVIOUS
<1>12. next \in times => \E m \in Known(a) : models[m].nextRetry = next
  <2> HIDE DEF next
  <2> QED OBVIOUS
<1> HIDE DEF models, all, next, quota, b
<1>13. /\ b \in Auth
       /\ b.models = models /\ b.unavailable = all /\ b.nextRetry = next
       /\ b.disabled = a.disabled /\ b.status = a.status
  BY <1>2, <1>3, <1>5, <1>6, <1>7 DEF Auth
<1>14. Known(b) = Known(a)
  BY <1>8, <1>13 DEF Known
<1>15. AllDown(b)
  BY <1>9, <1>10, <1>12, <1>13, <1>14 DEF AllDown
<1>16. SomeUp(b, t)
  BY <1>11, <1>13, <1>14 DEF SomeUp
<1> QED BY <1>13, <1>15, <1>16 DEF b, models

-----------------------------------------------------------------------------
(***************************************************************************)
(* The ladder of a model: a level above 0 belongs to a model with a state, *)
(* cooling is on, the windows below the level have passed and the level's  *)
(* own window ends after they and it have.                                 *)
(***************************************************************************)
Windows(level) == QuotaBase * (Shift[level] - 1)

\* The parts of a quota state.
LEMMA QuotaParts ==
  ASSUME NEW q \in Quota
  PROVE  /\ q.level \in Level /\ q.level \in Nat /\ q.recoverAt \in Nat
         /\ Windows(q.level) \in Nat
<1>1. q.level \in Level /\ q.recoverAt \in Nat
  BY DEF Quota
<1>2. q.level \in Nat
  <2>1. \A l \in Level : l \in Nat
    BY LevelRange
  <2> QED BY <1>1, <2>1
<1>3. Shift[q.level] - 1 \in Nat
  BY <1>2, ShiftGrows
<1>4. \A x, z \in Nat : x * z \in Nat
  OBVIOUS
<1> QED BY <1>1, <1>2, <1>3, <1>4, CooldownAssumption DEF Windows

Rung(s, t, off) ==
  s.quota.level > 0 =>
    /\ s.known /\ ~off
    /\ t > Windows(s.quota.level - 1)
    /\ s.quota.recoverAt > Windows(s.quota.level)

Climbed(a, t, off) == \A m \in Models : Rung(a.models[m], t, off)

\* The credential is disabled or enabled, and its status follows.
Live(a, dis) == a \in Auth /\ a.disabled = dis /\ (a.status = "disabled" => dis)

Sound(a, t) == AllDown(a) /\ SomeUp(a, t)

\* A new credential is live and knows no model.
LEMMA FreshLive == Live(FreshAuth, FALSE) /\ AllDown(FreshAuth) /\ Known(FreshAuth) = {}
<1>1. \A m \in Models : FreshAuth.models[m] = NoState
  BY DEF FreshAuth
<1>2. ~NoState.known
  BY DEF NoState, CleanState
<1>3. Known(FreshAuth) = {}
  BY <1>1, <1>2 DEF Known
<1> QED BY <1>3, StatesTyped DEF Live, AllDown, FreshAuth

\* Clean and absent states are on no rung and block nothing.
LEMMA RestingStates ==
  ASSUME NEW s \in {CleanState, NoState}, NEW t \in Nat, NEW off \in BOOLEAN
  PROVE  Rung(s, t, off) /\ ~s.unavailable /\ ~Cooling(s, t)
BY DEF CleanState, NoState, NoQuota, Rung, Cooling

\* Expiry keeps quota, error and ladder, and leaves an available state alone.
LEMMA ExpireKeeps ==
  ASSUME NEW s \in ModelState, NEW t \in Nat, NEW off \in BOOLEAN
  PROVE  /\ Expire(s, t).known = s.known /\ Expire(s, t).quota = s.quota
         /\ Expire(s, t).lastError = s.lastError
         /\ (~s.unavailable => Expire(s, t) = s)
         /\ (Rung(s, t, off) => Rung(Expire(s, t), t, off))
<1>1. Expire(s, t).known = s.known /\ Expire(s, t).quota = s.quota
        /\ Expire(s, t).lastError = s.lastError
  BY DEF Expire, ModelState
<1>2. ~s.unavailable => Expire(s, t) = s
  BY DEF Expire
<1> QED BY <1>1, <1>2 DEF Rung

\* The summary leaves a live credential live and no model knows less.
LEMMA AggregatedLive ==
  ASSUME NEW dis \in BOOLEAN, NEW a, Live(a, dis), NEW t \in Nat, NEW off \in BOOLEAN
  PROVE  LET b == updateAggregatedAvailability(a, t) IN
           /\ Live(b, dis) /\ Sound(b, t) /\ Known(b) = Known(a)
           /\ b.models = [m \in Models |-> Expire(a.models[m], t)]
           /\ (Climbed(a, t, off) => Climbed(b, t, off))
<1> DEFINE b == updateAggregatedAvailability(a, t)
<1>1. a \in Auth /\ a.models \in [Models -> ModelState]
  BY DEF Live, Auth
<1>2. /\ b \in Auth
      /\ b.models = [m \in Models |-> Expire(a.models[m], t)]
      /\ b.disabled = a.disabled /\ b.status = a.status
      /\ AllDown(b) /\ SomeUp(b, t)
  BY <1>1, Aggregated
<1> HIDE DEF b
<1>3. Live(b, dis) /\ Sound(b, t)
  BY <1>2 DEF Live, Sound
<1>4. \A m \in Models : b.models[m] = Expire(a.models[m], t) /\ a.models[m] \in ModelState
  BY <1>1, <1>2
<1>5. Known(b) = Known(a)
  BY <1>4, ExpireKeeps DEF Known
<1>6. Climbed(a, t, off) => Climbed(b, t, off)
  BY <1>4, ExpireKeeps DEF Climbed
<1> QED BY <1>2, <1>3, <1>5, <1>6 DEF b

\* ClearStatusIfHealthy touches the status and the last error only.
LEMMA HealthyKeeps ==
  ASSUME NEW dis \in BOOLEAN, NEW a, Live(a, dis)
  PROVE  LET b == ClearStatusIfHealthy(a) IN
           /\ Live(b, dis)
           /\ b.models = a.models /\ b.unavailable = a.unavailable /\ b.nextRetry = a.nextRetry
<1> DEFINE b == [a EXCEPT !.lastError = "none", !.status = "active"]
<1>1. Live(b, dis) /\ b.models = a.models /\ b.unavailable = a.unavailable
        /\ b.nextRetry = a.nextRetry
  BY DEF Live, Auth, ErrorKind
<1> HIDE DEF b
<1> QED BY <1>1 DEF ClearStatusIfHealthy, b

\* What is said of models and summary holds of another credential with the
\* same ones.
LEMMA SoundKept ==
  ASSUME NEW a, NEW b, NEW t, NEW off,
         b.models = a.models, b.unavailable = a.unavailable, b.nextRetry = a.nextRetry
  PROVE  /\ Known(b) = Known(a)
         /\ (AllDown(a) => AllDown(b)) /\ (SomeUp(a, t) => SomeUp(b, t))
         /\ (Climbed(a, t, off) => Climbed(b, t, off))
BY DEF Known, AllDown, SomeUp, Climbed

\* clearCooldownStateForAuth leaves every model on the ground.
LEMMA Cleared ==
  ASSUME NEW dis \in BOOLEAN, NEW a, Live(a, dis), NEW t \in Nat, NEW off \in BOOLEAN
  PROVE  LET b == clearCooldownStateForAuth(a, t) IN
           /\ Live(b, dis) /\ Sound(b, t) /\ Known(b) = Known(a)
           /\ \A m \in Known(b) : ~b.models[m].unavailable
           /\ (Climbed(a, t, off) => \A y \in BOOLEAN : Climbed(b, t, y))
<1> DEFINE cooled(r) == r.unavailable \/ r.nextRetry # 0 \/ r.quota.exceeded
                          \/ r.quota.recoverAt # 0
           cleared(r) == IF cooled(r)
                         THEN [r EXCEPT !.unavailable = FALSE, !.nextRetry = 0, !.quota = NoQuota]
                         ELSE r
           models == [m \in Models |-> IF a.models[m].known THEN cleared(a.models[m])
                                       ELSE a.models[m]]
           whole == [cleared(a) EXCEPT !.models = models]
           b == clearCooldownStateForAuth(a, t)
<1>1. a.models \in [Models -> ModelState] /\ a \in Auth
  BY DEF Live, Auth
<1>2. ASSUME NEW s \in ModelState
      PROVE  /\ cleared(s) \in ModelState /\ cleared(s).known = s.known
             /\ ~cleared(s).unavailable
             /\ cleared(s).quota.level > 0 => cleared(s) = s /\ s.quota.recoverAt = 0
  <2>1. CASE cooled(s)
    <3> DEFINE e == [s EXCEPT !.unavailable = FALSE, !.nextRetry = 0, !.quota = NoQuota]
    <3>1. cleared(s) = e
      BY <2>1
    <3>2. e \in ModelState /\ e.known = s.known /\ e.quota = NoQuota /\ ~e.unavailable
      BY NoQuotaTyped DEF ModelState
    <3> HIDE DEF cleared, e
    <3> QED BY <3>1, <3>2 DEF NoQuota
  <2>2. CASE ~cooled(s)
    BY <2>2
  <2> QED BY <2>1, <2>2
<1>3. cleared(a) \in Auth /\ ~cleared(a).unavailable
      /\ cleared(a).disabled = a.disabled /\ cleared(a).status = a.status
  <2>1. CASE cooled(a)
    <3> DEFINE e == [a EXCEPT !.unavailable = FALSE, !.nextRetry = 0, !.quota = NoQuota]
    <3>1. cleared(a) = e
      BY <2>1
    <3>2. e \in Auth /\ ~e.unavailable /\ e.disabled = a.disabled /\ e.status = a.status
      BY <1>1, NoQuotaTyped DEF Auth
    <3> HIDE DEF cleared, e
    <3> QED BY <3>1, <3>2
  <2>2. CASE ~cooled(a)
    BY <2>2, <1>1
  <2> QED BY <2>1, <2>2
<1>4. models \in [Models -> ModelState]
  BY <1>1, <1>2
<1>5. \A m \in Models :
        /\ models[m].known = a.models[m].known
        /\ models[m].known => ~models[m].unavailable
        /\ models[m].quota.level > 0 =>
             models[m] = a.models[m] /\ (a.models[m].known => a.models[m].quota.recoverAt = 0)
  BY <1>1, <1>2
<1>6. b = IF Known(a) = {} THEN whole ELSE updateAggregatedAvailability(whole, t)
  BY DEF clearCooldownStateForAuth
<1> HIDE DEF models, cleared
<1>7. whole \in Auth /\ ~whole.unavailable /\ whole.disabled = a.disabled
      /\ whole.status = a.status /\ whole.models = models
  BY <1>3, <1>4 DEF Auth
<1> HIDE DEF whole, b
<1>8. Live(whole, dis) /\ Known(whole) = Known(a)
  BY <1>5, <1>7 DEF Live, Known
<1>9. Climbed(a, t, off) => \A y \in BOOLEAN : Climbed(whole, t, y)
  <2> SUFFICES ASSUME Climbed(a, t, off), NEW y \in BOOLEAN, NEW m \in Models
               PROVE  Rung(whole.models[m], t, y)
    BY DEF Climbed
  <2>1. Rung(a.models[m], t, off) /\ a.models[m] \in ModelState
    BY <1>1 DEF Climbed
  <2>2. a.models[m].quota.level > 0 =>
          a.models[m].known /\ a.models[m].quota.recoverAt > Windows(a.models[m].quota.level)
    BY <2>1 DEF Rung
  <2>3. a.models[m].quota \in Quota
    BY <2>1 DEF ModelState
  <2>4. Windows(a.models[m].quota.level) \in Nat /\ a.models[m].quota.recoverAt \in Nat
    BY <2>3, QuotaParts
  <2>5. a.models[m].quota.level > 0 => a.models[m].known /\ a.models[m].quota.recoverAt # 0
    BY <2>2, <2>4
  <2>6. ~(models[m].quota.level > 0)
    BY <1>5, <2>5
  <2> QED BY <2>6, <1>7 DEF Rung
<1>10. CASE Known(a) = {}
  BY <1>6, <1>7, <1>8, <1>9, <1>10 DEF Sound, AllDown, SomeUp, b
<1>11. CASE Known(a) # {}
  <2>1. b = updateAggregatedAvailability(whole, t)
    BY <1>6, <1>11
  <2>2. Live(b, dis) /\ Sound(b, t) /\ Known(b) = Known(whole)
    BY <1>8, <2>1, AggregatedLive
  <2>3. \A y \in BOOLEAN : Climbed(whole, t, y) => Climbed(b, t, y)
    BY <1>8, <2>1, AggregatedLive
  <2>4. \A m \in Known(b) : ~b.models[m].unavailable
    <3> SUFFICES ASSUME NEW m \in Known(b) PROVE ~b.models[m].unavailable
      OBVIOUS
    <3>1. b.models = [n \in Models |-> Expire(whole.models[n], t)]
      BY <1>8, <2>1, AggregatedLive
    <3>2. m \in Models /\ whole.models[m] \in ModelState /\ whole.models[m].known
      BY <1>4, <1>7, <2>2 DEF Known
    <3>3. ~whole.models[m].unavailable
      BY <1>5, <1>7, <3>2
    <3>4. b.models[m] = whole.models[m]
      BY <3>1, <3>2, <3>3, ExpireKeeps
    <3> QED BY <3>3, <3>4
  <2> QED BY <1>8, <1>9, <2>2, <2>3, <2>4 DEF b
<1> QED BY <1>10, <1>11

\* A success leaves a true summary.
LEMMA SuccessMarked ==
  ASSUME NEW dis \in BOOLEAN, NEW a, Live(a, dis), NEW m \in Models, NEW t \in Nat, NEW off \in BOOLEAN
  PROVE  LET b == MarkSuccess(a, m, t) IN
           /\ Live(b, dis) /\ Sound(b, t)
           /\ (Climbed(a, t, off) => Climbed(b, t, off))
<1> DEFINE c == [a EXCEPT !.models[m] = CleanState]
           d == updateAggregatedAvailability(c, t)
           b == ClearStatusIfHealthy(d)
<1>1. Live(c, dis) /\ c.models = [a.models EXCEPT ![m] = CleanState]
  BY StatesTyped DEF Live, Auth
<1>2. Climbed(a, t, off) => Climbed(c, t, off)
  BY <1>1, RestingStates DEF Climbed, Live, Auth
<1> HIDE DEF c
<1>3. Live(d, dis) /\ Sound(d, t) /\ (Climbed(c, t, off) => Climbed(d, t, off))
  <2>1. Live(c, dis)
    BY <1>1
  <2> QED BY <2>1, AggregatedLive
<1> HIDE DEF d
<1>4. Live(b, dis) /\ b.models = d.models /\ b.unavailable = d.unavailable /\ b.nextRetry = d.nextRetry
  BY <1>3, HealthyKeeps
<1>5. b = MarkSuccess(a, m, t)
  BY DEF MarkSuccess, c, d
<1> HIDE DEF b
<1> QED BY <1>2, <1>3, <1>4, <1>5, SoundKept DEF Sound

-----------------------------------------------------------------------------
(***************************************************************************)
(* A failure climbs at most one rung, and only once the window is over.    *)
(***************************************************************************)
\* The windows up to the next level are those up to this one and its own.
LEMMA WindowsAdd ==
  ASSUME NEW l \in Nat
  PROVE  /\ QuotaBase * Shift[l] \in Nat
         /\ Windows(l) \in Nat
         /\ Windows(l + 1) = Windows(l) + QuotaBase * Shift[l]
<1>1. Shift[l] \in Nat /\ Shift[l] >= 1 /\ Shift[l + 1] = 2 * Shift[l]
  BY ShiftGrows, ShiftDoubles
<1>2. QuotaBase \in Nat
  BY CooldownAssumption
<1>3. \A x, y \in Nat : y >= 1 => /\ x * y \in Nat /\ x * (y - 1) \in Nat
                                 /\ x * (2 * y - 1) = x * (y - 1) + x * y
  OBVIOUS
<1> QED BY <1>1, <1>2, <1>3 DEF Windows

\* The quota after a 429 keeps the pace.
QuotaRung(q, t, off) ==
  q.level > 0 => ~off /\ t > Windows(q.level - 1) /\ q.recoverAt > Windows(q.level)

\* A 429 with no hint, or a long one, climbs at most one rung after the last
\* window is over.
LEMMA QuotaPaced ==
  ASSUME NEW q \in Quota, NEW t \in Nat \ {0}, NEW off \in BOOLEAN, NEW ra \in RetryAfters,
         ra = NoRetryAfter \/ ra >= QuotaMax, QuotaRung(q, t, off)
  PROVE  QuotaRung(QuotaAfter429(q, ra, t, off), t, off)
<1> DEFINE l == q.level
           k == QuotaBase * Shift[l]
<1>1. l \in Level /\ l \in Nat /\ q.recoverAt \in Nat
  BY QuotaParts
<1>2. k \in Nat /\ Windows(l) \in Nat /\ Windows(l + 1) = Windows(l) + k
  BY <1>1, WindowsAdd
<1>3. l > 0 => /\ QuotaBase * Shift[l - 1] \in Nat /\ Windows(l - 1) \in Nat
               /\ Windows(l) = Windows(l - 1) + QuotaBase * Shift[l - 1]
               /\ QuotaBase * Shift[l - 1] < QuotaMax
  <2> SUFFICES ASSUME l > 0
               PROVE  /\ QuotaBase * Shift[l - 1] \in Nat /\ Windows(l - 1) \in Nat
                      /\ Windows(l) = Windows(l - 1) + QuotaBase * Shift[l - 1]
                      /\ QuotaBase * Shift[l - 1] < QuotaMax
    OBVIOUS
  <2>1. l - 1 \in Nat /\ (l - 1) + 1 = l
    BY <1>1
  <2>2. QuotaBase * Shift[l - 1] < QuotaMax
    BY <1>1 DEF Level
  <2> HIDE DEF l
  <2>3. /\ QuotaBase * Shift[l - 1] \in Nat /\ Windows(l - 1) \in Nat
        /\ Windows((l - 1) + 1) = Windows(l - 1) + QuotaBase * Shift[l - 1]
    BY <2>1, WindowsAdd
  <2> QED BY <2>1, <2>2, <2>3
<1>4. QuotaMax \in Nat
  BY CooldownAssumption
<1>5. l > 0 => ~off /\ t > Windows(l - 1) /\ q.recoverAt > Windows(l)
  BY DEF QuotaRung
<1> DEFINE r == QuotaAfter429(q, ra, t, off)
<1>6. CASE off
  <2>1. r.level = l /\ ~(l > 0)
    BY <1>5, <1>6 DEF QuotaAfter429
  <2> QED BY <2>1 DEF QuotaRung
<1>7. CASE ~off /\ ra # NoRetryAfter
  <2>1. r.level = l /\ r.recoverAt = t + ra
    BY <1>7 DEF QuotaAfter429
  <2>3. ra \in Nat /\ ra >= QuotaMax
    BY <1>7 DEF RetryAfters
  <2> HIDE DEF r, l
  <2>2. l > 0 => t + ra > Windows(l)
    BY <1>1, <1>2, <1>3, <1>4, <1>5, <1>7, <2>3
  <2> QED BY <1>5, <2>1, <2>2 DEF QuotaRung, r
<1>8. CASE ~off /\ ra = NoRetryAfter
  <2>1. r = quotaCooldownAfterFailure(q, t)
    BY <1>8 DEF QuotaAfter429
  <2>2. CASE q.recoverAt > t
    <3>1. r.level = l /\ r.recoverAt = q.recoverAt
      BY <2>1, <2>2 DEF quotaCooldownAfterFailure
    <3> HIDE DEF r, l
    <3> QED BY <1>5, <3>1, <1>8 DEF QuotaRung, r
  <2>3. CASE ~(q.recoverAt > t) /\ k >= QuotaMax
    <3>1. nextQuotaCooldown(l) = [pause |-> QuotaMax, level |-> l]
      BY <2>3 DEF nextQuotaCooldown
    <3>2. r.level = l /\ r.recoverAt = t + QuotaMax
      BY <2>1, <2>3, <3>1 DEF quotaCooldownAfterFailure
    <3> HIDE DEF r, l, k
    <3>3. l > 0 => t + QuotaMax > Windows(l)
      BY <1>1, <1>2, <1>4, <1>5, <2>3
    <3> QED BY <1>5, <3>2, <3>3, <1>8 DEF QuotaRung, r
  <2>4. CASE ~(q.recoverAt > t) /\ ~(k >= QuotaMax)
    <3>1. nextQuotaCooldown(l) = [pause |-> k, level |-> l + 1]
      BY <2>4 DEF nextQuotaCooldown
    <3>2. r.level = l + 1 /\ r.recoverAt = t + k
      BY <2>1, <2>4, <3>1 DEF quotaCooldownAfterFailure
    <3>3. l = 0 => Windows(l) = 0
      BY ShiftDoubles, CooldownAssumption DEF Windows
    <3> HIDE DEF r, l, k
    <3>4. t > Windows(l)
      BY <1>1, <1>2, <1>5, <2>4, <3>3
    <3>5. (l + 1) - 1 = l /\ t + k > Windows(l + 1)
      BY <1>1, <1>2, <3>4
    <3> QED BY <3>2, <3>4, <3>5, <1>8 DEF QuotaRung, r
  <2> QED BY <2>2, <2>3, <2>4
<1> QED BY <1>6, <1>7, <1>8

\* The same of the whole state of a model.
LEMMA FailedStatePaced ==
  ASSUME NEW s \in ModelState, NEW class, NEW ra \in RetryAfters, NEW t \in Nat \ {0},
         NEW off \in BOOLEAN,
         Rung(s, t, off), class # "cloudflare", ra = NoRetryAfter \/ ra >= QuotaMax
  PROVE  Rung(FailedState(s, class, ra, t, off), t, off)
<1> DEFINE f == FailedState(s, class, ra, t, off)
           q == QuotaAfter429(s.quota, ra, t, off)
<1>1. f.known /\ f.quota = IF class = "quota" THEN q ELSE s.quota
  <2>1. CASE class = "quota"
    BY <2>1 DEF FailedState, ModelState
  <2>2. CASE class = "support"
    BY <2>2 DEF FailedState, ModelState
  <2>3. CASE class \notin {"quota", "support"}
    BY <2>3 DEF FailedState, ModelState
  <2> QED BY <2>1, <2>2, <2>3
<1>2. QuotaRung(s.quota, t, off)
  BY DEF Rung, QuotaRung
<1>3. s.quota \in Quota
  BY DEF ModelState
<1>4. QuotaRung(q, t, off)
  BY <1>2, <1>3, QuotaPaced
<1> HIDE DEF f, q
<1>5. QuotaRung(f.quota, t, off)
  BY <1>1, <1>2, <1>4
<1> QED BY <1>1, <1>5 DEF Rung, QuotaRung, f

-----------------------------------------------------------------------------
(***************************************************************************)
(* The operations on a whole record.                                       *)
(***************************************************************************)
LEMMA FailureMarked ==
  ASSUME NEW dis \in BOOLEAN, NEW a, Live(a, dis), NEW m \in Models, NEW class, NEW ra \in RetryAfters, NEW t \in Nat, t # 0,
         NEW off \in BOOLEAN
  PROVE  LET b == MarkFailure(a, m, class, ra, t, off) IN
           /\ Live(b, dis)
           /\ (Sound(a, t) => Sound(b, t)) /\ (AllDown(a) => AllDown(b))
           /\ (Climbed(a, t, off) /\ class # "cloudflare" /\ (ra = NoRetryAfter \/ ra >= QuotaMax)
                 => Climbed(b, t, off))
<1> DEFINE f == FailedState(a.models[m], class, ra, t, off)
           c == [a EXCEPT !.models[m] = FailedState(@, class, ra, t, off),
                          !.status = "error", !.lastError = ErrorOf(class)]
           b == MarkFailure(a, m, class, ra, t, off)
<1>1. CASE class = "requestScoped"
  BY <1>1 DEF MarkFailure
<1>2. CASE class # "requestScoped"
  <2>1. a.models \in [Models -> ModelState] /\ a \in Auth
    BY DEF Live, Auth
  <2>2. f \in ModelState
    BY <2>1, FailedStateTyped
  <2>3. c = [a EXCEPT !.models = [a.models EXCEPT ![m] = f],
                      !.status = "error", !.lastError = ErrorOf(class)]
    BY <2>1 DEF Auth
  <2>4. ErrorOf(class) \in ErrorKind
    BY DEF ErrorOf, ErrorKind
  <2>5. b = updateAggregatedAvailability(c, t)
    BY <1>2 DEF MarkFailure
  <2> HIDE DEF c, f, b
  <2>6. Live(c, dis) /\ c.models = [a.models EXCEPT ![m] = f]
    BY <2>1, <2>2, <2>3, <2>4 DEF Live, Auth
  <2>7. Climbed(a, t, off) /\ class # "cloudflare" /\ (ra = NoRetryAfter \/ ra >= QuotaMax)
          => Climbed(c, t, off)
    <3> SUFFICES ASSUME Climbed(a, t, off), class # "cloudflare", ra = NoRetryAfter \/ ra >= QuotaMax,
                        NEW n \in Models
                 PROVE  Rung(c.models[n], t, off)
      BY DEF Climbed
    <3>1. Rung(a.models[m], t, off) /\ Rung(a.models[n], t, off) /\ a.models[m] \in ModelState
      BY <2>1 DEF Climbed
    <3>2. Rung(f, t, off)
      BY <3>1, FailedStatePaced DEF f
    <3>3. c.models[n] = f \/ c.models[n] = a.models[n]
      BY <2>1, <2>6
    <3> QED BY <3>1, <3>2, <3>3
  <2>8. Live(b, dis) /\ Sound(b, t) /\ (Climbed(c, t, off) => Climbed(b, t, off))
    <3> DEFINE d == updateAggregatedAvailability(c, t)
    <3>1. Live(c, dis)
      BY <2>6
    <3>2. Live(d, dis) /\ Sound(d, t) /\ (Climbed(c, t, off) => Climbed(d, t, off))
      BY <3>1, AggregatedLive
    <3> QED BY <2>5, <3>2
  <2> QED BY <2>7, <2>8 DEF b, Sound
<1> QED BY <1>1, <1>2

\* A success without a model leaves the models alone.
LEMMA AuthSuccess ==
  ASSUME NEW a, Live(a, FALSE)
  PROVE  LET b == clearAuthStateOnSuccess(a) IN Live(b, FALSE) /\ b.models = a.models
BY NoQuotaTyped DEF clearAuthStateOnSuccess, Live, Auth, ErrorKind

\* So does a failure without a model.
LEMMA AuthFailure ==
  ASSUME NEW a, Live(a, FALSE), NEW class, NEW ra \in RetryAfters, NEW t \in Nat,
         NEW off \in BOOLEAN
  PROVE  LET b == applyAuthFailureState(a, class, ra, t, off) IN
           Live(b, FALSE) /\ b.models = a.models
<1> DEFINE failed == [a EXCEPT !.unavailable = TRUE, !.status = "error",
                               !.lastError = ErrorOf(class)]
           withQuota(q) == [failed EXCEPT !.nextRetry = q.recoverAt, !.quota = q]
           b == applyAuthFailureState(a, class, ra, t, off)
<1>1. ErrorOf(class) \in ErrorKind
  BY DEF ErrorOf, ErrorKind
<1>2. Live(failed, FALSE) /\ failed.models = a.models
  BY <1>1 DEF Live, Auth
<1> HIDE DEF failed
<1>3. \A q \in Quota : Live(withQuota(q), FALSE) /\ withQuota(q).models = a.models
  BY <1>2 DEF Live, Auth, Quota
<1>4. \A n \in Nat : Live([failed EXCEPT !.nextRetry = n], FALSE)
                       /\ [failed EXCEPT !.nextRetry = n].models = a.models
  BY <1>2 DEF Live, Auth
<1>5. a.quota \in Quota
  BY DEF Live, Auth
<1> HIDE DEF withQuota
<1>6. \/ b = a
      \/ b = withQuota(nextCloudflareCooldown(a.quota, t, off))
      \/ b = withQuota(QuotaAfter429(a.quota, ra, t, off))
      \/ b = failed
      \/ b = [failed EXCEPT !.nextRetry = RetryAt(class, t, off)]
  BY DEF applyAuthFailureState, failed, withQuota
<1> HIDE DEF b
<1>7. Live(b, FALSE) /\ b.models = a.models
  BY <1>2, <1>3, <1>4, <1>5, <1>6, QuotaOpsTyped, RetryAtTyped
<1> QED BY <1>7 DEF b

\* A reset by an operator leaves no model unavailable.
LEMMA QuotaReset ==
  ASSUME NEW dis \in BOOLEAN, NEW a, Live(a, dis), NEW t \in Nat, NEW off \in BOOLEAN
  PROVE  LET b == ResetQuotaOf(a, t) IN
           /\ Live(b, dis) /\ Sound(b, t) /\ (Climbed(a, t, off) => Climbed(b, t, off))
           /\ \A m \in Known(b) : ~b.models[m].unavailable
<1> DEFINE reset == [a EXCEPT !.models = [m \in Models |->
                       IF @[m].known THEN CleanState ELSE @[m]]]
           models == [m \in Models |-> IF a.models[m].known THEN CleanState ELSE a.models[m]]
           c == clearCooldownStateForAuth(reset, t)
           b == ResetQuotaOf(a, t)
<1>1. a.models \in [Models -> ModelState] /\ a \in Auth
  BY DEF Live, Auth
<1>2. models \in [Models -> ModelState]
  BY <1>1, StatesTyped
<1>3. reset = [a EXCEPT !.models = models]
  BY <1>1 DEF Auth
<1>4. \A m \in Models : models[m] = CleanState \/ models[m] = a.models[m]
  OBVIOUS
<1>5. b = ClearStatusIfHealthy(c) \/ b = c
  BY DEF ResetQuotaOf
<1> HIDE DEF models, reset, b
<1>6. Live(reset, dis) /\ reset.models = models
  BY <1>1, <1>2, <1>3 DEF Live, Auth
<1>7. Climbed(a, t, off) => Climbed(reset, t, off)
  BY <1>4, <1>6, RestingStates DEF Climbed
<1>8. /\ Live(c, dis) /\ Sound(c, t) /\ (Climbed(reset, t, off) => Climbed(c, t, off))
      /\ \A m \in Known(c) : ~c.models[m].unavailable
  BY <1>6, Cleared
<1> HIDE DEF c
<1>9. Live(b, dis) /\ b.models = c.models /\ b.unavailable = c.unavailable /\ b.nextRetry = c.nextRetry
  BY <1>5, <1>8, HealthyKeeps
<1>10. /\ Live(b, dis) /\ Sound(b, t) /\ (Climbed(a, t, off) => Climbed(b, t, off))
       /\ \A m \in Known(b) : ~b.models[m].unavailable
  BY <1>7, <1>8, <1>9, SoundKept DEF Sound
<1> QED BY <1>10 DEF b

\* Reconciliation leaves only clean states.
LEMMA Reconciled ==
  ASSUME NEW dis \in BOOLEAN, NEW a, Live(a, dis), NEW supported \in SUBSET Models,
         NEW t \in Nat, NEW off \in BOOLEAN
  PROVE  LET b == ReconcileOf(a, supported, t) IN
           /\ Live(b, dis)
           /\ (AllDown(a) => Sound(b, t))
           /\ (b = a \/ (~b.unavailable /\ \A m \in Models : ~Cooling(b.models[m], t)))
           /\ (Climbed(a, t, off) => Climbed(b, t, off))
<1> DEFINE models == [m \in Models |-> IF ~a.models[m].known THEN a.models[m]
                                       ELSE IF m \in supported THEN CleanState ELSE NoState]
           c == [a EXCEPT !.models = models]
           d == updateAggregatedAvailability(c, t)
           b == ReconcileOf(a, supported, t)
<1>1. a.models \in [Models -> ModelState] /\ a \in Auth
  BY DEF Live, Auth
<1>2. models \in [Models -> ModelState]
  BY <1>1, StatesTyped
<1>3. \A m \in Models : IF a.models[m].known THEN models[m] \in {CleanState, NoState}
                        ELSE models[m] = a.models[m]
  BY <1>1
<1>4. b = IF models = a.models THEN a ELSE ClearStatusIfHealthy(d)
  BY DEF ReconcileOf
<1>5. NoState.known = FALSE /\ CleanState.known = TRUE
  BY DEF NoState, CleanState
<1>6. \A m \in Models : ~Cooling(models[m], t) /\ (models[m].known => ~models[m].unavailable)
  BY <1>1, <1>3, <1>5, RestingStates DEF Cooling
<1> HIDE DEF models, b
<1>7. CASE models = a.models
  <2>1. b = a
    BY <1>4, <1>7
  <2>2. AllDown(a) => Sound(a, t)
    <3> SUFFICES ASSUME Known(a) # {} PROVE \E m \in Known(a) : ~Cooling(a.models[m], t)
      BY DEF Sound, SomeUp
    <3> QED BY <1>6, <1>7 DEF Known
  <2> QED BY <2>1, <2>2 DEF b
<1>8. CASE models # a.models
  <2>1. Live(c, dis) /\ c.models = models
    BY <1>1, <1>2 DEF Live, Auth
  <2>2. Climbed(a, t, off) => Climbed(c, t, off)
    BY <1>3, <2>1, RestingStates DEF Climbed
  <2> HIDE DEF c
  <2>3. /\ Live(d, dis) /\ Sound(d, t) /\ Known(d) = Known(c)
        /\ d.models = [m \in Models |-> Expire(c.models[m], t)]
        /\ (Climbed(c, t, off) => Climbed(d, t, off))
    BY <2>1, AggregatedLive
  <2> HIDE DEF d
  <2>4. \A m \in Models : models[m].known => d.models[m] = models[m]
    BY <1>2, <1>6, <2>1, <2>3, ExpireKeeps
  <2>5. \A m \in Models : ~models[m].known => ~d.models[m].known
    BY <1>2, <2>1, <2>3, ExpireKeeps
  <2>6. \A m \in Models : ~Cooling(d.models[m], t)
    BY <1>6, <2>4, <2>5 DEF Cooling
  <2>7. ~d.unavailable
    <3> SUFFICES ASSUME d.unavailable PROVE FALSE
      OBVIOUS
    <3>1. PICK m \in Known(d) : d.models[m].unavailable
      BY <2>3 DEF Sound, AllDown
    <3>2. m \in Models /\ models[m].known
      BY <2>1, <2>3 DEF Known
    <3> QED BY <1>6, <2>4, <3>1, <3>2
  <2>8. b = ClearStatusIfHealthy(d)
    BY <1>4, <1>8
  <2>9. Live(b, dis) /\ b.models = d.models /\ b.unavailable = d.unavailable
        /\ b.nextRetry = d.nextRetry
    BY <2>3, <2>8, HealthyKeeps
  <2>10. Sound(b, t) /\ (Climbed(d, t, off) => Climbed(b, t, off))
    BY <2>3, <2>9, SoundKept DEF Sound
  <2> QED BY <2>2, <2>3, <2>6, <2>7, <2>9, <2>10 DEF b
<1> QED BY <1>7, <1>8

\* The record a refresh leaves, and the one an Update puts in place of another.
LEMMA RefreshedLive ==
  ASSUME NEW dis \in BOOLEAN, NEW a, Live(a, dis), NEW t \in Nat
  PROVE  Live(RefreshedOf(a, t), dis)
<1> DEFINE hit == {m \in Known(a) : a.models[m].lastError = "unauthorized"}
           status == IF a.status = "error" THEN "active" ELSE a.status
           base == [a EXCEPT !.lastError = "none", !.unavailable = FALSE, !.status = status]
           models == [m \in Models |-> IF m \in hit THEN CleanState ELSE base.models[m]]
           reset == [base EXCEPT !.models = models]
<1>1. a \in Auth /\ a.disabled = dis /\ (a.status = "disabled" => dis)
  BY DEF Live
<1>2. status \in {"active", "error", "disabled"} /\ (status = "disabled" => dis)
  BY <1>1 DEF Auth
<1>3. Live(base, dis)
  <2> HIDE DEF status
  <2> QED BY <1>1, <1>2 DEF Live, Auth, ErrorKind
<1>4. RefreshedOf(a, t) = IF hit = {} THEN base ELSE updateAggregatedAvailability(reset, t)
  BY DEF RefreshedOf
<1> HIDE DEF base, hit
<1>5. models \in [Models -> ModelState]
  BY <1>3, StatesTyped DEF Live, Auth
<1>6. Live(reset, dis)
  <2> HIDE DEF models
  <2> QED BY <1>3, <1>5 DEF Live, Auth
<1> HIDE DEF reset
<1>7. FALSE \in BOOLEAN
  OBVIOUS
<1>8. Live(updateAggregatedAvailability(reset, t), dis)
  BY <1>6, <1>7, AggregatedLive
<1> QED BY <1>3, <1>4, <1>8

\* A record that takes over another one's models is live.
LEMMA CarriedLive ==
  ASSUME NEW dis \in BOOLEAN, NEW new, Live(new, dis), NEW old \in Auth, NEW t \in Nat
  PROVE  Live(CarryOver(new, old, t, FALSE), dis)
<1> DEFINE carried == IF ~IsDisabled(old) /\ ~IsDisabled(new) /\ Known(new) = {}
                      THEN [new EXCEPT !.models = old.models] ELSE new
<1>1. Live([new EXCEPT !.models = old.models], dis)
  BY DEF Live, Auth
<1>2. Live(carried, dis)
  BY <1>1
<1>3. CarryOver(new, old, t, FALSE) = IF IsDisabled(new) THEN clearCooldownStateForAuth(carried, t)
                                      ELSE carried
  BY DEF CarryOver
<1> HIDE DEF carried
<1>4. FALSE \in BOOLEAN
  OBVIOUS
<1>5. Live(clearCooldownStateForAuth(carried, t), dis)
  BY <1>2, <1>4, Cleared
<1> QED BY <1>2, <1>3, <1>5

\* A reload keeps the blocks of the record it replaces, or drops all of them
\* when cooling is off.
LEMMA Carried ==
  ASSUME NEW a, Live(a, FALSE), NEW t \in Nat, NEW off \in BOOLEAN
  PROVE  LET b == CarryOver(FreshAuth, a, t, off) IN
           /\ Live(b, FALSE) /\ AllDown(b)
           /\ (~off => b.models = a.models /\ ~b.unavailable)
           /\ (Climbed(a, t, off) => Climbed(b, t, off))
<1> DEFINE c == [FreshAuth EXCEPT !.models = a.models]
           b == CarryOver(FreshAuth, a, t, off)
<1>1. Live(FreshAuth, FALSE) /\ Known(FreshAuth) = {}
  BY FreshLive
<1>2. ~IsDisabled(a) /\ ~IsDisabled(FreshAuth) /\ ~FreshAuth.unavailable
  BY <1>1 DEF Live, IsDisabled, FreshAuth
<1>3. b = IF off THEN clearCooldownStateForAuth(c, t) ELSE c
  BY <1>1, <1>2 DEF CarryOver
<1>4. Live(c, FALSE) /\ c.models = a.models /\ ~c.unavailable
  <2> HIDE DEF b
  <2> QED BY <1>1, <1>2 DEF Live, Auth
<1> HIDE DEF c, b
<1>5. CASE off
  BY <1>3, <1>4, <1>5, Cleared DEF Sound, Climbed, b
<1>6. CASE ~off
  BY <1>3, <1>4, <1>6 DEF AllDown, Climbed, b
<1> QED BY <1>5, <1>6

\* The records of a store keep the pace, for models.
Paced(R, t) == \A r \in R : r.model \in Models => QuotaRung(r.quota, t, FALSE)

\* What is written to the cooldown file are records, paced as the credential
\* is.
LEMMA RecordsTyped ==
  ASSUME NEW a \in Auth, NEW t \in Nat, NEW off \in BOOLEAN
  PROVE  /\ cooldownStateRecords(a, t, off) \subseteq Record
         /\ (Climbed(a, t, off) => Paced(cooldownStateRecords(a, t, off), t))
<1> DEFINE R == cooldownStateRecords(a, t, off)
<1>1. a.models \in [Models -> ModelState]
  BY DEF Auth
<1>2. ASSUME NEW r \in R
      PROVE  r \in Record /\ (Climbed(a, t, off) /\ r.model \in Models => QuotaRung(r.quota, t, FALSE))
  <2>1. \/ r = RecordOf(NoModel, a)
        \/ ~off /\ \E m \in Models : r = RecordOf(m, a.models[m])
    BY DEF cooldownStateRecords
  <2>2. CASE r = RecordOf(NoModel, a)
    BY <2>2, CooldownAssumption DEF RecordOf, Record, Auth
  <2>3. CASE ~off /\ \E m \in Models : r = RecordOf(m, a.models[m])
    <3>1. PICK m \in Models : r = RecordOf(m, a.models[m])
      BY <2>3
    <3>2. a.models[m] \in ModelState
      BY <1>1
    <3>3. r \in Record /\ r.quota = a.models[m].quota
      BY <3>1, <3>2 DEF RecordOf, Record, ModelState
    <3>4. Climbed(a, t, off) => QuotaRung(r.quota, t, FALSE)
      BY <3>3 DEF Climbed, Rung, QuotaRung
    <3> QED BY <3>3, <3>4
  <2> QED BY <2>1, <2>2, <2>3
<1> QED BY <1>2 DEF Paced

\* An empty file restores nothing.
LEMMA RestoresNothing ==
  ASSUME NEW a, NEW t, NEW off
  PROVE  RestoreOf(a, {}, t, off) = a
BY DEF RestoreOf

\* A restart restores a live credential, as paced as the file.
LEMMA Restored ==
  ASSUME NEW a, Live(a, FALSE), NEW records \in SUBSET Record, NEW t \in Nat, NEW off \in BOOLEAN
  PROVE  LET b == RestoreOf(a, records, t, off) IN
           /\ Live(b, FALSE)
           /\ (Climbed(a, t, off) /\ Paced(records, t) => Climbed(b, t, off))
<1> DEFINE live == {r \in records : r.nextRetry > t}
           quotaOf(r) == IF r.quota.exceeded /\ r.quota.recoverAt = 0
                         THEN [r.quota EXCEPT !.recoverAt = r.nextRetry] ELSE r.quota
           ofModel(m) == {r \in live : r.model = m}
           state(r) == [known |-> TRUE, unavailable |-> TRUE, nextRetry |-> r.nextRetry,
                        lastError |-> r.lastError, quota |-> quotaOf(r)]
           chosen(m) == CHOOSE x \in ofModel(m) : TRUE
           models == [m \in Models |-> IF ofModel(m) = {} THEN a.models[m]
                                       ELSE state(chosen(m))]
           c == [a EXCEPT !.models = models]
           d == updateAggregatedAvailability(c, t)
           aggregated == IF \A m \in Models : ofModel(m) = {} THEN a ELSE d
           b == RestoreOf(a, records, t, off)
<1>1. a \in Auth /\ a.models \in [Models -> ModelState] /\ ~IsDisabled(a)
  BY DEF Live, Auth, IsDisabled
<1>2. \A r \in Record : quotaOf(r) \in Quota
  BY DEF Record, Quota
<1>3. \A m : ofModel(m) # {} => chosen(m) \in records /\ chosen(m).model = m
  OBVIOUS
<1>4. \/ b = a
      \/ ~off /\ b = aggregated
      \/ /\ ~off /\ ofModel(NoModel) # {}
         /\ b = [aggregated EXCEPT !.unavailable = TRUE, !.status = "error",
                                   !.nextRetry = chosen(NoModel).nextRetry,
                                   !.quota = quotaOf(chosen(NoModel)),
                                   !.lastError = chosen(NoModel).lastError]
  BY DEF RestoreOf
<1> HIDE DEF ofModel, chosen, b
<1>5. \A r \in Record : state(r) \in ModelState
  <2>1. \A r \in Record : r.nextRetry \in Nat /\ r.lastError \in ErrorKind
    BY DEF Record
  <2> HIDE DEF quotaOf
  <2> QED BY <1>2, <2>1 DEF ModelState
<1>6. \A r \in Record : QuotaRung(r.quota, t, FALSE) => Rung(state(r), t, FALSE)
  <2> SUFFICES ASSUME NEW r \in Record, QuotaRung(r.quota, t, FALSE)
               PROVE  Rung(state(r), t, FALSE)
    OBVIOUS
  <2>1. r.quota \in Quota
    BY DEF Record
  <2>2. /\ r.quota.level \in Nat /\ r.quota.recoverAt \in Nat /\ Windows(r.quota.level) \in Nat
    BY <2>1, QuotaParts
  <2>3. r.quota.level > 0 => t > Windows(r.quota.level - 1)
                             /\ r.quota.recoverAt > Windows(r.quota.level)
    BY DEF QuotaRung
  <2>4. quotaOf(r).level = r.quota.level
    BY <2>1 DEF Quota
  <2>5. r.quota.level > 0 => quotaOf(r) = r.quota
    BY <2>2, <2>3
  <2> HIDE DEF quotaOf
  <2>6. state(r).known /\ state(r).quota = quotaOf(r)
    OBVIOUS
  <2> HIDE DEF state
  <2> QED BY <2>3, <2>4, <2>5, <2>6 DEF Rung
<1> HIDE DEF quotaOf, state
<1>7. models \in [Models -> ModelState]
  BY <1>1, <1>3, <1>5
<1>8. Live(c, FALSE) /\ c.models = models
  <2> HIDE DEF models
  <2> QED BY <1>1, <1>7 DEF Live, Auth
<1>9. Climbed(a, t, off) /\ Paced(records, t) /\ ~off => Climbed(c, t, off)
  <2> SUFFICES ASSUME Climbed(a, t, off), Paced(records, t), ~off, NEW m \in Models
               PROVE  Rung(models[m], t, FALSE)
    BY <1>8 DEF Climbed, Rung
  <2>1. Rung(a.models[m], t, FALSE)
    BY DEF Climbed, Rung
  <2>2. CASE ofModel(m) = {}
    BY <2>1, <2>2
  <2>3. CASE ofModel(m) # {}
    <3>1. models[m] = state(chosen(m)) /\ chosen(m) \in records /\ chosen(m).model = m
      BY <1>3, <2>3
    <3>2. QuotaRung(chosen(m).quota, t, FALSE) /\ chosen(m) \in Record
      BY <3>1 DEF Paced
    <3> HIDE DEF models
    <3> QED BY <1>6, <3>1, <3>2
  <2> QED BY <2>2, <2>3
<1> HIDE DEF c, models
<1>10. Live(d, FALSE) /\ (Climbed(c, t, off) => Climbed(d, t, off))
  BY <1>8, AggregatedLive
<1> HIDE DEF d
<1>11. Live(aggregated, FALSE)
       /\ (Climbed(a, t, off) /\ Paced(records, t) /\ ~off => Climbed(aggregated, t, off))
  BY <1>9, <1>10
<1> HIDE DEF aggregated
<1>12. CASE b = a \/ (~off /\ b = aggregated)
  BY <1>11, <1>12 DEF b
<1>13. CASE /\ ~off /\ ofModel(NoModel) # {}
            /\ b = [aggregated EXCEPT !.unavailable = TRUE, !.status = "error",
                                      !.nextRetry = chosen(NoModel).nextRetry,
                                      !.quota = quotaOf(chosen(NoModel)),
                                      !.lastError = chosen(NoModel).lastError]
  <2>1. chosen(NoModel) \in Record
    BY <1>3, <1>13
  <2>2. /\ chosen(NoModel).nextRetry \in Nat /\ chosen(NoModel).lastError \in ErrorKind
        /\ quotaOf(chosen(NoModel)) \in Quota
    BY <1>2, <2>1 DEF Record
  <2>3. Live(b, FALSE) /\ b.models = aggregated.models
    BY <1>11, <1>13, <2>2 DEF Live, Auth
  <2> QED BY <1>11, <1>13, <2>3 DEF Climbed, b
<1> QED BY <1>4, <1>12, <1>13

\* A set of records holds at most one for each model.
OneEach(R) == \A r, q \in R : r.model = q.model => r = q

\* What is written has one record for each block.
LEMMA RecordsOneEach ==
  ASSUME NEW a, NEW t, NEW off
  PROVE  OneEach(cooldownStateRecords(a, t, off))
<1> SUFFICES ASSUME NEW r \in cooldownStateRecords(a, t, off),
                    NEW q \in cooldownStateRecords(a, t, off), r.model = q.model
             PROVE  r = q
  BY DEF OneEach
<1>1. \A x \in cooldownStateRecords(a, t, off) :
        \/ x = RecordOf(NoModel, a) /\ x.model = NoModel
        \/ \E m \in Models : x = RecordOf(m, a.models[m]) /\ x.model = m
  BY DEF cooldownStateRecords, RecordOf
<1>2. NoModel \notin Models
  BY CooldownAssumption
<1> QED BY <1>1, <1>2

\* A new process puts every live record in force with its own end, the
\* credential's too, and blocks no model without one.
LEMMA RestoredInForce ==
  ASSUME NEW records \in SUBSET Record, OneEach(records), NEW t \in Nat
  PROVE  LET b == RestoreOf(FreshAuth, records, t, FALSE) IN
           /\ \A r \in records : r.nextRetry > t =>
                Blocked(b, r.model, t) /\ EndOf(b, r.model) = r.nextRetry
           /\ \A m \in Models : Blocked(b, m, t) =>
                \E r \in records : r.model = m /\ r.nextRetry > t
<1> DEFINE live == {r \in records : r.nextRetry > t}
           quotaOf(r) == IF r.quota.exceeded /\ r.quota.recoverAt = 0
                         THEN [r.quota EXCEPT !.recoverAt = r.nextRetry] ELSE r.quota
           ofModel(m) == {r \in live : r.model = m}
           state(r) == [known |-> TRUE, unavailable |-> TRUE, nextRetry |-> r.nextRetry,
                        lastError |-> r.lastError, quota |-> quotaOf(r)]
           chosen(m) == CHOOSE x \in ofModel(m) : TRUE
           models == [m \in Models |-> IF ofModel(m) = {} THEN FreshAuth.models[m]
                                       ELSE state(chosen(m))]
           c == [FreshAuth EXCEPT !.models = models]
           d == updateAggregatedAvailability(c, t)
           aggregated == IF \A m \in Models : ofModel(m) = {} THEN FreshAuth ELSE d
           b == RestoreOf(FreshAuth, records, t, FALSE)
<1>1. Live(b, FALSE) /\ Live(FreshAuth, FALSE)
  BY FreshLive, Restored
<1>2. ~IsDisabled(b) /\ ~IsDisabled(FreshAuth) /\ NoModel \notin Models
  BY <1>1, CooldownAssumption DEF Live, IsDisabled
<1>3. \A r \in live : ofModel(r.model) = {r} /\ chosen(r.model) = r
  <2> SUFFICES ASSUME NEW r \in live PROVE ofModel(r.model) = {r} /\ chosen(r.model) = r
    OBVIOUS
  <2>1. ofModel(r.model) = {r}
    BY DEF OneEach
  <2> QED BY <2>1
<1>4. /\ ofModel(NoModel) = {} => b = aggregated
      /\ ofModel(NoModel) # {} =>
           b = [aggregated EXCEPT !.unavailable = TRUE, !.status = "error",
                                  !.nextRetry = chosen(NoModel).nextRetry,
                                  !.quota = quotaOf(chosen(NoModel)),
                                  !.lastError = chosen(NoModel).lastError]
  BY <1>2 DEF RestoreOf
<1>5. models \in [Models -> ModelState] /\ models = c.models /\ Live(c, FALSE)
  <2>1. \A r \in Record : state(r) \in ModelState
    BY DEF Record, Quota, ModelState
  <2>2. \A m : ofModel(m) # {} => chosen(m) \in Record
    OBVIOUS
  <2>3. FreshAuth \in Auth /\ FreshAuth.models \in [Models -> ModelState]
    BY <1>1 DEF Live, Auth
  <2> HIDE DEF state, ofModel, chosen
  <2>4. models \in [Models -> ModelState]
    BY <2>1, <2>2, <2>3
  <2> HIDE DEF models
  <2> QED BY <1>1, <2>3, <2>4 DEF Live, Auth
<1>6. \A m \in Models : Expire(models[m], t) = models[m]
  <2> SUFFICES ASSUME NEW m \in Models PROVE Expire(models[m], t) = models[m]
    OBVIOUS
  <2>1. CASE ofModel(m) = {}
    <3>1. models[m] = NoState
      BY <2>1 DEF FreshAuth
    <3> HIDE DEF models
    <3> QED BY <3>1 DEF Expire, NoState
  <2>2. CASE ofModel(m) # {}
    <3>1. models[m] = state(chosen(m)) /\ chosen(m) \in live
      BY <2>2
    <3>2. chosen(m).nextRetry \in Nat /\ chosen(m).nextRetry > t
      BY <3>1 DEF Record
    <3>3. ~(models[m].nextRetry <= t)
      BY <3>1, <3>2
    <3> HIDE DEF models
    <3> QED BY <3>3 DEF Expire
  <2> QED BY <2>1, <2>2
<1>7. aggregated \in Auth /\ aggregated.models = models
  <2>1. CASE \A m \in Models : ofModel(m) = {}
    <3>1. aggregated = FreshAuth /\ models = [m \in Models |-> FreshAuth.models[m]]
      BY <2>1
    <3>2. FreshAuth.models = [m \in Models |-> FreshAuth.models[m]]
      BY DEF FreshAuth
    <3>3. FreshAuth \in Auth
      BY <1>1 DEF Live
    <3> HIDE DEF aggregated, models
    <3> QED BY <3>1, <3>2, <3>3
  <2>2. CASE ~\A m \in Models : ofModel(m) = {}
    <3>1. /\ Live(d, FALSE) /\ d.models = [m \in Models |-> Expire(c.models[m], t)]
          /\ (Climbed(c, t, FALSE) => Climbed(d, t, FALSE))
      <4> HIDE DEF c, models
      <4> QED BY <1>5, AggregatedLive
    <3>2. [m \in Models |-> Expire(models[m], t)] = models
      <4> HIDE DEF models
      <4> QED BY <1>5, <1>6
    <3>3. aggregated = d
      BY <2>2
    <3> HIDE DEF aggregated, c, d, models
    <3> QED BY <1>5, <3>1, <3>2, <3>3 DEF Live
  <2> QED BY <2>1, <2>2
<1> HIDE DEF aggregated, c, d
<1>9. b.models = models
  BY <1>4, <1>7 DEF Auth
<1> HIDE DEF b, models
<1>10. \A m \in Models : Blocked(b, m, t) <=> Cooling(models[m], t)
  BY <1>2, <1>9 DEF Blocked, isAuthBlockedForModel, CooldownBlock, NotBlocked
<1>11. Blocked(b, NoModel, t) <=> b.unavailable /\ b.nextRetry > t
  BY <1>2 DEF Blocked, isAuthBlockedForModel, CooldownBlock, NotBlocked
<1>12. ASSUME NEW r \in records, r.nextRetry > t
       PROVE  Blocked(b, r.model, t) /\ EndOf(b, r.model) = r.nextRetry
  <2>1. r \in live /\ ofModel(r.model) # {} /\ chosen(r.model) = r
    BY <1>3, <1>12
  <2>2. CASE r.model \in Models
    <3>1. models[r.model] = state(r)
      BY <2>1, <2>2 DEF models
    <3>2. Cooling(models[r.model], t) /\ models[r.model].nextRetry = r.nextRetry
      BY <1>12, <3>1 DEF Cooling
    <3> QED BY <1>2, <1>9, <1>10, <2>2, <3>2 DEF EndOf
  <2>3. CASE r.model = NoModel
    <3>1. b = [aggregated EXCEPT !.unavailable = TRUE, !.status = "error",
                                 !.nextRetry = r.nextRetry, !.quota = quotaOf(r),
                                 !.lastError = r.lastError]
      BY <1>4, <2>1, <2>3
    <3>2. b.unavailable /\ b.nextRetry = r.nextRetry
      BY <1>7, <3>1 DEF Auth
    <3> QED BY <1>11, <1>12, <2>3, <3>2 DEF EndOf
  <2> QED BY <2>2, <2>3 DEF Record
<1>13. ASSUME NEW m \in Models, Blocked(b, m, t)
       PROVE  \E r \in records : r.model = m /\ r.nextRetry > t
  <2>1. Cooling(models[m], t)
    BY <1>10, <1>13
  <2>2. ofModel(m) # {}
    BY <2>1 DEF models, FreshAuth, NoState, Cooling
  <2> QED BY <2>2
<1> QED BY <1>12, <1>13 DEF b

-----------------------------------------------------------------------------
(***************************************************************************)
(* The inductive invariant.                                                *)
(***************************************************************************)
\* Types, and a credential nobody disables.
Kinds == TypeOK /\ Live(auth, FALSE)

\* Without a store nothing is loaded or committed; a config update has the
\* persists to itself.
Phases ==
  /\ ~env.saves => phase \in {"running", "starting", "updated"}
  /\ ConfigCommits => ~saving

\* The aggregate is sound, but not complete until the models are reconciled.
Aggregates ==
  NoModel \notin env.models /\ ~env.saves =>
    AllDown(auth) /\ (phase # "updated" => SomeUp(auth, now))

\* What is cooling is stored, about to be, or somebody knows that it is not.
Held ==
  env.saves /\ ~due =>
    /\ saving \/ phase = "saving" => Records(auth) \subseteq snapshot
    /\ ~saving /\ ~ConfigCommits /\ ~saveFailed => Records(auth) \subseteq store

\* A process that starts leaves credential and store alone until it has
\* restored what it loaded.
Boots ==
  booting =>
    /\ phase \in {"loading", "restoring", "starting", "updated"}
    /\ phase \in {"loading", "restoring"} => ~due /\ ~saving /\ auth = FreshAuth
    /\ phase = "restoring" => loaded = store

\* No two records of a model are written.
Single == OneEach(store) /\ OneEach(snapshot)

\* The upstream neither challenges nor asks for less than the longest window.
Gentle ==
  "cloudflare" \notin env.classes /\ \A ra \in env.retryAfters : ra = NoRetryAfter \/ ra >= QuotaMax

\* The ladder, in memory and in every copy of the records.
Pace ==
  Gentle => /\ Climbed(auth, now, noCooling)
            /\ Paced(store, now) /\ Paced(snapshot, now) /\ Paced(loaded, now)

IInv == Kinds /\ Phases /\ Aggregates /\ Held /\ Boots /\ Single /\ Pace

\* The choices of the environment, and time.
LEMMA EnvTyped ==
  ASSUME TypeOK
  PROVE  /\ env.models \subseteq Models \cup {NoModel}
         /\ env.retryAfters \subseteq RetryAfters
         /\ env.saves \in BOOLEAN
         /\ now \in Nat /\ now # 0
BY AuthCooldownAssumption DEF TypeOK

\* The invariant holds at the start.
LEMMA InitInv == Init => IInv
<1> SUFFICES ASSUME Init PROVE IInv
  OBVIOUS
<1>1. Live(FreshAuth, FALSE) /\ AllDown(FreshAuth) /\ Known(FreshAuth) = {}
  BY FreshLive
<1>2. TypeOK
  <2>1. 1 \in 1 .. MaxNow
    BY AuthCooldownAssumption
  <2> QED BY <1>1, <2>1 DEF Init, TypeOK, Live, Phase
<1>3. \A m \in Models : FreshAuth.models[m] = NoState
  BY DEF FreshAuth
<1>4. \A m \in Models : Rung(FreshAuth.models[m], 1, FALSE) /\ ~Cooling(FreshAuth.models[m], 1)
  BY <1>3, RestingStates
<1>5. Records(FreshAuth) = {}
  BY <1>4 DEF Records, cooldownStateRecords, Init, FreshAuth
<1> QED BY <1>1, <1>2, <1>4, <1>5 DEF Init, IInv, Kinds, Phases, Aggregates, Held, Pace,
           SomeUp, Climbed, Paced, ConfigCommits, Boots, Single, OneEach

\* What a result does to the record.
ResultOf(new) ==
  \E m \in env.models :
    \/ new = IF m = NoModel THEN clearAuthStateOnSuccess(auth) ELSE MarkSuccess(auth, m, now)
    \/ \E class \in env.classes, ra \in env.retryAfters :
         new = IF m = NoModel THEN applyAuthFailureState(auth, class, ra, now, noCooling)
               ELSE MarkFailure(auth, m, class, ra, now, noCooling)

\* The record after a result or a reset.
LEMMA Changed ==
  ASSUME Kinds, NEW new, ResultOf(new) \/ new = ResetQuotaOf(auth, now)
  PROVE  /\ Live(new, FALSE)
         /\ (NoModel \notin env.models /\ AllDown(auth) => AllDown(new))
         /\ (NoModel \notin env.models /\ Sound(auth, now) => Sound(new, now))
         /\ (Gentle /\ Climbed(auth, now, noCooling) => Climbed(new, now, noCooling))
<1>1. /\ Live(auth, FALSE) /\ noCooling \in BOOLEAN /\ now \in Nat /\ now # 0
      /\ env.models \subseteq Models \cup {NoModel} /\ env.retryAfters \subseteq RetryAfters
  BY EnvTyped DEF Kinds, TypeOK
<1>2. CASE new = ResetQuotaOf(auth, now)
  BY <1>1, <1>2, QuotaReset DEF Sound
<1>3. CASE ResultOf(new)
  <2>1. PICK m \in env.models :
          \/ new = IF m = NoModel THEN clearAuthStateOnSuccess(auth) ELSE MarkSuccess(auth, m, now)
          \/ \E class \in env.classes, ra \in env.retryAfters :
               new = IF m = NoModel THEN applyAuthFailureState(auth, class, ra, now, noCooling)
                     ELSE MarkFailure(auth, m, class, ra, now, noCooling)
    BY <1>3 DEF ResultOf
  <2>2. CASE m = NoModel
    <3>1. Live(new, FALSE) /\ new.models = auth.models
      <4>1. LET b == clearAuthStateOnSuccess(auth) IN
              Live(b, FALSE) /\ b.models = auth.models
        BY <1>1, AuthSuccess
      <4>2. ASSUME NEW class, NEW ra \in RetryAfters
            PROVE  LET b == applyAuthFailureState(auth, class, ra, now, noCooling) IN
                     Live(b, FALSE) /\ b.models = auth.models
        BY <1>1, AuthFailure
      <4>3. CASE new = clearAuthStateOnSuccess(auth)
        BY <4>1, <4>3
      <4>4. CASE \E class \in env.classes, ra \in env.retryAfters :
                   new = applyAuthFailureState(auth, class, ra, now, noCooling)
        <5>1. PICK class \in env.classes, ra \in env.retryAfters :
                new = applyAuthFailureState(auth, class, ra, now, noCooling)
          BY <4>4
        <5>2. ra \in RetryAfters
          BY <1>1
        <5> QED BY <4>2, <5>1, <5>2
      <4> QED BY <2>1, <2>2, <4>3, <4>4
    <3> QED BY <2>2, <3>1 DEF Climbed
  <2>3. CASE m # NoModel /\ new = MarkSuccess(auth, m, now)
    BY <1>1, <2>3, SuccessMarked DEF Sound
  <2>4. CASE m # NoModel /\ new # MarkSuccess(auth, m, now)
    <3>1. m \in Models
      BY <1>1, <2>4
    <3>2. PICK class \in env.classes, ra \in env.retryAfters :
            new = MarkFailure(auth, m, class, ra, now, noCooling)
      BY <2>1, <2>4
    <3>3. ra \in RetryAfters /\ (Gentle => class # "cloudflare" /\ (ra = NoRetryAfter \/ ra >= QuotaMax))
      BY <1>1 DEF Gentle
    <3> QED BY <1>1, <3>1, <3>2, <3>3, FailureMarked
  <2> QED BY <2>1, <2>2, <2>3, <2>4
<1> QED BY <1>2, <1>3

\* Every result and every reset is such a change.
LEMMA Results ==
  ASSUME Next
  PROVE  \/ \E new : Serving /\ (ResultOf(new) \/ new = ResetQuotaOf(auth, now)) /\ Apply(new)
         \/ Tick
         \/ PersistSnapshot
         \/ PersistSave
         \/ \E disable \in BOOLEAN : ConfigApply(disable)
         \/ ConfigSnapshot
         \/ ConfigSave
         \/ RestoreLoad
         \/ RestoreApply
         \/ Crash
         \/ WatcherUpdate
         \/ \E supported \in SUBSET Models : Reconcile(supported)
<1>1. ASSUME NEW m \in env.models, ResultSuccess(m)
      PROVE  \E new : Serving /\ ResultOf(new) /\ Apply(new)
  BY <1>1 DEF ResultSuccess, ResultOf
<1>2. ASSUME NEW m \in env.models, NEW class \in env.classes, NEW ra \in env.retryAfters,
             ResultFailure(m, class, ra)
      PROVE  \E new : Serving /\ ResultOf(new) /\ Apply(new)
  BY <1>2 DEF ResultFailure, ResultOf
<1> QED BY <1>1, <1>2 DEF Next, Step, ResetQuota

\* Every step keeps the types.
LEMMA KindsStep ==
  ASSUME Kinds, Next
  PROVE  Kinds'
<1>1. env' = env
  BY DEF Next
<1>2. TypeOK /\ Live(auth, FALSE) /\ noCooling \in BOOLEAN /\ now \in Nat /\ env.saves \in BOOLEAN
  BY EnvTyped DEF Kinds, TypeOK
<1>3. Records(auth) \subseteq Record
  BY <1>2, RecordsTyped DEF Records, Live
<1>4. Live(auth', FALSE)
  <2>1. ASSUME NEW new, ResultOf(new) \/ new = ResetQuotaOf(auth, now), Apply(new)
        PROVE  Live(auth', FALSE)
    BY <2>1, Changed DEF Apply
  <2>2. CASE Tick \/ PersistSnapshot \/ PersistSave \/ ConfigSnapshot \/ ConfigSave \/ RestoreLoad
    BY <1>2, <2>2 DEF Tick, PersistSnapshot, PersistSave, ConfigSnapshot, ConfigSave, RestoreLoad
  <2>3. ASSUME NEW disable \in BOOLEAN, ConfigApply(disable) PROVE Live(auth', FALSE)
    BY <1>2, <2>3, Cleared DEF ConfigApply
  <2>4. CASE RestoreApply
    <3>1. loaded \in SUBSET Record
      BY <1>2 DEF TypeOK
    <3> QED BY <1>2, <2>4, <3>1, Restored DEF RestoreApply
  <2>5. CASE Crash
    BY <2>5, FreshLive DEF Crash
  <2>6. CASE WatcherUpdate
    BY <1>2, <2>6, Carried DEF WatcherUpdate
  <2>7. ASSUME NEW supported \in SUBSET Models, Reconcile(supported) PROVE Live(auth', FALSE)
    BY <1>2, <2>7, Reconciled DEF Reconcile
  <2> QED BY <2>1, <2>2, <2>3, <2>4, <2>5, <2>6, <2>7, Results
<1>5. auth' \in Auth
  BY <1>4 DEF Live
<1>6. TypeOK'
  <2>1. ASSUME NEW new, Apply(new) PROVE TypeOK'
    BY <1>1, <1>2, <1>5, <2>1 DEF Apply, TypeOK
  <2>2. CASE Tick
    <3>1. now' \in 1 .. MaxNow
      BY <1>2, <2>2, AuthCooldownAssumption DEF TypeOK, Tick
    <3> QED BY <1>1, <1>2, <1>5, <2>2, <3>1 DEF Tick, TypeOK, persistVars
  <2>3. CASE PersistSnapshot
    BY <1>1, <1>2, <1>3, <1>5, <2>3 DEF PersistSnapshot, TypeOK
  <2>4. CASE PersistSave
    BY <1>1, <1>2, <1>5, <2>4 DEF PersistSave, TypeOK
  <2>5. ASSUME NEW disable \in BOOLEAN, ConfigApply(disable) PROVE TypeOK'
    BY <1>1, <1>2, <1>5, <2>5 DEF ConfigApply, TypeOK, persistVars, Phase
  <2>6. CASE ConfigSnapshot
    BY <1>1, <1>2, <1>3, <1>5, <2>6 DEF ConfigSnapshot, TypeOK, Phase
  <2>7. CASE ConfigSave
    BY <1>1, <1>2, <1>5, <2>7 DEF ConfigSave, TypeOK, Phase
  <2>8. CASE RestoreLoad
    BY <1>1, <1>2, <1>5, <2>8 DEF RestoreLoad, AfterRestore, TypeOK, Phase, persistVars
  <2>9. CASE RestoreApply
    BY <1>1, <1>2, <1>5, <2>9 DEF RestoreApply, AfterRestore, TypeOK, Phase
  <2>10. CASE Crash
    BY <1>1, <1>2, <1>5, <2>10 DEF Crash, TypeOK, Phase
  <2>11. CASE WatcherUpdate
    BY <1>1, <1>2, <1>5, <2>11 DEF WatcherUpdate, TypeOK, Phase, persistVars
  <2>12. ASSUME NEW supported \in SUBSET Models, Reconcile(supported) PROVE TypeOK'
    BY <1>1, <1>2, <1>5, <2>12 DEF Reconcile, TypeOK, Phase, persistVars
  <2> QED BY <2>1, <2>2, <2>3, <2>4, <2>5, <2>6, <2>7, <2>8, <2>9, <2>10, <2>11, <2>12, Results
<1> QED BY <1>4, <1>6 DEF Kinds, Live

\* Every step keeps what the phase of the service says of the credential.
LEMMA PhasesStep ==
  ASSUME Kinds, Phases, Next
  PROVE  Phases'
<1>1. env' = env
  BY DEF Next
<1>2. ASSUME NEW new, Apply(new) PROVE Phases'
  BY <1>1, <1>2 DEF Apply, Phases, ConfigCommits
<1>3. CASE Tick \/ PersistSnapshot \/ PersistSave
  BY <1>1, <1>3 DEF Tick, PersistSnapshot, PersistSave, Phases, ConfigCommits, persistVars
<1>4. ASSUME NEW disable \in BOOLEAN, ConfigApply(disable) PROVE Phases'
  BY <1>1, <1>4 DEF ConfigApply, Phases, ConfigCommits, persistVars
<1>5. CASE ConfigSnapshot \/ ConfigSave \/ RestoreLoad \/ RestoreApply
  BY <1>1, <1>5 DEF ConfigSnapshot, ConfigSave, RestoreLoad, RestoreApply, AfterRestore, Phases,
     ConfigCommits, persistVars
<1>6. CASE Crash \/ WatcherUpdate
  BY <1>1, <1>6 DEF Crash, WatcherUpdate, Phases, ConfigCommits, persistVars
<1>7. ASSUME NEW supported \in SUBSET Models, Reconcile(supported) PROVE Phases'
  BY <1>1, <1>7 DEF Reconcile, Phases, ConfigCommits, persistVars
<1> QED BY <1>2, <1>3, <1>4, <1>5, <1>6, <1>7, Results

\* Every step of a starting process keeps credential and store for the restore.
LEMMA BootsStep ==
  ASSUME Boots, Next
  PROVE  Boots'
<1>1. ASSUME NEW new, Serving, Apply(new) PROVE Boots'
  BY <1>1 DEF Apply, Boots, Serving
<1>2. CASE Tick \/ PersistSnapshot \/ PersistSave
  BY <1>2 DEF Tick, PersistSnapshot, PersistSave, Boots, persistVars
<1>3. ASSUME NEW disable \in BOOLEAN, ConfigApply(disable) PROVE Boots'
  BY <1>3 DEF ConfigApply, Boots
<1>4. CASE ConfigSnapshot \/ ConfigSave
  BY <1>4 DEF ConfigSnapshot, ConfigSave, Boots
<1>5. CASE RestoreLoad \/ RestoreApply
  BY <1>5 DEF RestoreLoad, RestoreApply, AfterRestore, Boots, persistVars
<1>6. CASE Crash \/ WatcherUpdate
  BY <1>6 DEF Crash, WatcherUpdate, Boots
<1>7. ASSUME NEW supported \in SUBSET Models, Reconcile(supported) PROVE Boots'
  BY <1>7 DEF Reconcile, Boots
<1> QED BY <1>1, <1>2, <1>3, <1>4, <1>5, <1>6, <1>7, Results

\* Every step writes single records.
LEMMA SingleStep ==
  ASSUME Single, Next
  PROVE  Single'
<1>1. OneEach(Records(auth)) /\ OneEach({})
  BY RecordsOneEach DEF Records, OneEach
<1>2. ASSUME store' \in {store, snapshot}, snapshot' \in {snapshot, {}, Records(auth)}
      PROVE  Single'
  BY <1>1, <1>2 DEF Single
<1>3. ASSUME NEW new, Apply(new) PROVE Single'
  BY <1>2, <1>3 DEF Apply
<1>4. CASE Tick \/ PersistSnapshot \/ PersistSave
  BY <1>2, <1>4 DEF Tick, PersistSnapshot, PersistSave, persistVars
<1>5. ASSUME NEW disable \in BOOLEAN, ConfigApply(disable) PROVE Single'
  BY <1>2, <1>5 DEF ConfigApply, persistVars
<1>6. CASE ConfigSnapshot \/ ConfigSave \/ RestoreLoad \/ RestoreApply
  BY <1>2, <1>6 DEF ConfigSnapshot, ConfigSave, RestoreLoad, RestoreApply, persistVars
<1>7. CASE Crash \/ WatcherUpdate
  BY <1>2, <1>7 DEF Crash, WatcherUpdate, persistVars
<1>8. ASSUME NEW supported \in SUBSET Models, Reconcile(supported) PROVE Single'
  BY <1>2, <1>8 DEF Reconcile, persistVars
<1> QED BY <1>3, <1>4, <1>5, <1>6, <1>7, <1>8, Results

\* Every step keeps the summary true.
LEMMA AggregatesStep ==
  ASSUME Kinds, Phases, Aggregates, Next
  PROVE  Aggregates'
<1>1. env' = env
  BY DEF Next
<1>2. Live(auth, FALSE) /\ noCooling \in BOOLEAN /\ now \in Nat
  BY EnvTyped DEF Kinds, TypeOK
<1> SUFFICES ASSUME NoModel \notin env.models, ~env.saves
             PROVE  AllDown(auth)' /\ (phase' # "updated" => SomeUp(auth, now)')
  BY <1>1 DEF Aggregates
<1>3. AllDown(auth) /\ (phase # "updated" => SomeUp(auth, now))
  BY DEF Aggregates
<1>4. phase \in {"running", "starting", "updated"}
  BY DEF Phases
<1>5. ASSUME NEW new, ResultOf(new) \/ new = ResetQuotaOf(auth, now), Apply(new)
      PROVE  AllDown(auth)' /\ (phase' # "updated" => SomeUp(auth, now)')
  <2>1. auth' = new /\ now' = now /\ phase' = phase
    BY <1>5 DEF Apply
  <2>2. AllDown(new) /\ (phase # "updated" => SomeUp(new, now))
    BY <1>3, <1>5, Changed DEF Sound
  <2> QED BY <2>1, <2>2
<1>6. CASE Tick
  <2>1. auth' = auth /\ now' = now + 1 /\ phase' = phase
    BY <1>6 DEF Tick
  <2>2. \A m \in Models : Cooling(auth.models[m], now + 1) => Cooling(auth.models[m], now)
    <3>1. \A m \in Models : auth.models[m] \in ModelState
      BY <1>2 DEF Live, Auth
    <3>2. \A s \in ModelState : Cooling(s, now + 1) => Cooling(s, now)
      BY <1>2 DEF Cooling, ModelState
    <3> QED BY <3>1, <3>2
  <2>3. SomeUp(auth, now) => SomeUp(auth, now + 1)
    BY <2>2 DEF SomeUp, Known
  <2> QED BY <1>3, <2>1, <2>3
<1>7. CASE PersistSnapshot \/ PersistSave
  BY <1>3, <1>7 DEF PersistSnapshot, PersistSave
<1>8. ASSUME NEW disable \in BOOLEAN, ConfigApply(disable)
      PROVE  AllDown(auth)' /\ (phase' # "updated" => SomeUp(auth, now)')
  <2>1. now' = now /\ phase = "running" /\ phase' = phase
    BY <1>8 DEF ConfigApply
  <2>2. auth' = IF disable THEN clearCooldownStateForAuth(auth, now) ELSE auth
    BY <1>8 DEF ConfigApply
  <2>3. Sound(auth', now)
    BY <1>2, <1>3, <2>1, <2>2, Cleared DEF Sound
  <2> QED BY <2>1, <2>3 DEF Sound
<1>9. CASE ConfigSnapshot \/ ConfigSave \/ RestoreLoad \/ RestoreApply
  BY <1>4, <1>9 DEF ConfigSnapshot, ConfigSave, RestoreLoad, RestoreApply
<1>10. CASE Crash
  BY <1>10, FreshLive DEF Crash, SomeUp
<1>11. CASE WatcherUpdate
  <2>1. auth' = CarryOver(FreshAuth, auth, now, noCooling) /\ phase' = "updated"
    BY <1>11 DEF WatcherUpdate
  <2>2. AllDown(CarryOver(FreshAuth, auth, now, noCooling))
    BY <1>2, Carried
  <2> QED BY <2>1, <2>2
<1>12. ASSUME NEW supported \in SUBSET Models, Reconcile(supported)
       PROVE  AllDown(auth)' /\ (phase' # "updated" => SomeUp(auth, now)')
  <2>1. auth' = ReconcileOf(auth, supported, now) /\ now' = now
    BY <1>12 DEF Reconcile
  <2>2. Sound(ReconcileOf(auth, supported, now), now)
    BY <1>2, <1>3, Reconciled
  <2> QED BY <2>1, <2>2 DEF Sound
<1> QED BY <1>5, <1>6, <1>7, <1>8, <1>9, <1>10, <1>11, <1>12, Results

\* Without a change of the record or of cooling only time can end a block.
LEMMA RecordsShrink ==
  ASSUME NEW a, Live(a, FALSE), NEW b, Live(b, FALSE), NEW t \in Nat, NEW off \in BOOLEAN
  PROVE  /\ cooldownStateRecords(a, t + 1, off) \subseteq cooldownStateRecords(a, t, off)
         /\ (~off => b.models = a.models /\ ~b.unavailable) =>
              cooldownStateRecords(b, t, off) \subseteq cooldownStateRecords(a, t, off)
         /\ ~b.unavailable /\ (\A m \in Models : ~Cooling(b.models[m], t)) =>
              cooldownStateRecords(b, t, off) = {}
<1>1. a.nextRetry \in Nat /\ \A m \in Models : a.models[m].nextRetry \in Nat
  BY DEF Live, Auth, ModelState
<1>2. ~IsDisabled(a) /\ ~IsDisabled(b)
  BY DEF Live, IsDisabled
<1>3. cooldownStateRecords(a, t + 1, off) \subseteq cooldownStateRecords(a, t, off)
  BY <1>1 DEF cooldownStateRecords, Cooling
<1>4. (~off => b.models = a.models /\ ~b.unavailable) =>
        cooldownStateRecords(b, t, off) \subseteq cooldownStateRecords(a, t, off)
  BY <1>2 DEF cooldownStateRecords
<1>5. ~b.unavailable /\ (\A m \in Models : ~Cooling(b.models[m], t)) =>
        cooldownStateRecords(b, t, off) = {}
  BY DEF cooldownStateRecords
<1> QED BY <1>3, <1>4, <1>5

\* Every step keeps what memory, store and snapshot owe to each other.
LEMMA HeldStep ==
  ASSUME Kinds, Phases, Held, Next
  PROVE  Held'
<1>1. env' = env
  BY DEF Next
<1>2. Live(auth, FALSE) /\ noCooling \in BOOLEAN /\ now \in Nat /\ (ConfigCommits => ~saving)
  BY EnvTyped DEF Kinds, TypeOK, Phases
<1> DEFINE R == cooldownStateRecords(auth, now, noCooling)
<1>3. Records(auth) = R /\ Records(auth)' = R'
  BY DEF Records
<1> SUFFICES ASSUME env.saves, ~due'
             PROVE  /\ saving' \/ phase' = "saving" => R' \subseteq snapshot'
                    /\ ~saving' /\ ~ConfigCommits' /\ ~saveFailed' => R' \subseteq store'
  BY <1>1, <1>3 DEF Held
<1>4. ~due => /\ saving \/ phase = "saving" => R \subseteq snapshot
              /\ ~saving /\ ~ConfigCommits /\ ~saveFailed => R \subseteq store
  BY <1>3 DEF Held
<1> HIDE DEF R
<1> DEFINE Goal == /\ saving' \/ phase' = "saving" => R' \subseteq snapshot'
                   /\ ~saving' /\ ~ConfigCommits' /\ ~saveFailed' => R' \subseteq store'
<1>5. ASSUME NEW new, Apply(new) PROVE Goal
  <2>1. ~due /\ R' = R
    BY <1>5 DEF Apply, Records, R
  <2>2. UNCHANGED <<phase, store, saving, snapshot, saveFailed>>
    BY <1>5 DEF Apply
  <2> QED BY <1>4, <2>1, <2>2 DEF ConfigCommits
<1>6. ASSUME R' \subseteq R, UNCHANGED <<due, store, saving, snapshot, saveFailed>>,
             phase' = "saving" <=> phase = "saving", ConfigCommits' <=> ConfigCommits
      PROVE  Goal
  BY <1>4, <1>6
<1>7. CASE Tick
  <2>1. R' \subseteq R
    BY <1>2, <1>7, RecordsShrink DEF Tick, R
  <2> QED BY <1>6, <1>7, <2>1 DEF Tick, persistVars, ConfigCommits
<1>8. CASE PersistSnapshot
  <2>1. R' = R /\ snapshot' = R /\ saving'
    BY <1>8 DEF PersistSnapshot, R, Records
  <2> QED BY <2>1
<1>9. CASE PersistSave
  <2>1. R' = R /\ ~due /\ saving /\ ~saving' /\ phase' = phase
    BY <1>9 DEF PersistSave, R
  <2>2. store' = snapshot \/ saveFailed'
    BY <1>9 DEF PersistSave
  <2>3. ~ConfigCommits
    BY <1>2, <2>1
  <2> QED BY <1>4, <2>1, <2>2, <2>3 DEF ConfigCommits
<1>10. ASSUME NEW disable \in BOOLEAN, ConfigApply(disable) PROVE Goal
  BY <1>10 DEF ConfigApply, ConfigCommits, persistVars
<1>11. CASE ConfigSnapshot
  <2>1. R' = R /\ snapshot' = R /\ phase' = "saving"
    BY <1>11 DEF ConfigSnapshot, R, Records
  <2> QED BY <2>1 DEF ConfigCommits
<1>12. CASE ConfigSave
  <2>1. R' = R /\ ~due /\ phase = "saving" /\ phase' \in {"loading", "running"} /\ saving' = saving
    BY <1>12 DEF ConfigSave, R
  <2>2. store' = snapshot \/ saveFailed'
    BY <1>12 DEF ConfigSave
  <2>3. ~saving
    BY <1>2, <2>1 DEF ConfigCommits
  <2> QED BY <1>4, <2>1, <2>2, <2>3
<1>13. CASE RestoreLoad
  <2>1. R' = R
    BY <1>13 DEF RestoreLoad, R
  <2> QED BY <1>6, <1>13, <2>1 DEF RestoreLoad, AfterRestore, persistVars, ConfigCommits
<1>14. CASE RestoreApply
  <2>1. loaded = {} /\ ~due
    BY <1>14 DEF RestoreApply
  <2>2. auth' = auth
    BY <1>14, <2>1, RestoresNothing DEF RestoreApply
  <2>3. R' = R
    BY <1>14, <2>2 DEF RestoreApply, R
  <2>4. UNCHANGED <<due, store, saving, snapshot, saveFailed>>
    BY <1>14, <2>1 DEF RestoreApply, Kinds, TypeOK
  <2>5. phase = "restoring" /\ phase' \in {"starting", "running"}
    BY <1>14 DEF RestoreApply, AfterRestore
  <2> QED BY <1>6, <2>3, <2>4, <2>5 DEF ConfigCommits
<1>15. CASE Crash
  <2>1. \A m \in Models : FreshAuth.models[m] = NoState
    BY DEF FreshAuth
  <2>2. \A m \in Models : ~Cooling(FreshAuth.models[m], now)
    BY <1>2, <2>1, RestingStates
  <2>3. cooldownStateRecords(FreshAuth, now, noCooling) = {}
    BY <2>2 DEF cooldownStateRecords, FreshAuth
  <2>4. R' = {}
    BY <1>15, <2>3 DEF Crash, R
  <2> QED BY <2>4
<1>16. CASE WatcherUpdate
  <2> DEFINE b == CarryOver(FreshAuth, auth, now, noCooling)
  <2>1. auth' = b /\ now' = now /\ noCooling' = noCooling
    BY <1>16 DEF WatcherUpdate
  <2>2. Live(b, FALSE) /\ (~noCooling => b.models = auth.models /\ ~b.unavailable)
    BY <1>2, Carried
  <2> HIDE DEF b
  <2>3. R' \subseteq R
    BY <1>2, <2>1, <2>2, RecordsShrink DEF R
  <2> QED BY <1>6, <1>16, <2>3 DEF WatcherUpdate, persistVars, ConfigCommits
<1>17. ASSUME NEW supported \in SUBSET Models, Reconcile(supported) PROVE Goal
  <2> DEFINE b == ReconcileOf(auth, supported, now)
  <2>1. auth' = b /\ now' = now /\ noCooling' = noCooling
    BY <1>17 DEF Reconcile
  <2>2. /\ Live(b, FALSE)
        /\ b = auth \/ (~b.unavailable /\ \A m \in Models : ~Cooling(b.models[m], now))
    BY <1>2, Reconciled
  <2> HIDE DEF b
  <2>3. R' \subseteq R
    BY <1>2, <2>1, <2>2, RecordsShrink DEF R
  <2> QED BY <1>6, <1>17, <2>3 DEF Reconcile, persistVars, ConfigCommits
<1> QED BY <1>5, <1>7, <1>8, <1>9, <1>10, <1>11, <1>12, <1>13, <1>14, <1>15, <1>16, <1>17, Results

\* Time keeps the pace of the ladder.
LEMMA PaceTicks ==
  ASSUME NEW q \in Quota, NEW t \in Nat, NEW off \in BOOLEAN, QuotaRung(q, t, off)
  PROVE  QuotaRung(q, t + 1, off)
<1> SUFFICES ASSUME q.level > 0 PROVE t + 1 > Windows(q.level - 1)
  BY DEF QuotaRung
<1>1. t > Windows(q.level - 1) /\ q.level - 1 \in Nat
  BY QuotaParts DEF QuotaRung
<1>2. Windows(q.level - 1) \in Nat
  BY <1>1, WindowsAdd
<1> QED BY <1>1, <1>2

\* Every step keeps the pace.
LEMMA PaceStep ==
  ASSUME Kinds, Pace, Next
  PROVE  Pace'
<1>1. env' = env
  BY DEF Next
<1>2. /\ Live(auth, FALSE) /\ noCooling \in BOOLEAN /\ now \in Nat
      /\ store \subseteq Record /\ snapshot \subseteq Record /\ loaded \subseteq Record
  BY EnvTyped DEF Kinds, TypeOK
<1>3. SUFFICES ASSUME Gentle
               PROVE  /\ Climbed(auth, now, noCooling)'
                      /\ Paced(store, now)' /\ Paced(snapshot, now)' /\ Paced(loaded, now)'
  BY <1>1 DEF Pace, Gentle
<1>4. /\ Climbed(auth, now, noCooling)
      /\ Paced(store, now) /\ Paced(snapshot, now) /\ Paced(loaded, now)
  BY <1>3 DEF Pace
<1>5. Paced(Records(auth), now) /\ Paced({}, now)
  <2>1. Paced(Records(auth), now)
    BY <1>2, <1>4, RecordsTyped DEF Records, Live
  <2> QED BY <2>1 DEF Paced
<1> DEFINE Goal == /\ Climbed(auth, now, noCooling)'
                   /\ Paced(store, now)' /\ Paced(snapshot, now)' /\ Paced(loaded, now)'
<1>6. ASSUME now' = now, Climbed(auth', now, noCooling'),
             store' \in {store, snapshot}, snapshot' \in {snapshot, {}, Records(auth)},
             loaded' \in {loaded, {}, store}
      PROVE  Goal
  BY <1>4, <1>5, <1>6
<1>7. ASSUME NEW new, ResultOf(new) \/ new = ResetQuotaOf(auth, now), Apply(new) PROVE Goal
  <2>1. Climbed(new, now, noCooling)
    BY <1>3, <1>4, <1>7, Changed
  <2> QED BY <1>6, <1>7, <2>1 DEF Apply
<1>8. CASE Tick
  <2>1. UNCHANGED <<auth, noCooling, store, snapshot, loaded>> /\ now' = now + 1
    BY <1>8 DEF Tick, persistVars
  <2>2. Climbed(auth, now + 1, noCooling)
    <3> SUFFICES ASSUME NEW m \in Models PROVE Rung(auth.models[m], now + 1, noCooling)
      BY DEF Climbed
    <3>1. Rung(auth.models[m], now, noCooling) /\ auth.models[m].quota \in Quota
      BY <1>2, <1>4 DEF Climbed, Live, Auth, ModelState
    <3>2. QuotaRung(auth.models[m].quota, now, noCooling)
      BY <3>1 DEF Rung, QuotaRung
    <3>3. QuotaRung(auth.models[m].quota, now + 1, noCooling)
      BY <1>2, <3>1, <3>2, PaceTicks
    <3> QED BY <3>1, <3>3 DEF Rung, QuotaRung
  <2>3. ASSUME NEW S, S \subseteq Record, Paced(S, now) PROVE Paced(S, now + 1)
    <3> SUFFICES ASSUME NEW r \in S, r.model \in Models PROVE QuotaRung(r.quota, now + 1, FALSE)
      BY DEF Paced
    <3>1. r.quota \in Quota /\ QuotaRung(r.quota, now, FALSE)
      BY <2>3 DEF Paced, Record
    <3> QED BY <1>2, <3>1, PaceTicks
  <2> QED BY <1>2, <1>4, <2>1, <2>2, <2>3
<1>9. CASE PersistSnapshot
  BY <1>4, <1>6, <1>9 DEF PersistSnapshot
<1>10. CASE PersistSave
  BY <1>4, <1>6, <1>10 DEF PersistSave
<1>11. ASSUME NEW disable \in BOOLEAN, ConfigApply(disable) PROVE Goal
  <2>1. CASE disable
    <3>1. Climbed(clearCooldownStateForAuth(auth, now), now, TRUE)
      BY <1>2, <1>4, Cleared
    <3> QED BY <1>6, <1>11, <2>1, <3>1 DEF ConfigApply, persistVars
  <2>2. CASE ~disable
    <3>1. Climbed(auth, now, FALSE)
      BY <1>4 DEF Climbed, Rung
    <3> QED BY <1>6, <1>11, <2>2, <3>1 DEF ConfigApply, persistVars
  <2> QED BY <2>1, <2>2
<1>12. CASE ConfigSnapshot
  BY <1>4, <1>6, <1>12 DEF ConfigSnapshot
<1>13. CASE ConfigSave
  BY <1>4, <1>6, <1>13 DEF ConfigSave
<1>14. CASE RestoreLoad
  BY <1>4, <1>6, <1>14 DEF RestoreLoad, persistVars
<1>15. CASE RestoreApply
  <2>1. Climbed(RestoreOf(auth, loaded, now, noCooling), now, noCooling)
    BY <1>2, <1>4, Restored
  <2> QED BY <1>6, <1>15, <2>1 DEF RestoreApply
<1>16. CASE Crash
  <2>1. \A m \in Models : FreshAuth.models[m] = NoState
    BY DEF FreshAuth
  <2>2. Climbed(FreshAuth, now, noCooling)
    BY <1>2, <2>1, RestingStates DEF Climbed
  <2> QED BY <1>6, <1>16, <2>2 DEF Crash
<1>17. CASE WatcherUpdate
  <2>1. Climbed(CarryOver(FreshAuth, auth, now, noCooling), now, noCooling)
    BY <1>2, <1>4, Carried
  <2> QED BY <1>6, <1>17, <2>1 DEF WatcherUpdate, persistVars
<1>18. ASSUME NEW supported \in SUBSET Models, Reconcile(supported) PROVE Goal
  <2>1. Climbed(ReconcileOf(auth, supported, now), now, noCooling)
    BY <1>2, <1>4, Reconciled
  <2> QED BY <1>6, <1>18, <2>1 DEF Reconcile, persistVars
<1> QED BY <1>7, <1>8, <1>9, <1>10, <1>11, <1>12, <1>13, <1>14, <1>15, <1>16, <1>17, <1>18,
           Results

-----------------------------------------------------------------------------
\* The invariant holds in every state.
THEOREM Invariance == Spec => []IInv
<1>1. Init => IInv
  BY InitInv
<1>2. IInv /\ [Next]_vars => IInv'
  <2> SUFFICES ASSUME IInv, [Next]_vars PROVE IInv'
    OBVIOUS
  <2>1. CASE Next
    BY <2>1, KindsStep, PhasesStep, AggregatesStep, HeldStep, BootsStep, SingleStep,
       PaceStep DEF IInv
  <2>2. CASE UNCHANGED vars
    <3>1. /\ UNCHANGED <<env, auth, now, noCooling, phase, booting, store, due, saving>>
          /\ UNCHANGED <<snapshot, saveFailed, loaded>>
      BY <2>2 DEF vars, persistVars
    <3>2. Kinds'
      BY <3>1 DEF IInv, Kinds, TypeOK
    <3>3. Phases' /\ Aggregates' /\ Held' /\ Pace'
      BY <3>1 DEF IInv, Phases, Aggregates, Held, Pace, ConfigCommits, Records, Gentle
    <3>4. Boots' /\ Single'
      BY <3>1 DEF IInv, Boots, Single
    <3> QED BY <3>2, <3>3, <3>4 DEF IInv
  <2> QED BY <2>1, <2>2
<1> QED BY <1>1, <1>2, PTL DEF Spec

\* Every variable keeps its type: in particular the ladder never leaves the
\* levels below the longest pause, whatever the mixture of errors, restores
\* and configuration changes (nextQuotaCooldown, restoreCooldownRecordLocked).
THEOREM TypeCorrect == Spec => []TypeOK
BY Invariance, PTL DEF IInv, Kinds

\* The credential is blocked exactly while every model it has a state for is,
\* at any later time (updateAggregatedAvailability).
THEOREM AggregateTrue == Spec => []AggregateAgrees
<1>1. IInv => AggregateAgrees
  <2> SUFFICES ASSUME IInv, phase # "updated", NoModel \notin env.models, ~env.saves
               PROVE  Blocked(auth, NoModel, now) <=>
                        Known(auth) # {} /\ \A m \in Known(auth) : Blocked(auth, m, now)
    BY DEF AggregateAgrees
  <2>1. AllDown(auth) /\ SomeUp(auth, now) /\ Live(auth, FALSE)
    BY DEF IInv, Aggregates, Kinds
  <2>2. ~IsDisabled(auth) /\ NoModel \notin Models
    BY <2>1, CooldownAssumption DEF Live, IsDisabled
  <2>3. Blocked(auth, NoModel, now) <=> auth.unavailable /\ auth.nextRetry > now
    BY <2>2 DEF Blocked, isAuthBlockedForModel, CooldownBlock, NotBlocked
  <2>4. \A m \in Models : Blocked(auth, m, now) <=> Cooling(auth.models[m], now)
    BY <2>2 DEF Blocked, isAuthBlockedForModel, CooldownBlock, NotBlocked
  <2>5. Known(auth) \subseteq Models /\ \A m \in Known(auth) : auth.models[m].known
    BY DEF Known
  <2>6. now \in Nat /\ auth.nextRetry \in Nat /\ \A m \in Models : auth.models[m].nextRetry \in Nat
    BY <2>1, EnvTyped DEF IInv, Kinds, Live, Auth, ModelState
  <2>7. ASSUME auth.unavailable, auth.nextRetry > now
        PROVE  Known(auth) # {} /\ \A m \in Known(auth) : Cooling(auth.models[m], now)
    BY <2>1, <2>5, <2>6, <2>7 DEF AllDown, Cooling
  <2>8. ASSUME Known(auth) # {}, \A m \in Known(auth) : Cooling(auth.models[m], now)
        PROVE  auth.unavailable /\ auth.nextRetry > now
    <3>1. auth.unavailable
      BY <2>1, <2>8 DEF SomeUp
    <3>2. PICK m \in Known(auth) : auth.models[m].nextRetry = auth.nextRetry
      BY <2>1, <3>1 DEF AllDown
    <3> QED BY <2>8, <3>1, <3>2 DEF Cooling
  <2> QED BY <2>3, <2>4, <2>5, <2>7, <2>8
<1> QED BY <1>1, Invariance, PTL

\* Once no persist is outstanding and the last one succeeded every block is in
\* the store with its own end (persistCooldownStates), and a process that
\* starts puts every live record of the store in force with its own end
\* (RestoreCooldownStates).
THEOREM CooldownsKept == Spec => CooldownsDurable
<1>1. IInv => BlocksSaved
  <2> SUFFICES ASSUME IInv, env.saves, ~due, ~saving, ~ConfigCommits, ~saveFailed, ~noCooling,
                      NEW m \in Models \cup {NoModel}, Blocked(auth, m, now)
               PROVE  \E r \in store : r.model = m /\ r.nextRetry = EndOf(auth, m)
    BY DEF BlocksSaved
  <2>1. Live(auth, FALSE) /\ cooldownStateRecords(auth, now, noCooling) \subseteq store
    BY DEF IInv, Kinds, Held, Records
  <2>2. ~IsDisabled(auth) /\ NoModel \notin Models
    BY <2>1, CooldownAssumption DEF Live, IsDisabled
  <2>3. CASE m = NoModel
    <3>1. auth.unavailable /\ auth.nextRetry > now
      BY <2>2, <2>3 DEF Blocked, isAuthBlockedForModel, CooldownBlock, NotBlocked
    <3>2. RecordOf(NoModel, auth) \in store
      BY <2>1, <2>2, <3>1 DEF cooldownStateRecords
    <3> QED BY <2>3, <3>2 DEF RecordOf, EndOf
  <2>4. CASE m \in Models
    <3>1. Cooling(auth.models[m], now)
      BY <2>2, <2>4 DEF Blocked, isAuthBlockedForModel, CooldownBlock, NotBlocked
    <3>2. RecordOf(m, auth.models[m]) \in store
      BY <2>1, <2>2, <2>4, <3>1 DEF cooldownStateRecords
    <3> QED BY <2>2, <2>4, <3>2 DEF RecordOf, EndOf
  <2> QED BY <2>3, <2>4
<1>2. ASSUME IInv, Next PROVE BlocksRestored
  <2> SUFFICES ASSUME booting, phase \in {"loading", "restoring"}
               PROVE  /\ store' = store
                      /\ phase = "restoring" /\ phase' = "starting" /\ ~noCooling =>
                           /\ \A r \in store : r.nextRetry > now =>
                                /\ Blocked(auth', r.model, now)
                                /\ EndOf(auth', r.model) = r.nextRetry
                           /\ \A m \in Models : Blocked(auth', m, now) =>
                                \E r \in store : r.model = m /\ r.nextRetry > now
    BY DEF BlocksRestored
  <2>1. ~due /\ ~saving /\ auth = FreshAuth /\ (phase = "restoring" => loaded = store)
    BY <1>2 DEF IInv, Boots
  <2>2. CASE RestoreApply
    <3>1. /\ store' = store /\ auth' = RestoreOf(FreshAuth, store, now, noCooling)
      BY <2>1, <2>2 DEF RestoreApply
    <3>2. store \in SUBSET Record /\ OneEach(store) /\ now \in Nat /\ noCooling \in BOOLEAN
      BY <1>2, EnvTyped DEF IInv, Kinds, Single, TypeOK
    <3>3. CASE ~noCooling
      <4>1. noCooling = FALSE
        BY <3>2, <3>3
      <4> DEFINE b == RestoreOf(FreshAuth, store, now, FALSE)
      <4>2. /\ \A r \in store : r.nextRetry > now =>
                 Blocked(b, r.model, now) /\ EndOf(b, r.model) = r.nextRetry
            /\ \A m \in Models : Blocked(b, m, now) =>
                 \E r \in store : r.model = m /\ r.nextRetry > now
        BY <3>2, RestoredInForce
      <4>3. auth' = b
        BY <3>1, <4>1
      <4> HIDE DEF b
      <4> QED BY <3>1, <4>2, <4>3
    <3> QED BY <3>1, <3>3
  <2>3. CASE RestoreLoad \/ Tick \/ Crash
    <3>1. store' = store
      BY <2>3 DEF RestoreLoad, Tick, Crash, persistVars
    <3>2. env.saves
      BY <1>2 DEF IInv, Phases
    <3>3. phase = "restoring" => phase' # "starting"
      BY <2>3, <3>2 DEF RestoreLoad, Tick, Crash
    <3> QED BY <3>1, <3>3
  <2>4. ~Serving /\ ~PersistSnapshot /\ ~PersistSave /\ ~ConfigSnapshot /\ ~ConfigSave
        /\ ~WatcherUpdate /\ (\A disable : ~ConfigApply(disable))
        /\ (\A supported : ~Reconcile(supported))
    BY <2>1 DEF Serving, PersistSnapshot, PersistSave, ConfigSnapshot, ConfigSave, WatcherUpdate,
       ConfigApply, Reconcile
  <2> QED BY <1>2, <2>2, <2>3, <2>4, Results
<1>3. IInv /\ [Next]_vars => [BlocksRestored]_vars
  BY <1>2
<1>4. Spec => []IInv /\ [][Next]_vars
  BY Invariance DEF Spec
<1> QED BY <1>1, <1>3, <1>4, PTL DEF CooldownsDurable

\* A burst of failures climbs the ladder once per window, through errors of
\* other kinds, persists, restores and crashes (quotaCooldownAfterFailure).
THEOREM LadderKeepsPace == Spec => []LadderPaced
<1>1. IInv => LadderPaced
  BY DEF IInv, Pace, Gentle, Climbed, Rung, Windows, LadderPaced
<1> QED BY <1>1, Invariance, PTL
=============================================================================
