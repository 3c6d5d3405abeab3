-------------------------- MODULE AuthServicesProofs --------------------------
(***************************************************************************)
(* The two services that look after the credentials on their own: the auto *)
(* refresh loop (RefreshLoop) and the model registry (ModelRegistry), each *)
(* for any number of credentials, workers, clients, models and callers.    *)
(*                                                                         *)
(* The refresh loop.  That nobody is forgotten is not inductive as it      *)
(* stands: a round decides what to do with a credential (plan) before it   *)
(* does it, and the credential may change in between.  DroppedMarked says  *)
(* that whoever the round is about to drop although it can be refreshed    *)
(* again has been marked since; RemovalsSeen says that a credential which  *)
(* is there again while its removal is still on the way to the loop is one *)
(* of the exceptions (disturbed); LoopPlaced says which part of the state  *)
(* means something where.                                                  *)
(*                                                                         *)
(* The model registry.  A registration is the part of one client and that  *)
(* of the others (Part): what an operation does to it is a fact about one  *)
(* registration and numbers (RemovePart, AddPart, ReconcilePart), and the  *)
(* sums over clients need only the laws at the beginning, each from a      *)
(* smallest counterexample.  The cache: every entry is the list of some    *)
(* earlier time, and up to the first recovery that is the list of now.     *)
(***************************************************************************)
EXTENDS RefreshLoop, ModelRegistry, FiniteSetTheorems, WellFoundedInduction,
        TLAPS

----------------------------------------------------------------------------
(* The auto refresh loop *)

LoopRounds == {"due", "dueAct", "claimed", "send", "dirty", "dirtyAct"}
LoopPlaces == {"rebuild", "install", "start", "arm", "select", "drain"} \cup LoopRounds
LoopPlans == [auth : Auths \cup {None}, op : {"none", "upsert", "remove", "drop", "mark"},
              next : Nat]
Credentials == [present : BOOLEAN, unauthorized : BOOLEAN, dueAt : Nat, backoff : Nat]
Times == Nat \cup {None}

LoopTyped ==
  /\ now \in Nat /\ loopNow \in Nat
  /\ auths \in [Auths -> Credentials]
  /\ queue \in [Auths -> Times] /\ entries \in [Auths -> Times]
  /\ timer \in Times
  /\ dirty \in SUBSET Auths /\ owed \in SUBSET Auths /\ todo \in SUBSET Auths
  /\ plan \in LoopPlans
  /\ pc \in LoopPlaces
  /\ jobs \in Seq(Auths)
  /\ working \in [Workers -> Auths \cup {None}]

LoopPlaced ==
  /\ pc \in {"dueAct", "dirtyAct", "claimed", "send"} => plan.auth \in Auths
  /\ pc = "dueAct" => plan.op # "none"
  /\ pc = "dirtyAct" => plan.op \in {"upsert", "remove"}
  /\ pc \in {"claimed", "send"} => plan.op = "mark"
  /\ pc \notin {"dueAct", "dirtyAct", "claimed", "send"} => plan = NoPlan
  /\ pc \notin LoopRounds => todo = {}
  /\ pc \in {"rebuild", "install"} => \A a \in Auths : queue[a] = None

(* Where a credential is, asleep or not. *)
Held(a) ==
  \/ queue[a] # None
  \/ a \in dirty \cup owed \cup todo
  \/ plan.auth = a /\ plan.op \in {"upsert", "mark"}
  \/ \E i \in DOMAIN jobs : jobs[i] = a
  \/ \E w \in Workers : working[w] = a
  \/ pc = "rebuild"
  \/ pc = "install" /\ entries[a] # None

EveryoneHeld ==
  \A a \in Auths : Schedulable(a) /\ a \notin disturbed => Held(a)

(* A loop that sleeps on a queue with somebody in it has set its timer, also *)
(* when the first of them was due before the round began (resetTimer).       *)
SleepsArmed ==
  pc = "select" /\ timer = None => \A a \in Auths : queue[a] = None

(* A credential the round is about to take off the queue although it can be *)
(* refreshed again has been marked since.                                   *)
DroppedMarked ==
  \A a \in Auths :
    plan.auth = a /\ plan.op \in {"remove", "drop"} /\ Schedulable(a) /\ a \notin disturbed
      => a \in dirty \cup owed

RemovalsSeen == \A a \in unqueue \cap Auths : auths[a].present => a \in disturbed

LoopInv ==
  /\ LoopTyped /\ LoopPlaced /\ DroppedMarked /\ RemovalsSeen
  /\ EveryoneHeld /\ SleepsArmed /\ MarksAreSeen

USE RefreshLoopAssumption DEF RefreshLoopAssumption

(* rebuild notes a time for everybody it finds schedulable. *)
LEMMA RebuildReadKeeps ==
  ASSUME LoopInv, RebuildRead
  PROVE  LoopInv'
<1>1. LoopTyped'
  BY DEF LoopInv, RebuildRead, auxVars, changeVars, LoopTyped, LoopPlaces, LoopRounds, Times, Credentials, Schedulable, nextRefreshCheckAt
<1>2. LoopPlaced'
  BY DEF LoopInv, RebuildRead, auxVars, changeVars, LoopPlaced, LoopRounds
<1>3. EveryoneHeld'
  BY DEF LoopInv, RebuildRead, auxVars, changeVars, LoopTyped, LoopPlaced, LoopRounds, LoopPlaces, NoPlan, EveryoneHeld, Held, Schedulable, Credentials, nextRefreshCheckAt
<1>4. SleepsArmed'
  BY DEF LoopInv, RebuildRead, auxVars, changeVars, SleepsArmed
<1>5. MarksAreSeen'
  BY DEF LoopInv, RebuildRead, auxVars, changeVars, MarksAreSeen
<1>6. DroppedMarked' /\ RemovalsSeen'
  BY DEF LoopInv, RebuildRead, auxVars, changeVars, DroppedMarked, Schedulable, RemovalsSeen
<1> QED
  BY <1>1, <1>2, <1>3, <1>4, <1>5, <1>6 DEF LoopInv

(* What rebuild noted becomes the queue. *)
LEMMA RebuildInstallKeeps ==
  ASSUME LoopInv, RebuildInstall
  PROVE  LoopInv'
<1>1. LoopTyped'
  BY DEF LoopInv, RebuildInstall, auxVars, changeVars, LoopTyped, LoopPlaces, LoopRounds, Times
<1>2. LoopPlaced'
  BY DEF LoopInv, RebuildInstall, auxVars, changeVars, LoopPlaced, LoopRounds
<1>3. EveryoneHeld'
  BY DEF LoopInv, RebuildInstall, auxVars, changeVars, LoopTyped, LoopPlaced, LoopRounds, LoopPlaces, NoPlan, EveryoneHeld, Held, Schedulable
<1>4. SleepsArmed'
  BY DEF LoopInv, RebuildInstall, auxVars, changeVars, SleepsArmed
<1>5. MarksAreSeen'
  BY DEF LoopInv, RebuildInstall, auxVars, changeVars, MarksAreSeen
<1>6. DroppedMarked' /\ RemovalsSeen'
  BY DEF LoopInv, RebuildInstall, auxVars, changeVars, DroppedMarked, Schedulable, RemovalsSeen
<1> QED
  BY <1>1, <1>2, <1>3, <1>4, <1>5, <1>6 DEF LoopInv

(* The first timer is about to be set. *)
LEMMA LoopStartsKeeps ==
  ASSUME LoopInv, LoopStarts
  PROVE  LoopInv'
<1>1. LoopTyped'
  BY DEF LoopInv, LoopStarts, auxVars, changeVars, LoopTyped, LoopPlaces, LoopRounds
<1>2. LoopPlaced'
  BY DEF LoopInv, LoopStarts, auxVars, changeVars, LoopPlaced, LoopRounds
<1>3. EveryoneHeld'
  BY DEF LoopInv, LoopStarts, auxVars, changeVars, LoopTyped, LoopPlaced, LoopRounds, LoopPlaces, NoPlan, EveryoneHeld, Held, Schedulable
<1>4. SleepsArmed'
  BY DEF LoopInv, LoopStarts, auxVars, changeVars, SleepsArmed
<1>5. MarksAreSeen'
  BY DEF LoopInv, LoopStarts, auxVars, changeVars, MarksAreSeen
<1>6. DroppedMarked' /\ RemovalsSeen'
  BY DEF LoopInv, LoopStarts, auxVars, changeVars, DroppedMarked, Schedulable, RemovalsSeen
<1> QED
  BY <1>1, <1>2, <1>3, <1>4, <1>5, <1>6 DEF LoopInv

(* A token wakes the loop. *)
LEMMA WokenKeeps ==
  ASSUME LoopInv, Woken
  PROVE  LoopInv'
<1>1. LoopTyped'
  BY DEF LoopInv, Woken, auxVars, changeVars, LoopTyped, LoopPlaces, LoopRounds, Times
<1>2. LoopPlaced'
  BY DEF LoopInv, Woken, auxVars, changeVars, LoopPlaced, LoopRounds
<1>3. EveryoneHeld'
  BY DEF LoopInv, Woken, auxVars, changeVars, LoopTyped, LoopPlaced, LoopRounds, LoopPlaces, NoPlan, EveryoneHeld, Held, Schedulable
<1>4. SleepsArmed'
  BY DEF LoopInv, Woken, auxVars, changeVars, SleepsArmed
<1>5. MarksAreSeen'
  BY DEF LoopInv, Woken, auxVars, changeVars, MarksAreSeen
<1>6. DroppedMarked' /\ RemovalsSeen'
  BY DEF LoopInv, Woken, auxVars, changeVars, DroppedMarked, Schedulable, RemovalsSeen
<1> QED
  BY <1>1, <1>2, <1>3, <1>4, <1>5, <1>6 DEF LoopInv

(* markRefreshPending marks what it has claimed. *)
LEMMA ClaimMarkedKeeps ==
  ASSUME LoopInv, ClaimMarked
  PROVE  LoopInv'
<1>1. LoopTyped'
  BY DEF LoopInv, ClaimMarked, auxVars, changeVars, LoopTyped, LoopPlaces, LoopRounds, LoopPlaced
<1>2. LoopPlaced'
  BY DEF LoopInv, ClaimMarked, auxVars, changeVars, LoopPlaced, LoopRounds
<1>3. DroppedMarked'
  BY DEF LoopInv, ClaimMarked, auxVars, changeVars, LoopPlaced, LoopRounds, NoPlan, DroppedMarked, Schedulable
<1>4. EveryoneHeld'
  BY DEF LoopInv, ClaimMarked, auxVars, changeVars, LoopTyped, LoopPlaced, LoopRounds, LoopPlaces, NoPlan, EveryoneHeld, Held, Schedulable
<1>5. SleepsArmed'
  BY DEF LoopInv, ClaimMarked, auxVars, changeVars, SleepsArmed
<1>6. MarksAreSeen'
  BY DEF LoopInv, ClaimMarked, auxVars, changeVars, MarksAreSeen
<1>7. RemovalsSeen'
  BY DEF LoopInv, ClaimMarked, auxVars, changeVars, RemovalsSeen
<1> QED
  BY <1>1, <1>2, <1>3, <1>4, <1>5, <1>6, <1>7 DEF LoopInv

(* The due ones are dealt with. *)
LEMMA DueDoneKeeps ==
  ASSUME LoopInv, DueDone
  PROVE  LoopInv'
<1>1. LoopTyped'
  BY DEF LoopInv, DueDone, auxVars, changeVars, LoopTyped, LoopPlaces, LoopRounds
<1>2. LoopPlaced'
  BY DEF LoopInv, DueDone, auxVars, changeVars, LoopPlaced, LoopRounds
<1>3. EveryoneHeld'
  BY DEF LoopInv, DueDone, auxVars, changeVars, LoopTyped, LoopPlaced, LoopRounds, LoopPlaces, NoPlan, EveryoneHeld, Held, Schedulable
<1>4. SleepsArmed'
  BY DEF LoopInv, DueDone, auxVars, changeVars, SleepsArmed
<1>5. MarksAreSeen'
  BY DEF LoopInv, DueDone, auxVars, changeVars, MarksAreSeen
<1>6. DroppedMarked' /\ RemovalsSeen'
  BY DEF LoopInv, DueDone, auxVars, changeVars, DroppedMarked, Schedulable, RemovalsSeen
<1> QED
  BY <1>1, <1>2, <1>3, <1>4, <1>5, <1>6 DEF LoopInv

(* The marks become the round. *)
LEMMA drainDirtyKeeps ==
  ASSUME LoopInv, drainDirty
  PROVE  LoopInv'
<1>1. LoopTyped'
  BY DEF LoopInv, drainDirty, auxVars, changeVars, LoopTyped, LoopPlaces, LoopRounds
<1>2. LoopPlaced'
  BY DEF LoopInv, drainDirty, auxVars, changeVars, LoopPlaced, LoopRounds
<1>3. DroppedMarked'
  BY DEF LoopInv, drainDirty, auxVars, changeVars, LoopPlaced, LoopRounds, NoPlan, DroppedMarked, Schedulable
<1>4. EveryoneHeld'
  BY DEF LoopInv, drainDirty, auxVars, changeVars, LoopTyped, LoopPlaced, LoopRounds, LoopPlaces, NoPlan, EveryoneHeld, Held, Schedulable
<1>5. SleepsArmed'
  BY DEF LoopInv, drainDirty, auxVars, changeVars, SleepsArmed
<1>6. MarksAreSeen'
  BY DEF LoopInv, drainDirty, auxVars, changeVars, MarksAreSeen
<1>7. RemovalsSeen'
  BY DEF LoopInv, drainDirty, auxVars, changeVars, RemovalsSeen
<1> QED
  BY <1>1, <1>2, <1>3, <1>4, <1>5, <1>6, <1>7 DEF LoopInv

(* The round is over. *)
LEMMA DirtyDoneKeeps ==
  ASSUME LoopInv, DirtyDone
  PROVE  LoopInv'
<1>1. LoopTyped'
  BY DEF LoopInv, DirtyDone, auxVars, changeVars, LoopTyped, LoopPlaces, LoopRounds
<1>2. LoopPlaced'
  BY DEF LoopInv, DirtyDone, auxVars, changeVars, LoopPlaced, LoopRounds
<1>3. EveryoneHeld'
  BY DEF LoopInv, DirtyDone, auxVars, changeVars, LoopTyped, LoopPlaced, LoopRounds, LoopPlaces, NoPlan, EveryoneHeld, Held, Schedulable
<1>4. SleepsArmed'
  BY DEF LoopInv, DirtyDone, auxVars, changeVars, SleepsArmed
<1>5. MarksAreSeen'
  BY DEF LoopInv, DirtyDone, auxVars, changeVars, MarksAreSeen
<1>6. DroppedMarked' /\ RemovalsSeen'
  BY DEF LoopInv, DirtyDone, auxVars, changeVars, DroppedMarked, Schedulable, RemovalsSeen
<1> QED
  BY <1>1, <1>2, <1>3, <1>4, <1>5, <1>6 DEF LoopInv

(* popDue: who leaves the queue joins the round. *)
LEMMA TimerFiresKeeps ==
  ASSUME LoopInv, TimerFires
  PROVE  LoopInv'
<1>1. LoopTyped'
  BY DEF LoopInv, TimerFires, auxVars, changeVars, LoopTyped, LoopPlaces, LoopRounds, Times
<1>2. LoopPlaced'
  BY DEF LoopInv, TimerFires, auxVars, changeVars, LoopPlaced, LoopRounds
<1>3. EveryoneHeld'
  BY DEF LoopInv, TimerFires, auxVars, changeVars, LoopTyped, LoopPlaced, LoopRounds, LoopPlaces, NoPlan, EveryoneHeld, Held, Schedulable
<1>4. SleepsArmed'
  BY DEF LoopInv, TimerFires, auxVars, changeVars, SleepsArmed
<1>5. MarksAreSeen'
  BY DEF LoopInv, TimerFires, auxVars, changeVars, MarksAreSeen
<1>6. DroppedMarked' /\ RemovalsSeen'
  BY DEF LoopInv, TimerFires, auxVars, changeVars, DroppedMarked, Schedulable, RemovalsSeen
<1> QED
  BY <1>1, <1>2, <1>3, <1>4, <1>5, <1>6 DEF LoopInv

(* A reschedule marks its credential. *)
LEMMA MarkDirtyKeeps ==
  ASSUME LoopInv, NEW a \in Auths, MarkDirty(a)
  PROVE  LoopInv'
<1>1. LoopTyped'
  BY DEF LoopInv, MarkDirty, loopVars, changeVars, LoopTyped, LoopPlaces, LoopRounds
<1>2. DroppedMarked'
  BY DEF LoopInv, MarkDirty, loopVars, changeVars, LoopPlaced, LoopRounds, NoPlan, DroppedMarked, Schedulable
<1>3. EveryoneHeld'
  BY DEF LoopInv, MarkDirty, loopVars, changeVars, LoopTyped, LoopPlaced, LoopRounds, LoopPlaces, NoPlan, EveryoneHeld, Held, Schedulable
<1>4. MarksAreSeen'
  BY DEF LoopInv, MarkDirty, loopVars, changeVars, MarksAreSeen
<1>5. LoopPlaced' /\ RemovalsSeen' /\ SleepsArmed'
  BY DEF LoopInv, MarkDirty, loopVars, changeVars, LoopPlaced, RemovalsSeen, SleepsArmed
<1> QED
  BY <1>1, <1>2, <1>3, <1>4, <1>5 DEF LoopInv

(* A reschedule sends its token. *)
LEMMA RingKeeps ==
  ASSUME LoopInv, Ring
  PROVE  LoopInv'
<1>1. MarksAreSeen'
  BY DEF LoopInv, Ring, loopVars, changeVars, MarksAreSeen
<1>2. LoopTyped' /\ LoopPlaced' /\ DroppedMarked' /\ RemovalsSeen' /\ EveryoneHeld' /\ SleepsArmed'
  BY DEF LoopInv, Ring, loopVars, changeVars, LoopTyped, LoopPlaced, DroppedMarked, Schedulable, RemovalsSeen, EveryoneHeld, Held, SleepsArmed
<1> QED
  BY <1>1, <1>2 DEF LoopInv

(* Time passes. *)
LEMMA TickKeeps ==
  ASSUME LoopInv, Tick
  PROVE  LoopInv'
<1>1. LoopTyped'
  BY DEF LoopInv, Tick, auxVars, loopVars, changeVars, LoopTyped, LoopPlaces, LoopRounds
<1>2. LoopPlaced' /\ DroppedMarked' /\ RemovalsSeen' /\ EveryoneHeld' /\ SleepsArmed' /\ MarksAreSeen'
  BY DEF LoopInv, Tick, auxVars, loopVars, changeVars, LoopPlaced, DroppedMarked, Schedulable, RemovalsSeen, EveryoneHeld, Held, SleepsArmed, MarksAreSeen
<1> QED
  BY <1>1, <1>2 DEF LoopInv

(* A set of numbers that is not empty has a least one, its Min. *)
LEMMA EarliestIs ==
  ASSUME NEW S \in SUBSET Nat, S # {}
  PROVE  Min(S) \in S
<1> DEFINE Earlier == {p \in Nat \X Nat : p[1] < p[2]}
<1>1. IsWellFoundedOn(Earlier, Nat)
  BY NatLessThanWellFounded DEF OpToRel
<1>2. PICK x \in S : \A y \in S : <<y, x>> \notin Earlier
  <2> HIDE DEF Earlier
  <2> QED BY WFMin, <1>1
<1>3. ASSUME NEW y \in S PROVE x <= y
  <2>1. <<y, x>> \in Nat \X Nat /\ <<y, x>>[1] = y /\ <<y, x>>[2] = x
    OBVIOUS
  <2>2. y \in Nat /\ x \in Nat /\ ~(y < x)
    BY <2>1, <1>2
  <2> QED BY ONLY <2>2
<1> QED BY <1>3 DEF Min

(* resetTimer: with somebody in the queue the timer is set. *)
LEMMA resetTimerKeeps ==
  ASSUME LoopInv, resetTimer
  PROVE  LoopInv'
<1> DEFINE times == {queue[a] : a \in Auths} \ {None}
           first == Max({Min(times), loopNow})
<1>1. times # {} => now + (first - loopNow) \in Nat
  <2> SUFFICES ASSUME times # {} PROVE now + (first - loopNow) \in Nat
    OBVIOUS
  <2>1. times \in SUBSET Nat
    BY DEF LoopInv, LoopTyped, Times
  <2> HIDE DEF times
  <2>2. Min(times) \in Nat
    BY <2>1, EarliestIs
  <2>3. loopNow \in Nat /\ now \in Nat
    BY DEF LoopInv, LoopTyped
  <2> DEFINE m == Min(times)
  <2>4. m \in Nat
    BY <2>2
  <2> HIDE DEF m
  <2>5. Max({m, loopNow}) \in Nat /\ Max({m, loopNow}) >= loopNow
    BY <2>3, <2>4 DEF Max
  <2> QED BY <2>3, <2>5 DEF m
<1>2. /\ pc = "arm" /\ pc' = "select" /\ loopNow' = 0
      /\ timer' = IF times = {} THEN None ELSE now + (first - loopNow)
  BY DEF resetTimer
<1> HIDE DEF first, times
<1>3. LoopTyped'
  <2> DEFINE due == IF times = {} THEN None ELSE now + (first - loopNow)
  <2>1. due \in Times
    BY <1>1 DEF Times
  <2>2. /\ timer' = due /\ pc' = "select" /\ loopNow' = 0
        /\ UNCHANGED <<now, auths, queue, dirty, owed, entries, todo, plan, jobs, working>>
    BY <1>2 DEF resetTimer, auxVars
  <2> HIDE DEF due
  <2> QED BY <2>1, <2>2 DEF LoopInv, LoopTyped, LoopPlaces
<1>4. SleepsArmed'
  <2>1. timer' = None => times = {}
    BY <1>1, <1>2
  <2>2. times = {} => \A a \in Auths : queue[a] = None
    BY DEF times
  <2> QED BY <2>1, <2>2 DEF resetTimer, SleepsArmed
<1>5. LoopPlaced' /\ DroppedMarked' /\ RemovalsSeen' /\ MarksAreSeen'
  BY DEF LoopInv, resetTimer, auxVars, changeVars, LoopPlaced, LoopRounds, DroppedMarked,
         RemovalsSeen, MarksAreSeen, Schedulable
<1>6. EveryoneHeld'
  BY DEF LoopInv, resetTimer, auxVars, changeVars, EveryoneHeld, Held, Schedulable
<1> QED
  BY <1>3, <1>4, <1>5, <1>6 DEF LoopInv

(* What the loop reads about a credential it may be refreshed. *)
LEMMA ChecksRight ==
  ASSUME LoopInv, NEW a \in Auths, NEW t \in Nat
  PROVE  /\ Check(a, t) \in LoopPlans /\ Check(a, t).auth = a
         /\ Check(a, t).op \in {"upsert", "remove"}
         /\ Check(a, t).op = "upsert" <=> Schedulable(a)
<1>1. Schedulable(a) => nextRefreshCheckAt(a, t) \in Nat
  BY DEF LoopInv, LoopTyped, Credentials, nextRefreshCheckAt
<1> QED
  BY <1>1 DEF Check, LoopPlans

(* The loop reads one credential of its round: handleDueAuth, applyDirty. *)
LEMMA ReadKeeps ==
  ASSUME LoopInv, NEW a \in todo, pc \in {"due", "dirty"},
         todo' = todo \ {a}, plan' \in LoopPlans, plan'.auth = a,
         plan'.op \in {"upsert", "remove", "drop", "mark"},
         Schedulable(a) => plan'.op \in {"upsert", "mark"},
         pc' = IF pc = "due" THEN "dueAct" ELSE "dirtyAct",
         pc = "dirty" => plan'.op \in {"upsert", "remove"},
         UNCHANGED <<now, auths, queue, dirty, wake, owed, unqueue, ring, timer, loopNow,
                     entries, jobs, working, disturbed>>
  PROVE  LoopInv'
<1>0. a \in Auths
  BY DEF LoopInv, LoopTyped
<1>1. LoopTyped'
  BY DEF LoopInv, LoopTyped, LoopPlaces, LoopRounds
<1>2. LoopPlaced'
  BY <1>0 DEF LoopInv, LoopPlaced, LoopRounds
<1>3. DroppedMarked'
  BY DEF DroppedMarked, Schedulable
<1>4. EveryoneHeld'
  <2> SUFFICES ASSUME NEW b \in Auths, (Schedulable(b) /\ b \notin disturbed)'
               PROVE  Held(b)'
    BY DEF EveryoneHeld
  <2>1. Held(b) /\ Schedulable(b)
    BY DEF LoopInv, EveryoneHeld, Schedulable
  <2>2. CASE b = a
    BY <2>1, <2>2 DEF Held
  <2>3. CASE b # a
    <3>1. plan = NoPlan
      BY DEF LoopInv, LoopPlaced
    <3> QED BY <2>1, <2>3, <3>1 DEF Held, NoPlan
  <2> QED BY <2>2, <2>3
<1>5. RemovalsSeen' /\ SleepsArmed'
  BY DEF LoopInv, RemovalsSeen, SleepsArmed
<1>6. MarksAreSeen'
  BY DEF LoopInv, MarksAreSeen
<1> QED
  BY <1>1, <1>2, <1>3, <1>4, <1>5, <1>6 DEF LoopInv

LEMMA DueReadKeeps ==
  ASSUME LoopInv, NEW a \in Auths, DueRead(a)
  PROVE  LoopInv'
<1>1. /\ Check(a, loopNow) \in LoopPlans /\ Check(a, loopNow).auth = a
      /\ Check(a, loopNow).op \in {"upsert", "remove"}
      /\ Check(a, loopNow).op = "upsert" <=> Schedulable(a)
  BY ChecksRight DEF LoopInv, LoopTyped
<1>2. /\ plan' \in LoopPlans /\ plan'.auth = a
      /\ plan'.op \in {"upsert", "remove", "drop", "mark"}
      /\ Schedulable(a) => plan'.op \in {"upsert", "mark"}
  <2>1. CASE ~auths[a].present
    <3>1. plan' = [auth |-> a, op |-> "drop", next |-> 0]
      BY <2>1 DEF DueRead, shouldRefresh, Schedulable
    <3> QED BY <2>1, <3>1 DEF LoopPlans, Schedulable
  <2>2. CASE auths[a].present /\ shouldRefresh(a, loopNow)
    BY <2>2 DEF DueRead, LoopPlans, LoopInv, LoopTyped
  <2>3. CASE auths[a].present /\ ~shouldRefresh(a, loopNow)
    <3> HIDE DEF Check
    <3> QED BY <1>1, <2>3 DEF DueRead
  <2> QED BY <2>1, <2>2, <2>3
<1> QED
  BY <1>2, ReadKeeps DEF DueRead, auxVars, changeVars

LEMMA DirtyReadKeeps ==
  ASSUME LoopInv, NEW a \in Auths, DirtyRead(a)
  PROVE  LoopInv'
<1>1. /\ Check(a, loopNow) \in LoopPlans /\ Check(a, loopNow).auth = a
      /\ Check(a, loopNow).op \in {"upsert", "remove"}
      /\ Check(a, loopNow).op = "upsert" <=> Schedulable(a)
  BY ChecksRight DEF LoopInv, LoopTyped
<1> QED
  BY <1>1, ReadKeeps DEF DirtyRead, auxVars, changeVars

(* The loop queues the credential it has read about, or takes it off. *)
LEMMA RequeueKeeps ==
  ASSUME LoopInv, pc \in {"dueAct", "dirtyAct"}, NEW p \in LoopPlans,
         p.auth = plan.auth, p.op \in {"upsert", "remove", "drop"},
         \/ p = plan
         \/ p.op # "upsert" => ~Schedulable(p.auth),
         queue' = Requeued(p), plan' = NoPlan,
         pc' = IF pc = "dueAct" THEN "due" ELSE "dirty",
         UNCHANGED <<now, auths, dirty, wake, owed, unqueue, ring, timer, loopNow,
                     entries, todo, jobs, working, disturbed>>
  PROVE  LoopInv'
<1>0. p.auth \in Auths /\ p.next \in Nat /\ queue \in [Auths -> Times]
  BY DEF LoopInv, LoopPlaced, LoopPlans, LoopTyped
<1>1. /\ queue' \in [Auths -> Times]
      /\ \A b \in Auths : b # p.auth => queue'[b] = queue[b]
      /\ p.op = "upsert" => queue'[p.auth] # None
  BY <1>0 DEF Requeued, Times
<1>2. LoopTyped'
  <2>1. NoPlan \in LoopPlans
    BY DEF NoPlan, LoopPlans
  <2> QED BY <1>1, <2>1 DEF LoopInv, LoopTyped, LoopPlaces, LoopRounds
<1>3. LoopPlaced' /\ DroppedMarked'
  BY DEF LoopInv, LoopPlaced, LoopRounds, NoPlan, DroppedMarked
<1>4. EveryoneHeld'
  <2> SUFFICES ASSUME NEW b \in Auths, (Schedulable(b) /\ b \notin disturbed)'
               PROVE  Held(b)'
    BY DEF EveryoneHeld
  <2>1. Held(b) /\ Schedulable(b) /\ b \notin disturbed
    BY DEF LoopInv, EveryoneHeld, Schedulable
  <2>2. CASE b # p.auth
    BY <1>1, <2>1, <2>2 DEF Held
  <2>3. CASE b = p.auth /\ p.op = "upsert"
    BY <1>1, <2>3 DEF Held
  <2>4. CASE b = p.auth /\ p.op # "upsert"
    <3>1. b \in dirty \cup owed
      BY <2>1, <2>4 DEF LoopInv, DroppedMarked
    <3> QED BY <3>1 DEF Held
  <2> QED BY <2>2, <2>3, <2>4
<1>5. RemovalsSeen' /\ SleepsArmed' /\ MarksAreSeen'
  BY DEF LoopInv, RemovalsSeen, SleepsArmed, MarksAreSeen
<1> QED
  BY <1>2, <1>3, <1>4, <1>5 DEF LoopInv

LEMMA DirtyActKeeps ==
  ASSUME LoopInv, DirtyAct
  PROVE  LoopInv'
<1>1. plan \in LoopPlans /\ plan.op \in {"upsert", "remove"}
  BY DEF LoopInv, LoopTyped, LoopPlaced, DirtyAct
<1> QED
  BY <1>1, RequeueKeeps DEF DirtyAct, auxVars, changeVars

(* A new value for the fields of one credential. *)
LEMMA CredentialIs ==
  ASSUME NEW r \in Credentials
  PROVE  /\ \A n \in Nat : [r EXCEPT !.backoff = n] \in Credentials
         /\ \A b \in BOOLEAN : [r EXCEPT !.unauthorized = b] \in Credentials
         /\ \A b \in BOOLEAN : [r EXCEPT !.present = b] \in Credentials
BY DEF Credentials

(* handleDueAuth acts on what it has read. *)
LEMMA DueActKeeps ==
  ASSUME LoopInv, DueAct
  PROVE  LoopInv'
<1> DEFINE a == plan.auth
           claims == plan.op = "mark" /\ auths[a].present /\ auths[a].backoff <= loopNow
<1>0. /\ a \in Auths /\ plan \in LoopPlans /\ plan.op # "none" /\ loopNow \in Nat
      /\ auths \in [Auths -> Credentials] /\ pc = "dueAct"
  BY DEF LoopInv, LoopTyped, LoopPlaced, DueAct
<1>1. CASE claims
  <2>1. /\ auths' = [auths EXCEPT ![a].backoff = loopNow + PendingPause]
        /\ pc' = "claimed"
        /\ UNCHANGED <<now, queue, plan, dirty, wake, owed, unqueue, ring, timer, loopNow,
                       entries, todo, jobs, working, disturbed>>
    BY <1>1 DEF DueAct, auxVars, changeVars
  <2>2. auths' \in [Auths -> Credentials]
    <3>1. auths' = [auths EXCEPT ![a] = [auths[a] EXCEPT !.backoff = loopNow + PendingPause]]
      BY <2>1
    <3>2. auths[a] \in Credentials /\ loopNow + PendingPause \in Nat
      BY <1>0
    <3>3. [auths[a] EXCEPT !.backoff = loopNow + PendingPause] \in Credentials
      BY <3>2, CredentialIs
    <3> QED BY <1>0, <3>1, <3>3
  <2>3. \A b \in Auths : /\ auths'[b].present = auths[b].present
                         /\ auths'[b].unauthorized = auths[b].unauthorized
    BY <1>0, <2>1 DEF Credentials
  <2>4. \A b \in Auths : Schedulable(b)' = Schedulable(b)
    BY <2>3 DEF Schedulable
  <2>5. LoopTyped'
    BY <2>1, <2>2 DEF LoopInv, LoopTyped, LoopPlaces, LoopRounds
  <2>6. LoopPlaced' /\ SleepsArmed' /\ MarksAreSeen'
    BY <1>0, <1>1, <2>1 DEF LoopInv, LoopPlaced, LoopRounds, SleepsArmed, MarksAreSeen
  <2>7. DroppedMarked'
    BY <2>1, <2>4 DEF LoopInv, DroppedMarked
  <2>8. RemovalsSeen'
    BY <2>1, <2>3 DEF LoopInv, RemovalsSeen
  <2>9. EveryoneHeld'
    BY <1>0, <2>1, <2>4 DEF LoopInv, EveryoneHeld, Held
  <2> QED BY <2>5, <2>6, <2>7, <2>8, <2>9 DEF LoopInv
<1>2. CASE ~claims
  <2> DEFINE p == IF plan.op = "mark" THEN Check(a, loopNow) ELSE plan
  <2>1. /\ queue' = Requeued(p) /\ plan' = NoPlan /\ pc' = "due"
        /\ UNCHANGED <<now, auths, dirty, wake, owed, unqueue, ring, timer, loopNow,
                       entries, todo, jobs, working, disturbed>>
    BY <1>2 DEF DueAct, auxVars, changeVars
  <2>2. /\ Check(a, loopNow) \in LoopPlans /\ Check(a, loopNow).auth = a
        /\ Check(a, loopNow).op \in {"upsert", "remove"}
        /\ Check(a, loopNow).op = "upsert" <=> Schedulable(a)
    BY <1>0, ChecksRight
  <2>3. /\ p \in LoopPlans /\ p.auth = plan.auth /\ p.op \in {"upsert", "remove", "drop"}
        /\ (p = plan \/ (p.op # "upsert" => ~Schedulable(p.auth)))
    <3>1. plan.op \in {"none", "upsert", "remove", "drop", "mark"}
      BY <1>0 DEF LoopPlans
    <3> HIDE DEF Check
    <3> QED BY <1>0, <2>2, <3>1
  <2> HIDE DEF p
  <2> QED BY <1>0, <2>1, <2>3, RequeueKeeps
<1> QED BY <1>1, <1>2

(* The claimed credential goes into the job channel, or to a worker: it is *)
(* among the jobs or the workers' credentials before and after.            *)
LEMMA SendJobKeeps ==
  ASSUME LoopInv, SendJob
  PROVE  LoopInv'
<1>1. /\ plan.auth \in Auths /\ plan.op = "mark" /\ jobs \in Seq(Auths)
      /\ pc = "send" /\ pc' = "due" /\ plan' = NoPlan /\ jobs' = Append(jobs, plan.auth)
      /\ UNCHANGED <<now, auths, queue, dirty, wake, owed, unqueue, ring, timer, loopNow,
                     entries, todo, working, disturbed>>
  BY DEF LoopInv, LoopTyped, LoopPlaced, SendJob, auxVars, changeVars
<1>2. /\ jobs' \in Seq(Auths)
      /\ \A i \in DOMAIN jobs : i \in DOMAIN jobs' /\ jobs'[i] = jobs[i]
      /\ \E i \in DOMAIN jobs' : jobs'[i] = plan.auth
  <2>1. Len(jobs) + 1 \in DOMAIN jobs' /\ jobs'[Len(jobs) + 1] = plan.auth
    BY <1>1
  <2> QED BY <1>1, <2>1
<1>3. LoopTyped'
  <2>1. NoPlan \in LoopPlans
    BY DEF NoPlan, LoopPlans
  <2> QED BY <1>1, <1>2, <2>1 DEF LoopInv, LoopTyped, LoopPlaces, LoopRounds
<1>4. LoopPlaced' /\ DroppedMarked' /\ SleepsArmed' /\ MarksAreSeen' /\ RemovalsSeen'
  BY <1>1 DEF LoopInv, LoopPlaced, LoopRounds, NoPlan, DroppedMarked, SleepsArmed,
              MarksAreSeen, RemovalsSeen
<1>5. EveryoneHeld'
  <2> SUFFICES ASSUME NEW b \in Auths, (Schedulable(b) /\ b \notin disturbed)'
               PROVE  Held(b)'
    BY DEF EveryoneHeld
  <2>1. Held(b)
    BY <1>1 DEF LoopInv, EveryoneHeld, Schedulable
  <2>2. CASE b = plan.auth
    BY <1>2, <2>2 DEF Held
  <2>3. CASE \E i \in DOMAIN jobs : jobs[i] = b
    BY <1>2, <2>3 DEF Held
  <2>4. CASE b # plan.auth /\ ~ \E i \in DOMAIN jobs : jobs[i] = b
    BY <1>1, <2>1, <2>4 DEF Held
  <2> QED BY <2>2, <2>3, <2>4
<1> QED BY <1>3, <1>4, <1>5 DEF LoopInv

LEMMA TakeJobKeeps ==
  ASSUME LoopInv, NEW w \in Workers, TakeJob(w)
  PROVE  LoopInv'
<1>1. /\ jobs \in Seq(Auths) /\ jobs # <<>> /\ working \in [Workers -> Auths \cup {None}]
      /\ working[w] = None /\ working' = [working EXCEPT ![w] = Head(jobs)]
      /\ jobs' = Tail(jobs)
      /\ UNCHANGED <<now, auths, queue, dirty, wake, owed, unqueue, ring, timer, loopNow,
                     entries, todo, plan, pc, disturbed>>
  BY DEF LoopInv, LoopTyped, TakeJob, auxVars, loopVars, changeVars
<1>2. /\ Head(jobs) \in Auths /\ Head(jobs) = jobs[1] /\ jobs' \in Seq(Auths)
      /\ \A i \in DOMAIN jobs \ {1} : i - 1 \in DOMAIN jobs' /\ jobs'[i - 1] = jobs[i]
  BY <1>1
<1>3. /\ working' \in [Workers -> Auths \cup {None}] /\ working'[w] = Head(jobs)
      /\ \A x \in Workers : working[x] # None => working'[x] = working[x]
  BY <1>1, <1>2
<1>4. LoopTyped'
  BY <1>1, <1>2, <1>3 DEF LoopInv, LoopTyped
<1>5. LoopPlaced' /\ DroppedMarked' /\ SleepsArmed' /\ MarksAreSeen' /\ RemovalsSeen'
  BY <1>1 DEF LoopInv, LoopPlaced, DroppedMarked, SleepsArmed, MarksAreSeen, RemovalsSeen,
              Schedulable
<1>6. EveryoneHeld'
  <2> SUFFICES ASSUME NEW b \in Auths, (Schedulable(b) /\ b \notin disturbed)'
               PROVE  Held(b)'
    BY DEF EveryoneHeld
  <2>1. Held(b)
    BY <1>1 DEF LoopInv, EveryoneHeld, Schedulable
  <2>2. CASE \E i \in DOMAIN jobs : jobs[i] = b
    <3>1. PICK i \in DOMAIN jobs : jobs[i] = b
      BY <2>2
    <3>2. CASE i = 1
      BY <1>2, <1>3, <3>1, <3>2 DEF Held
    <3>3. CASE i # 1
      BY <1>2, <3>1, <3>3 DEF Held
    <3> QED BY <3>2, <3>3
  <2>3. CASE \E x \in Workers : working[x] = b
    <3>1. b # None
      OBVIOUS
    <3> QED BY <1>3, <2>3, <3>1 DEF Held
  <2>4. CASE ~ (\E i \in DOMAIN jobs : jobs[i] = b) /\ ~ \E x \in Workers : working[x] = b
    BY <1>1, <2>1, <2>4 DEF Held
  <2> QED BY <2>2, <2>3, <2>4
<1> QED BY <1>4, <1>5, <1>6 DEF LoopInv

(* queueRefreshUnschedule: only credentials that are gone, or were registered *)
(* again before it came, leave the queue.                                     *)
LEMMA UnscheduleKeeps ==
  ASSUME LoopInv, NEW a \in Auths, Unschedule(a)
  PROVE  LoopInv'
<1>1. /\ a \in unqueue /\ unqueue' = unqueue \ {a} /\ queue' = [queue EXCEPT ![a] = None]
      /\ queue \in [Auths -> Times]
      /\ UNCHANGED <<now, auths, dirty, wake, owed, ring, timer, pc, loopNow, entries,
                     todo, plan, jobs, working, disturbed>>
  BY DEF LoopInv, LoopTyped, Unschedule, loopVars, changeVars
<1>2. /\ queue' \in [Auths -> Times] /\ queue'[a] = None
      /\ \A b \in Auths \ {a} : queue'[b] = queue[b]
  BY <1>1 DEF Times
<1>3. LoopTyped'
  BY <1>1, <1>2 DEF LoopInv, LoopTyped
<1>4. LoopPlaced' /\ DroppedMarked' /\ SleepsArmed' /\ MarksAreSeen' /\ RemovalsSeen'
  <2>1. \A b \in Auths : queue[b] = None => queue'[b] = None
    BY <1>2
  <2> QED BY <1>1, <2>1 DEF LoopInv, LoopPlaced, DroppedMarked, SleepsArmed, MarksAreSeen,
                            RemovalsSeen, Schedulable
<1>5. EveryoneHeld'
  <2> SUFFICES ASSUME NEW b \in Auths, (Schedulable(b) /\ b \notin disturbed)'
               PROVE  Held(b)'
    BY DEF EveryoneHeld
  <2>1. Held(b) /\ b # a
    BY <1>1 DEF LoopInv, EveryoneHeld, RemovalsSeen, Schedulable
  <2> QED BY <1>1, <1>2, <2>1 DEF Held
<1> QED BY <1>3, <1>4, <1>5 DEF LoopInv

(* A credential changes outside the loop: one that becomes schedulable is  *)
(* rescheduled, or the change is one the loop does not learn of.           *)
LEMMA ChangeKeeps ==
  ASSUME LoopInv, NEW a \in Auths, NEW r \in Credentials,
         auths' = [auths EXCEPT ![a] = r],
         owed \subseteq owed', owed' \subseteq owed \cup {a},
         disturbed \subseteq disturbed',
         unqueue' \subseteq unqueue \cup {a},
         a \in unqueue' /\ r.present => a \in disturbed',
         r.present /\ ~r.unauthorized =>
           \/ Schedulable(a) /\ a \notin disturbed
           \/ a \in owed' \cup disturbed',
         UNCHANGED <<now, queue, dirty, wake, ring, timer, pc, loopNow, entries, todo,
                     plan, jobs>>,
         working' \in [Workers -> Auths \cup {None}],
         \A w \in Workers : working'[w] = working[w] \/ working[w] \in owed'
  PROVE  LoopInv'
<1>1. /\ auths' \in [Auths -> Credentials] /\ auths'[a] = r
      /\ \A b \in Auths \ {a} : auths'[b] = auths[b]
  BY DEF LoopInv, LoopTyped
<1>2. LoopTyped'
  BY <1>1 DEF LoopInv, LoopTyped
<1>3. LoopPlaced' /\ SleepsArmed' /\ MarksAreSeen'
  BY DEF LoopInv, LoopPlaced, SleepsArmed, MarksAreSeen
<1>4. RemovalsSeen'
  BY <1>1 DEF LoopInv, RemovalsSeen
<1>5. ASSUME NEW b \in Auths, (Schedulable(b) /\ b \notin disturbed)'
      PROVE  (Schedulable(b) /\ b \notin disturbed) \/ b \in owed'
  <2>1. CASE b = a
    BY <1>1, <1>5, <2>1 DEF Schedulable
  <2>2. CASE b # a
    BY <1>1, <1>5, <2>2 DEF Schedulable
  <2> QED BY <2>1, <2>2
<1>6. DroppedMarked'
  BY <1>5 DEF LoopInv, DroppedMarked
<1>7. EveryoneHeld'
  <2> SUFFICES ASSUME NEW b \in Auths, (Schedulable(b) /\ b \notin disturbed)'
               PROVE  Held(b)'
    BY DEF EveryoneHeld
  <2>1. CASE b \in owed'
    BY <2>1 DEF Held
  <2>2. CASE b \notin owed'
    <3>1. Held(b)
      BY <1>5, <2>2 DEF LoopInv, EveryoneHeld
    <3>2. \A w \in Workers : working[w] = b => working'[w] = b
      BY <2>2
    <3> QED BY <2>2, <3>1, <3>2 DEF Held
  <2> QED BY <2>1, <2>2
<1> QED BY <1>2, <1>3, <1>4, <1>6, <1>7 DEF LoopInv

(* What a refresh leaves behind is a credential, as present as before. *)
LEMMA RefreshedIs ==
  ASSUME LoopInv, NEW a \in Auths, NEW r \in Refreshed(auths[a])
  PROVE  r \in Credentials /\ r.present = auths[a].present
<1>1. /\ auths[a] \in Credentials /\ auths \in [Auths -> Credentials]
      /\ now \in Nat /\ now + Lifetime \in Nat /\ now + IdlePause \in Nat
      /\ now + FailurePause \in Nat
  BY DEF LoopInv, LoopTyped
<1>2. r \in Credentials
  <2> DEFINE c == auths[a]
             d == now + Lifetime
             i == now + IdlePause
             f == now + FailurePause
  <2>1. c \in Credentials /\ now \in Nat /\ d \in Nat /\ i \in Nat /\ f \in Nat
    BY <1>1
  <2>2. r \in {[c EXCEPT !.unauthorized = FALSE, !.dueAt = d, !.backoff = 0],
              [c EXCEPT !.unauthorized = FALSE, !.dueAt = now, !.backoff = i],
              [c EXCEPT !.unauthorized = FALSE, !.backoff = f], c,
              [c EXCEPT !.unauthorized = TRUE, !.backoff = 0]}
    BY DEF Refreshed
  <2> HIDE DEF c, d, i, f
  <2>3. /\ [c EXCEPT !.unauthorized = FALSE, !.dueAt = d, !.backoff = 0] \in Credentials
        /\ [c EXCEPT !.unauthorized = FALSE, !.dueAt = now, !.backoff = i] \in Credentials
        /\ [c EXCEPT !.unauthorized = FALSE, !.backoff = f] \in Credentials
        /\ [c EXCEPT !.unauthorized = TRUE, !.backoff = 0] \in Credentials
    BY <2>1 DEF Credentials
  <2> QED BY <2>1, <2>2, <2>3
<1>3. r.present = auths[a].present
  BY <1>1 DEF Refreshed, Credentials
<1> QED BY <1>2, <1>3

LEMMA RequestRefreshKeeps ==
  ASSUME LoopInv, NEW a \in Auths, RequestRefresh(a)
  PROVE  LoopInv'
<1>1. PICK r \in Refreshed(auths[a]) : auths' = [auths EXCEPT ![a] = r]
  BY DEF RequestRefresh
<1>2. r \in Credentials /\ r.present = auths[a].present
  BY RefreshedIs
<1>3. a \in unqueue => a \in disturbed
  BY DEF RequestRefresh, LoopInv, RemovalsSeen
<1>4. working \in [Workers -> Auths \cup {None}]
  BY DEF LoopInv, LoopTyped
<1>5. /\ owed' = owed \cup {a} /\ disturbed' = disturbed
      /\ UNCHANGED <<now, queue, dirty, wake, unqueue, ring, timer, pc, loopNow, entries,
                     todo, plan, jobs, working>>
  BY DEF RequestRefresh, Change, loopVars
<1> QED BY <1>1, <1>2, <1>3, <1>4, <1>5, ChangeKeeps

LEMMA ResultKeeps ==
  ASSUME LoopInv, NEW a \in Auths, ResultUnauthorized(a) \/ ResultSuccess(a)
  PROVE  LoopInv'
<1> DEFINE b == ~ResultSuccess(a)
           r == [auths[a] EXCEPT !.unauthorized = b]
<1>1. auths \in [Auths -> Credentials] /\ working \in [Workers -> Auths \cup {None}]
  BY DEF LoopInv, LoopTyped
<1>2. r \in Credentials
  BY <1>1, CredentialIs
<1>3. r.present = auths[a].present /\ r.unauthorized = b
  BY <1>1 DEF Credentials
<1>4. a \in unqueue /\ auths[a].present => a \in disturbed
  BY DEF LoopInv, RemovalsSeen
<1>5. /\ auths' = [auths EXCEPT ![a] = r]
      /\ disturbed \subseteq disturbed' /\ (~b => a \in disturbed')
      /\ UNCHANGED <<now, queue, dirty, wake, owed, unqueue, ring, timer, pc, loopNow,
                     entries, todo, plan, jobs, working>>
  <2>1. CASE ResultSuccess(a)
    BY <2>1 DEF ResultSuccess, Change, auxVars, loopVars
  <2>2. CASE ~ResultSuccess(a)
    BY <2>2 DEF ResultUnauthorized, Change, auxVars, loopVars
  <2> QED BY <2>1, <2>2
<1> HIDE DEF b, r
<1> QED BY <1>1, <1>2, <1>3, <1>4, <1>5, ChangeKeeps

LEMMA RegisterAuthKeeps ==
  ASSUME LoopInv, NEW a \in Auths, RegisterAuth(a)
  PROVE  LoopInv'
<1>1. PICK due \in {now, now + Lifetime} :
        auths' = [auths EXCEPT ![a] = [present |-> TRUE, unauthorized |-> FALSE,
                                       dueAt |-> due, backoff |-> 0]]
  BY DEF RegisterAuth
<1> DEFINE r == [present |-> TRUE, unauthorized |-> FALSE, dueAt |-> due, backoff |-> 0]
<1>2. r \in Credentials
  BY DEF Credentials, LoopInv, LoopTyped
<1>3. working \in [Workers -> Auths \cup {None}]
  BY DEF LoopInv, LoopTyped
<1>4. /\ owed' = owed \cup {a} /\ disturbed' = disturbed \cup ({a} \cap unqueue)
      /\ UNCHANGED <<now, queue, dirty, wake, unqueue, ring, timer, pc, loopNow, entries,
                     todo, plan, jobs, working>>
  BY DEF RegisterAuth, Change, loopVars
<1> HIDE DEF r
<1> QED BY <1>1, <1>2, <1>3, <1>4, ChangeKeeps DEF r

LEMMA RemoveAuthKeeps ==
  ASSUME LoopInv, NEW a \in Auths, RemoveAuth(a)
  PROVE  LoopInv'
<1> DEFINE r == [auths[a] EXCEPT !.present = FALSE]
<1>1. auths \in [Auths -> Credentials] /\ working \in [Workers -> Auths \cup {None}]
  BY DEF LoopInv, LoopTyped
<1>2. r \in Credentials
  BY <1>1, CredentialIs
<1>6. ~r.present
  BY <1>1 DEF Credentials
<1>3. /\ auths' = [auths EXCEPT ![a] = r]
      /\ unqueue' = unqueue \cup {a} /\ disturbed' = disturbed
      /\ UNCHANGED <<now, queue, dirty, wake, owed, ring, timer, pc, loopNow, entries,
                     todo, plan, jobs, working>>
  BY DEF RemoveAuth, Change, loopVars
<1> HIDE DEF r
<1> QED BY <1>1, <1>2, <1>3, <1>6, ChangeKeeps

(* The worker reschedules its credential whatever came of the refresh. *)
LEMMA WorkerDoneKeeps ==
  ASSUME LoopInv, NEW w \in Workers, WorkerDone(w)
  PROVE  LoopInv'
<1> DEFINE a == working[w]
<1>1. /\ a \in Auths /\ working \in [Workers -> Auths \cup {None}]
      /\ auths \in [Auths -> Credentials]
  BY DEF WorkerDone, LoopInv, LoopTyped
<1>2. /\ auths' \in AfterRefresh(a) /\ owed' = owed \cup {a} /\ disturbed' = disturbed
      /\ working' = [working EXCEPT ![w] = None]
      /\ UNCHANGED <<now, queue, dirty, wake, unqueue, ring, timer, pc, loopNow, entries,
                     todo, plan, jobs>>
  BY DEF WorkerDone, loopVars, changeVars
<1>3. PICK r \in Credentials : /\ auths' = [auths EXCEPT ![a] = r]
                               /\ r.present = auths[a].present
  <2>1. CASE auths[a].present /\ a \in WithExecutor
    <3>1. PICK r \in Refreshed(auths[a]) : auths' = [auths EXCEPT ![a] = r]
      BY <1>2, <2>1 DEF AfterRefresh
    <3>2. r \in Credentials /\ r.present = auths[a].present
      BY <1>1, RefreshedIs
    <3> QED BY <3>1, <3>2
  <2>2. CASE ~(auths[a].present /\ a \in WithExecutor)
    <3>1. auths' = [auths EXCEPT ![a] = auths[a]] /\ auths[a] \in Credentials
      BY <1>1, <1>2, <2>2 DEF AfterRefresh
    <3> QED BY <3>1
  <2> QED BY <2>1, <2>2
<1>4. /\ working' \in [Workers -> Auths \cup {None}]
      /\ \A x \in Workers : working'[x] = working[x] \/ working[x] \in owed'
  BY <1>1, <1>2
<1>5. a \in unqueue' /\ r.present => a \in disturbed'
  BY <1>1, <1>2, <1>3 DEF LoopInv, RemovalsSeen
<1> HIDE DEF a
<1> QED BY <1>1, <1>2, <1>3, <1>4, <1>5, ChangeKeeps

(* The invariant holds from the start and every step keeps it. *)
LEMMA LoopInvariance == Spec => []LoopInv
<1>1. Init => LoopInv
  <2> SUFFICES ASSUME Init PROVE LoopInv
    OBVIOUS
  <2>1. LoopTyped
    <3>1. NoPlan \in LoopPlans /\ <<>> \in Seq(Auths)
      BY DEF NoPlan, LoopPlans
    <3>2. auths \in [Auths -> Credentials]
      <4>1. [present : BOOLEAN, unauthorized : {FALSE}, dueAt : {0}, backoff : {0}]
              \subseteq Credentials
        <5> SUFFICES ASSUME NEW r \in [present : BOOLEAN, unauthorized : {FALSE},
                                       dueAt : {0}, backoff : {0}]
                     PROVE  r \in Credentials
          OBVIOUS
        <5>1. r.present \in BOOLEAN /\ r.unauthorized = FALSE
          BY Zenon
        <5>3. r.dueAt \in Nat /\ r.backoff \in Nat
          OBVIOUS
        <5>2. r = [present |-> r.present, unauthorized |-> r.unauthorized,
                   dueAt |-> r.dueAt, backoff |-> r.backoff]
          OBVIOUS
        <5> QED BY <5>1, <5>2, <5>3 DEF Credentials
      <4> QED BY <4>1 DEF Init
    <3> QED BY <3>1, <3>2 DEF Init, LoopTyped, Times, LoopPlaces
  <2>2. LoopPlaced /\ DroppedMarked /\ RemovalsSeen
    BY DEF Init, LoopPlaced, LoopRounds, NoPlan, DroppedMarked, RemovalsSeen
  <2>3. EveryoneHeld /\ SleepsArmed /\ MarksAreSeen
    BY DEF Init, EveryoneHeld, Held, SleepsArmed, MarksAreSeen
  <2> QED BY <2>1, <2>2, <2>3 DEF LoopInv
<1>2. LoopInv /\ [Next]_vars => LoopInv'
  <2> SUFFICES ASSUME LoopInv, [Next]_vars PROVE LoopInv'
    OBVIOUS
  <2>1. CASE Loop
    BY <2>1, RebuildReadKeeps, RebuildInstallKeeps, LoopStartsKeeps, resetTimerKeeps,
       WokenKeeps, DueReadKeeps, DirtyReadKeeps, DueActKeeps, ClaimMarkedKeeps,
       SendJobKeeps, DueDoneKeeps, drainDirtyKeeps, DirtyActKeeps, DirtyDoneKeeps DEF Loop
  <2>2. CASE TimerFires
    BY <2>2, TimerFiresKeeps
  <2>3. ASSUME NEW a \in Auths,
               \/ MarkDirty(a) \/ Unschedule(a)
               \/ RequestRefresh(a) \/ ResultUnauthorized(a) \/ ResultSuccess(a)
               \/ RegisterAuth(a) \/ RemoveAuth(a)
        PROVE  LoopInv'
    BY <2>3, MarkDirtyKeeps, UnscheduleKeeps, RequestRefreshKeeps, ResultKeeps,
       RegisterAuthKeeps, RemoveAuthKeeps
  <2>4. CASE Ring
    BY <2>4, RingKeeps
  <2>5. ASSUME NEW w \in Workers, TakeJob(w) \/ WorkerDone(w) PROVE LoopInv'
    BY <2>5, TakeJobKeeps, WorkerDoneKeeps
  <2>6. CASE Tick
    BY <2>6, TickKeeps
  <2>7. CASE UNCHANGED vars
    <3>1. LoopTyped' /\ LoopPlaced' /\ DroppedMarked' /\ RemovalsSeen' /\ SleepsArmed'
          /\ MarksAreSeen'
      BY <2>7 DEF LoopInv, vars, auxVars, loopVars, changeVars, LoopTyped, LoopPlaced,
                  DroppedMarked, Schedulable, RemovalsSeen, SleepsArmed, MarksAreSeen
    <3>2. EveryoneHeld'
      BY <2>7 DEF LoopInv, vars, auxVars, loopVars, changeVars, EveryoneHeld, Held,
                  Schedulable
    <3> QED BY <3>1, <3>2 DEF LoopInv
  <2> QED BY <2>1, <2>2, <2>3, <2>4, <2>5, <2>6, <2>7 DEF Next
<1> QED BY <1>1, <1>2, PTL DEF Spec

(* A marked credential never waits for a loop that sleeps: queueReschedule *)
(* puts the mark before the token and the loop takes the token before it   *)
(* drains the marks.                                                       *)
THEOREM AllMarksSeen == Spec => []MarksAreSeen
<1>1. LoopInv => MarksAreSeen
  BY DEF LoopInv
<1> QED BY <1>1, LoopInvariance, PTL

(* A loop that sleeps while somebody is queued has its timer set           *)
(* (resetTimer).                                                           *)
THEOREM AlwaysArmed == Spec => []SleepsArmed
<1>1. LoopInv => SleepsArmed
  BY DEF LoopInv
<1> QED BY <1>1, LoopInvariance, PTL

(* No credential that can be refreshed is lost between the queue and its   *)
(* timer, the marks, the round, the jobs and the workers (queueReschedule, *)
(* rebuild, popDue, handleDueAuth, applyDirty, worker).                    *)
THEOREM NobodyEverForgotten == Spec => []NobodyForgotten
<1>1. LoopInv => NobodyForgotten
  BY DEF LoopInv, EveryoneHeld, Held, SleepsArmed, NobodyForgotten, Tracked
<1> QED BY <1>1, LoopInvariance, PTL

HIDE RefreshLoopAssumption DEF RefreshLoopAssumption

----------------------------------------------------------------------------
(* Sums over finite sets *)

(* The sum is defined by a table over the subsets. *)
Pick1(s) == CHOOSE x \in s : TRUE
SumTable(g, f, S) ==
  g = [s \in SUBSET S |-> IF s = {} THEN 0 ELSE f[Pick1(s)] + g[s \ {Pick1(s)}]]

LEMMA SumIsTable ==
  ASSUME NEW f, NEW S
  PROVE  SumFunctionOnSet(f, S) = (CHOOSE g : SumTable(g, f, S))[S]
BY DEF SumFunctionOnSet, FoldFunctionOnSet, MapThenFoldSet, SumTable, Pick1

LEMMA LeastSize ==
  ASSUME NEW S \in SUBSET Nat, S # {}
  PROVE  \E x \in S : \A y \in S : x <= y
<1> DEFINE Smaller == {p \in Nat \X Nat : p[1] < p[2]}
<1>1. IsWellFoundedOn(Smaller, Nat)
  BY NatLessThanWellFounded DEF OpToRel
<1>2. PICK x \in S : \A y \in S : <<y, x>> \notin Smaller
  <2> HIDE DEF Smaller
  <2> QED BY WFMin, <1>1
<1>3. ASSUME NEW y \in S PROVE x <= y
  <2>1. <<y, x>> \in Nat \X Nat /\ <<y, x>>[1] = y /\ <<y, x>>[2] = x
    OBVIOUS
  <2>2. y \in Nat /\ x \in Nat /\ ~(y < x)
    BY <2>1, <1>2
  <2> QED BY ONLY <2>2
<1> QED BY <1>3

(* A set of subsets of a finite set that is not empty has a smallest member. *)
LEMMA SmallestSet ==
  ASSUME NEW S, IsFiniteSet(S), NEW B \in SUBSET (SUBSET S), B # {}
  PROVE  \E s \in B : \A t \in B : ~(t \subseteq s /\ t # s)
<1> DEFINE N == {Cardinality(s) : s \in B}
<1>1. \A s \in B : IsFiniteSet(s) /\ Cardinality(s) \in Nat
  BY FS_Subset, FS_CardinalityType
<1>2. N \in SUBSET Nat /\ N # {}
  BY <1>1
<1>3. PICK n \in N : \A k \in N : n <= k
  <2> HIDE DEF N
  <2> QED BY <1>2, LeastSize
<1>4. PICK s \in B : Cardinality(s) = n
  OBVIOUS
<1>5. ASSUME NEW t \in B, t \subseteq s, t # s PROVE FALSE
  <2>1. IsFiniteSet(s) /\ Cardinality(t) <= Cardinality(s) /\ Cardinality(t) # Cardinality(s)
    BY <1>1, <1>5, FS_Subset
  <2>2. n <= Cardinality(t) /\ n \in Nat /\ Cardinality(t) \in Nat
    BY <1>1, <1>2, <1>3
  <2> QED BY <1>4, <2>1, <2>2
<1> QED BY <1>5

LEMMA PickIn ==
  ASSUME NEW s, s # {}
  PROVE  Pick1(s) \in s
BY DEF Pick1

LEMMA TableExists ==
  ASSUME NEW f, NEW S, IsFiniteSet(S)
  PROVE  \E g : SumTable(g, f, S)
<1> DEFINE Small(n) == {s \in SUBSET S : Cardinality(s) <= n}
           Entry(g, s) == IF s = {} THEN 0 ELSE f[Pick1(s)] + g[s \ {Pick1(s)}]
           Upto(g, n) == g = [s \in Small(n) |-> Entry(g, s)]
<1>1. \A s \in SUBSET S : /\ IsFiniteSet(s) /\ Cardinality(s) \in Nat
                          /\ Cardinality(s) <= Cardinality(S)
  BY FS_Subset, FS_CardinalityType
<1>2. Cardinality(S) \in Nat
  BY FS_CardinalityType
<1>3. \A s \in SUBSET S : s # {} =>
        /\ s \ {Pick1(s)} \in SUBSET S
        /\ Cardinality(s \ {Pick1(s)}) = Cardinality(s) - 1
  BY <1>1, PickIn, FS_RemoveElement
<1>4. \A n \in Nat : \E g : Upto(g, n)
  <2> DEFINE B == {n \in Nat : ~ \E g : Upto(g, n)}
  <2> SUFFICES ASSUME B # {} PROVE FALSE
    OBVIOUS
  <2>1. PICK n \in B : \A k \in B : n <= k
    <3>1. B \in SUBSET Nat
      OBVIOUS
    <3> HIDE DEF B
    <3> QED BY <3>1, LeastSize
  <2>2. CASE n = 0
    <3> DEFINE g == [s \in Small(0) |-> 0]
    <3>1. \A s \in Small(0) : s = {}
      BY <1>1, FS_EmptySet
    <3>2. Upto(g, 0)
      <4>1. \A s \in Small(0) : Entry(g, s) = 0
        BY <3>1
      <4> HIDE DEF Entry
      <4> QED BY <4>1
    <3> HIDE DEF Upto
    <3> QED BY <2>2, <3>2
  <2>3. CASE n # 0
    <3>1. n \in Nat /\ n - 1 \in Nat
      BY <2>3
    <3>2. n - 1 \notin B
      <4> HIDE DEF B
      <4> QED BY <2>1, <3>1
    <3>3. PICK g : Upto(g, n - 1)
      BY <3>1, <3>2
    <3> DEFINE h == [s \in Small(n) |-> Entry(g, s)]
    <3>4. \A s \in Small(n - 1) : s \in Small(n) /\ g[s] = Entry(g, s)
      <4>1. \A s \in Small(n - 1) : s \in Small(n)
        BY <1>1, <3>1
      <4> HIDE DEF Small, Entry
      <4> QED BY <3>3, <4>1
    <3>5. \A s \in Small(n - 1) : h[s] = g[s]
      <4> HIDE DEF Small, Entry
      <4> QED BY <3>4
    <3>6. \A s \in Small(n) : Entry(h, s) = Entry(g, s)
      <4> TAKE s \in Small(n)
      <4>1. CASE s = {}
        BY <4>1
      <4>2. CASE s # {}
        <5>1. s \ {Pick1(s)} \in Small(n - 1)
          BY <1>1, <1>3, <3>1, <4>2
        <5>2. h[s \ {Pick1(s)}] = g[s \ {Pick1(s)}]
          BY <3>5, <5>1
        <5> HIDE DEF h
        <5> QED BY <4>2, <5>2
      <4> QED BY <4>1, <4>2
    <3>7. Upto(h, n)
      <4> HIDE DEF Small, Entry
      <4> QED BY <3>6
    <3> HIDE DEF Upto, h
    <3> QED BY <2>1, <3>7
  <2> QED BY <2>2, <2>3
<1>5. PICK g : Upto(g, Cardinality(S))
  <2> HIDE DEF Upto
  <2> QED BY <1>2, <1>4
<1>6. Small(Cardinality(S)) = SUBSET S
  BY <1>1
<1>7. SumTable(g, f, S)
  <2> HIDE DEF Small
  <2> QED BY <1>5, <1>6 DEF SumTable
<1> QED BY <1>7

(* Tables agree where both speak, and so do those of two functions that    *)
(* agree on the set.                                                       *)
LEMMA TablesAgree ==
  ASSUME NEW f, NEW e, NEW S, NEW T, IsFiniteSet(S), T \subseteq S,
         \A x \in T : f[x] = e[x],
         NEW g, SumTable(g, f, S), NEW h, SumTable(h, e, T)
  PROVE  \A s \in SUBSET T : g[s] = h[s]
<1> DEFINE B == {s \in SUBSET T : g[s] # h[s]}
<1> SUFFICES ASSUME B # {} PROVE FALSE
  OBVIOUS
<1>1. IsFiniteSet(T)
  BY FS_Subset
<1>2. PICK s \in B : \A t \in B : ~(t \subseteq s /\ t # s)
  <2>1. B \in SUBSET (SUBSET T)
    OBVIOUS
  <2> HIDE DEF B
  <2> QED BY <1>1, <2>1, SmallestSet
<1>3. /\ g[s] = IF s = {} THEN 0 ELSE f[Pick1(s)] + g[s \ {Pick1(s)}]
      /\ h[s] = IF s = {} THEN 0 ELSE e[Pick1(s)] + h[s \ {Pick1(s)}]
  BY DEF SumTable
<1>4. s # {} /\ Pick1(s) \in s
  BY <1>3, PickIn
<1>5. s \ {Pick1(s)} \in SUBSET T /\ s \ {Pick1(s)} \notin B
  BY <1>2, <1>4
<1>6. g[s \ {Pick1(s)}] = h[s \ {Pick1(s)}]
  BY <1>5
<1> QED BY <1>3, <1>4, <1>6

(* The sum over a finite set is given by the table of the set, and of any  *)
(* larger one.                                                             *)
LEMMA SumFromTable ==
  ASSUME NEW f, NEW S, IsFiniteSet(S), NEW g, SumTable(g, f, S)
  PROVE  \A s \in SUBSET S : SumFunctionOnSet(f, s) = g[s]
<1> TAKE s \in SUBSET S
<1>1. IsFiniteSet(s)
  BY FS_Subset
<1> DEFINE h == CHOOSE h : SumTable(h, f, s)
<1>2. SumTable(h, f, s)
  BY <1>1, TableExists
<1> HIDE DEF h
<1>3. g[s] = h[s]
  BY <1>2, TablesAgree
<1> QED BY <1>3, SumIsTable DEF h

LEMMA SumEmpty ==
  ASSUME NEW f
  PROVE  SumFunctionOnSet(f, {}) = 0
<1>1. IsFiniteSet({})
  BY FS_EmptySet
<1>2. PICK g : SumTable(g, f, {})
  BY <1>1, TableExists
<1>3. g[{}] = 0
  BY <1>2 DEF SumTable
<1> QED BY <1>1, <1>2, <1>3, SumFromTable

LEMMA SumStep ==
  ASSUME NEW f, NEW S, IsFiniteSet(S), S # {}
  PROVE  SumFunctionOnSet(f, S) = f[Pick1(S)] + SumFunctionOnSet(f, S \ {Pick1(S)})
<1>1. PICK g : SumTable(g, f, S)
  BY TableExists
<1>2. g[S] = f[Pick1(S)] + g[S \ {Pick1(S)}]
  BY <1>1 DEF SumTable
<1>3. /\ SumFunctionOnSet(f, S) = g[S]
      /\ SumFunctionOnSet(f, S \ {Pick1(S)}) = g[S \ {Pick1(S)}]
  BY <1>1, SumFromTable
<1> QED BY <1>2, <1>3

(* Only the values on the set count. *)
LEMMA SumSame ==
  ASSUME NEW f, NEW e, NEW S, IsFiniteSet(S), \A x \in S : f[x] = e[x]
  PROVE  SumFunctionOnSet(f, S) = SumFunctionOnSet(e, S)
<1>1. PICK g : SumTable(g, f, S)
  BY TableExists
<1>2. PICK h : SumTable(h, e, S)
  BY TableExists
<1>3. g[S] = h[S]
  BY <1>1, <1>2, TablesAgree
<1>4. SumFunctionOnSet(f, S) = g[S] /\ SumFunctionOnSet(e, S) = h[S]
  BY <1>1, <1>2, SumFromTable
<1> QED BY <1>3, <1>4

(* A sum of natural numbers is one. *)
LEMMA SumNat ==
  ASSUME NEW f, NEW S, IsFiniteSet(S), \A x \in S : f[x] \in Nat
  PROVE  SumFunctionOnSet(f, S) \in Nat
<1> DEFINE B == {s \in SUBSET S : SumFunctionOnSet(f, s) \notin Nat}
<1> SUFFICES ASSUME B # {} PROVE FALSE
  OBVIOUS
<1>1. PICK s \in B : \A t \in B : ~(t \subseteq s /\ t # s)
  <2>1. B \in SUBSET (SUBSET S)
    OBVIOUS
  <2> HIDE DEF B
  <2> QED BY <2>1, SmallestSet
<1>2. IsFiniteSet(s) /\ SumFunctionOnSet(f, s) \notin Nat
  BY FS_Subset
<1>3. s # {} /\ Pick1(s) \in s
  BY <1>2, SumEmpty, PickIn
<1>4. s \ {Pick1(s)} \in SUBSET S /\ s \ {Pick1(s)} \notin B
  BY <1>1, <1>3
<1>5. SumFunctionOnSet(f, s \ {Pick1(s)}) \in Nat /\ f[Pick1(s)] \in Nat
  BY <1>3, <1>4
<1>6. SumFunctionOnSet(f, s) = f[Pick1(s)] + SumFunctionOnSet(f, s \ {Pick1(s)})
  BY <1>2, <1>3, SumStep
<1> QED BY <1>2, <1>5, <1>6

(* Any member may be taken out first. *)
LEMMA SumRemove ==
  ASSUME NEW f, NEW S, IsFiniteSet(S), \A x \in S : f[x] \in Nat, NEW z \in S
  PROVE  SumFunctionOnSet(f, S) = f[z] + SumFunctionOnSet(f, S \ {z})
<1> DEFINE Rest(s) == SumFunctionOnSet(f, s)
           B == {s \in SUBSET S : \E x \in s : Rest(s) # f[x] + Rest(s \ {x})}
<1> SUFFICES ASSUME B # {} PROVE FALSE
  OBVIOUS
<1>1. PICK s \in B : \A t \in B : ~(t \subseteq s /\ t # s)
  <2>1. B \in SUBSET (SUBSET S)
    OBVIOUS
  <2> HIDE DEF B
  <2> QED BY <2>1, SmallestSet
<1>2. s \in SUBSET S
  OBVIOUS
<1>3. PICK x \in s : Rest(s) # f[x] + Rest(s \ {x})
  OBVIOUS
<1>4. IsFiniteSet(s)
  BY <1>2, FS_Subset
<1> DEFINE y == Pick1(s)
<1>5. y \in s /\ Rest(s) = f[y] + Rest(s \ {y})
  BY <1>3, <1>4, PickIn, SumStep
<1> HIDE DEF y
<1>6. y # x
  BY <1>3, <1>5
(* Each order of taking the two out gives the same. *)
<1>7. \A t \in SUBSET S : t \subseteq s /\ t # s =>
        \A v \in t : Rest(t) = f[v] + Rest(t \ {v})
  <2> TAKE t \in SUBSET S
  <2> SUFFICES ASSUME t \subseteq s, t # s
               PROVE  \A v \in t : Rest(t) = f[v] + Rest(t \ {v})
    OBVIOUS
  <2>1. t \notin B
    <3> HIDE DEF B
    <3> QED BY <1>1
  <2> QED BY <2>1
<1>8. Rest(s \ {y}) = f[x] + Rest((s \ {y}) \ {x})
  <2>1. /\ s \ {y} \in SUBSET S /\ s \ {y} \subseteq s /\ s \ {y} # s
        /\ x \in s \ {y}
    BY <1>2, <1>5, <1>6
  <2> HIDE DEF Rest
  <2> QED BY <1>7, <2>1
<1>9. Rest(s \ {x}) = f[y] + Rest((s \ {x}) \ {y})
  <2>1. /\ s \ {x} \in SUBSET S /\ s \ {x} \subseteq s /\ s \ {x} # s
        /\ y \in s \ {x}
    BY <1>2, <1>5, <1>6
  <2> HIDE DEF Rest
  <2> QED BY <1>7, <2>1
<1>10. (s \ {y}) \ {x} = (s \ {x}) \ {y}
  OBVIOUS
<1>11. Rest((s \ {x}) \ {y}) \in Nat /\ f[x] \in Nat /\ f[y] \in Nat
  <2>1. /\ IsFiniteSet((s \ {x}) \ {y})
        /\ \A v \in (s \ {x}) \ {y} : f[v] \in Nat
    BY <1>2, <1>4, FS_Subset
  <2> QED BY <2>1, <1>2, <1>5, SumNat
<1>12. ASSUME NEW d \in Nat, Rest((s \ {x}) \ {y}) = d, Rest((s \ {y}) \ {x}) = d
       PROVE  FALSE
  <2>1. /\ Rest(s \ {y}) = f[x] + d /\ Rest(s) = f[y] + Rest(s \ {y})
        /\ Rest(s \ {x}) = f[y] + d /\ Rest(s) # f[x] + Rest(s \ {x})
        /\ f[x] \in Nat /\ f[y] \in Nat
    BY <1>3, <1>5, <1>8, <1>9, <1>11, <1>12
  <2> HIDE DEF Rest
  <2> QED BY ONLY <2>1, d \in Nat
<1> QED BY <1>10, <1>11, <1>12

(* A part of a sum is no larger than the whole. *)
LEMMA SumSubset ==
  ASSUME NEW f, NEW S, IsFiniteSet(S), \A x \in S : f[x] \in Nat,
         NEW A \in SUBSET S
  PROVE  SumFunctionOnSet(f, A) <= SumFunctionOnSet(f, S)
<1> DEFINE Total(s) == SumFunctionOnSet(f, s)
           B == {s \in SUBSET S : ~(Total(A \cap s) <= Total(s))}
<1> SUFFICES ASSUME B # {} PROVE FALSE
  <2> SUFFICES ASSUME ~(Total(A) <= Total(S)) PROVE B # {}
    OBVIOUS
  <2>1. A \cap S = A
    OBVIOUS
  <2> QED BY <2>1
<1>1. PICK s \in B : \A t \in B : ~(t \subseteq s /\ t # s)
  <2>1. B \in SUBSET (SUBSET S)
    OBVIOUS
  <2> HIDE DEF B
  <2> QED BY <2>1, SmallestSet
<1>2. s \in SUBSET S /\ ~(Total(A \cap s) <= Total(s))
  OBVIOUS
<1>3. s # {}
  <2>1. A \cap {} = {} /\ Total({}) = 0
    BY SumEmpty
  <2> QED BY <1>2, <2>1
<1>4. PICK x \in s : TRUE
  BY <1>3
<1>5. Total(A \cap (s \ {x})) <= Total(s \ {x})
  <2>1. s \ {x} \in SUBSET S /\ s \ {x} \subseteq s /\ s \ {x} # s
    BY <1>2
  <2>2. s \ {x} \notin B
    <3> HIDE DEF B
    <3> QED BY <1>1, <2>1
  <2> QED BY <2>1, <2>2
<1>6. /\ IsFiniteSet(s) /\ IsFiniteSet(A \cap s)
      /\ IsFiniteSet(s \ {x}) /\ IsFiniteSet(A \cap (s \ {x}))
  BY <1>2, FS_Subset
<1>7. /\ Total(s \ {x}) \in Nat /\ Total(A \cap (s \ {x})) \in Nat
      /\ f[x] \in Nat
  BY <1>2, <1>6, SumNat
<1>8. Total(s) = f[x] + Total(s \ {x})
  BY <1>2, <1>6, SumRemove
<1>9. CASE x \in A
  <2>1. Total(A \cap s) = f[x] + Total((A \cap s) \ {x})
    BY <1>2, <1>6, <1>9, SumRemove
  <2>2. (A \cap s) \ {x} = A \cap (s \ {x})
    OBVIOUS
  <2>3. Total(A \cap s) = f[x] + Total(A \cap (s \ {x}))
    BY <2>1, <2>2
  <2> HIDE DEF Total
  <2> QED BY ONLY <1>2, <1>5, <1>7, <1>8, <2>3
<1>10. CASE x \notin A
  <2>1. A \cap s = A \cap (s \ {x})
    BY <1>10
  <2>2. Total(A \cap s) = Total(A \cap (s \ {x}))
    BY <2>1
  <2> HIDE DEF Total
  <2> QED BY ONLY <1>2, <1>5, <1>7, <1>8, <2>2
<1> QED BY <1>9, <1>10

----------------------------------------------------------------------------
(* One client's part of a registration. *)

Under(f, pr, p) == SumFunctionOnSet(f, {c \in Clients : pr[c] = p})

(* What CountsAgree says of one model, with its type. *)
Accounts(reg, f, pr) ==
  /\ reg \in Registration
  /\ \A p \in Providers : reg.providers[p] = Under(f, pr, p)
  /\ reg.count = SumFunctionOnSet(f, Clients)
  /\ reg.count = 0 => reg = NoRegistration

(* The others list rest copies, others[p] of them under p, and one client  *)
(* lists own copies under op.                                              *)
Part(reg, rest, others, op, own) ==
  /\ reg \in Registration
  /\ reg.count = rest + own
  /\ \A p \in Providers :
       reg.providers[p] = IF p = op THEN others[p] + own ELSE others[p]
  /\ reg.count = 0 => reg = NoRegistration

Others(f, pr, c) ==
  [p \in Providers |-> SumFunctionOnSet(f, {d \in Clients \ {c} : pr[d] = p})]
Rest(f, c) == SumFunctionOnSet(f, Clients \ {c})

LEMMA OthersTyped ==
  ASSUME NEW f \in [Clients -> Nat], NEW pr, NEW c \in Clients
  PROVE  /\ Rest(f, c) \in Nat
         /\ Others(f, pr, c) \in [Providers -> Nat]
         /\ \A p \in Providers : Others(f, pr, c)[p] <= Rest(f, c)
<1>1. IsFiniteSet(Clients \ {c})
  BY RegistryAssumption, FS_Subset
<1>2. Rest(f, c) \in Nat
  BY <1>1, SumNat DEF Rest
<1>3. ASSUME NEW p \in Providers
      PROVE  /\ Others(f, pr, c)[p] \in Nat
             /\ Others(f, pr, c)[p] <= Rest(f, c)
  <2> DEFINE D == {d \in Clients \ {c} : pr[d] = p}
  <2>1. D \in SUBSET (Clients \ {c}) /\ IsFiniteSet(D)
    BY <1>1, FS_Subset
  <2>2. Others(f, pr, c)[p] = SumFunctionOnSet(f, D)
    BY DEF Others
  <2>3. SumFunctionOnSet(f, D) \in Nat
    BY <2>1, SumNat
  <2>4. SumFunctionOnSet(f, D) <= SumFunctionOnSet(f, Clients \ {c})
    <3> HIDE DEF D
    <3> QED BY <1>1, <2>1, SumSubset
  <2> QED BY <2>2, <2>3, <2>4 DEF Rest
<1> QED BY <1>2, <1>3 DEF Others

(* The whole and the part of one client say the same. *)
LEMMA AccountsIsPart ==
  ASSUME NEW f \in [Clients -> Nat], NEW pr, NEW c \in Clients, NEW reg
  PROVE  Accounts(reg, f, pr)
           <=> Part(reg, Rest(f, c), Others(f, pr, c), pr[c], f[c])
<1>1. IsFiniteSet(Clients)
  BY RegistryAssumption
<1>2. SumFunctionOnSet(f, Clients) = f[c] + Rest(f, c)
  BY <1>1, SumRemove DEF Rest
<1>3. ASSUME NEW p \in Providers
      PROVE  Under(f, pr, p) = IF p = pr[c] THEN Others(f, pr, c)[p] + f[c]
                               ELSE Others(f, pr, c)[p]
  <2> DEFINE D == {d \in Clients : pr[d] = p}
             E == {d \in Clients \ {c} : pr[d] = p}
  <2>1. IsFiniteSet(D) /\ D \in SUBSET Clients
    BY <1>1, FS_Subset
  <2>2. Others(f, pr, c)[p] = SumFunctionOnSet(f, E)
    BY DEF Others
  <2>3. CASE p = pr[c]
    <3>1. c \in D /\ E = D \ {c}
      BY <2>3
    <3>2. SumFunctionOnSet(f, D) = f[c] + SumFunctionOnSet(f, D \ {c})
      BY <2>1, <3>1, SumRemove
    <3>3. f[c] \in Nat /\ Others(f, pr, c)[p] \in Nat
      BY OthersTyped
    <3>4. Under(f, pr, p) = f[c] + Others(f, pr, c)[p]
      BY <2>2, <3>1, <3>2 DEF Under
    <3> QED BY <2>3, <3>3, <3>4
  <2>4. CASE p # pr[c]
    <3>1. E = D
      BY <2>4
    <3> QED BY <2>2, <2>4, <3>1 DEF Under
  <2> QED BY <2>3, <2>4
<1>4. f[c] \in Nat /\ Rest(f, c) \in Nat
  BY OthersTyped
<1>5. f[c] + Rest(f, c) = Rest(f, c) + f[c]
  BY <1>4
<1> QED BY <1>2, <1>3, <1>5 DEF Accounts, Part

(* Only one client's copies and provider change: what the others list      *)
(* stays.                                                                  *)
LEMMA OthersStay ==
  ASSUME NEW f, NEW g, NEW pr, NEW pr2, NEW c \in Clients,
         \A d \in Clients \ {c} : f[d] = g[d] /\ pr[d] = pr2[d]
  PROVE  Rest(f, c) = Rest(g, c) /\ Others(f, pr, c) = Others(g, pr2, c)
<1>1. IsFiniteSet(Clients \ {c})
  BY RegistryAssumption, FS_Subset
<1>2. Rest(f, c) = Rest(g, c)
  BY <1>1, SumSame DEF Rest
<1>3. ASSUME NEW p \in Providers
      PROVE  Others(f, pr, c)[p] = Others(g, pr2, c)[p]
  <2> DEFINE D == {d \in Clients \ {c} : pr[d] = p}
             E == {d \in Clients \ {c} : pr2[d] = p}
  <2>1. D = E /\ IsFiniteSet(D)
    BY <1>1, FS_Subset
  <2>2. \A d \in D : f[d] = g[d]
    OBVIOUS
  <2>3. SumFunctionOnSet(f, D) = SumFunctionOnSet(g, E)
    BY <2>1, <2>2, SumSame
  <2> QED BY <2>3 DEF Others
<1> QED BY <1>2, <1>3 DEF Others

----------------------------------------------------------------------------
(* What the operations on one registration do to a part of it. *)

LEMMA NoRegistrationTyped == NoRegistration \in Registration
<1>1. [c \in Clients |-> Never] \in [Clients -> Int]
  BY DEF Never
<1>2. [c \in Clients |-> "none"] \in [Clients -> Reasons]
  BY DEF Reasons
<1> QED BY <1>1, <1>2 DEF NoRegistration, Registration

LEMMA RegistrationFields ==
  ASSUME NEW reg \in Registration
  PROVE  /\ reg.count \in Nat /\ reg.providers \in [Providers -> Nat]
         /\ reg.info \in Infos \cup {NoInfo}
         /\ reg.quota \in [Clients -> Int]
         /\ reg.suspended \in [Clients -> Reasons]
BY DEF Registration

LEMMA ClearMarksTyped ==
  ASSUME NEW reg \in Registration, NEW c \in Clients
  PROVE  /\ ClearMarks(reg, c) \in Registration
         /\ ClearMarks(reg, c).count = reg.count
         /\ ClearMarks(reg, c).providers = reg.providers
<1>1. Never \in Int /\ "none" \in Reasons
  BY DEF Never, Reasons
<1> QED BY <1>1 DEF ClearMarks, Registration

LEMMA AddTyped ==
  ASSUME NEW reg \in Registration, NEW p \in Providers, NEW info \in Infos,
         NEW n \in Nat
  PROVE  LET r == addModelRegistration(reg, p, info, n) IN
         /\ r \in Registration
         /\ r.count = reg.count + n
         /\ r.providers = [reg.providers EXCEPT ![p] = @ + n]
<1>1. CASE n = 0
  <2>1. /\ reg.count + n = reg.count
        /\ \A q \in Providers : reg.providers[q] + n = reg.providers[q]
    BY <1>1, RegistrationFields
  <2> QED BY <1>1, <2>1, RegistrationFields DEF addModelRegistration
<1>2. CASE n # 0
  <2>1. addModelRegistration(reg, p, info, n) =
          [reg EXCEPT !.count = @ + n, !.providers[p] = @ + n, !.info = info]
    BY <1>2 DEF addModelRegistration
  <2>2. /\ reg.count + n \in Nat
        /\ [reg.providers EXCEPT ![p] = @ + n] \in [Providers -> Nat]
    BY RegistrationFields
  <2> QED BY <2>1, <2>2 DEF Registration
<1> QED BY <1>1, <1>2

LEMMA LessTyped ==
  ASSUME NEW a \in Nat, NEW b \in Nat
  PROVE  Less(a, b) \in Nat
BY DEF Less

LEMMA RemoveTyped ==
  ASSUME NEW reg \in Registration, NEW c \in Clients, NEW p \in Providers,
         NEW n \in Nat, n = 0 \/ n < reg.count
  PROVE  LET r == removeModelRegistration(reg, c, p, n) IN
         /\ r \in Registration
         /\ r.count = reg.count - n
         /\ r.providers = [reg.providers EXCEPT ![p] = Less(@, n)]
<1>1. CASE n = 0
  <2>1. /\ reg.count - n = reg.count
        /\ \A q \in Providers : Less(reg.providers[q], n) = reg.providers[q]
    BY <1>1, RegistrationFields DEF Less
  <2> QED BY <1>1, <2>1, RegistrationFields DEF removeModelRegistration
<1>2. CASE n # 0
  <2> DEFINE k == ClearMarks(reg, c)
  <2>1. /\ k \in Registration /\ k.count = reg.count
        /\ k.providers = reg.providers
    BY ClearMarksTyped
  <2>2. removeModelRegistration(reg, c, p, n) =
          [k EXCEPT !.count = @ - n, !.providers[p] = Less(@, n)]
    BY <1>2, RegistrationFields DEF removeModelRegistration
  <2>3. /\ reg.count - n \in Nat
        /\ [reg.providers EXCEPT ![p] = Less(@, n)] \in [Providers -> Nat]
    <3>1. reg.count \in Nat /\ reg.providers \in [Providers -> Nat]
      BY RegistrationFields
    <3>2. Less(reg.providers[p], n) \in Nat
      BY <3>1, LessTyped
    <3> QED BY <1>2, <3>1, <3>2
  <2> HIDE DEF k
  <2>4. [k EXCEPT !.count = @ - n, !.providers[p] = Less(@, n)] \in Registration
    BY <2>1, <2>3 DEF Registration
  <2>5. ASSUME NEW r, r = [k EXCEPT !.count = @ - n, !.providers[p] = Less(@, n)]
        PROVE  /\ r.count = reg.count - n
               /\ r.providers = [reg.providers EXCEPT ![p] = Less(@, n)]
    BY <2>1, <2>5 DEF Registration
  <2> QED BY <2>2, <2>4, <2>5
<1> QED BY <1>1, <1>2

(* The copies of a client that leaves. *)
LEMMA RemovePart ==
  ASSUME NEW reg, NEW rest \in Nat, NEW others \in [Providers -> Nat],
         \A p \in Providers : others[p] <= rest,
         NEW c \in Clients, NEW op \in Providers, NEW own \in Nat, NEW p2,
         Part(reg, rest, others, op, own)
  PROVE  Part(removeModelRegistration(reg, c, op, own), rest, others, p2, 0)
<1> DEFINE r == removeModelRegistration(reg, c, op, own)
<1>1. reg \in Registration /\ reg.count = rest + own
  BY DEF Part
<1>2. CASE own = 0
  BY <1>2 DEF Part, removeModelRegistration
<1>3. CASE own # 0 /\ rest = 0
  <2>1. r = NoRegistration
    BY <1>1, <1>3 DEF removeModelRegistration
  <2>2. \A p \in Providers : others[p] = 0
    BY <1>3
  <2> QED BY <1>3, <2>1, <2>2, NoRegistrationTyped DEF Part, NoRegistration
<1>4. CASE own # 0 /\ rest # 0
  <2>1. /\ r \in Registration /\ r.count = rest
        /\ r.providers = [reg.providers EXCEPT ![op] = Less(@, own)]
    BY <1>1, <1>4, RemoveTyped
  <2>2. \A p \in Providers : r.providers[p] = others[p]
    <3> TAKE p \in Providers
    <3>1. reg.providers \in [Providers -> Nat]
      BY <1>1, RegistrationFields
    <3>2. CASE p = op
      <4>1. reg.providers[p] = others[p] + own
        BY <3>2 DEF Part
      <4>2. r.providers[p] = Less(reg.providers[p], own)
        BY <2>1, <3>1, <3>2
      <4>3. Less(others[p] + own, own) = others[p]
        BY <1>4 DEF Less
      <4> QED BY <4>1, <4>2, <4>3
    <3>3. CASE p # op
      BY <2>1, <3>1, <3>3 DEF Part
    <3> QED BY <3>2, <3>3
  <2>3. /\ rest + 0 = rest
        /\ \A p \in Providers : others[p] + 0 = others[p]
    OBVIOUS
  <2>4. /\ r.count = rest + 0
        /\ r.count # 0
        /\ \A p \in Providers :
             r.providers[p] = IF p = p2 THEN others[p] + 0 ELSE others[p]
    <3> HIDE DEF r
    <3> QED BY <1>4, <2>1, <2>2, <2>3
  <2> QED BY <2>1, <2>4 DEF Part
<1> QED BY <1>2, <1>3, <1>4

(* The copies of a client that comes. *)
LEMMA AddPart ==
  ASSUME NEW reg, NEW rest \in Nat, NEW others \in [Providers -> Nat],
         NEW op, NEW p \in Providers, NEW info \in Infos, NEW n \in Nat,
         Part(reg, rest, others, op, 0)
  PROVE  Part(addModelRegistration(reg, p, info, n), rest, others, p, n)
<1> DEFINE r == addModelRegistration(reg, p, info, n)
<1>1. reg \in Registration /\ reg.count = rest
  BY DEF Part
<1>2. \A q \in Providers : reg.providers[q] = others[q]
  BY DEF Part
<1>3. /\ r \in Registration /\ r.count = rest + n
      /\ r.providers = [reg.providers EXCEPT ![p] = @ + n]
  BY <1>1, AddTyped
<1>4. ASSUME NEW q \in Providers
      PROVE  r.providers[q] = IF q = p THEN others[q] + n ELSE others[q]
  <2>1. reg.providers \in [Providers -> Nat]
    BY <1>1, RegistrationFields
  <2> HIDE DEF r
  <2> QED BY <1>2, <1>3, <2>1
<1>5. ASSUME r.count = 0 PROVE r = NoRegistration
  <2>1. n = 0 /\ reg.count = 0
    <3> HIDE DEF r
    <3> QED BY <1>1, <1>3, <1>5
  <2>2. r = reg
    BY <2>1 DEF addModelRegistration
  <2> QED BY <2>1, <2>2 DEF Part
<1> QED BY <1>3, <1>4, <1>5 DEF Part

(* A client that is registered again: its copies follow it to its new      *)
(* provider, whatever their number was and becomes.                        *)
LEMMA ReconcilePart ==
  ASSUME NEW reg, NEW rest \in Nat, NEW others \in [Providers -> Nat],
         \A q \in Providers : others[q] <= rest,
         NEW c \in Clients, NEW op \in Providers, NEW p \in Providers,
         NEW old \in Nat, NEW new \in Nat, NEW info \in Infos,
         Part(reg, rest, others, op, old)
  PROVE  Part(ReconcileModel(reg, c, op, p, old, new, info),
              rest, others, p, new)
<1> DEFINE both == Lower(old, new)
           moved == IF op = p THEN 0 ELSE both
           out == Less(old, new)
           in == Less(new, old)
           r1 == [reg EXCEPT !.providers[op] = Less(@, moved)]
           r2 == removeModelRegistration(r1, c, op, out)
           r3 == addModelRegistration(r2, p, info, in)
           k == ClearMarks(r3, c)
           r4 == [k EXCEPT !.info = info, !.providers[p] = @ + moved]
           r == ReconcileModel(reg, c, op, p, old, new, info)
<1> SUFFICES Part(r, rest, others, p, new)
  OBVIOUS
<1>1. r = IF new = 0 THEN r3 ELSE r4
  BY DEF ReconcileModel
<1>2. /\ both \in Nat /\ out \in Nat /\ in \in Nat /\ moved \in Nat
      /\ both + out = old /\ both + in = new /\ (out = 0 \/ in = 0)
      /\ (new = 0 => both = 0 /\ in = 0 /\ out = old)
  BY DEF Lower, Less
<1>3. moved = IF op = p THEN 0 ELSE both
  OBVIOUS
<1> HIDE DEF both, moved, out, in, r
<1>4. /\ reg \in Registration /\ reg.count = rest + old
      /\ reg.providers \in [Providers -> Nat]
  BY RegistrationFields DEF Part
<1>5. /\ reg.providers[op] = others[op] + old
      /\ \A q \in Providers \ {op} : reg.providers[q] = others[q]
  BY DEF Part
<1>6. /\ r1 \in Registration /\ r1.count = reg.count
      /\ r1.providers = [reg.providers EXCEPT ![op] = others[op] + (old - moved)]
      /\ others[op] + (old - moved) \in Nat
  <2>1. Less(reg.providers[op], moved) = others[op] + (old - moved)
    BY <1>2, <1>3, <1>5 DEF Less
  <2>2. others[op] + (old - moved) \in Nat
    BY <1>2, <1>3
  <2>3. [reg.providers EXCEPT ![op] = others[op] + (old - moved)]
          \in [Providers -> Nat]
    BY <1>4, <2>2
  <2> QED BY <1>4, <2>1, <2>2, <2>3 DEF Registration
<1> HIDE DEF r1
<1>7. CASE new = 0 /\ rest = 0
  <2>1. out = old /\ in = 0 /\ reg.count = old /\ moved = 0
    BY <1>2, <1>3, <1>4, <1>7
  <2>2. CASE old = 0
    <3>1. r1 = reg
      <4>1. [reg.providers EXCEPT ![op] = others[op] + (old - moved)]
              = reg.providers
        BY <1>4, <1>5, <2>1, <2>2
      <4>2. r1 = [reg EXCEPT !.providers = r1.providers]
        BY <1>4 DEF r1, Registration
      <4> QED BY <1>4, <1>6, <4>1, <4>2 DEF Registration
    <3>2. r3 = reg
      BY <2>1, <2>2, <3>1 DEF removeModelRegistration, addModelRegistration
    <3>3. reg.count = 0 /\ reg = NoRegistration
      BY <2>1, <2>2 DEF Part
    <3>4. \A q \in Providers : others[q] = 0
      BY <1>7
    <3> QED BY <1>1, <1>7, <3>2, <3>3, <3>4, NoRegistrationTyped
            DEF Part, NoRegistration
  <2>3. CASE old # 0
    <3>1. r2 = NoRegistration
      BY <1>6, <2>1, <2>3 DEF removeModelRegistration
    <3>2. r3 = NoRegistration
      BY <2>1, <3>1 DEF addModelRegistration
    <3>3. \A q \in Providers : others[q] = 0
      BY <1>7
    <3> QED BY <1>1, <1>7, <3>2, <3>3, NoRegistrationTyped
            DEF Part, NoRegistration
  <2> QED BY <2>2, <2>3
<1>8. CASE new # 0 \/ rest # 0
  <2>1. out = 0 \/ out < r1.count
    BY <1>2, <1>4, <1>6, <1>8
  <2>2. /\ r2 \in Registration /\ r2.count = r1.count - out
        /\ r2.providers = [r1.providers EXCEPT ![op] = Less(@, out)]
    BY <1>2, <1>6, <2>1, RemoveTyped
  <2> HIDE DEF r2
  <2>3. /\ r3 \in Registration /\ r3.count = r2.count + in
        /\ r3.providers = [r2.providers EXCEPT ![p] = @ + in]
    <3>1. r2 \in Registration /\ in \in Nat
      BY <1>2, <2>2
    <3> QED BY ONLY <3>1, p \in Providers, info \in Infos, AddTyped
  <2> HIDE DEF r3
  <2>4. /\ k \in Registration /\ k.count = r3.count
        /\ k.providers = r3.providers
    BY <2>3, ClearMarksTyped
  <2> HIDE DEF k
  <2>5. /\ r4 \in Registration /\ r4.count = r3.count
        /\ r4.providers = [r3.providers EXCEPT ![p] = @ + moved]
    <3>1. [r3.providers EXCEPT ![p] = @ + moved] \in [Providers -> Nat]
      BY <1>2, <2>3, RegistrationFields
    <3> QED BY <2>4, <3>1 DEF Registration
  <2> HIDE DEF r4
  <2>6. r3.count = rest + new
    BY <1>2, <1>4, <1>6, <2>2, <2>3
  <2>7. /\ r1.providers \in [Providers -> Nat]
        /\ r2.providers \in [Providers -> Nat]
        /\ r3.providers \in [Providers -> Nat]
    BY <1>6, <2>2, <2>3, RegistrationFields
  <2>8. Less(r1.providers[op], out) = others[op] + (old - moved - out)
    <3>1. r1.providers[op] = others[op] + (old - moved)
      BY <1>4, <1>6
    <3>2. out <= old - moved
      BY <1>2, <1>3
    <3> QED BY <1>2, <3>1, <3>2 DEF Less
  <2>9. ASSUME NEW q \in Providers
        PROVE  r3.providers[q] + (IF q = p THEN moved ELSE 0)
                 = IF q = p THEN others[q] + new ELSE others[q]
    <3>1. r2.providers[q] = IF q = op THEN others[q] + (old - moved - out)
                            ELSE others[q]
      BY <1>4, <1>5, <1>6, <2>2, <2>7, <2>8
    <3>2. r3.providers[q] = IF q = p THEN r2.providers[q] + in
                            ELSE r2.providers[q]
      BY <2>3, <2>7
    <3>3. others[q] \in Nat
      OBVIOUS
    <3>4. CASE q = p /\ op = p
      BY <1>2, <1>3, <3>1, <3>2, <3>3, <3>4
    <3>5. CASE q = p /\ op # p
      BY <1>2, <1>3, <3>1, <3>2, <3>3, <3>5
    <3>6. CASE q # p
      BY <1>2, <1>3, <3>1, <3>2, <3>3, <3>6
    <3> QED BY <3>4, <3>5, <3>6
  <2>10. CASE new = 0
    <3>1. moved = 0 /\ rest # 0
      BY <1>2, <1>3, <1>8, <2>10
    <3>2. \A q \in Providers : r3.providers[q] \in Nat
      BY <2>7
    <3>3. \A q \in Providers :
            r3.providers[q] = IF q = p THEN others[q] + new ELSE others[q]
      BY <2>9, <3>1, <3>2
    <3>4. r3.count # 0
      BY <2>6, <2>10, <3>1
    <3> QED BY <1>1, <2>3, <2>6, <2>10, <3>3, <3>4 DEF Part
  <2>11. CASE new # 0
    <3>1. ASSUME NEW q \in Providers
          PROVE  r4.providers[q]
                   = IF q = p THEN others[q] + new ELSE others[q]
      <4>1. r4.providers[q] = r3.providers[q] + (IF q = p THEN moved ELSE 0)
        BY <2>5, <2>7
      <4> QED BY <2>9, <4>1
    <3>2. r4.count # 0
      BY <2>5, <2>6, <2>11
    <3> QED BY <1>1, <2>5, <2>6, <2>11, <3>1, <3>2 DEF Part
  <2> QED BY <2>10, <2>11
<1> QED BY <1>7, <1>8

----------------------------------------------------------------------------
(* The inductive invariant. *)

CallTyped(k) == /\ k.client \in Clients /\ k.model \in Models
                /\ k = [todo |-> k.todo, client |-> k.client, model |-> k.model]
ReaderTyped(r) ==
  r.at # "idle" =>
    /\ r.handler \in Handlers /\ r.now \in Nat /\ r.now <= clock
    /\ r = [at |-> r.at, handler |-> r.handler, now |-> r.now]

RegistryTyped ==
  /\ models \in [Models -> Registration]
  /\ clientModels \in [Clients -> [Models -> Nat]]
  /\ clientProviders \in [Clients -> Providers \cup {NoProvider}]
  /\ clock \in Nat
  /\ \A g \in Callers : call[g] # NoCall => CallTyped(call[g])
  /\ DOMAIN call = Callers

(* A client with models has a provider. *)
HasProvider ==
  \A c \in Clients : clientModels[c] # NoCopies => clientProviders[c] \in Providers

CountInv == RegistryTyped /\ HasProvider /\ CountsAgree

LEMMA CountsAreAccounts ==
  ASSUME RegistryTyped
  PROVE  CountsAgree
           <=> \A m \in Models : Accounts(models[m], Copies(m), clientProviders)
BY DEF CountsAgree, Accounts, RegistryTyped, CopiesUnder, Under

LEMMA CopiesTyped ==
  ASSUME RegistryTyped, NEW m \in Models
  PROVE  /\ Copies(m) \in [Clients -> Nat]
         /\ \A c \in Clients : Copies(m)[c] = clientModels[c][m]
BY DEF Copies, RegistryTyped

LEMMA CountInit ==
  ASSUME RegistryInit
  PROVE  CountInv
<1>1. NoCopies \in [Models -> Nat]
  BY DEF NoCopies
<1>2. RegistryTyped
  <2>1. models \in [Models -> Registration]
    BY NoRegistrationTyped DEF RegistryInit
  <2>2. /\ clientModels \in [Clients -> [Models -> Nat]]
        /\ clientProviders \in [Clients -> Providers \cup {NoProvider}]
        /\ clock \in Nat
    BY <1>1 DEF RegistryInit
  <2>3. DOMAIN call = Callers /\ \A g \in Callers : call[g] = NoCall
    BY DEF RegistryInit
  <2> QED BY <2>1, <2>2, <2>3 DEF RegistryTyped
<1>3. HasProvider
  BY DEF RegistryInit, HasProvider
<1>4. ASSUME NEW m \in Models
      PROVE  Accounts(models[m], Copies(m), clientProviders)
  <2>1. \A c \in Clients : Copies(m)[c] = 0
    BY DEF Copies, RegistryInit, NoCopies
  <2>2. IsFiniteSet(Clients)
    BY RegistryAssumption
  <2>3. ASSUME NEW A \in SUBSET Clients
        PROVE  SumFunctionOnSet(Copies(m), A) = 0
    <3> DEFINE B == {s \in SUBSET Clients : SumFunctionOnSet(Copies(m), s) # 0}
    <3> SUFFICES ASSUME B # {} PROVE FALSE
      OBVIOUS
    <3>1. PICK s \in B : \A t \in B : ~(t \subseteq s /\ t # s)
      <4>1. B \in SUBSET (SUBSET Clients)
        OBVIOUS
      <4> HIDE DEF B
      <4> QED BY <2>2, <4>1, SmallestSet
    <3>2. IsFiniteSet(s) /\ s # {}
      BY <2>2, FS_Subset, SumEmpty
    <3>3. /\ Pick1(s) \in s
          /\ SumFunctionOnSet(Copies(m), s)
               = Copies(m)[Pick1(s)]
                 + SumFunctionOnSet(Copies(m), s \ {Pick1(s)})
      BY <3>2, PickIn, SumStep
    <3>4. SumFunctionOnSet(Copies(m), s \ {Pick1(s)}) = 0
      <4>1. s \ {Pick1(s)} \in SUBSET Clients /\ s \ {Pick1(s)} # s
        BY <3>3
      <4>2. s \ {Pick1(s)} \notin B
        <5> HIDE DEF B
        <5> QED BY <3>1, <4>1
      <4> QED BY <4>1, <4>2
    <3> QED BY <2>1, <3>3, <3>4
  <2>4. SumFunctionOnSet(Copies(m), Clients) = 0
    BY <2>3
  <2>5. \A p \in Providers : Under(Copies(m), clientProviders, p) = 0
    BY <2>3 DEF Under
  <2>6. models[m] = NoRegistration
    BY DEF RegistryInit
  <2> QED BY <2>4, <2>5, <2>6, NoRegistrationTyped DEF Accounts, NoRegistration
<1> QED BY <1>2, <1>3, <1>4, CountsAreAccounts DEF CountInv

(* A step that changes one client's copies, and each registration as its   *)
(* part asks.                                                              *)
LEMMA ClientMoves ==
  ASSUME CountInv, models' = [m \in Models |-> models'[m]], NEW c \in Clients,
         NEW copies \in [Models -> Nat], NEW p \in Providers \cup {NoProvider},
         clientModels' = [clientModels EXCEPT ![c] = copies],
         clientProviders' = [clientProviders EXCEPT ![c] = p],
         \A m \in Models : \A rest \in Nat : \A others \in [Providers -> Nat] :
           /\ \A q \in Providers : others[q] <= rest
           /\ Part(models[m], rest, others, clientProviders[c],
                   clientModels[c][m])
           => Part(models'[m], rest, others, p, copies[m])
  PROVE  models' \in [Models -> Registration] /\ CountsAgree'
<1>0. SUFFICES ASSUME NEW m \in Models
             PROVE  Accounts(models'[m], Copies(m)', clientProviders')
  <2>1. models' \in [Models -> Registration]
    BY <1>0 DEF Accounts
  <2>2. CountsAgree'
    BY <1>0 DEF CountsAgree, Accounts, CopiesUnder, Under
  <2> QED BY <2>1, <2>2
<1> DEFINE f == Copies(m)
           g == Copies(m)'
<1>1. f \in [Clients -> Nat] /\ f[c] = clientModels[c][m]
  BY CopiesTyped DEF CountInv
<1>2. /\ g \in [Clients -> Nat] /\ g[c] = copies[m]
      /\ \A d \in Clients \ {c} : f[d] = g[d]
  BY DEF Copies, CountInv, RegistryTyped
<1>3. /\ clientProviders'[c] = p
      /\ \A d \in Clients \ {c} : clientProviders[d] = clientProviders'[d]
  BY DEF CountInv, RegistryTyped
<1> HIDE DEF f, g
<1>4. Accounts(models[m], f, clientProviders)
  BY CountsAreAccounts DEF CountInv, f
<1>5. Part(models[m], Rest(f, c), Others(f, clientProviders, c),
           clientProviders[c], f[c])
  BY <1>1, <1>4, AccountsIsPart
<1>6. Part(models'[m], Rest(f, c), Others(f, clientProviders, c), p, g[c])
  BY <1>1, <1>2, <1>5, OthersTyped
<1>7. /\ Rest(f, c) = Rest(g, c)
      /\ Others(f, clientProviders, c) = Others(g, clientProviders', c)
  <2>1. \A d \in Clients \ {c} :
          f[d] = g[d] /\ clientProviders[d] = clientProviders'[d]
    BY <1>2, <1>3
  <2>2. Rest(f, c) = Rest(g, c)
    BY ONLY <2>1, c \in Clients, OthersStay, SMTT(30)
  <2>3. Others(f, clientProviders, c) = Others(g, clientProviders', c)
    BY ONLY <2>1, c \in Clients, OthersStay, SMTT(30)
  <2> QED BY <2>2, <2>3
<1>8. Accounts(models'[m], g, clientProviders')
  BY <1>2, <1>3, <1>6, <1>7, AccountsIsPart
<1> QED BY <1>8 DEF g

LEMMA RegisterCounts ==
  ASSUME CountInv, NEW c \in Clients, NEW p \in Providers, NEW info \in Infos,
         NEW copies \in [Models -> 0..MaxCopies],
         RegisterClient(c, p, copies, info)
  PROVE  CountInv'
<1>1. copies \in [Models -> Nat]
  BY RegistryAssumption
<1>2. /\ clientModels' = [clientModels EXCEPT ![c] = copies]
      /\ clientProviders' = [clientProviders EXCEPT ![c] = p]
      /\ copies # NoCopies
      /\ UNCHANGED <<clock, call, reader>>
  BY DEF RegisterClient
<1> DEFINE old == clientModels[c]
           new(m) == IF old = NoCopies
                     THEN addModelRegistration(models[m], p, info, copies[m])
                     ELSE ReconcileModel(models[m], c, clientProviders[c], p,
                                         old[m], copies[m], info)
<1>3. models' = [m \in Models |-> new(m)]
  BY DEF RegisterClient
<1>4. ASSUME NEW m \in Models, NEW rest \in Nat,
             NEW others \in [Providers -> Nat],
             \A q \in Providers : others[q] <= rest,
             Part(models[m], rest, others, clientProviders[c],
                  clientModels[c][m])
      PROVE  Part(new(m), rest, others, p, copies[m])
  <2>1. copies[m] \in Nat /\ old[m] \in Nat
    BY <1>1 DEF CountInv, RegistryTyped
  <2>2. CASE old = NoCopies
    <3>1. Part(models[m], rest, others, clientProviders[c], 0)
      BY <1>4, <2>2 DEF NoCopies
    <3> QED BY <2>1, <2>2, <3>1, AddPart
  <2>3. CASE old # NoCopies
    <3>1. clientProviders[c] \in Providers
      BY <2>3 DEF CountInv, HasProvider
    <3> QED BY <1>4, <2>1, <2>3, <3>1, ReconcilePart
  <2> QED BY <2>2, <2>3
<1> HIDE DEF new
<1>5. models' \in [Models -> Registration] /\ CountsAgree'
  <2>1. models' = [m \in Models |-> models'[m]]
    BY <1>3
  <2>2. \A m \in Models : \A rest \in Nat : \A others \in [Providers -> Nat] :
          /\ \A q \in Providers : others[q] <= rest
          /\ Part(models[m], rest, others, clientProviders[c],
                  clientModels[c][m])
          => Part(models'[m], rest, others, p, copies[m])
    BY <1>3, <1>4
  <2> QED BY <1>1, <1>2, <2>1, <2>2, ClientMoves
<1>6. RegistryTyped' /\ HasProvider'
  BY <1>1, <1>2, <1>5 DEF CountInv, RegistryTyped, HasProvider, CallTyped
<1> QED BY <1>5, <1>6 DEF CountInv

LEMMA UnregisterCounts ==
  ASSUME CountInv, NEW c \in Clients, UnregisterClient(c)
  PROVE  CountInv'
<1>1. NoCopies \in [Models -> Nat] /\ \A m \in Models : NoCopies[m] = 0
  BY DEF NoCopies
<1>2. /\ clientModels' = [clientModels EXCEPT ![c] = NoCopies]
      /\ clientProviders' = [clientProviders EXCEPT ![c] = NoProvider]
      /\ clientModels[c] # NoCopies
      /\ UNCHANGED <<clock, call, reader>>
  BY DEF UnregisterClient, unregisterClientInternal
<1> DEFINE new(m) == removeModelRegistration(models[m], c, clientProviders[c],
                                             clientModels[c][m])
<1>3. models' = [m \in Models |-> new(m)]
  BY DEF UnregisterClient, unregisterClientInternal
<1>4. ASSUME NEW m \in Models, NEW rest \in Nat,
             NEW others \in [Providers -> Nat],
             \A q \in Providers : others[q] <= rest,
             Part(models[m], rest, others, clientProviders[c],
                  clientModels[c][m])
      PROVE  Part(new(m), rest, others, NoProvider, 0)
  <2>1. clientModels[c][m] \in Nat /\ clientProviders[c] \in Providers
    BY <1>2 DEF CountInv, RegistryTyped, HasProvider
  <2> QED BY <1>4, <2>1, RemovePart
<1> HIDE DEF new
<1>5. models' \in [Models -> Registration] /\ CountsAgree'
  <2>1. models' = [m \in Models |-> models'[m]]
    BY <1>3
  <2>2. \A m \in Models : \A rest \in Nat : \A others \in [Providers -> Nat] :
          /\ \A q \in Providers : others[q] <= rest
          /\ Part(models[m], rest, others, clientProviders[c],
                  clientModels[c][m])
          => Part(models'[m], rest, others, NoProvider, NoCopies[m])
    BY <1>1, <1>3, <1>4
  <2> QED BY <1>1, <1>2, <2>1, <2>2, ClientMoves
<1>6. RegistryTyped' /\ HasProvider'
  BY <1>1, <1>2, <1>5 DEF CountInv, RegistryTyped, HasProvider, CallTyped
<1> QED BY <1>5, <1>6 DEF CountInv

(* A step that only marks clients. *)
LEMMA MarksKeepCounts ==
  ASSUME CountInv, models' \in [Models -> Registration],
         \A m \in Models : /\ models'[m].count = models[m].count
                           /\ models'[m].providers = models[m].providers
                           /\ models[m].count = 0 => models'[m] = models[m],
         UNCHANGED <<clientModels, clientProviders>>
  PROVE  CountsAgree' /\ HasProvider'
<1>1. \A m \in Models : /\ Copies(m)' = Copies(m)
                        /\ \A p \in Providers : CopiesUnder(m, p)' = CopiesUnder(m, p)
  BY DEF Copies, CopiesUnder
<1>2. CountsAgree'
  BY <1>1 DEF CountInv, CountsAgree
<1>3. HasProvider'
  BY DEF CountInv, HasProvider
<1> QED BY <1>2, <1>3

(* One mark of a registration that exists. *)
LEMMA QuotaMarked ==
  ASSUME NEW reg \in Registration, NEW c \in Clients, NEW t \in Int
  PROVE  /\ [reg EXCEPT !.quota[c] = t] \in Registration
         /\ [reg EXCEPT !.quota[c] = t].count = reg.count
         /\ [reg EXCEPT !.quota[c] = t].providers = reg.providers
<1>1. [reg.quota EXCEPT ![c] = t] \in [Clients -> Int]
  BY RegistrationFields
<1> QED BY <1>1 DEF Registration

LEMMA SuspensionMarked ==
  ASSUME NEW reg \in Registration, NEW c \in Clients, NEW r \in Reasons
  PROVE  /\ [reg EXCEPT !.suspended[c] = r] \in Registration
         /\ [reg EXCEPT !.suspended[c] = r].count = reg.count
         /\ [reg EXCEPT !.suspended[c] = r].providers = reg.providers
<1>1. [reg.suspended EXCEPT ![c] = r] \in [Clients -> Reasons]
  BY RegistrationFields
<1> QED BY <1>1 DEF Registration

LEMMA CallCounts ==
  ASSUME CountInv, NEW g \in Callers, CallStep(g)
  PROVE  CountInv'
<1> DEFINE c == call[g].client
           m == call[g].model
<1>1. /\ c \in Clients /\ m \in Models /\ models[m] \in Registration
      /\ models \in [Models -> Registration] /\ clock \in Int
  BY DEF CallStep, CountInv, RegistryTyped, CallTyped
<1>2. \/ models' = models
      \/ /\ models[m].count > 0
         /\ \E t \in Int : models' = [models EXCEPT ![m].quota[c] = t]
      \/ /\ models[m].count > 0
         /\ \E r \in Reasons : models' = [models EXCEPT ![m].suspended[c] = r]
  <2>1. Never \in Int /\ "none" \in Reasons /\ "quota" \in Reasons
        /\ "other" \in Reasons
    BY DEF Never, Reasons
  <2>2. \/ ClearModelQuotaExceeded(c, m) \/ SetModelQuotaExceeded(c, m)
        \/ ResumeClientModel(c, m) \/ SuspendClientModel(c, m, "quota")
        \/ SuspendClientModel(c, m, "other")
    BY DEF CallStep
  <2>3. ASSUME ResumeClientModel(c, m)
        PROVE  \/ models' = models
               \/ /\ models[m].count > 0
                  /\ models' = [models EXCEPT ![m].suspended[c] = "none"]
    BY <1>1, <2>3, RegistrationFields DEF ResumeClientModel, Exists
  <2>4. ASSUME NEW r \in Reasons, SuspendClientModel(c, m, r)
        PROVE  \/ models' = models
               \/ /\ models[m].count > 0
                  /\ models' = [models EXCEPT ![m].suspended[c] = r]
    BY <1>1, <2>4, RegistrationFields DEF SuspendClientModel, Exists
  <2>5. ASSUME ClearModelQuotaExceeded(c, m)
        PROVE  \/ models' = models
               \/ /\ models[m].count > 0
                  /\ models' = [models EXCEPT ![m].quota[c] = Never]
    BY <1>1, <2>5, RegistrationFields DEF ClearModelQuotaExceeded, Exists
  <2>6. ASSUME SetModelQuotaExceeded(c, m)
        PROVE  \/ models' = models
               \/ /\ models[m].count > 0
                  /\ models' = [models EXCEPT ![m].quota[c] = clock]
    BY <1>1, <2>6, RegistrationFields DEF SetModelQuotaExceeded, Exists
  <2> QED BY <1>1, <2>1, <2>2, <2>3, <2>4, <2>5, <2>6
<1>3. UNCHANGED <<clientModels, clientProviders, clock>>
  BY DEF CallStep
<1> HIDE DEF c, m
<1>4. ASSUME NEW reg \in Registration, reg.count = models[m].count,
             reg.providers = models[m].providers, models[m].count > 0,
             models' = [models EXCEPT ![m] = reg]
      PROVE  models' \in [Models -> Registration] /\ CountsAgree' /\ HasProvider'
  <2>1. /\ models' \in [Models -> Registration]
        /\ models[m].count # 0
    BY <1>1, <1>4, RegistrationFields
  <2>2. \A k \in Models : models'[k] = IF k = m THEN reg ELSE models[k]
    BY <1>1, <1>4
  <2>3. \A k \in Models : /\ models'[k].count = models[k].count
                          /\ models'[k].providers = models[k].providers
                          /\ models[k].count = 0 => models'[k] = models[k]
    BY <1>4, <2>1, <2>2
  <2> QED BY <1>3, <2>1, <2>3, MarksKeepCounts
<1>5. models' \in [Models -> Registration] /\ CountsAgree' /\ HasProvider'
  <2>1. CASE models' = models
    BY <1>1, <1>3, <2>1, MarksKeepCounts
  <2>2. ASSUME models[m].count > 0, NEW t \in Int,
               models' = [models EXCEPT ![m].quota[c] = t]
        PROVE  models' \in [Models -> Registration] /\ CountsAgree' /\ HasProvider'
    <3> DEFINE reg == [models[m] EXCEPT !.quota[c] = t]
    <3>1. models' = [models EXCEPT ![m] = reg]
      BY <2>2
    <3>2. /\ reg \in Registration /\ reg.count = models[m].count
          /\ reg.providers = models[m].providers
      BY <1>1, QuotaMarked
    <3> HIDE DEF reg
    <3> QED BY <1>4, <2>2, <3>1, <3>2
  <2>3. ASSUME models[m].count > 0, NEW r \in Reasons,
               models' = [models EXCEPT ![m].suspended[c] = r]
        PROVE  models' \in [Models -> Registration] /\ CountsAgree' /\ HasProvider'
    <3> DEFINE reg == [models[m] EXCEPT !.suspended[c] = r]
    <3>1. models' = [models EXCEPT ![m] = reg]
      BY <2>3
    <3>2. /\ reg \in Registration /\ reg.count = models[m].count
          /\ reg.providers = models[m].providers
      BY <1>1, SuspensionMarked
    <3> HIDE DEF reg
    <3> QED BY <1>4, <2>3, <3>1, <3>2
  <2> QED BY <1>2, <2>1, <2>2, <2>3
<1>6. DOMAIN call' = Callers /\ \A h \in Callers : call'[h] # NoCall => CallTyped(call'[h])
  <2>1. call' = [call EXCEPT ![g] = IF Len(call[g].todo) = 1 THEN NoCall
                                    ELSE [call[g] EXCEPT !.todo = Tail(@)]]
        /\ CallTyped(call[g])
    BY DEF CallStep, CountInv, RegistryTyped
  <2>2. ASSUME NEW x PROVE CallTyped([call[g] EXCEPT !.todo = x])
    <3>1. ASSUME NEW s, NEW d \in Clients, NEW n \in Models
          PROVE  CallTyped([[todo |-> s, client |-> d, model |-> n]
                              EXCEPT !.todo = x])
      BY DEF CallTyped
    <3> QED BY <2>1, <3>1 DEF CallTyped
  <2> QED BY <2>1, <2>2 DEF CountInv, RegistryTyped
<1> QED BY <1>3, <1>5, <1>6 DEF CountInv, RegistryTyped, CallTyped

LEMMA CleanupCounts ==
  ASSUME CountInv, CleanupExpiredQuotas
  PROVE  CountInv'
<1> DEFINE quota(reg) == [c \in Clients |-> IF OverQuota(reg, c, clock)
                                            THEN reg.quota[c] ELSE Never]
           clean(reg) == [reg EXCEPT !.quota = quota(reg)]
<1>1. models' = [m \in Models |-> clean(models[m])]
  BY DEF CleanupExpiredQuotas
<1>2. UNCHANGED <<clientModels, clientProviders, clock, call, reader>>
  BY DEF CleanupExpiredQuotas
<1>3. ASSUME NEW m \in Models
      PROVE  /\ clean(models[m]) \in Registration
             /\ clean(models[m]).count = models[m].count
             /\ clean(models[m]).providers = models[m].providers
             /\ models[m].count = 0 => clean(models[m]) = models[m]
  <2>1. models[m] \in Registration
    BY DEF CountInv, RegistryTyped
  <2>2. quota(models[m]) \in [Clients -> Int]
    BY <2>1, RegistrationFields DEF Never
  <2> HIDE DEF quota
  <2>3. /\ clean(models[m]) \in Registration
        /\ clean(models[m]).count = models[m].count
        /\ clean(models[m]).providers = models[m].providers
    BY <2>1, <2>2 DEF Registration
  <2>4. ASSUME models[m].count = 0 PROVE clean(models[m]) = models[m]
    <3>1. models[m] = NoRegistration
      BY <2>4 DEF CountInv, CountsAgree
    <3>2. quota(NoRegistration) = [c \in Clients |-> Never]
      BY DEF NoRegistration, OverQuota, quota
    <3>3. [NoRegistration EXCEPT !.quota = [c \in Clients |-> Never]]
            = NoRegistration
      BY DEF NoRegistration
    <3> QED BY <3>1, <3>2, <3>3
  <2> QED BY <2>3, <2>4
<1> HIDE DEF clean
<1>4. models' \in [Models -> Registration] /\ CountsAgree' /\ HasProvider'
  <2>1. models' \in [Models -> Registration]
    BY <1>1, <1>3
  <2>2. \A m \in Models : /\ models'[m].count = models[m].count
                          /\ models'[m].providers = models[m].providers
                          /\ models[m].count = 0 => models'[m] = models[m]
    BY <1>1, <1>3
  <2> QED BY <1>2, <2>1, <2>2, MarksKeepCounts
<1> QED BY <1>2, <1>4 DEF CountInv, RegistryTyped, CallTyped

(* A step that leaves the registrations and their clients alone. *)
LEMMA OtherCounts ==
  ASSUME CountInv, UNCHANGED <<models, clientModels, clientProviders>>,
         clock' \in Nat, DOMAIN call' = Callers,
         \A g \in Callers : call'[g] # NoCall => CallTyped(call'[g])
  PROVE  CountInv'
<1>1. /\ \A m \in Models : /\ models'[m].count = models[m].count
                           /\ models'[m].providers = models[m].providers
                           /\ models[m].count = 0 => models'[m] = models[m]
      /\ models' \in [Models -> Registration]
  BY DEF CountInv, RegistryTyped
<1>2. CountsAgree' /\ HasProvider'
  BY <1>1, MarksKeepCounts
<1> QED BY <1>1, <1>2 DEF CountInv, RegistryTyped, CallTyped

LEMMA CountNext ==
  ASSUME CountInv, [RegistryNext]_allVars
  PROVE  CountInv'
<1>1. ASSUME NEW c \in Clients, NEW p \in Providers, NEW info \in Infos,
             NEW copies \in [Models -> 0..MaxCopies],
             RegisterClient(c, p, copies, info)
      PROVE  CountInv'
  BY <1>1, RegisterCounts
<1>2. ASSUME NEW c \in Clients, UnregisterClient(c) PROVE CountInv'
  BY <1>2, UnregisterCounts
<1>3. ASSUME NEW g \in Callers, NEW c \in Clients, NEW m \in Models,
             NEW steps \in Calls, Decide(g, c, m, steps)
      PROVE  CountInv'
  <2>1. CallTyped([todo |-> steps, client |-> c, model |-> m])
    BY DEF CallTyped
  <2>2. /\ UNCHANGED <<models, clientModels, clientProviders, clock>>
        /\ call' = [call EXCEPT ![g] = [todo |-> steps, client |-> c,
                                        model |-> m]]
    BY <1>3 DEF Decide, registryVars
  <2>3. DOMAIN call' = Callers /\ clock' \in Nat
    BY <2>2 DEF CountInv, RegistryTyped
  <2>4. \A h \in Callers : call'[h] # NoCall => CallTyped(call'[h])
    BY <2>1, <2>2 DEF CountInv, RegistryTyped
  <2> QED BY <2>2, <2>3, <2>4, OtherCounts
<1>4. ASSUME NEW g \in Callers, CallStep(g) PROVE CountInv'
  BY <1>4, CallCounts
<1>5. CASE CleanupExpiredQuotas
  BY <1>5, CleanupCounts
<1>6. ASSUME UNCHANGED <<models, clientModels, clientProviders, call>>,
             clock' \in Nat
      PROVE  CountInv'
  <2>1. /\ DOMAIN call' = Callers
        /\ \A g \in Callers : call'[g] # NoCall => CallTyped(call'[g])
    BY <1>6 DEF CountInv, RegistryTyped
  <2> QED BY <1>6, <2>1, OtherCounts
<1>7. clock \in Nat /\ clock + 1 \in Nat
  BY DEF CountInv, RegistryTyped
<1>8. ASSUME NEW g \in Readers, NEW h \in Handlers, ListBegin(g, h)
      PROVE  CountInv'
  BY <1>6, <1>7, <1>8 DEF ListBegin, registryVars
<1>9. ASSUME NEW g \in Readers, ListLook(g) PROVE CountInv'
  BY <1>6, <1>7, <1>9 DEF ListLook, registryVars
<1>10. ASSUME NEW g \in Readers, ListFill(g) PROVE CountInv'
  BY <1>6, <1>7, <1>10 DEF ListFill
<1>11. CASE ClockTicks
  BY <1>6, <1>7, <1>11 DEF ClockTicks, registryVars
<1>12. CASE UNCHANGED allVars
  BY <1>6, <1>7, <1>12 DEF allVars, registryVars
<1> QED BY <1>1, <1>2, <1>3, <1>4, <1>5, <1>8, <1>9, <1>10, <1>11, <1>12
        DEF RegistryNext

(* The counts of every registration are what its clients list, after any   *)
(* series of registrations, moves to another provider and unregistrations  *)
(* (RegisterClient, unregisterClientInternal).                             *)
THEOREM CountsAlwaysAgree == RegistrySpec => []CountsAgree
<1>1. RegistryInit => CountInv
  BY CountInit
<1>2. CountInv /\ [RegistryNext]_allVars => CountInv'
  BY CountNext
<1>3. CountInv => CountsAgree
  BY DEF CountInv
<1> QED BY <1>1, <1>2, <1>3, PTL DEF RegistrySpec

----------------------------------------------------------------------------
(* The cache. *)

FilledFrom(entry) == \E t \in Nat : /\ t <= clock
                                    /\ entry = buildAvailableModelsLocked(t)

CacheTyped == /\ DOMAIN cache = Handlers
              /\ \A h \in Handlers : cache[h].valid => FilledFrom(cache[h])
ReadersTyped == /\ DOMAIN reader = Readers
                /\ \A g \in Readers : ReaderTyped(reader[g])
CacheInv == CountInv /\ CacheTyped /\ ReadersTyped

LEMMA LeastIsMin ==
  ASSUME NEW S \in SUBSET Nat, NEW x \in S
  PROVE  Min(S) \in S /\ \A y \in S : Min(S) <= y
<1>1. \E z \in S : \A y \in S : z <= y
  BY LeastSize
<1> QED BY <1>1 DEF Min

LEMMA RecoveriesAreLater ==
  ASSUME CountInv, NEW t \in Nat
  PROVE  Recoveries(t) \in SUBSET (Nat \ {0})
<1> SUFFICES ASSUME NEW m \in Models, NEW c \in Clients,
                    OverQuota(models[m], c, t)
             PROVE  models[m].quota[c] + Window \in Nat \ {0}
  BY DEF Recoveries
<1>1. models[m].quota[c] \in Int
  BY RegistrationFields DEF CountInv, RegistryTyped
<1>2. Window \in Nat
  BY RegistryAssumption
<1> QED BY <1>1, <1>2 DEF OverQuota

(* A list that can still be used is the list of now. *)
LEMMA UsableIsFresh ==
  ASSUME CacheInv, NEW h \in Handlers, Usable(cache[h], clock)
  PROVE  cache[h].list = buildList(clock)
<1>1. PICK t \in Nat : t <= clock /\ cache[h] = buildAvailableModelsLocked(t)
  BY DEF CacheInv, CacheTyped, FilledFrom, Usable
<1>2. /\ cache[h].list = buildList(t)
      /\ cache[h].expiresAt = IF Recoveries(t) = {} THEN Never
                              ELSE Min(Recoveries(t))
  BY <1>1 DEF buildAvailableModelsLocked
<1>3. clock \in Nat
  BY DEF CacheInv, CountInv, RegistryTyped
<1>4. ASSUME NEW m \in Models, NEW c \in Clients
      PROVE  OverQuota(models[m], c, t) <=> OverQuota(models[m], c, clock)
  <2>1. models[m].quota[c] \in Int /\ Window \in Nat
    BY RegistrationFields, RegistryAssumption
    DEF CacheInv, CountInv, RegistryTyped
  <2>2. ASSUME OverQuota(models[m], c, clock) PROVE OverQuota(models[m], c, t)
    BY <1>1, <1>3, <2>1, <2>2 DEF OverQuota
  <2>3. ASSUME OverQuota(models[m], c, t) PROVE OverQuota(models[m], c, clock)
    <3> DEFINE x == models[m].quota[c] + Window
    <3>1. x \in Recoveries(t)
      <4>1. <<m, c>> \in {y \in Models \X Clients :
                            OverQuota(models[y[1]], y[2], t)}
        BY <2>3
      <4> QED BY <4>1 DEF Recoveries
    <3>2. Recoveries(t) \in SUBSET (Nat \ {0})
      BY RecoveriesAreLater DEF CacheInv
    <3>3. Min(Recoveries(t)) \in Nat \ {0} /\ Min(Recoveries(t)) <= x
      BY <3>1, <3>2, LeastIsMin
    <3>4. cache[h].expiresAt = Min(Recoveries(t)) /\ cache[h].expiresAt # Never
      BY <1>2, <3>1, <3>3 DEF Never
    <3>5. clock < Min(Recoveries(t))
      BY <3>4 DEF Usable
    <3>6. clock < x
      BY <1>3, <2>1, <3>3, <3>5
    <3> QED BY <2>3, <3>6 DEF OverQuota
  <2> QED BY <2>2, <2>3
<1>5. \A m \in Models : Over(models[m], t) = Over(models[m], clock)
  BY <1>4 DEF Over
<1>6. buildList(t) = buildList(clock)
  BY <1>5 DEF buildList
<1> QED BY <1>2, <1>6

LEMMA CacheInit ==
  ASSUME RegistryInit
  PROVE  CacheInv
<1>1. CacheTyped
  BY DEF RegistryInit, CacheTyped, NoEntry
<1>2. ReadersTyped
  BY DEF RegistryInit, ReadersTyped, ReaderTyped, Idle
<1> QED BY <1>1, <1>2, CountInit DEF CacheInv

(* A step that empties the cache, and one that keeps the registrations.    *)
LEMMA EmptiedCache ==
  ASSUME CacheInv, CountInv', invalidateAvailableModelsCacheLocked,
         UNCHANGED <<clock, reader>>
  PROVE  CacheInv'
<1>1. CacheTyped'
  BY DEF invalidateAvailableModelsCacheLocked, CacheTyped, NoEntry
<1>2. ReadersTyped'
  BY DEF CacheInv, ReadersTyped, ReaderTyped
<1> QED BY <1>1, <1>2 DEF CacheInv

LEMMA BuildStays ==
  ASSUME UNCHANGED models, NEW t
  PROVE  buildAvailableModelsLocked(t)' = buildAvailableModelsLocked(t)
BY DEF buildAvailableModelsLocked, buildList, Recoveries

LEMMA KeptCache ==
  ASSUME CacheInv, UNCHANGED <<models, cache>>, clock' \in Nat, clock <= clock'
  PROVE  CacheTyped'
<1> SUFFICES ASSUME NEW h \in Handlers, cache[h].valid
             PROVE  FilledFrom(cache[h])'
  BY DEF CacheInv, CacheTyped
<1>1. PICK t \in Nat : t <= clock /\ cache[h] = buildAvailableModelsLocked(t)
  BY DEF CacheInv, CacheTyped, FilledFrom
<1>2. t <= clock'
  BY <1>1 DEF CacheInv, CountInv, RegistryTyped
<1>3. cache'[h] = buildAvailableModelsLocked(t)'
  BY <1>1, BuildStays
<1> QED BY <1>2, <1>3 DEF FilledFrom

LEMMA CacheNext ==
  ASSUME CacheInv, [RegistryNext]_allVars
  PROVE  CacheInv'
<1>0. CountInv'
  BY CountNext DEF CacheInv
<1>1. clock \in Nat
  BY DEF CacheInv, CountInv, RegistryTyped
<1>2. ASSUME NEW c \in Clients, NEW p \in Providers, NEW info \in Infos,
             NEW copies \in [Models -> 0..MaxCopies],
             RegisterClient(c, p, copies, info)
      PROVE  CacheInv'
  <2>1. invalidateAvailableModelsCacheLocked /\ UNCHANGED <<clock, reader>>
    BY <1>2 DEF RegisterClient
  <2> QED BY <1>0, <2>1, EmptiedCache
<1>3. ASSUME NEW c \in Clients, UnregisterClient(c) PROVE CacheInv'
  <2>1. invalidateAvailableModelsCacheLocked /\ UNCHANGED <<clock, reader>>
    BY <1>3 DEF UnregisterClient
  <2> QED BY <1>0, <2>1, EmptiedCache
<1>4. CASE CleanupExpiredQuotas
  <2>1. invalidateAvailableModelsCacheLocked /\ UNCHANGED <<clock, reader>>
    BY <1>4 DEF CleanupExpiredQuotas
  <2> QED BY <1>0, <2>1, EmptiedCache
<1>5. ASSUME UNCHANGED <<models, cache, clock, reader>> PROVE CacheInv'
  <2>1. CacheTyped'
    BY <1>1, <1>5, KeptCache
  <2>2. ReadersTyped'
    BY <1>5 DEF CacheInv, ReadersTyped, ReaderTyped
  <2> QED BY <1>0, <2>1, <2>2 DEF CacheInv
<1>6. ASSUME NEW g \in Callers, NEW c \in Clients, NEW m \in Models,
             NEW steps \in Calls, Decide(g, c, m, steps)
      PROVE  CacheInv'
  BY <1>5, <1>6 DEF Decide, registryVars
<1>7. ASSUME NEW g \in Callers, CallStep(g) PROVE CacheInv'
  <2>1. UNCHANGED <<clock, reader>>
    BY <1>7 DEF CallStep
  <2>2. invalidateAvailableModelsCacheLocked \/ UNCHANGED <<models, cache>>
    BY <1>7 DEF CallStep, ClearModelQuotaExceeded, SetModelQuotaExceeded,
         ResumeClientModel, SuspendClientModel
  <2> QED BY <1>0, <1>5, <2>1, <2>2, EmptiedCache
<1>8. ASSUME NEW g \in Readers, NEW h \in Handlers, ListBegin(g, h)
      PROVE  CacheInv'
  <2>1. /\ UNCHANGED <<models, cache, clock>>
        /\ reader' = [reader EXCEPT ![g] = [at |-> "look", handler |-> h,
                                            now |-> clock]]
    BY <1>8 DEF ListBegin, registryVars
  <2>2. ReadersTyped'
    BY <1>1, <2>1 DEF CacheInv, ReadersTyped, ReaderTyped
  <2>3. CacheTyped'
    BY <1>1, <2>1, KeptCache
  <2> QED BY <1>0, <2>2, <2>3 DEF CacheInv
<1>9. ASSUME NEW g \in Readers, ListLook(g) PROVE CacheInv'
  <2>1. /\ UNCHANGED <<models, cache, clock>>
        /\ reader[g].at = "look"
        /\ \/ reader' = [reader EXCEPT ![g] = Idle]
           \/ reader' = [reader EXCEPT ![g] = [reader[g] EXCEPT !.at = "fill"]]
    BY <1>9 DEF ListLook, registryVars
  <2>2. ReadersTyped'
    <3>1. ReaderTyped([reader[g] EXCEPT !.at = "fill"])
      <4>1. ASSUME NEW s, NEW h \in Handlers, NEW n \in Nat, n <= clock
            PROVE  ReaderTyped([[at |-> s, handler |-> h, now |-> n]
                                  EXCEPT !.at = "fill"])
        BY <4>1 DEF ReaderTyped
      <4> QED BY <2>1, <4>1 DEF CacheInv, ReadersTyped, ReaderTyped
    <3>2. ReaderTyped(Idle)
      BY DEF ReaderTyped, Idle
    <3>3. \A f \in Readers : ReaderTyped(reader'[f])
      BY <2>1, <3>1, <3>2 DEF CacheInv, ReadersTyped
    <3> QED BY <2>1, <3>3 DEF CacheInv, ReadersTyped, ReaderTyped
  <2>3. CacheTyped'
    BY <1>1, <2>1, KeptCache
  <2> QED BY <1>0, <2>2, <2>3 DEF CacheInv
<1>10. ASSUME NEW g \in Readers, ListFill(g) PROVE CacheInv'
  <2> DEFINE r == reader[g]
  <2>1. /\ UNCHANGED <<models, clock>> /\ r.at = "fill"
        /\ reader' = [reader EXCEPT ![g] = Idle]
        /\ \/ cache' = cache
           \/ cache' = [cache EXCEPT ![r.handler] =
                          buildAvailableModelsLocked(r.now)]
    BY <1>10 DEF ListFill
  <2>2. ReadersTyped'
    BY <2>1 DEF CacheInv, ReadersTyped, ReaderTyped, Idle
  <2>3. r.handler \in Handlers /\ r.now \in Nat /\ r.now <= clock
    BY <2>1 DEF CacheInv, ReadersTyped, ReaderTyped
  <2>4. CacheTyped'
    <3>1. CASE cache' = cache
      BY <1>1, <2>1, <3>1, KeptCache
    <3>2. CASE cache' = [cache EXCEPT ![r.handler] =
                           buildAvailableModelsLocked(r.now)]
      <4> SUFFICES ASSUME NEW h \in Handlers, cache'[h].valid
                   PROVE  FilledFrom(cache[h])'
        BY <3>2 DEF CacheInv, CacheTyped
      <4>1. PICK t \in Nat : /\ t <= clock
                             /\ cache'[h] = buildAvailableModelsLocked(t)
        BY <2>3, <3>2 DEF CacheInv, CacheTyped, FilledFrom
      <4> QED BY <2>1, <4>1, BuildStays DEF FilledFrom
    <3> QED BY <2>1, <3>1, <3>2
  <2> QED BY <1>0, <2>2, <2>4 DEF CacheInv
<1>11. CASE ClockTicks
  <2>1. UNCHANGED <<models, cache, reader>> /\ clock' = clock + 1
    BY <1>11 DEF ClockTicks, registryVars
  <2>2. ReadersTyped'
    BY <1>1, <2>1 DEF CacheInv, ReadersTyped, ReaderTyped
  <2>3. CacheTyped'
    BY <1>1, <2>1, KeptCache
  <2> QED BY <1>0, <2>2, <2>3 DEF CacheInv
<1>12. CASE UNCHANGED allVars
  BY <1>5, <1>12 DEF allVars, registryVars
<1> QED BY <1>2, <1>3, <1>4, <1>6, <1>7, <1>8, <1>9, <1>10, <1>11, <1>12
        DEF RegistryNext

(* A reader never finds a list in the cache that differs from the one it   *)
(* would build, however late the entry was filled (GetAvailableModels).    *)
THEOREM CacheAlwaysFresh == RegistrySpec => []CacheFresh
<1>1. RegistryInit => CacheInv
  BY CacheInit
<1>2. CacheInv /\ [RegistryNext]_allVars => CacheInv'
  BY CacheNext
<1>3. CacheInv => CacheFresh
  BY UsableIsFresh DEF CacheFresh
<1> QED BY <1>1, <1>2, <1>3, PTL DEF RegistrySpec

=============================================================================
