-------------------------- MODULE LunarSliceProofs --------------------------
(***************************************************************************)
(* Proofs about LunarSlice: the bounds on what an override, a boost and a  *)
(* starving tier may take, for every slice, budget, cooldown and number of *)
(* tasks.                                                                  *)
(***************************************************************************)
EXTENDS LunarSlice, FiniteSetTheorems, TLAPS

-----------------------------------------------------------------------------
(* The inductive invariant                                                 *)

Types ==
  /\ TypeOK
  /\ dsq \in [Tiers -> Seq(Tasks)]
  /\ local \in Seq(Tasks)
  /\ curr \in Tasks \cup {Idle, Rt}
  /\ next \in Tasks \cup {Idle}
  /\ at \in {"run", "pick", "put", "switch"}
  /\ resched \in BOOLEAN /\ kick \in BOOLEAN
  /\ state \in [Tasks -> {"blocked", "queued", "local", "running"}]
  /\ hist \in [unserved : [Timed -> Nat], from : Tiers \cup {EMPTY}, over : Nat,
               tier : Timed \cup {EMPTY}, via : SUBSET Tasks, boosted : [Tasks -> Nat],
               jumped : [Tasks -> BOOLEAN], spent : [Tasks -> Nat]]

\* A task is in one place; what waits has a slice.
Distinct ==
  \A k, l \in Tiers : \A i \in 1 .. Len(dsq[k]), j \in 1 .. Len(dsq[l]) :
    dsq[k][i] = dsq[l][j] => k = l /\ i = j

Queued ==
  /\ \A k \in Tiers : \A i \in 1 .. Len(dsq[k]) :
       state[dsq[k][i]] = "queued" /\ slice[dsq[k][i]] > 0
  /\ Distinct

OnCpu ==
  /\ curr \in Tasks /\ at \in {"run", "put"} => state[curr] = "running"
  /\ curr \in Tasks /\ at = "run" => tctx[curr].ran + slice[curr] <= SLICE
  /\ curr \in Tasks /\ at = "run" /\ ~ resched => slice[curr] > 0
  /\ at = "pick" => curr = Idle
  /\ at = "put" => slice[curr] = 0
  /\ at \in {"put", "switch"} => curr \in Tasks /\ next \in Tasks /\ next # curr
  /\ at \in {"put", "switch"} => state[next] = "queued" /\ slice[next] > 0
  /\ at \in {"put", "switch"} =>
       \A k \in Tiers : \A i \in 1 .. Len(dsq[k]) : dsq[k][i] # next
  /\ \A t \in Tasks : tctx[t].ran # 0 => t = curr /\ at = "run"

\* The local DSQ holds one task at most, and none while a task runs.
LocalOne ==
  /\ Len(local) <= 1
  /\ curr \in Tasks => local = <<>>
  /\ local # <<>> => state[local[1]] = "local" /\ slice[local[1]] > 0

\* An idle cpu has nothing to do.
IdleEmpty ==
  curr = Idle /\ at = "run" /\ ~ resched =>
    /\ \A k \in Tiers : dsq[k] = <<>>
    /\ local = <<>>
    /\ dctx.override_left = 0

NoResume == \A t \in Tasks : tctx[t].resume_slice = 0

\* What the running task has used of the override and is not charged yet.
Uncharged ==
  IF curr \in Tasks /\ effective_tier(tctx[curr]) = dctx.override_tier
  THEN tctx[curr].ran ELSE 0

\* Where the tasks of an override are.
Via(t) ==
  \/ t = curr /\ at \in {"run", "put"}
  \/ t = next /\ at \in {"put", "switch"}
  \/ local # <<>> /\ t = local[1]

OverrideInv ==
  /\ OverrideBounded
  /\ \A t \in hist.via : Via(t)
  /\ \A t \in hist.via : hist.over + slice[t] < STARVE_OVERRIDE_BUDGET + SLICE
  /\ dctx.override_left > 0 =>
       /\ dctx.override_tier # EMPTY
       /\ hist.tier = dctx.override_tier
       /\ hist.over + dctx.override_left <= STARVE_OVERRIDE_BUDGET + Uncharged

\* A boost that was never resumed has its time accounted for.
BoostOk(t) ==
  /\ state[t] = "blocked" =>
       hist.boosted[t] = 0 /\ ~ hist.jumped[t] /\ tctx[t].boost_dsq_type = EMPTY
  /\ ~ hist.jumped[t] => hist.boosted[t] < WAKE_BOOST_BUDGET + SLICE
  /\ ~ hist.jumped[t] /\ tctx[t].boost_dsq_type # EMPTY =>
       /\ hist.boosted[t] + slice[t] < WAKE_BOOST_BUDGET + SLICE
       /\ tctx[t].boost_used < WAKE_BOOST_BUDGET =>
            hist.boosted[t] <= tctx[t].boost_used + tctx[t].ran
       /\ tctx[t].boost_used < WAKE_BOOST_BUDGET \/ (at = "put" /\ t = curr)

BoostInv == \A t \in Tasks : BoostOk(t)

\* Tier j is further over its budget than tier k, and will be served first.
Ahead(j, k) ==
  /\ j # k /\ dsq[j] # <<>>
  /\ dctx.head[j] - STARVE_BUDGET[j] >= dctx.head[k] - STARVE_BUDGET[k]

TurnOf(j, k) == IF Ahead(j, k) THEN Turn ELSE 0

TurnsBefore(k) == TurnOf(INTERACTIVE, k) + TurnOf(NORMAL, k) + TurnOf(GREEDY, k)

\* The task that runs, or that is switched to next.
Runner ==
  IF at \in {"put", "switch"} THEN next
  ELSE IF curr \in Tasks THEN curr
  ELSE IF local # <<>> THEN local[1] ELSE Idle

Rest == IF hist.from # LC /\ Runner \in Tasks THEN slice[Runner] ELSE 0

\* What is left for tier k to wait.
Margin(k) == STARVE_BUDGET[k] + 3 * Turn - TurnsBefore(k) - hist.unserved[k]

StarveInv ==
  /\ dctx.override_left > 0 /\ hist.from # LC => hist.from = dctx.override_tier
  /\ \A k \in Timed :
       /\ hist.unserved[k] <= dctx.head[k]
       /\ dsq[k] = <<>> => hist.unserved[k] = 0
       /\ dsq[k] # <<>> /\ dctx.head[k] > STARVE_BUDGET[k] =>
            /\ Rest <= Margin(k)
            /\ dctx.last_override < STARVE_OVERRIDE_COOLDOWN =>
                 STARVE_OVERRIDE_COOLDOWN - dctx.last_override + SLICE - 1 <= Margin(k)
            /\ dctx.override_left > Uncharged =>
                 dctx.override_left - Uncharged + SLICE - 1 <= Margin(k)

Places == Queued /\ OnCpu /\ LocalOne /\ IdleEmpty /\ NoResume

Inv == Types /\ Places /\ OverrideInv /\ BoostInv /\ StarveInv

-----------------------------------------------------------------------------
(* The operators                                                           *)

Ctx == [current_dsq_type : Tiers, boost_dsq_type : Tiers \cup {EMPTY},
        boost_used : 0 .. WAKE_BOOST_BUDGET, ran : 0 .. SLICE,
        granted_slice : 0 .. SLICE, resume_slice : 0 .. SLICE]

CpuCtx == [running : Tiers \cup {EMPTY}, head : [Timed -> 0 .. MaxAge],
           last_override : 0 .. STARVE_OVERRIDE_COOLDOWN,
           override_tier : Timed \cup {EMPTY},
           override_left : 0 .. STARVE_OVERRIDE_BUDGET, preempt_pending : BOOLEAN]

Hist == [unserved : [Timed -> Nat], from : Tiers \cup {EMPTY}, over : Nat,
         tier : Timed \cup {EMPTY}, via : SUBSET Tasks, boosted : [Tasks -> Nat],
         jumped : [Tasks -> BOOLEAN], spent : [Tasks -> Nat]]

\* The tiers are numbers.
LEMMA TierNumbers ==
  /\ Tiers = {1, 2, 3, 4} /\ Timed = {2, 3, 4}
  /\ LC = 1 /\ INTERACTIVE = 2 /\ NORMAL = 3 /\ GREEDY = 4 /\ EMPTY = 5
  BY DEF Tiers, Timed, LC, INTERACTIVE, NORMAL, GREEDY, EMPTY

\* The constants.
LEMMA Constants ==
  /\ SLICE \in Nat /\ SLICE > 0 /\ STARVE_OVERRIDE_BUDGET = SLICE
  /\ WAKE_BOOST_BUDGET \in Nat /\ WAKE_BOOST_BUDGET > 0
  /\ STARVE_OVERRIDE_COOLDOWN \in Nat /\ MaxAge \in Nat /\ RESUME_SLICE_MIN \in Nat
  /\ STARVE_BUDGET \in [Timed -> Nat]
  /\ Idle \notin Tasks /\ Rt \notin Tasks /\ Idle # Rt
  /\ \A t \in Tasks : OwnTiers[t] \subseteq Tiers /\ OwnTiers[t] # {}
  /\ \A t \in Tasks : WakerTiers[t] \subseteq Tiers
  BY SliceAssumption DEF STARVE_OVERRIDE_BUDGET

\* Nothing used and nothing granted.
LEMMA Zeros ==
  0 \in 0 .. SLICE /\ 0 \in 0 .. WAKE_BOOST_BUDGET
  BY Constants

\* Min of two numbers.
LEMMA MinPair ==
  ASSUME NEW a \in Int, NEW b \in Int
  PROVE  Min({a, b}) = IF a <= b THEN a ELSE b
  BY DEF Min

\* Max of two numbers.
LEMMA MaxPair ==
  ASSUME NEW a \in Int, NEW b \in Int
  PROVE  Max({a, b}) = IF a >= b THEN a ELSE b
  BY DEF Max

\* Max of a set of tiers.
LEMMA MaxTier ==
  ASSUME NEW S \in SUBSET Tiers, S # {}
  PROVE  Max(S) \in Tiers
<1>1. \E x \in S : \A y \in S : x >= y
  <2>0. \A y \in S : y \in {1, 2, 3, 4}
    BY TierNumbers
  <2>1. CASE 4 \in S
    BY <2>0, <2>1
  <2>2. CASE 4 \notin S /\ 3 \in S
    BY <2>0, <2>2
  <2>3. CASE 4 \notin S /\ 3 \notin S /\ 2 \in S
    BY <2>0, <2>3
  <2>4. CASE 4 \notin S /\ 3 \notin S /\ 2 \notin S
    BY <2>0, <2>4
  <2>5. QED
    BY <2>1, <2>2, <2>3, <2>4
<1>2. QED
  BY <1>1 DEF Max

\* Min of a set of timed tiers.
LEMMA MinTimed ==
  ASSUME NEW S \in SUBSET Timed, S # {}
  PROVE  Min(S) \in S
<1>1. \E x \in S : \A y \in S : x <= y
  <2>0. \A y \in S : y \in {2, 3, 4}
    BY TierNumbers
  <2>1. CASE 2 \in S
    BY <2>0, <2>1
  <2>2. CASE 2 \notin S /\ 3 \in S
    BY <2>0, <2>2
  <2>3. CASE 2 \notin S /\ 3 \notin S
    BY <2>0, <2>3
  <2>4. QED
    BY <2>1, <2>2, <2>3
<1>2. QED
  BY <1>1 DEF Min

\* Turn, the longest an override keeps another one away.
LEMMA TurnBounds ==
  /\ Turn \in Nat
  /\ Turn >= STARVE_OVERRIDE_BUDGET + SLICE - 1
  /\ Turn >= STARVE_OVERRIDE_COOLDOWN + SLICE - 1
<1>1. Max({STARVE_OVERRIDE_BUDGET, STARVE_OVERRIDE_COOLDOWN}) =
        IF STARVE_OVERRIDE_BUDGET >= STARVE_OVERRIDE_COOLDOWN
        THEN STARVE_OVERRIDE_BUDGET ELSE STARVE_OVERRIDE_COOLDOWN
  BY MaxPair, Constants
<1>2. QED
  BY <1>1, Constants DEF Turn

\* The tier a task runs in.
LEMMA EffectiveTier ==
  ASSUME NEW x \in Ctx
  PROVE  effective_tier(x) \in Tiers
<1>1. x.current_dsq_type \in Tiers /\ x.boost_dsq_type \in Tiers \cup {EMPTY}
  BY DEF Ctx
<1>2. effective_tier(x) = IF x.current_dsq_type <= x.boost_dsq_type
                          THEN x.current_dsq_type ELSE x.boost_dsq_type
  BY <1>1, MinPair, TierNumbers DEF effective_tier
<1>3. QED
  BY <1>1, <1>2, TierNumbers

\* charge_wake_boost() counts what the task ran, up to the budget.
LEMMA ChargeBoost ==
  ASSUME NEW x \in Ctx
  PROVE  LET y == charge_wake_boost(x) IN
         /\ y \in Ctx
         /\ y = [x EXCEPT !.boost_used = y.boost_used]
         /\ x.boost_dsq_type # EMPTY /\ y.boost_used < WAKE_BOOST_BUDGET =>
              y.boost_used = x.boost_used + x.ran
<1>1. CASE x.boost_dsq_type = EMPTY
  BY <1>1 DEF charge_wake_boost, Ctx
<1>2. CASE x.boost_dsq_type # EMPTY
  <2>1. x.boost_used \in Nat /\ x.ran \in Nat
    BY Constants DEF Ctx
  <2>2. PICK m : m = Min({x.boost_used + x.ran, WAKE_BOOST_BUDGET})
    OBVIOUS
  <2>3. /\ m \in 0 .. WAKE_BOOST_BUDGET
        /\ m < WAKE_BOOST_BUDGET => m = x.boost_used + x.ran
    BY <2>1, <2>2, MinPair, Constants
  <2>4. charge_wake_boost(x) = [x EXCEPT !.boost_used = m]
    BY <1>2, <2>2 DEF charge_wake_boost
  <2>5. QED
    BY <2>3, <2>4, <1>2 DEF Ctx
<1>3. QED
  BY <1>1, <1>2

\* lunar_stopping on the context of a task that has no slice to resume: it is given
\* one only when it was preempted with an empty slice, and a boost that is spent
\* ends unless it is.
LEMMA StoppingCtx ==
  ASSUME NEW x \in Ctx, x.resume_slice = 0, NEW runnable \in BOOLEAN,
         NEW pending \in BOOLEAN, NEW zero \in BOOLEAN, NEW k \in Tiers
  PROVE  LET z == stopping_ctx(x, runnable, pending, zero, k) IN
         /\ z \in Ctx
         /\ z.ran = x.ran
         /\ z.resume_slice > 0 => runnable /\ zero
         /\ z.boost_dsq_type \in {x.boost_dsq_type, EMPTY}
         /\ z.boost_dsq_type # EMPTY /\ z.resume_slice = 0 =>
              /\ runnable
              /\ z.boost_used < WAKE_BOOST_BUDGET
              /\ z.boost_used = x.boost_used + x.ran
<1> DEFINE c == charge_wake_boost(x)
           y == [c EXCEPT !.current_dsq_type = k]
           left == pending /\ runnable /\ zero /\ y.granted_slice > y.ran + RESUME_SLICE_MIN
           v == IF left THEN [y EXCEPT !.resume_slice = y.granted_slice - y.ran] ELSE y
           z == IF v.resume_slice = 0 /\ (~ runnable \/ BoostSpent(v)) THEN Unboosted(v) ELSE v
<1>1. /\ c \in Ctx
      /\ c = [x EXCEPT !.boost_used = c.boost_used]
      /\ x.boost_dsq_type # EMPTY /\ c.boost_used < WAKE_BOOST_BUDGET =>
           c.boost_used = x.boost_used + x.ran
  BY ChargeBoost
<1>2. PICK u : u = c.boost_used
  OBVIOUS
<1>3. u \in 0 .. WAKE_BOOST_BUDGET
  BY <1>1, <1>2 DEF Ctx
<1>4. c = [x EXCEPT !.boost_used = u]
  BY <1>1, <1>2
<1>5. stopping_ctx(x, runnable, pending, zero, k) = z
  BY Zenon DEF stopping_ctx, Reclassified
<1> HIDE DEF c
<1>6. y \in Ctx /\ y.boost_used = u /\ y.ran = x.ran /\ y.resume_slice = 0
        /\ y.boost_dsq_type = x.boost_dsq_type
  BY <1>3, <1>4 DEF Ctx
<1>7. PICK yy \in Ctx : yy = y
  BY <1>6
<1> HIDE DEF y
<1>8. yy.granted_slice \in 0 .. SLICE /\ yy.ran \in 0 .. SLICE /\ SLICE \in Nat
        /\ RESUME_SLICE_MIN \in Nat /\ WAKE_BOOST_BUDGET \in Nat
  BY Constants DEF Ctx
<1>9. CASE left
  <2>1. PICK g : g = yy.granted_slice - yy.ran
    OBVIOUS
  <2>2. g \in 0 .. SLICE /\ g > 0 /\ runnable /\ zero
    BY <1>7, <1>8, <1>9, <2>1
  <2>3. v = [yy EXCEPT !.resume_slice = g]
    BY <1>7, <1>9, <2>1
  <2>4. z = v /\ v \in Ctx /\ v.resume_slice = g /\ v.ran = x.ran
          /\ v.boost_dsq_type = x.boost_dsq_type
    BY <2>2, <2>3, <1>6, <1>7 DEF Ctx
  <2> HIDE DEF z, v
  <2>5. z.resume_slice > 0 /\ z.resume_slice # 0
    BY <2>2, <2>4
  <2>6. QED
    BY <2>2, <2>4, <2>5, <1>5
<1>10. CASE ~ left
  <2>1. v = yy
    BY <1>7, <1>10
  <2>2. CASE ~ runnable \/ BoostSpent(yy)
    <3>1. z = [yy EXCEPT !.boost_dsq_type = EMPTY]
      BY <2>1, <2>2, <1>6, <1>7 DEF Unboosted
    <3>2. z \in Ctx /\ z.ran = x.ran /\ z.boost_dsq_type = EMPTY /\ z.resume_slice = 0
      BY <3>1, <1>6, <1>7 DEF Ctx
    <3>3. QED
      BY <3>2, <1>5
  <2>3. CASE runnable /\ ~ BoostSpent(yy)
    <3>1. z = yy
      BY <2>1, <2>3
    <3>2. u < WAKE_BOOST_BUDGET
      BY <2>3, <1>6, <1>7, <1>3, <1>8 DEF BoostSpent
    <3>3. QED
      BY <3>1, <3>2, <1>1, <1>2, <1>5, <1>6, <1>7, <2>3
  <2>4. QED
    BY <2>2, <2>3
<1>11. QED
  BY <1>9, <1>10

\* What does not run has run for no time.
LEMMA OffCtx ==
  ASSUME NEW x \in Ctx
  PROVE  /\ Off(x) \in Ctx
         /\ Off(x).ran = 0
         /\ Off(x).resume_slice = x.resume_slice
         /\ Off(x).boost_dsq_type = x.boost_dsq_type
         /\ x.boost_dsq_type # EMPTY => Off(x).boost_used = x.boost_used
<1>1. PICK b \in 0 .. WAKE_BOOST_BUDGET :
        b = IF x.boost_dsq_type = EMPTY THEN 0 ELSE x.boost_used
  BY Zeros DEF Ctx
<1>2. Off(x) = [x EXCEPT !.ran = 0, !.granted_slice = 0, !.boost_used = b]
  BY <1>1 DEF Off
<1>3. QED
  BY <1>1, <1>2, Zeros DEF Ctx

\* A task that sleeps has no boost.
LEMMA QuiescentCtx ==
  ASSUME NEW x \in Ctx
  PROVE  /\ quiescent_ctx(x) \in Ctx
         /\ quiescent_ctx(x).ran = 0
         /\ quiescent_ctx(x).resume_slice = 0
         /\ quiescent_ctx(x).boost_dsq_type = EMPTY
<1> DEFINE y == [[x EXCEPT !.boost_dsq_type = EMPTY] EXCEPT !.resume_slice = 0]
<1>1. y \in Ctx /\ y.resume_slice = 0 /\ y.boost_dsq_type = EMPTY
  BY Zeros DEF Ctx
<1>2. quiescent_ctx(x) = Off(y)
  BY DEF quiescent_ctx, Unboosted
<1>3. QED
  BY <1>1, <1>2, OffCtx, ZenonT(60)

\* A wakeup gives a boost whose budget is unused, or none.
LEMMA WakeCtx ==
  ASSUME NEW x \in Ctx, NEW w \in Tiers \cup {EMPTY}, NEW k \in Tiers,
         x.boost_dsq_type = EMPTY
  PROVE  LET z == Reclassified(apply_wake_boost(x, w), k) IN
         /\ z \in Ctx
         /\ z.ran = x.ran
         /\ z.resume_slice = x.resume_slice
         /\ z.boost_dsq_type # EMPTY => z.boost_used = 0
<1>1. CASE w < x.current_dsq_type /\ w < x.boost_dsq_type
  <2>1. Reclassified(apply_wake_boost(x, w), k) =
          [x EXCEPT !.boost_dsq_type = w, !.boost_used = 0, !.current_dsq_type = k]
    BY <1>1 DEF Reclassified, apply_wake_boost, Ctx
  <2>2. QED
    BY <2>1, Zeros DEF Ctx
<1>2. CASE ~ (w < x.current_dsq_type /\ w < x.boost_dsq_type)
  <2>1. Reclassified(apply_wake_boost(x, w), k) = [x EXCEPT !.current_dsq_type = k]
    BY <1>2 DEF Reclassified, apply_wake_boost
  <2>2. QED
    BY <2>1 DEF Ctx
<1>3. QED
  BY <1>1, <1>2

\* init_task_ctx() is well formed.
LEMMA InitCtx ==
  ASSUME NEW t \in Tasks
  PROVE  init_task_ctx(t) \in Ctx
<1>1. Max(OwnTiers[t]) \in Tiers
  BY MaxTier, Constants
<1>2. QED
  BY <1>1, Constants DEF init_task_ctx, Ctx

\* lunar_dispatch on the context of the task that ran.
LEMMA DispatchPrev ==
  ASSUME NEW x \in Ctx, NEW pending \in BOOLEAN, NEW k \in Tiers
  PROVE  LET z == dispatch_prev(x, pending, k) IN
         /\ z \in Ctx
         /\ z.ran = 0
         /\ z.resume_slice = x.resume_slice
         /\ z.boost_dsq_type \in {x.boost_dsq_type, EMPTY}
         /\ z.boost_dsq_type # EMPTY /\ z.boost_used < WAKE_BOOST_BUDGET =>
              z.boost_used = x.boost_used + x.ran
<1> DEFINE c == charge_wake_boost(x)
<1>1. /\ c \in Ctx
      /\ c = [x EXCEPT !.boost_used = c.boost_used]
      /\ x.boost_dsq_type # EMPTY /\ c.boost_used < WAKE_BOOST_BUDGET =>
           c.boost_used = x.boost_used + x.ran
  BY ChargeBoost
<1>2. PICK u \in 0 .. WAKE_BOOST_BUDGET : u = c.boost_used
  BY <1>1 DEF Ctx
<1>3. c = [x EXCEPT !.boost_used = u]
  BY <1>1, <1>2
<1>4. dispatch_prev(x, pending, k) =
        [[(IF ~ pending /\ BoostSpent(c) THEN [c EXCEPT !.boost_dsq_type = EMPTY] ELSE c)
          EXCEPT !.current_dsq_type = k] EXCEPT !.ran = 0]
  BY Zenon DEF dispatch_prev, Reclassified, Unboosted
<1> HIDE DEF c
<1>5. CASE ~ pending /\ BoostSpent(c)
  <2>1. dispatch_prev(x, pending, k) = [x EXCEPT !.boost_used = u,
          !.boost_dsq_type = EMPTY, !.current_dsq_type = k, !.ran = 0]
    BY <1>3, <1>4, <1>5 DEF Ctx
  <2>2. QED
    BY <2>1, <1>2, Zeros DEF Ctx
<1>6. CASE ~ (~ pending /\ BoostSpent(c))
  <2>1. dispatch_prev(x, pending, k) =
          [x EXCEPT !.boost_used = u, !.current_dsq_type = k, !.ran = 0]
    BY <1>3, <1>4, <1>6 DEF Ctx
  <2>2. QED
    BY <2>1, <1>1, <1>2, Zeros DEF Ctx
<1>7. QED
  BY <1>5, <1>6

\* charge_override() takes the time from the budget of the tier's override; what
\* is left belongs to the same tier.
LEMMA ChargeOverride ==
  ASSUME NEW d \in CpuCtx, NEW tier \in Tiers, NEW used \in 0 .. SLICE
  PROVE  LET e == charge_override(d, tier, used) IN
         /\ e \in CpuCtx
         /\ e.head = d.head /\ e.last_override = d.last_override
         /\ e.override_left > 0 =>
              /\ d.override_left > 0
              /\ e.override_tier = d.override_tier
              /\ e.override_left =
                   d.override_left - (IF tier = d.override_tier THEN used ELSE 0)
<1>1. CASE tier # d.override_tier
  BY <1>1 DEF charge_override, CpuCtx
<1>2. CASE tier = d.override_tier
  <2>1. d.override_left \in 0 .. SLICE /\ d.override_tier \in Timed \cup {EMPTY}
          /\ SLICE \in Nat /\ STARVE_OVERRIDE_BUDGET = SLICE
    BY Constants DEF CpuCtx
  <2>2. PICK m : m = Max({0, d.override_left - used})
    OBVIOUS
  <2>3. m = IF d.override_left > used THEN d.override_left - used ELSE 0
    BY <2>1, <2>2, MaxPair
  <2>4. PICK o : o = IF d.override_left > used THEN d.override_tier ELSE EMPTY
    OBVIOUS
  <2>5. charge_override(d, tier, used) =
          [d EXCEPT !.override_left = m, !.override_tier = o]
    BY <1>2, <2>2, <2>4 DEF charge_override
  <2>6. m \in 0 .. STARVE_OVERRIDE_BUDGET /\ o \in Timed \cup {EMPTY}
    BY <2>1, <2>3, <2>4
  <2>7. [d EXCEPT !.override_left = m, !.override_tier = o] \in CpuCtx
    BY <2>6 DEF CpuCtx
  <2>8. /\ [d EXCEPT !.override_left = m, !.override_tier = o].head = d.head
        /\ [d EXCEPT !.override_left = m, !.override_tier = o].last_override = d.last_override
        /\ [d EXCEPT !.override_left = m, !.override_tier = o].override_left = m
        /\ [d EXCEPT !.override_left = m, !.override_tier = o].override_tier = o
    BY DEF CpuCtx
  <2>9. m > 0 => d.override_left > 0 /\ o = d.override_tier /\ m = d.override_left - used
    BY <2>1, <2>3, <2>4
  <2>10. QED
    BY <1>2, <2>5, <2>7, <2>8, <2>9
<1>3. QED
  BY <1>1, <1>2

\* lunar_stopping on the cpu: the task's time is charged.
LEMMA StoppingCpu ==
  ASSUME NEW d \in CpuCtx, NEW x \in Ctx
  PROVE  LET e == stopping_cpu(d, x) IN
         /\ e \in CpuCtx
         /\ e.head = d.head /\ e.last_override = d.last_override
         /\ e.override_left > 0 =>
              /\ d.override_left > 0
              /\ e.override_tier = d.override_tier
              /\ e.override_left = d.override_left -
                   (IF effective_tier(x) = d.override_tier THEN x.ran ELSE 0)
<1>1. effective_tier(x) \in Tiers /\ x.ran \in 0 .. SLICE
  BY EffectiveTier DEF Ctx
<1>2. PICK c : c = charge_override(d, effective_tier(x), x.ran)
  OBVIOUS
<1>3. /\ c \in CpuCtx
      /\ c.head = d.head /\ c.last_override = d.last_override
      /\ c.override_left > 0 =>
           /\ d.override_left > 0
           /\ c.override_tier = d.override_tier
           /\ c.override_left = d.override_left -
                (IF effective_tier(x) = d.override_tier THEN x.ran ELSE 0)
  BY <1>1, <1>2, ChargeOverride, ZenonT(60)
<1>4. stopping_cpu(d, x) = [c EXCEPT !.preempt_pending = FALSE, !.running = EMPTY]
  BY <1>2 DEF stopping_cpu
<1>5. /\ stopping_cpu(d, x) \in CpuCtx
      /\ stopping_cpu(d, x).head = c.head
      /\ stopping_cpu(d, x).last_override = c.last_override
      /\ stopping_cpu(d, x).override_left = c.override_left
      /\ stopping_cpu(d, x).override_tier = c.override_tier
  BY <1>3, <1>4 DEF CpuCtx
<1>6. QED
  BY <1>3, <1>5, Zenon

\* lunar_running on the cpu.
LEMMA RunningCpu ==
  ASSUME NEW d \in CpuCtx, NEW x \in Ctx
  PROVE  LET e == running_cpu(d, x) IN
         /\ e \in CpuCtx
         /\ e.head = d.head /\ e.last_override = d.last_override
         /\ e.override_left = d.override_left /\ e.override_tier = d.override_tier
<1>1. effective_tier(x) \in Tiers
  BY EffectiveTier
<1>2. QED
  BY <1>1 DEF running_cpu, CpuCtx

\* The stamp of a tier.
LEMMA StampCpu ==
  ASSUME NEW d \in CpuCtx, NEW k \in Tiers \cup {EMPTY}
  PROVE  LET e == stamp_tier_head_ts(d, k) IN
         /\ e \in CpuCtx
         /\ \A j \in Timed : e.head[j] = IF j = k THEN 0 ELSE d.head[j]
         /\ e.last_override = d.last_override
         /\ e.override_left = d.override_left /\ e.override_tier = d.override_tier
<1>1. 0 \in 0 .. MaxAge
  BY Constants
<1>2. CASE k \in Timed
  <2>1. PICK h : h = [d.head EXCEPT ![k] = 0]
    OBVIOUS
  <2>2. h \in [Timed -> 0 .. MaxAge] /\ \A j \in Timed : h[j] = IF j = k THEN 0 ELSE d.head[j]
    BY <1>1, <1>2, <2>1 DEF CpuCtx
  <2>3. stamp_tier_head_ts(d, k) = [d EXCEPT !.head = h]
    BY <1>2, <2>1 DEF stamp_tier_head_ts, CpuCtx
  <2>4. QED
    BY <2>2, <2>3 DEF CpuCtx
<1>3. CASE k \notin Timed
  BY <1>3 DEF stamp_tier_head_ts
<1>4. QED
  BY <1>2, <1>3

\* most_starved_tier(): a waiting tier that is over its budget, with none further
\* over; none only within the cooldown or when no tier is over.
LEMMA MostStarved ==
  ASSUME NEW d \in CpuCtx
  PROVE  LET r == most_starved_tier(d) IN
         \/ /\ r = EMPTY
            /\ \/ d.last_override < STARVE_OVERRIDE_COOLDOWN
               \/ \A k \in Timed : dsq[k] # <<>> => d.head[k] <= STARVE_BUDGET[k]
         \/ /\ r \in Timed
            /\ dsq[r] # <<>>
            /\ d.head[r] > STARVE_BUDGET[r]
            /\ \A k \in Timed : dsq[k] # <<>> =>
                 d.head[k] - STARVE_BUDGET[k] <= d.head[r] - STARVE_BUDGET[r]
<1> DEFINE over == {k \in Timed : tier_overrun(d, k) > 0}
           runs == {tier_overrun(d, k) : k \in over}
           most == {k \in over : tier_overrun(d, k) = Max(runs)}
<1>1. /\ d.head \in [Timed -> Nat] /\ STARVE_BUDGET \in [Timed -> Nat]
      /\ d.last_override \in Nat /\ STARVE_OVERRIDE_COOLDOWN \in Nat
  BY Constants DEF CpuCtx
<1>2. most_starved_tier(d) =
        IF d.last_override < STARVE_OVERRIDE_COOLDOWN \/ over = {} THEN EMPTY
        ELSE Min(most)
  BY Zenon DEF most_starved_tier
<1>3. \A k \in Timed : tier_overrun(d, k) =
        IF dsq[k] = <<>> THEN 0 ELSE d.head[k] - STARVE_BUDGET[k]
  BY DEF tier_overrun
<1>4. \A k \in Timed : tier_overrun(d, k) \in Int
  BY <1>1, <1>3
<1>5. CASE d.last_override < STARVE_OVERRIDE_COOLDOWN \/ over = {}
  <2>1. over = {} => \A k \in Timed : dsq[k] # <<>> => d.head[k] <= STARVE_BUDGET[k]
    BY <1>1, <1>3
  <2>2. QED
    BY <1>2, <1>5, <2>1
<1>6. CASE ~ (d.last_override < STARVE_OVERRIDE_COOLDOWN) /\ over # {}
  <2>1. \E m \in over : \A k \in over : tier_overrun(d, k) <= tier_overrun(d, m)
    <3> DEFINE f(k) == tier_overrun(d, k)
    <3>1. \A k \in over : k \in {2, 3, 4} /\ f(k) \in Int
      BY <1>4, TierNumbers
    <3>2. over # {}
      BY <1>6
    <3> HIDE DEF over, f
    <3>3. \E m \in over : \A k \in over : f(k) <= f(m)
      <4>1. CASE 2 \in over /\ 3 \in over /\ 4 \in over
        BY <3>1, <4>1
      <4>2. CASE 2 \in over /\ 3 \in over /\ 4 \notin over
        BY <3>1, <4>2
      <4>3. CASE 2 \in over /\ 3 \notin over
        BY <3>1, <4>3
      <4>4. CASE 2 \notin over /\ 3 \in over
        BY <3>1, <4>4
      <4>5. CASE 2 \notin over /\ 3 \notin over
        BY <3>1, <3>2, <4>5
      <4>6. QED
        BY <4>1, <4>2, <4>3, <4>4, <4>5
    <3>4. QED
      BY <3>3 DEF f
  <2>2. PICK m \in over : \A k \in over : tier_overrun(d, k) <= tier_overrun(d, m)
    BY <2>1
  <2>3. Max(runs) = tier_overrun(d, m)
    <3>1. \E x \in runs : \A y \in runs : x >= y
      BY <2>2, <1>4
    <3>2. Max(runs) \in runs /\ \A y \in runs : Max(runs) >= y
      BY <3>1 DEF Max
    <3>3. QED
      BY <2>2, <3>2, <1>4
  <2>4. most \in SUBSET Timed /\ most # {}
    BY <2>2, <2>3
  <2>5. Min(most) \in most
    BY <2>4, MinTimed
  <2>6. PICK r : r = Min(most)
    OBVIOUS
  <2>7. /\ r \in Timed /\ tier_overrun(d, r) > 0
        /\ \A k \in over : tier_overrun(d, k) <= tier_overrun(d, r)
    BY <2>2, <2>3, <2>5, <2>6
  <2>8. dsq[r] # <<>> /\ d.head[r] > STARVE_BUDGET[r]
    BY <2>7, <1>1, <1>3
  <2>9. \A k \in Timed : dsq[k] # <<>> =>
          d.head[k] - STARVE_BUDGET[k] <= d.head[r] - STARVE_BUDGET[r]
    BY <2>7, <2>8, <1>1, <1>3
  <2>10. most_starved_tier(d) = r
    BY <1>2, <1>6, <2>6
  <2>11. QED
    BY <2>7, <2>8, <2>9, <2>10, Zenon
<1>7. QED
  BY <1>5, <1>6

\* dispatch_dsq_per_cpu(): LC first, then an override that goes on, then a starved
\* tier, then the order of the tiers.
LEMMA DispatchTakes ==
  ASSUME NEW d \in CpuCtx, NEW prev \in Tiers \cup {EMPTY},
         d.override_left > 0 => d.override_tier # EMPTY
  PROVE  LET r == dispatch_dsq_per_cpu(d, prev) IN
         /\ r.tier \in Tiers \cup {EMPTY}
         /\ r.tier # EMPTY => dsq[r.tier] # <<>>
         /\ prev = EMPTY /\ r.tier = EMPTY => \A k \in Tiers : dsq[k] = <<>>
         /\ \/ r.tier = LC /\ r.how = "order"
            \/ /\ r.how = "goes_on" /\ r.tier \in Timed
               /\ r.tier = d.override_tier /\ d.override_left > 0
            \/ /\ r.how = "starved" /\ r.tier \in Timed
               /\ \A k \in Timed : dsq[k] # <<>> =>
                    d.head[k] - STARVE_BUDGET[k] <= d.head[r.tier] - STARVE_BUDGET[r.tier]
            \/ /\ r.how = "order" /\ r.tier \in Timed \cup {EMPTY}
               /\ \/ d.last_override < STARVE_OVERRIDE_COOLDOWN
                  \/ \A k \in Timed : dsq[k] # <<>> => d.head[k] <= STARVE_BUDGET[k]
<1> DEFINE goes_on == d.override_left > 0 /\ dsq[d.override_tier] # <<>>
           starved == most_starved_tier(d)
           waiting == {k \in Timed : dsq[k] # <<>> /\ k <= prev}
           r == dispatch_dsq_per_cpu(d, prev)
<1>1. r = IF dsq[LC] # <<>> THEN [tier |-> LC, how |-> "order"]
          ELSE IF goes_on THEN [tier |-> d.override_tier, how |-> "goes_on"]
          ELSE IF starved # EMPTY THEN [tier |-> starved, how |-> "starved"]
          ELSE IF waiting # {} THEN [tier |-> Min(waiting), how |-> "order"]
          ELSE [tier |-> EMPTY, how |-> "order"]
  BY Zenon DEF dispatch_dsq_per_cpu
<1>2. \/ /\ starved = EMPTY
         /\ \/ d.last_override < STARVE_OVERRIDE_COOLDOWN
            \/ \A k \in Timed : dsq[k] # <<>> => d.head[k] <= STARVE_BUDGET[k]
      \/ /\ starved \in Timed
         /\ dsq[starved] # <<>>
         /\ \A k \in Timed : dsq[k] # <<>> =>
              d.head[k] - STARVE_BUDGET[k] <= d.head[starved] - STARVE_BUDGET[starved]
  BY MostStarved, Zenon
<1>3. d.override_tier \in Timed \cup {EMPTY} /\ EMPTY \notin Timed /\ LC \in Tiers
        /\ Timed \subseteq Tiers /\ EMPTY # LC
  BY TierNumbers DEF CpuCtx
<1> HIDE DEF r, starved
<1>4. CASE dsq[LC] # <<>>
  <2>1. r.tier = LC /\ r.how = "order"
    BY <1>1, <1>4
  <2>2. QED
    BY <1>3, <1>4, <2>1 DEF r
<1>5. CASE dsq[LC] = <<>> /\ goes_on
  <2>1. r.tier = d.override_tier /\ r.how = "goes_on"
    BY <1>1, <1>5
  <2>2. QED
    BY <1>3, <1>5, <2>1 DEF r
<1>6. CASE dsq[LC] = <<>> /\ ~ goes_on /\ starved # EMPTY
  <2>1. r.tier = starved /\ r.how = "starved"
    BY <1>1, <1>6
  <2>2. QED
    BY <1>2, <1>3, <1>6, <2>1, Zenon DEF r
<1>7. CASE dsq[LC] = <<>> /\ ~ goes_on /\ starved = EMPTY /\ waiting # {}
  <2>1. Min(waiting) \in waiting
    BY <1>7, MinTimed
  <2>2. r.tier = Min(waiting) /\ r.how = "order"
    BY <1>1, <1>7
  <2>3. r.tier \in Timed /\ dsq[r.tier] # <<>>
    BY <2>1, <2>2
  <2>4. QED
    BY <1>2, <1>3, <1>7, <2>2, <2>3, Zenon DEF r
<1>8. CASE dsq[LC] = <<>> /\ ~ goes_on /\ starved = EMPTY /\ waiting = {}
  <2>1. r.tier = EMPTY /\ r.how = "order"
    BY <1>1, <1>8
  <2>2. prev = EMPTY => \A k \in Tiers : dsq[k] = <<>>
    BY <1>8, TierNumbers
  <2>3. QED
    BY <1>2, <1>3, <1>8, <2>1, <2>2, Zenon DEF r
<1>9. QED
  BY <1>4, <1>5, <1>6, <1>7, <1>8

\* The cpu after an override began, went on, or ended.
LEMMA OverrideCpu ==
  ASSUME NEW d \in CpuCtx, NEW r, r.tier \in Tiers \cup {EMPTY}
  PROVE  LET e == override_cpu(d, r) IN
         /\ r.tier = LC \/ r.how = "goes_on" => e = d
         /\ r.tier \in Timed /\ r.how = "starved" =>
              /\ e \in CpuCtx /\ e.head = d.head
              /\ e.last_override = 0 /\ e.override_tier = r.tier
              /\ e.override_left = STARVE_OVERRIDE_BUDGET
         /\ r.tier # LC /\ r.how = "order" =>
              /\ e \in CpuCtx /\ e.head = d.head
              /\ e.last_override = d.last_override /\ e.override_left = 0
<1>1. 0 \in 0 .. STARVE_OVERRIDE_COOLDOWN /\ 0 \in 0 .. STARVE_OVERRIDE_BUDGET
        /\ STARVE_OVERRIDE_BUDGET \in 0 .. STARVE_OVERRIDE_BUDGET
  BY Constants
<1>2. LC \notin Timed
  BY TierNumbers
<1>3. ASSUME r.tier \in Timed, r.how = "starved"
      PROVE  override_cpu(d, r) = [d EXCEPT !.last_override = 0, !.override_tier = r.tier,
                                            !.override_left = STARVE_OVERRIDE_BUDGET]
  BY <1>2, <1>3 DEF override_cpu
<1>4. ASSUME r.tier # LC, r.how = "order"
      PROVE  override_cpu(d, r) = [d EXCEPT !.override_left = 0, !.override_tier = EMPTY]
  BY <1>4 DEF override_cpu
<1>5. r.tier = LC \/ r.how = "goes_on" => override_cpu(d, r) = d
  BY DEF override_cpu
<1>6. ASSUME r.tier \in Timed, r.how = "starved"
      PROVE  LET e == override_cpu(d, r) IN
             /\ e \in CpuCtx /\ e.head = d.head
             /\ e.last_override = 0 /\ e.override_tier = r.tier
             /\ e.override_left = STARVE_OVERRIDE_BUDGET
  <2>1. PICK k \in Timed : k = r.tier
    BY <1>6
  <2>2. PICK b : b = STARVE_OVERRIDE_BUDGET
    OBVIOUS
  <2>3. override_cpu(d, r) = [d EXCEPT !.last_override = 0, !.override_tier = k,
                                       !.override_left = b]
    BY <1>3, <1>6, <2>1, <2>2
  <2>4. QED
    BY <1>1, <2>1, <2>2, <2>3 DEF CpuCtx
<1>7. ASSUME r.tier # LC, r.how = "order"
      PROVE  LET e == override_cpu(d, r) IN
             /\ e \in CpuCtx /\ e.head = d.head
             /\ e.last_override = d.last_override /\ e.override_left = 0
  BY <1>1, <1>4, <1>7 DEF CpuCtx
<1>8. QED
  BY <1>5, <1>6, <1>7, Zenon

-----------------------------------------------------------------------------
(* The queues                                                              *)

\* No queue holds t.
Unqueued(t) == \A k \in Tiers : \A i \in 1 .. Len(dsq[k]) : dsq[k][i] # t

\* The first task is taken: the others stay where they are.
LEMMA TailOf ==
  ASSUME NEW q \in Seq(Tasks), q # <<>>
  PROVE  /\ Tail(q) \in Seq(Tasks) /\ Head(q) \in Tasks /\ Head(q) = q[1]
         /\ Len(q) \in Nat /\ Len(q) > 0 /\ Len(Tail(q)) = Len(q) - 1
         /\ \A i \in 1 .. Len(Tail(q)) : i + 1 \in 1 .. Len(q) /\ Tail(q)[i] = q[i + 1]
  OBVIOUS

\* Nothing comes after an only task.
LEMMA TailOfOne ==
  ASSUME NEW q \in Seq(Tasks), q # <<>>, Len(q) <= 1
  PROVE  Tail(q) = <<>>
<1>1. /\ Tail(q) \in Seq(Tasks) /\ Len(q) \in Nat /\ Len(q) > 0
      /\ Len(Tail(q)) = Len(q) - 1
  BY TailOf, ZenonT(60)
<1>2. PICK n \in Nat : n = Len(q)
  BY <1>1
<1>3. PICK r \in Seq(Tasks) : r = Tail(q)
  BY <1>1
<1>4. Len(r) = n - 1 /\ n > 0 /\ n <= 1
  BY <1>1, <1>2, <1>3
<1>5. Len(r) = 0
  BY <1>4
<1>6. r = <<>>
  BY <1>5
<1>7. QED
  BY <1>3, <1>6

\* A task comes last.
LEMMA AppendOf ==
  ASSUME NEW q \in Seq(Tasks), NEW t \in Tasks
  PROVE  /\ Append(q, t) \in Seq(Tasks) /\ Append(q, t) # <<>>
         /\ \A i \in 1 .. Len(Append(q, t)) :
              \/ i = Len(q) + 1 /\ Append(q, t)[i] = t
              \/ i \in 1 .. Len(q) /\ Append(q, t)[i] = q[i]
  OBVIOUS

\* A task comes first.
LEMMA PushOf ==
  ASSUME NEW q \in Seq(Tasks), NEW t \in Tasks
  PROVE  /\ <<t>> \o q \in Seq(Tasks) /\ <<t>> \o q # <<>>
         /\ \A i \in 1 .. Len(<<t>> \o q) :
              \/ i = 1 /\ (<<t>> \o q)[i] = t
              \/ i - 1 \in 1 .. Len(q) /\ (<<t>> \o q)[i] = q[i - 1]
<1>1. <<t>> \in Seq(Tasks) /\ Len(<<t>>) = 1 /\ <<t>>[1] = t
  OBVIOUS
<1>2. PICK s \in Seq(Tasks) : s = <<t>>
  BY <1>1
<1>3. /\ s \o q \in Seq(Tasks) /\ Len(s \o q) = Len(s) + Len(q) /\ Len(q) \in Nat
      /\ \A i \in 1 .. Len(s \o q) : (s \o q)[i] = IF i <= Len(s) THEN s[i] ELSE q[i - Len(s)]
  OBVIOUS
<1>4. QED
  BY <1>1, <1>2, <1>3

\* The head of a queue is taken.
LEMMA TakeQueued ==
  ASSUME dsq \in [Tiers -> Seq(Tasks)], Queued, NEW k \in Tiers, dsq[k] # <<>>,
         dsq' = [dsq EXCEPT ![k] = Tail(@)]
  PROVE  /\ dsq' \in [Tiers -> Seq(Tasks)]
         /\ Head(dsq[k]) \in Tasks
         /\ state[Head(dsq[k])] = "queued" /\ slice[Head(dsq[k])] > 0
         /\ Distinct'
         /\ \A l \in Tiers : \A i \in 1 .. Len(dsq'[l]) :
              /\ dsq'[l][i] # Head(dsq[k])
              /\ state[dsq'[l][i]] = "queued" /\ slice[dsq'[l][i]] > 0
         /\ \A l \in Tiers : l # k => dsq'[l] = dsq[l]
<1>1. PICK q \in Seq(Tasks) : q = dsq[k] /\ q # <<>>
  OBVIOUS
<1>2. /\ Tail(q) \in Seq(Tasks) /\ Head(q) \in Tasks /\ Head(q) = q[1]
      /\ Len(q) \in Nat /\ Len(q) > 0 /\ Len(Tail(q)) = Len(q) - 1
      /\ \A i \in 1 .. Len(Tail(q)) : i + 1 \in 1 .. Len(q) /\ Tail(q)[i] = q[i + 1]
  BY <1>1, TailOf
<1>3. /\ dsq' \in [Tiers -> Seq(Tasks)] /\ dsq'[k] = Tail(q)
      /\ \A l \in Tiers : l # k => dsq'[l] = dsq[l]
  BY <1>1, <1>2
<1>4. 1 \in 1 .. Len(dsq[k]) /\ dsq[k][1] = Head(q)
  BY <1>1, <1>2
<1>5. state[Head(q)] = "queued" /\ slice[Head(q)] > 0
  BY <1>4 DEF Queued
\* Every place of the new queues is a place of the old ones.
<1> DEFINE p(l, i) == IF l = k THEN i + 1 ELSE i
<1>6. \A l \in Tiers : \A i \in 1 .. Len(dsq'[l]) :
        /\ p(l, i) \in 1 .. Len(dsq[l]) /\ dsq'[l][i] = dsq[l][p(l, i)]
        /\ <<l, p(l, i)>> # <<k, 1>>
  <2> SUFFICES ASSUME NEW l \in Tiers, NEW i \in 1 .. Len(dsq'[l])
               PROVE  /\ p(l, i) \in 1 .. Len(dsq[l]) /\ dsq'[l][i] = dsq[l][p(l, i)]
                      /\ <<l, p(l, i)>> # <<k, 1>>
    OBVIOUS
  <2>1. CASE l = k
    BY <1>1, <1>2, <1>3, <2>1
  <2>2. CASE l # k
    BY <1>3, <2>2
  <2>3. QED
    BY <2>1, <2>2
<1>7. \A l \in Tiers : \A i \in 1 .. Len(dsq'[l]) :
        dsq'[l][i] # Head(q) /\ state[dsq'[l][i]] = "queued" /\ slice[dsq'[l][i]] > 0
  <2> SUFFICES ASSUME NEW l \in Tiers, NEW i \in 1 .. Len(dsq'[l])
               PROVE  dsq'[l][i] # Head(q) /\ state[dsq'[l][i]] = "queued"
                        /\ slice[dsq'[l][i]] > 0
    OBVIOUS
  <2>1. PICK m \in 1 .. Len(dsq[l]) : dsq'[l][i] = dsq[l][m] /\ <<l, m>> # <<k, 1>>
    BY <1>6
  <2>2. dsq[l][m] # dsq[k][1]
    BY <1>4, <2>1 DEF Queued, Distinct
  <2>3. QED
    BY <1>4, <2>1, <2>2 DEF Queued
<1>8. Distinct'
  <2> SUFFICES ASSUME NEW l \in Tiers, NEW m \in Tiers,
                      NEW i \in 1 .. Len(dsq'[l]), NEW j \in 1 .. Len(dsq'[m]),
                      dsq'[l][i] = dsq'[m][j]
               PROVE  l = m /\ i = j
    BY DEF Distinct
  <2>1. /\ p(l, i) \in 1 .. Len(dsq[l]) /\ p(m, j) \in 1 .. Len(dsq[m])
        /\ dsq[l][p(l, i)] = dsq[m][p(m, j)]
    BY <1>6
  <2>2. l = m /\ p(l, i) = p(m, j)
    BY <2>1 DEF Queued, Distinct
  <2>3. QED
    BY <2>2
<1>9. QED
  BY <1>1, <1>2, <1>3, <1>5, <1>7, <1>8, ZenonT(60)

\* A task enters a queue, at one end of it.
LEMMA EnterQueued ==
  ASSUME dsq \in [Tiers -> Seq(Tasks)], Queued, NEW t \in Tasks, Unqueued(t),
         NEW k \in Tiers, NEW first \in BOOLEAN,
         dsq' = [dsq EXCEPT ![k] = IF first THEN <<t>> \o @ ELSE Append(@, t)]
  PROVE  /\ dsq' \in [Tiers -> Seq(Tasks)]
         /\ Distinct'
         /\ \A l \in Tiers : \A i \in 1 .. Len(dsq'[l]) :
              \/ dsq'[l][i] = t
              \/ state[dsq'[l][i]] = "queued" /\ slice[dsq'[l][i]] > 0 /\ dsq'[l][i] # t
         /\ \A l \in Tiers : l # k => dsq'[l] = dsq[l]
         /\ dsq'[k] # <<>>
         /\ \A u \in Tasks : u # t /\ Unqueued(u) =>
              \A l \in Tiers : \A i \in 1 .. Len(dsq'[l]) : dsq'[l][i] # u
<1>1. PICK q \in Seq(Tasks) : q = dsq[k]
  OBVIOUS
<1>2. PICK s : s = IF first THEN <<t>> \o q ELSE Append(q, t)
  OBVIOUS
<1>3. PICK z \in {0, 1}, e \in Nat :
        /\ s \in Seq(Tasks) /\ s # <<>>
        /\ \A i \in 1 .. Len(s) : \/ i = e /\ s[i] = t
                                  \/ i # e /\ i - z \in 1 .. Len(q) /\ s[i] = q[i - z]
  <2>1. CASE first
    <3>1. /\ s \in Seq(Tasks) /\ s # <<>>
          /\ \A i \in 1 .. Len(s) : \/ i = 1 /\ s[i] = t
                                    \/ i - 1 \in 1 .. Len(q) /\ s[i] = q[i - 1]
      BY <2>1, <1>2, PushOf
    <3>2. Len(q) \in Nat /\ \A i \in 1 .. Len(s) : i - 1 \in 1 .. Len(q) => i # 1
      OBVIOUS
    <3>3. QED
      BY <3>1, <3>2
  <2>2. CASE ~ first
    <3>1. /\ s \in Seq(Tasks) /\ s # <<>>
          /\ \A i \in 1 .. Len(s) : \/ i = Len(q) + 1 /\ s[i] = t
                                    \/ i \in 1 .. Len(q) /\ s[i] = q[i]
      BY <2>2, <1>2, AppendOf
    <3>2. PICK n \in Nat : n = Len(q)
      OBVIOUS
    <3>3. \A i \in 1 .. Len(s) : \/ i = n + 1 /\ s[i] = t
                                 \/ i # n + 1 /\ i - 0 \in 1 .. Len(q) /\ s[i] = q[i - 0]
      BY <3>1, <3>2
    <3>4. n + 1 \in Nat
      BY <3>2
    <3>5. QED
      BY <3>1, <3>3, <3>4
  <2>3. QED
    BY <2>1, <2>2
<1>4. /\ dsq' \in [Tiers -> Seq(Tasks)] /\ dsq'[k] = s
      /\ \A l \in Tiers : l # k => dsq'[l] = dsq[l]
  BY <1>1, <1>2, <1>3
<1> DEFINE p(l, i) == IF l = k THEN i - z ELSE i
<1>5. \A l \in Tiers : \A i \in 1 .. Len(dsq'[l]) :
        \/ l = k /\ i = e /\ dsq'[l][i] = t
        \/ <<l, i>> # <<k, e>> /\ p(l, i) \in 1 .. Len(dsq[l]) /\ dsq'[l][i] = dsq[l][p(l, i)]
  <2> SUFFICES ASSUME NEW l \in Tiers, NEW i \in 1 .. Len(dsq'[l])
               PROVE  \/ l = k /\ i = e /\ dsq'[l][i] = t
                      \/ /\ <<l, i>> # <<k, e>> /\ p(l, i) \in 1 .. Len(dsq[l])
                         /\ dsq'[l][i] = dsq[l][p(l, i)]
    OBVIOUS
  <2>1. CASE l = k
    BY <1>1, <1>3, <1>4, <2>1
  <2>2. CASE l # k
    BY <1>4, <2>2
  <2>3. QED
    BY <2>1, <2>2
<1>6. \A l \in Tiers : \A i \in 1 .. Len(dsq'[l]) :
        \/ dsq'[l][i] = t
        \/ state[dsq'[l][i]] = "queued" /\ slice[dsq'[l][i]] > 0 /\ dsq'[l][i] # t
  <2> SUFFICES ASSUME NEW l \in Tiers, NEW i \in 1 .. Len(dsq'[l]), dsq'[l][i] # t
               PROVE  state[dsq'[l][i]] = "queued" /\ slice[dsq'[l][i]] > 0
    OBVIOUS
  <2>1. PICK m \in 1 .. Len(dsq[l]) : dsq'[l][i] = dsq[l][m]
    BY <1>5
  <2>2. QED
    BY <2>1 DEF Queued
<1>7. Distinct'
  <2> SUFFICES ASSUME NEW l \in Tiers, NEW m \in Tiers,
                      NEW i \in 1 .. Len(dsq'[l]), NEW j \in 1 .. Len(dsq'[m]),
                      dsq'[l][i] = dsq'[m][j]
               PROVE  l = m /\ i = j
    BY DEF Distinct
  <2>1. CASE dsq'[l][i] = t
    BY <1>5, <2>1 DEF Unqueued
  <2>2. CASE dsq'[l][i] # t
    <3>1. /\ p(l, i) \in 1 .. Len(dsq[l]) /\ p(m, j) \in 1 .. Len(dsq[m])
          /\ dsq[l][p(l, i)] = dsq[m][p(m, j)]
      BY <1>5, <2>2
    <3>2. l = m /\ p(l, i) = p(m, j)
      BY <3>1, SMTT(30) DEF Queued, Distinct
    <3>3. QED
      BY <3>2
  <2>3. QED
    BY <2>1, <2>2
<1>8. \A u \in Tasks : u # t /\ Unqueued(u) =>
        \A l \in Tiers : \A i \in 1 .. Len(dsq'[l]) : dsq'[l][i] # u
  BY <1>5 DEF Unqueued
<1>9. QED
  BY <1>3, <1>4, <1>6, <1>7, <1>8

-----------------------------------------------------------------------------
(* What the steps have in common                                           *)

\* A tier is served, and its clock starts again, or nothing changes for it.
HeadsStep ==
  \A k \in Timed :
    \/ dctx'.head[k] = 0 /\ hist'.unserved[k] = 0
    \/ /\ dsq'[k] = <<>> <=> dsq[k] = <<>>
       /\ dctx'.head[k] = dctx.head[k]
       /\ hist'.unserved[k] = hist.unserved[k]

\* An override keeps what is left of it, whether it is charged or not.
ChargeStep ==
  /\ dctx'.last_override = dctx.last_override
  /\ dctx'.override_left > 0 =>
       /\ dctx.override_left > 0
       /\ dctx'.override_tier = dctx.override_tier
       /\ dctx'.override_left - Uncharged' = dctx.override_left - Uncharged

\* No task joins an override.
ViaStep ==
  /\ hist'.over = hist.over /\ hist'.tier = hist.tier
  /\ \A t \in hist'.via : t \in hist.via /\ slice'[t] <= slice[t] /\ Via(t)'

\* The types, as the steps use them.
LEMMA TypesFacts ==
  ASSUME Types
  PROVE  /\ tctx \in [Tasks -> Ctx] /\ dctx \in CpuCtx /\ hist \in Hist
         /\ slice \in [Tasks -> 0 .. SLICE] /\ SLICE \in Nat /\ SLICE > 0
         /\ slice \in [Tasks -> Nat]
         /\ dctx.head \in [Timed -> Nat] /\ STARVE_BUDGET \in [Timed -> Nat]
         /\ dctx.last_override \in Nat /\ STARVE_OVERRIDE_COOLDOWN \in Nat
         /\ dctx.override_left \in Nat /\ dctx.override_left <= SLICE
         /\ hist.unserved \in [Timed -> Nat] /\ hist.over \in Nat
         /\ Uncharged \in Nat
<1>1. tctx \in [Tasks -> Ctx] /\ dctx \in CpuCtx /\ hist \in Hist
        /\ slice \in [Tasks -> 0 .. SLICE]
  BY DEF Types, TypeOK, Ctx, CpuCtx, Hist
<1>2. Uncharged \in Nat
  BY <1>1 DEF Uncharged, Ctx
<1>3. hist.unserved \in [Timed -> Nat] /\ hist.over \in Nat
  BY <1>1 DEF Hist
<1>4. dctx.head \in [Timed -> 0 .. MaxAge] /\ dctx.override_left \in 0 .. STARVE_OVERRIDE_BUDGET
        /\ dctx.last_override \in 0 .. STARVE_OVERRIDE_COOLDOWN
  BY <1>1 DEF CpuCtx
<1>5. QED
  BY <1>1, <1>2, <1>3, <1>4, Constants

\* The same after a step.
LEMMA TypesNext ==
  ASSUME Types'
  PROVE  /\ tctx' \in [Tasks -> Ctx] /\ dctx' \in CpuCtx /\ hist' \in Hist
         /\ slice' \in [Tasks -> 0 .. SLICE] /\ slice' \in [Tasks -> Nat]
         /\ dctx'.head \in [Timed -> Nat]
         /\ dctx'.last_override \in Nat
         /\ dctx'.override_left \in Nat /\ dctx'.override_left <= SLICE
         /\ hist'.unserved \in [Timed -> Nat] /\ hist'.over \in Nat
         /\ Uncharged' \in Nat
<1>1. tctx' \in [Tasks -> Ctx] /\ dctx' \in CpuCtx /\ hist' \in Hist
        /\ slice' \in [Tasks -> 0 .. SLICE]
  BY DEF Types, TypeOK, Ctx, CpuCtx, Hist, STARVE_OVERRIDE_BUDGET
<1>2. Uncharged' \in Nat
  BY <1>1 DEF Uncharged, Ctx
<1>3. hist'.unserved \in [Timed -> Nat] /\ hist'.over \in Nat
  BY <1>1 DEF Hist
<1>4. /\ dctx'.head \in [Timed -> 0 .. MaxAge]
      /\ dctx'.override_left \in 0 .. STARVE_OVERRIDE_BUDGET
      /\ dctx'.last_override \in 0 .. STARVE_OVERRIDE_COOLDOWN
  BY <1>1 DEF CpuCtx
<1>5. QED
  BY <1>1, <1>2, <1>3, <1>4, Constants

\* The turns before a tier are at most two.
LEMMA TurnsBounds ==
  ASSUME NEW k \in Timed
  PROVE  TurnsBefore(k) \in Nat /\ TurnsBefore(k) <= 2 * Turn
<1>1. k \in {2, 3, 4} /\ INTERACTIVE = 2 /\ NORMAL = 3 /\ GREEDY = 4
  BY TierNumbers
<1>2. TurnOf(k, k) = 0
  BY DEF TurnOf, Ahead
<1>3. \A j \in {2, 3, 4} : TurnOf(j, k) \in Nat /\ TurnOf(j, k) <= Turn
  BY TurnBounds DEF TurnOf
<1>4. QED
  BY <1>1, <1>2, <1>3, TurnBounds DEF TurnsBefore

\* A tier that waits on has no less to wait: none gets ahead of it, for what is
\* served starts from nothing; and a turn less if one that was ahead is served.
LEMMA Margins ==
  ASSUME Types, Types', HeadsStep, NEW k \in Timed,
         dsq'[k] # <<>>, dctx'.head[k] > STARVE_BUDGET[k]
  PROVE  /\ dsq[k] # <<>> /\ dctx.head[k] > STARVE_BUDGET[k]
         /\ dctx'.head[k] = dctx.head[k]
         /\ Margin(k) \in Int /\ Margin(k)' \in Int
         /\ Margin(k)' >= Margin(k)
         /\ \A j \in Timed : Ahead(j, k) /\ dctx'.head[j] = 0 =>
              Margin(k)' >= Margin(k) + Turn
<1>1. /\ dctx.head \in [Timed -> Nat] /\ dctx'.head \in [Timed -> Nat]
      /\ STARVE_BUDGET \in [Timed -> Nat]
      /\ hist.unserved \in [Timed -> Nat] /\ hist'.unserved \in [Timed -> Nat]
  <2>1. dctx'.head \in [Timed -> 0 .. MaxAge] /\ hist'.unserved \in [Timed -> Nat]
    BY DEF Types, TypeOK
  <2>2. QED
    BY <2>1, TypesFacts, Constants
<1>2. dctx'.head[k] # 0
  BY <1>1
<1>3. /\ dsq[k] # <<>> /\ dctx'.head[k] = dctx.head[k]
      /\ hist'.unserved[k] = hist.unserved[k]
  BY <1>2 DEF HeadsStep
<1>4. \A j \in Timed : Ahead(j, k)' => Ahead(j, k) /\ dctx'.head[j] # 0
  <2> SUFFICES ASSUME NEW j \in Timed, Ahead(j, k)'
               PROVE  Ahead(j, k) /\ dctx'.head[j] # 0
    OBVIOUS
  <2>1. /\ j # k /\ dsq'[j] # <<>>
        /\ dctx'.head[j] - STARVE_BUDGET[j] >= dctx'.head[k] - STARVE_BUDGET[k]
    BY DEF Ahead
  <2>2. dctx'.head[j] # 0
    BY <2>1, <1>1
  <2>3. dsq[j] # <<>> /\ dctx'.head[j] = dctx.head[j]
    BY <2>1, <2>2 DEF HeadsStep
  <2>4. QED
    BY <2>1, <2>2, <2>3, <1>3 DEF Ahead
<1>5. \A j \in Timed : /\ TurnOf(j, k) \in Nat /\ TurnOf(j, k)' \in Nat
                       /\ TurnOf(j, k)' <= TurnOf(j, k)
                       /\ Ahead(j, k) /\ dctx'.head[j] = 0 =>
                            TurnOf(j, k)' + Turn <= TurnOf(j, k)
  <2> SUFFICES ASSUME NEW j \in Timed
               PROVE  /\ TurnOf(j, k) \in Nat /\ TurnOf(j, k)' \in Nat
                      /\ TurnOf(j, k)' <= TurnOf(j, k)
                      /\ Ahead(j, k) /\ dctx'.head[j] = 0 =>
                           TurnOf(j, k)' + Turn <= TurnOf(j, k)
    OBVIOUS
  <2>1. TurnOf(j, k)' = IF Ahead(j, k)' THEN Turn ELSE 0
    BY DEF TurnOf, Turn, STARVE_OVERRIDE_BUDGET
  <2>2. TurnOf(j, k) = IF Ahead(j, k) THEN Turn ELSE 0
    BY DEF TurnOf
  <2>3. Ahead(j, k)' => Ahead(j, k) /\ dctx'.head[j] # 0
    BY <1>4
  <2>4. Turn \in Nat
    BY TurnBounds
  <2>5. QED
    BY <2>1, <2>2, <2>3, <2>4
<1> DEFINE a(j) == TurnOf(j, k)
           b(j) == TurnOf(j, k)'
<1>6. /\ TurnsBefore(k) = a(2) + a(3) + a(4)
      /\ TurnsBefore(k)' = b(2) + b(3) + b(4)
  BY DEF TurnsBefore, INTERACTIVE, NORMAL, GREEDY
<1>7. /\ Margin(k) = STARVE_BUDGET[k] + 3 * Turn - TurnsBefore(k) - hist.unserved[k]
      /\ Margin(k)' = STARVE_BUDGET[k] + 3 * Turn - TurnsBefore(k)' - hist'.unserved[k]
  BY DEF Margin, Turn, STARVE_OVERRIDE_BUDGET
<1>8. \A j \in {2, 3, 4} : /\ a(j) \in Nat /\ b(j) \in Nat /\ b(j) <= a(j)
                           /\ Ahead(j, k) /\ dctx'.head[j] = 0 => b(j) + Turn <= a(j)
  BY <1>5, TierNumbers
<1> HIDE DEF a, b
<1>9. PICK u \in Nat, B \in Nat, T \in Nat :
        u = hist.unserved[k] /\ B = STARVE_BUDGET[k] /\ T = Turn
  BY <1>1, TurnBounds
<1>10. /\ Margin(k) = B + 3 * T - (a(2) + a(3) + a(4)) - u
       /\ Margin(k)' = B + 3 * T - (b(2) + b(3) + b(4)) - u
  BY <1>3, <1>6, <1>7, <1>9
<1>11. /\ Margin(k) \in Int /\ Margin(k)' \in Int
       /\ Margin(k)' >= Margin(k)
       /\ \A j \in {2, 3, 4} : Ahead(j, k) /\ dctx'.head[j] = 0 =>
            Margin(k)' >= Margin(k) + T
  <2>1. PICK a2 \in Nat, a3 \in Nat, a4 \in Nat : a2 = a(2) /\ a3 = a(3) /\ a4 = a(4)
    BY <1>8
  <2>2. PICK b2 \in Nat, b3 \in Nat, b4 \in Nat : b2 = b(2) /\ b3 = b(3) /\ b4 = b(4)
    BY <1>8
  <2>3. b2 <= a2 /\ b3 <= a3 /\ b4 <= a4
    BY <1>8, <2>1, <2>2
  <2>4. /\ Margin(k) = B + 3 * T - (a2 + a3 + a4) - u
        /\ Margin(k)' = B + 3 * T - (b2 + b3 + b4) - u
    BY <1>10, <2>1, <2>2
  <2>5. /\ Ahead(2, k) /\ dctx'.head[2] = 0 => b2 + T <= a2
        /\ Ahead(3, k) /\ dctx'.head[3] = 0 => b3 + T <= a3
        /\ Ahead(4, k) /\ dctx'.head[4] = 0 => b4 + T <= a4
    BY <1>8, <1>9, <2>1, <2>2
  <2>6. QED
    BY <2>3, <2>4, <2>5
<1>12. QED
  BY <1>3, <1>9, <1>11, TierNumbers

\* A step that serves tiers or does nothing for them keeps the bound on starving.
LEMMA StarveKeep ==
  ASSUME Types, Types', StarveInv, HeadsStep, ChargeStep,
         hist'.from = hist.from, Rest' \in Nat, Rest \in Nat, Rest' <= Rest
  PROVE  StarveInv'
<1>1. dctx'.override_left > 0 /\ hist'.from # LC => hist'.from = dctx'.override_tier
  BY DEF StarveInv, ChargeStep
<1>2. /\ dctx'.override_left \in Nat /\ Uncharged' \in Nat
      /\ dctx.override_left \in Nat /\ Uncharged \in Nat
      /\ dctx'.last_override = dctx.last_override /\ dctx.last_override \in Nat
      /\ STARVE_OVERRIDE_COOLDOWN \in Nat /\ SLICE \in Nat
      /\ hist.unserved \in [Timed -> Nat]
  <2>1. dctx'.override_left \in Nat /\ Uncharged' \in Nat
    BY TypesNext
  <2>2. QED
    BY <2>1, TypesFacts DEF ChargeStep
<1>3. \A k \in Timed : hist'.unserved[k] <= dctx'.head[k]
                       /\ (dsq'[k] = <<>> => hist'.unserved[k] = 0)
  BY DEF StarveInv, HeadsStep
<1>4. ASSUME NEW k \in Timed, dsq'[k] # <<>>, dctx'.head[k] > STARVE_BUDGET[k]
      PROVE  /\ Rest' <= Margin(k)'
             /\ dctx'.last_override < STARVE_OVERRIDE_COOLDOWN =>
                  STARVE_OVERRIDE_COOLDOWN - dctx'.last_override + SLICE - 1 <= Margin(k)'
             /\ dctx'.override_left > Uncharged' =>
                  dctx'.override_left - Uncharged' + SLICE - 1 <= Margin(k)'
  <2>1. /\ dsq[k] # <<>> /\ dctx.head[k] > STARVE_BUDGET[k]
        /\ Margin(k) \in Int /\ Margin(k)' \in Int
        /\ Margin(k)' >= Margin(k)
    BY <1>4, Margins
  <2>2. /\ Rest <= Margin(k)
        /\ dctx.last_override < STARVE_OVERRIDE_COOLDOWN =>
             STARVE_OVERRIDE_COOLDOWN - dctx.last_override + SLICE - 1 <= Margin(k)
        /\ dctx.override_left > Uncharged =>
             dctx.override_left - Uncharged + SLICE - 1 <= Margin(k)
    BY <2>1 DEF StarveInv
  <2>3. dctx'.override_left > Uncharged' =>
          /\ dctx'.override_left - Uncharged' = dctx.override_left - Uncharged
          /\ dctx.override_left > Uncharged
    BY <1>2 DEF ChargeStep
  <2>4. QED
    BY <1>2, <2>1, <2>2, <2>3
<1>5. QED
  BY <1>1, <1>3, <1>4 DEF StarveInv

\* A step in which no task joins the override keeps the bound on it.
LEMMA OverrideKeep ==
  ASSUME Types, Types', OverrideInv, ChargeStep, ViaStep
  PROVE  OverrideInv'
<1>1. /\ dctx'.override_left \in Nat /\ Uncharged' \in Nat
      /\ dctx.override_left \in Nat /\ Uncharged \in Nat /\ hist.over \in Nat
      /\ slice \in [Tasks -> Nat] /\ slice' \in [Tasks -> Nat] /\ SLICE \in Nat
  <2>1. dctx'.override_left \in Nat /\ Uncharged' \in Nat /\ slice' \in [Tasks -> Nat]
    BY TypesNext
  <2>2. QED
    BY <2>1, TypesFacts
<1>2. STARVE_OVERRIDE_BUDGET = SLICE
  BY DEF STARVE_OVERRIDE_BUDGET
<1>3. OverrideBounded'
  BY DEF OverrideInv, OverrideBounded, ViaStep, STARVE_OVERRIDE_BUDGET
<1>4. \A t \in hist'.via : Via(t)'
  BY DEF ViaStep
<1>5. \A t \in hist'.via : hist'.over + slice'[t] < STARVE_OVERRIDE_BUDGET + SLICE
  <2> SUFFICES ASSUME NEW t \in hist'.via
               PROVE  hist'.over + slice'[t] < STARVE_OVERRIDE_BUDGET + SLICE
    OBVIOUS
  <2>1. t \in hist.via /\ slice'[t] <= slice[t] /\ hist'.over = hist.over
    BY DEF ViaStep
  <2>2. hist.over + slice[t] < STARVE_OVERRIDE_BUDGET + SLICE
    BY <2>1 DEF OverrideInv
  <2>3. t \in Tasks
    BY <2>1 DEF Types
  <2>4. slice[t] \in Nat /\ slice'[t] \in Nat
    BY <1>1, <2>3
  <2>5. QED
    BY <1>1, <1>2, <2>1, <2>2, <2>4
<1>6. ASSUME dctx'.override_left > 0
      PROVE  /\ dctx'.override_tier # EMPTY
             /\ hist'.tier = dctx'.override_tier
             /\ hist'.over + dctx'.override_left <= STARVE_OVERRIDE_BUDGET + Uncharged'
  <2>1. /\ dctx.override_left > 0 /\ dctx'.override_tier = dctx.override_tier
        /\ dctx'.override_left - Uncharged' = dctx.override_left - Uncharged
    BY <1>6 DEF ChargeStep
  <2>2. /\ dctx.override_tier # EMPTY /\ hist.tier = dctx.override_tier
        /\ hist.over + dctx.override_left <= STARVE_OVERRIDE_BUDGET + Uncharged
    BY <2>1 DEF OverrideInv
  <2>3. hist'.over = hist.over /\ hist'.tier = hist.tier
    BY DEF ViaStep
  <2>4. QED
    BY <1>1, <1>2, <2>1, <2>2, <2>3
<1>7. QED
  BY <1>3, <1>4, <1>5, <1>6 DEF OverrideInv, STARVE_OVERRIDE_BUDGET

\* The boost of a task that the step leaves alone.
LEMMA BoostKeep ==
  ASSUME Types, Types', NEW t \in Tasks, BoostOk(t),
         tctx'[t] = tctx[t], slice'[t] <= slice[t],
         hist'.boosted[t] = hist.boosted[t], hist'.jumped[t] = hist.jumped[t],
         state'[t] = "blocked" => state[t] = "blocked",
         at = "put" /\ t = curr => at' = "put" /\ t = curr'
  PROVE  BoostOk(t)'
<1>1. /\ slice[t] \in Nat /\ slice'[t] \in Nat /\ hist.boosted[t] \in Nat
      /\ SLICE \in Nat /\ WAKE_BOOST_BUDGET \in Nat
  <2>1. slice[t] \in 0 .. SLICE /\ slice'[t] \in 0 .. SLICE /\ hist.boosted[t] \in Nat
    BY DEF Types, TypeOK
  <2>2. QED
    BY <2>1, Constants
<1>2. QED
  BY <1>1 DEF BoostOk

\* The boost of a task that is given a slice, or goes on with one to resume.
LEMMA BoostGranted ==
  ASSUME Types, Types', NEW t \in Tasks, BoostOk(t), state'[t] # "blocked",
         hist'.boosted[t] = hist.boosted[t], hist.jumped[t] => hist'.jumped[t],
         tctx[t].boost_dsq_type = EMPTY => tctx'[t].boost_dsq_type = EMPTY,
         ~ hist'.jumped[t] /\ tctx'[t].boost_dsq_type # EMPTY =>
           /\ tctx'[t].boost_used < WAKE_BOOST_BUDGET
           /\ tctx'[t].boost_used = tctx[t].boost_used + tctx[t].ran
  PROVE  BoostOk(t)'
<1>1. /\ slice'[t] \in 0 .. SLICE /\ hist.boosted[t] \in Nat
      /\ SLICE \in Nat /\ WAKE_BOOST_BUDGET \in Nat
      /\ tctx[t].boost_used \in Nat /\ tctx[t].ran \in Nat
      /\ tctx'[t].boost_used \in Nat /\ tctx'[t].ran \in Nat
  <2>1. slice'[t] \in 0 .. SLICE /\ hist.boosted[t] \in Nat
    BY DEF Types, TypeOK
  <2>2. tctx[t] \in Ctx /\ tctx'[t] \in Ctx
    BY DEF Types, TypeOK, Ctx
  <2>3. QED
    BY <2>1, <2>2, Constants DEF Ctx
<1>2. QED
  BY <1>1 DEF BoostOk

\* What an enqueue of t does.
LEMMA Enqueued ==
  ASSUME Types, Queued, NEW t \in Tasks, NEW x \in Ctx, NEW d \in CpuCtx,
         Unqueued(t), d.head = dctx.head, Enqueue(t, x, d, hist)
  PROVE  /\ dsq' \in [Tiers -> Seq(Tasks)] /\ slice' \in [Tasks -> 0 .. SLICE]
         /\ state' \in [Tasks -> {"blocked", "queued", "local", "running"}]
         /\ dctx' \in CpuCtx /\ hist' \in Hist
         /\ Queued' /\ HeadsStep
         /\ dctx'.last_override = d.last_override
         /\ dctx'.override_left = d.override_left /\ dctx'.override_tier = d.override_tier
         /\ hist'.from = hist.from /\ hist'.over = hist.over /\ hist'.tier = hist.tier
         /\ hist'.boosted = hist.boosted /\ hist'.via = hist.via \ {t}
         /\ state'[t] = "queued"
         /\ x.resume_slice > 0 => hist'.jumped[t]
         /\ hist.jumped[t] => hist'.jumped[t]
         /\ \A u \in Tasks : u # t =>
              /\ hist'.jumped[u] = hist.jumped[u]
              /\ slice'[u] = slice[u] /\ state'[u] = state[u]
              /\ Unqueued(u) => Unqueued(u)'
<1> DEFINE k == effective_tier(x)
           resumes == x.resume_slice > 0
<1>0. /\ hist \in Hist /\ dctx \in CpuCtx /\ slice \in [Tasks -> 0 .. SLICE]
      /\ dsq \in [Tiers -> Seq(Tasks)] /\ SLICE \in Nat /\ SLICE > 0
      /\ state \in [Tasks -> {"blocked", "queued", "local", "running"}]
  BY TypesFacts DEF Types
<1>1. k \in Tiers /\ x.resume_slice \in 0 .. SLICE /\ Timed \subseteq Tiers /\ resumes \in BOOLEAN
  BY EffectiveTier, TierNumbers DEF Ctx
<1>2. /\ dsq' = [dsq EXCEPT ![k] = IF resumes THEN <<t>> \o @ ELSE Append(@, t)]
      /\ slice' = [slice EXCEPT ![t] = IF resumes THEN x.resume_slice ELSE SLICE]
      /\ dctx' = IF dsq[k] = <<>> THEN stamp_tier_head_ts(d, k) ELSE d
      /\ state' = [state EXCEPT ![t] = "queued"]
  BY Zenon DEF Enqueue
<1> HIDE DEF k, resumes
<1>3. /\ dsq' \in [Tiers -> Seq(Tasks)]
      /\ Distinct'
      /\ \A l \in Tiers : \A i \in 1 .. Len(dsq'[l]) :
           \/ dsq'[l][i] = t
           \/ state[dsq'[l][i]] = "queued" /\ slice[dsq'[l][i]] > 0 /\ dsq'[l][i] # t
      /\ \A l \in Tiers : l # k => dsq'[l] = dsq[l]
      /\ dsq'[k] # <<>>
      /\ \A u \in Tasks : u # t /\ Unqueued(u) =>
           \A l \in Tiers : \A i \in 1 .. Len(dsq'[l]) : dsq'[l][i] # u
  BY <1>0, <1>1, <1>2, EnterQueued
<1>4. PICK s \in 0 .. SLICE : s = (IF resumes THEN x.resume_slice ELSE SLICE) /\ s > 0
  BY <1>0, <1>1 DEF resumes
<1>5. /\ slice' \in [Tasks -> 0 .. SLICE] /\ slice'[t] > 0
      /\ \A u \in Tasks : u # t => slice'[u] = slice[u]
      /\ state' \in [Tasks -> {"blocked", "queued", "local", "running"}]
      /\ state'[t] = "queued"
      /\ \A u \in Tasks : u # t => state'[u] = state[u]
  BY <1>0, <1>2, <1>4
<1>6. Queued'
  <2> SUFFICES ASSUME NEW l \in Tiers, NEW i \in 1 .. Len(dsq'[l])
               PROVE  state'[dsq'[l][i]] = "queued" /\ slice'[dsq'[l][i]] > 0
    BY <1>3 DEF Queued
  <2>1. dsq'[l][i] \in Tasks
    BY <1>3
  <2>2. QED
    BY <1>3, <1>5, <2>1
<1>7. /\ dctx' \in CpuCtx
      /\ dctx'.last_override = d.last_override
      /\ dctx'.override_left = d.override_left /\ dctx'.override_tier = d.override_tier
      /\ \A j \in Timed : dctx'.head[j] = IF j = k /\ dsq[k] = <<>> THEN 0 ELSE dctx.head[j]
  <2>1. CASE dsq[k] = <<>>
    <3>1. dctx' = stamp_tier_head_ts(d, k) /\ k \in Tiers \cup {EMPTY}
      BY <1>1, <1>2, <2>1
    <3>2. /\ dctx' \in CpuCtx
          /\ \A j \in Timed : dctx'.head[j] = IF j = k THEN 0 ELSE d.head[j]
          /\ dctx'.last_override = d.last_override
          /\ dctx'.override_left = d.override_left /\ dctx'.override_tier = d.override_tier
      BY <3>1, StampCpu, Zenon
    <3>3. QED
      BY <2>1, <3>2
  <2>2. CASE dsq[k] # <<>>
    BY <1>2, <2>2
  <2>3. QED
    BY <2>1, <2>2
<1>8. PICK g : g = IF dsq[k] = <<>> THEN Served(hist, k) ELSE hist
  OBVIOUS
<1>9. /\ g \in Hist
      /\ g.from = hist.from /\ g.over = hist.over /\ g.tier = hist.tier
      /\ g.boosted = hist.boosted /\ g.via = hist.via /\ g.jumped = hist.jumped
      /\ \A j \in Timed : g.unserved[j] =
           IF j = k /\ dsq[k] = <<>> THEN 0 ELSE hist.unserved[j]
  <2>1. CASE dsq[k] = <<>> /\ k \in Timed
    <3>1. PICK n : n = [hist.unserved EXCEPT ![k] = 0]
      OBVIOUS
    <3>2. n \in [Timed -> Nat] /\ \A j \in Timed : n[j] = IF j = k THEN 0 ELSE hist.unserved[j]
      BY <1>0, <2>1, <3>1 DEF Hist
    <3>3. g = [hist EXCEPT !.unserved = n]
      BY <1>0, <1>8, <2>1, <3>1 DEF Served, Hist
    <3>4. QED
      BY <1>0, <2>1, <3>2, <3>3 DEF Hist
  <2>2. CASE ~ (dsq[k] = <<>> /\ k \in Timed)
    <3>1. g = hist
      BY <1>8, <2>2 DEF Served
    <3>2. QED
      BY <1>0, <2>2, <3>1
  <2>3. QED
    BY <2>1, <2>2
<1>10. hist' = LET v == [g EXCEPT !.via = @ \ {t}]
               IN IF resumes THEN [v EXCEPT !.jumped[t] = TRUE] ELSE NewSlice(v, t)
  BY <1>8 DEF Enqueue, k, resumes
<1>11. /\ hist' \in Hist
       /\ hist'.unserved = g.unserved
       /\ hist'.from = hist.from /\ hist'.over = hist.over /\ hist'.tier = hist.tier
       /\ hist'.boosted = hist.boosted /\ hist'.via = hist.via \ {t}
       /\ \A u \in Tasks : hist'.jumped[u] = IF u = t /\ resumes THEN TRUE ELSE hist.jumped[u]
  <2>1. PICK w \in SUBSET Tasks : w = hist.via \ {t}
    BY <1>0 DEF Hist
  <2>2. CASE resumes
    <3>1. PICK j : j = [hist.jumped EXCEPT ![t] = TRUE]
      OBVIOUS
    <3>2. j \in [Tasks -> BOOLEAN] /\ \A u \in Tasks : j[u] = IF u = t THEN TRUE ELSE hist.jumped[u]
      BY <1>0, <3>1 DEF Hist
    <3>3. hist' = [g EXCEPT !.via = w, !.jumped = j]
      BY <1>9, <1>10, <2>1, <2>2, <3>1 DEF Hist
    <3>4. QED
      BY <1>9, <2>1, <2>2, <3>2, <3>3 DEF Hist
  <2>3. CASE ~ resumes
    <3>1. PICK p : p = [g.spent EXCEPT ![t] = 0]
      OBVIOUS
    <3>2. p \in [Tasks -> Nat]
      BY <1>9, <3>1 DEF Hist
    <3>3. hist' = [g EXCEPT !.via = w, !.spent = p]
      BY <1>9, <1>10, <2>1, <2>3, <3>1 DEF Hist, NewSlice
    <3>4. QED
      BY <1>9, <2>1, <2>3, <3>2, <3>3 DEF Hist
  <2>4. QED
    BY <2>2, <2>3
<1>12. HeadsStep
  BY <1>1, <1>3, <1>7, <1>9, <1>11 DEF HeadsStep
<1>13. \A u \in Tasks : u # t /\ Unqueued(u) => Unqueued(u)'
  BY <1>3 DEF Unqueued
<1>14. /\ resumes => hist'.jumped[t]
       /\ hist.jumped[t] => hist'.jumped[t]
       /\ \A u \in Tasks : u # t => hist'.jumped[u] = hist.jumped[u]
  BY <1>11
<1>15. QED
  BY <1>3, <1>5, <1>6, <1>7, <1>11, <1>12, <1>13, <1>14, Zenon DEF resumes

\* What is left of the slice that runs.
LEMMA RestBounds ==
  ASSUME Types
  PROVE  Rest \in Nat /\ Rest <= SLICE
<1>1. slice \in [Tasks -> 0 .. SLICE] /\ SLICE \in Nat
  BY TypesFacts
<1>2. QED
  BY <1>1 DEF Rest

\* The same after a step.
LEMMA RestBoundsNext ==
  ASSUME Types'
  PROVE  Rest' \in Nat /\ Rest' <= SLICE
<1>1. slice' \in [Tasks -> 0 .. SLICE] /\ SLICE \in Nat
  BY TypesNext, Constants
<1>2. QED
  BY <1>1 DEF Rest

-----------------------------------------------------------------------------
(* The steps                                                               *)

\* Nothing has run and nothing waits at the start.
LEMMA InitInv == Init => Inv
<1> SUFFICES ASSUME Init PROVE Inv
  OBVIOUS
<1>1. /\ 0 \in 0 .. SLICE /\ 0 \in 0 .. WAKE_BOOST_BUDGET /\ 0 \in 0 .. MaxAge
      /\ 0 \in 0 .. STARVE_OVERRIDE_COOLDOWN /\ 0 \in 0 .. STARVE_OVERRIDE_BUDGET
      /\ SLICE \in Nat /\ SLICE > 0 /\ WAKE_BOOST_BUDGET \in Nat /\ WAKE_BOOST_BUDGET > 0
      /\ STARVE_OVERRIDE_BUDGET = SLICE
  BY Constants
<1>2. \A t \in Tasks : tctx[t] \in Ctx /\ tctx[t].ran = 0 /\ tctx[t].resume_slice = 0
                       /\ tctx[t].boost_dsq_type = EMPTY
  BY InitCtx DEF Init, init_task_ctx
<1>3. tctx \in [Tasks -> Ctx]
  BY <1>2 DEF Init
<1>4. dctx \in CpuCtx /\ hist \in Hist /\ slice \in [Tasks -> 0 .. SLICE]
  BY <1>1 DEF Init, InitHistory, CpuCtx, Hist
<1>5. dsq \in [Tiers -> Seq(Tasks)] /\ local \in Seq(Tasks) /\ \A k \in Tiers : dsq[k] = <<>>
  BY DEF Init
<1>6. Types
  BY <1>3, <1>4, <1>5 DEF Types, TypeOK, Ctx, CpuCtx, Hist, Init
<1>7. Queued
  BY <1>5 DEF Queued, Distinct
<1>8. curr \notin Tasks /\ curr = Idle /\ at = "run" /\ local = <<>> /\ next = Idle
  BY Constants DEF Init
<1>9. OnCpu /\ LocalOne /\ IdleEmpty /\ NoResume
  BY <1>2, <1>5, <1>8 DEF OnCpu, LocalOne, IdleEmpty, NoResume, Init
<1>10. OverrideInv
  BY <1>1 DEF OverrideInv, OverrideBounded, Init, InitHistory
<1>11. BoostInv
  BY <1>1, <1>2 DEF BoostInv, BoostOk, Init, InitHistory
<1>12. StarveInv
  <2>1. Timed \subseteq Tiers
    BY TierNumbers
  <2>2. QED
    BY <1>5, <2>1 DEF StarveInv, Init, InitHistory
<1>13. QED
  BY <1>6, <1>7, <1>9, <1>10, <1>11, <1>12 DEF Inv, Places

\* SCX_KICK_PREEMPT takes the slice of the running task.
LEMMA KickPreemptInv ==
  ASSUME Inv, KickPreempt
  PROVE  Inv'
<1>0. Types /\ Places /\ OverrideInv /\ BoostInv /\ StarveInv
  BY DEF Inv
<1>1. /\ at = "run" /\ resched' = TRUE /\ kick' = FALSE
      /\ UNCHANGED <<tctx, dctx, dsq, local, curr, next, at, state, hist>>
      /\ slice' = IF curr \in Tasks THEN [slice EXCEPT ![curr] = 0] ELSE slice
  BY DEF KickPreempt
<1>2. slice \in [Tasks -> 0 .. SLICE] /\ SLICE \in Nat /\ 0 \in 0 .. SLICE
  BY <1>0, TypesFacts, Zeros
<1>3. /\ slice' \in [Tasks -> 0 .. SLICE]
      /\ \A t \in Tasks : slice'[t] = IF t = curr THEN 0 ELSE slice[t]
      /\ \A t \in Tasks : slice'[t] <= slice[t]
  BY <1>1, <1>2
<1>4. Types'
  BY <1>0, <1>1, <1>3 DEF Types, TypeOK, STARVE_OVERRIDE_BUDGET
<1>5. curr \in Tasks => state[curr] = "running"
  BY <1>0, <1>1 DEF Places, OnCpu
<1>6. Queued'
  <2>1. Distinct'
    BY <1>0, <1>1 DEF Places, Queued, Distinct
  <2>2. ASSUME NEW k \in Tiers, NEW i \in 1 .. Len(dsq[k])
        PROVE  state[dsq[k][i]] = "queued" /\ slice'[dsq[k][i]] > 0
    <3>1. state[dsq[k][i]] = "queued" /\ slice[dsq[k][i]] > 0
      BY <1>0 DEF Places, Queued
    <3>2. dsq[k][i] \in Tasks
      BY <1>0 DEF Types
    <3>3. dsq[k][i] # curr
      BY <1>5, <3>1, <3>2
    <3>4. QED
      BY <1>3, <3>1, <3>2, <3>3
  <2>3. QED
    BY <1>1, <2>1, <2>2 DEF Queued
<1>7. \A t \in Tasks : tctx[t].ran \in 0 .. SLICE
  BY <1>0, TypesFacts DEF Ctx
<1>8. OnCpu'
  BY <1>0, <1>1, <1>2, <1>3, <1>7 DEF Places, OnCpu
<1>9. LocalOne'
  <2>1. local # <<>> => local[1] \in Tasks
    BY <1>0 DEF Types
  <2>2. QED
    BY <1>0, <1>1, <1>3, <2>1 DEF Places, LocalOne
<1>10. IdleEmpty' /\ NoResume'
  BY <1>0, <1>1 DEF Places, IdleEmpty, NoResume
<1>11. HeadsStep
  BY <1>1 DEF HeadsStep
<1>12. ChargeStep
  BY <1>1 DEF ChargeStep, Uncharged
<1>13. ViaStep
  <2>1. \A t \in hist.via : t \in Tasks /\ Via(t)
    BY <1>0 DEF Types, OverrideInv
  <2>2. QED
    BY <1>1, <1>3, <2>1 DEF ViaStep, Via
<1>14. Rest' <= Rest /\ Rest' \in Nat /\ Rest \in Nat
  <2>1. Runner' = Runner
    BY <1>1 DEF Runner
  <2>2. QED
    BY <1>0, <1>1, <1>3, <1>4, <2>1, RestBounds, RestBoundsNext DEF Rest
<1>15. OverrideInv' /\ StarveInv'
  BY <1>0, <1>1, <1>4, <1>11, <1>12, <1>13, <1>14, OverrideKeep, StarveKeep
<1>16. BoostInv'
  <2> SUFFICES ASSUME NEW t \in Tasks PROVE BoostOk(t)'
    BY DEF BoostInv
  <2>1. BoostOk(t)
    BY <1>0 DEF BoostInv
  <2>2. QED
    BY <1>0, <1>1, <1>3, <1>4, <2>1, BoostKeep
<1>17. QED
  BY <1>4, <1>6, <1>8, <1>9, <1>10, <1>15, <1>16 DEF Inv, Places

\* The realtime task sleeps.
LEMMA RtSleepsInv ==
  ASSUME Inv, RtSleeps
  PROVE  Inv'
<1>0. Types /\ Places /\ OverrideInv /\ BoostInv /\ StarveInv
  BY DEF Inv
<1>1. /\ curr = Rt /\ at = "run" /\ curr' = Idle /\ at' = "pick" /\ resched' = FALSE
      /\ UNCHANGED <<tctx, dctx, dsq, local, next, kick, slice, state, hist>>
      /\ curr \notin Tasks /\ curr' \notin Tasks
  BY Constants DEF RtSleeps
<1>2. Types'
  BY <1>0, <1>1 DEF Types, TypeOK, STARVE_OVERRIDE_BUDGET
<1>3. Queued' /\ LocalOne' /\ IdleEmpty' /\ NoResume'
  BY <1>0, <1>1 DEF Places, Queued, Distinct, LocalOne, IdleEmpty, NoResume
<1>4. OnCpu'
  BY <1>0, <1>1 DEF Places, OnCpu
<1>5. HeadsStep /\ ChargeStep
  BY <1>1 DEF HeadsStep, ChargeStep, Uncharged
<1>6. \A t \in hist.via : t \in Tasks /\ Via(t) /\ slice[t] \in Nat
  BY <1>0, TypesFacts DEF Types, OverrideInv
<1>7. ViaStep
  BY <1>1, <1>6 DEF ViaStep, Via
<1>8. Rest' <= Rest /\ Rest' \in Nat /\ Rest \in Nat
  <2>1. Runner' = Runner
    BY <1>1 DEF Runner
  <2>2. QED
    BY <1>0, <1>1, <1>2, <2>1, RestBounds, RestBoundsNext DEF Rest
<1>9. OverrideInv' /\ StarveInv'
  BY <1>0, <1>1, <1>2, <1>5, <1>7, <1>8, OverrideKeep, StarveKeep
<1>10. BoostInv'
  <2> SUFFICES ASSUME NEW t \in Tasks PROVE BoostOk(t)'
    BY DEF BoostInv
  <2>1. BoostOk(t) /\ slice[t] \in Nat
    BY <1>0, TypesFacts DEF BoostInv
  <2>2. QED
    BY <1>0, <1>1, <1>2, <2>1, BoostKeep
<1>11. QED
  BY <1>2, <1>3, <1>4, <1>9, <1>10 DEF Inv, Places

\* lunar_running: the clock of the task starts.
LEMMA RunFacts ==
  ASSUME Types, NEW t \in Tasks, NEW d \in CpuCtx, Run(t, tctx[t], d)
  PROVE  /\ curr' = t
         /\ tctx' \in [Tasks -> Ctx] /\ dctx' \in CpuCtx
         /\ tctx'[t].ran = 0 /\ tctx'[t].resume_slice = tctx[t].resume_slice
         /\ tctx'[t].boost_dsq_type = tctx[t].boost_dsq_type
         /\ tctx'[t].boost_used = tctx[t].boost_used
         /\ \A u \in Tasks : u # t => tctx'[u] = tctx[u]
         /\ dctx'.head = d.head /\ dctx'.last_override = d.last_override
         /\ dctx'.override_left = d.override_left /\ dctx'.override_tier = d.override_tier
<1>1. tctx \in [Tasks -> Ctx] /\ slice \in [Tasks -> 0 .. SLICE]
  BY TypesFacts
<1>2. PICK x \in Ctx : x = tctx[t]
  BY <1>1
<1>3. PICK s \in 0 .. SLICE : s = slice[t]
  BY <1>1
<1>4. PICK y : y = [x EXCEPT !.ran = 0, !.granted_slice = s]
  OBVIOUS
<1>5. /\ y \in Ctx /\ y.ran = 0 /\ y.resume_slice = x.resume_slice
      /\ y.boost_dsq_type = x.boost_dsq_type /\ y.boost_used = x.boost_used
  BY <1>4, Zeros DEF Ctx
<1>6. curr' = t /\ tctx' = [tctx EXCEPT ![t] = y] /\ dctx' = running_cpu(d, x)
  BY <1>2, <1>3, <1>4 DEF Run, running_ctx
<1>7. tctx' \in [Tasks -> Ctx] /\ tctx'[t] = y /\ \A u \in Tasks : u # t => tctx'[u] = tctx[u]
  BY <1>1, <1>5, <1>6
<1>8. /\ dctx' \in CpuCtx
      /\ dctx'.head = d.head /\ dctx'.last_override = d.last_override
      /\ dctx'.override_left = d.override_left /\ dctx'.override_tier = d.override_tier
  BY <1>6, RunningCpu, Zenon
<1>9. QED
  BY <1>2, <1>5, <1>6, <1>7, <1>8

\* A task that does not run has nothing uncharged.
LEMMA NothingUncharged ==
  ASSUME OnCpu, at # "run" \/ curr \notin Tasks
  PROVE  Uncharged = 0
  BY DEF OnCpu, Uncharged

\* Types after a step, from the parts that a step changes.
LEMMA TypesStep ==
  ASSUME tctx' \in [Tasks -> Ctx], dctx' \in CpuCtx, hist' \in Hist,
         slice' \in [Tasks -> 0 .. SLICE], dsq' \in [Tiers -> Seq(Tasks)],
         local' \in Seq(Tasks), curr' \in Tasks \cup {Idle, Rt},
         next' \in Tasks \cup {Idle}, at' \in {"run", "pick", "put", "switch"},
         resched' \in BOOLEAN, kick' \in BOOLEAN,
         state' \in [Tasks -> {"blocked", "queued", "local", "running"}]
  PROVE  Types'
  BY DEF Types, TypeOK, Ctx, CpuCtx, Hist, STARVE_OVERRIDE_BUDGET

\* The task of the local DSQ runs.
LEMMA PickLocalInv ==
  ASSUME Inv, PickLocal
  PROVE  Inv'
<1>0. Types /\ Places /\ OverrideInv /\ BoostInv /\ StarveInv
  BY DEF Inv
<1>1. PICK t \in Tasks : t = Head(local) /\ t = local[1] /\ Tail(local) = <<>> /\ local # <<>>
  <2>1. local \in Seq(Tasks) /\ local # <<>> /\ Len(local) <= 1
    BY <1>0 DEF PickLocal, Types, Places, LocalOne
  <2>2. Len(local) = 1 /\ Head(local) = local[1] /\ Head(local) \in Tasks
    BY <2>1
  <2>3. Tail(local) = <<>>
    BY <2>1, TailOfOne
  <2>4. QED
    BY <2>1, <2>2, <2>3
<1>2. /\ Run(t, tctx[t], dctx) /\ local' = <<>>
      /\ state' = [state EXCEPT ![t] = "running"]
      /\ at' = "run" /\ resched' = FALSE
      /\ UNCHANGED <<dsq, next, kick, slice, hist>>
      /\ curr \notin Tasks /\ at \in {"pick", "run"}
  BY <1>1 DEF PickLocal, Picking, PrevRuns
<1>3. /\ dctx \in CpuCtx /\ hist \in Hist /\ slice \in [Tasks -> 0 .. SLICE] /\ SLICE \in Nat
      /\ state \in [Tasks -> {"blocked", "queued", "local", "running"}]
  BY <1>0, TypesFacts DEF Types
<1>4. /\ curr' = t
      /\ tctx' \in [Tasks -> Ctx] /\ dctx' \in CpuCtx
      /\ tctx'[t].ran = 0 /\ tctx'[t].resume_slice = tctx[t].resume_slice
      /\ tctx'[t].boost_dsq_type = tctx[t].boost_dsq_type
      /\ tctx'[t].boost_used = tctx[t].boost_used
      /\ \A u \in Tasks : u # t => tctx'[u] = tctx[u]
      /\ dctx'.head = dctx.head /\ dctx'.last_override = dctx.last_override
      /\ dctx'.override_left = dctx.override_left /\ dctx'.override_tier = dctx.override_tier
  BY <1>0, <1>2, <1>3, RunFacts
<1>5. /\ state' \in [Tasks -> {"blocked", "queued", "local", "running"}]
      /\ state'[t] = "running" /\ \A u \in Tasks : u # t => state'[u] = state[u]
  BY <1>2, <1>3
<1>6. Types'
  <2>1. <<>> \in Seq(Tasks) /\ dsq \in [Tiers -> Seq(Tasks)] /\ next \in Tasks \cup {Idle}
          /\ kick \in BOOLEAN
    BY <1>0 DEF Types
  <2>2. QED
    BY <1>2, <1>3, <1>4, <1>5, <2>1, TypesStep
<1>7. state[t] = "local" /\ slice[t] > 0
  BY <1>0, <1>1 DEF Places, LocalOne
<1>8. Queued'
  <2>1. Distinct'
    BY <1>0, <1>2 DEF Places, Queued, Distinct
  <2>2. ASSUME NEW k \in Tiers, NEW i \in 1 .. Len(dsq[k])
        PROVE  state'[dsq[k][i]] = "queued" /\ slice[dsq[k][i]] > 0
    <3>1. state[dsq[k][i]] = "queued" /\ slice[dsq[k][i]] > 0
      BY <1>0 DEF Places, Queued
    <3>2. dsq[k][i] \in Tasks
      BY <1>0 DEF Types
    <3>3. QED
      BY <1>5, <1>7, <3>1, <3>2
  <2>3. QED
    BY <1>2, <2>1, <2>2 DEF Queued
<1>9. \A u \in Tasks : tctx[u].ran = 0 /\ tctx'[u].ran = 0
  BY <1>0, <1>2, <1>4 DEF Places, OnCpu
<1>10. OnCpu' /\ LocalOne' /\ IdleEmpty'
  <2>1. slice[t] \in 0 .. SLICE /\ t # Idle
    BY <1>3, Constants
  <2>2. OnCpu'
    BY <1>2, <1>3, <1>4, <1>5, <1>7, <1>9, <2>1 DEF OnCpu
  <2>3. LocalOne'
    BY <1>2 DEF LocalOne
  <2>4. QED
    BY <1>4, <2>1, <2>2, <2>3 DEF IdleEmpty
<1>11. NoResume'
  BY <1>0, <1>4 DEF Places, NoResume
<1>12. HeadsStep
  BY <1>2, <1>4 DEF HeadsStep
<1>13. ChargeStep
  <2>1. Uncharged = 0
    BY <1>0, <1>2, NothingUncharged DEF Places
  <2>2. Uncharged' = 0
    BY <1>4 DEF Uncharged
  <2>3. QED
    BY <1>4, <2>1, <2>2 DEF ChargeStep
<1>14. ViaStep
  <2>1. \A u \in hist.via : u \in Tasks /\ Via(u) /\ slice[u] \in Nat
    BY <1>0, TypesFacts DEF Types, OverrideInv
  <2>2. \A u \in hist.via : u = t
    BY <1>1, <1>2, <2>1 DEF Via
  <2>3. QED
    BY <1>2, <1>4, <2>1, <2>2 DEF ViaStep, Via
<1>15. Rest' <= Rest /\ Rest' \in Nat /\ Rest \in Nat
  <2>1. Runner' = t /\ Runner = t
    BY <1>1, <1>2, <1>4 DEF Runner
  <2>2. QED
    BY <1>0, <1>2, <1>6, <2>1, RestBounds, RestBoundsNext DEF Rest
<1>16. OverrideInv' /\ StarveInv'
  BY <1>0, <1>2, <1>6, <1>12, <1>13, <1>14, <1>15, OverrideKeep, StarveKeep
<1>17. BoostInv'
  <2> SUFFICES ASSUME NEW u \in Tasks PROVE BoostOk(u)'
    BY DEF BoostInv
  <2>1. BoostOk(u) /\ slice[u] \in Nat /\ tctx[u] \in Ctx
    BY <1>0, TypesFacts DEF BoostInv
  <2>2. CASE u = t
    <3>1. ~ hist'.jumped[t] /\ tctx'[t].boost_dsq_type # EMPTY =>
            /\ tctx'[t].boost_used < WAKE_BOOST_BUDGET
            /\ tctx'[t].boost_used = tctx[t].boost_used + tctx[t].ran
      <4>1. tctx[t].boost_used \in Nat /\ tctx[t].ran = 0
        BY <1>9, <2>1, <2>2 DEF Ctx
      <4>2. QED
        BY <1>2, <1>4, <2>1, <2>2, <4>1 DEF BoostOk
    <3>2. QED
      BY <1>0, <1>2, <1>4, <1>5, <1>6, <2>1, <2>2, <3>1, BoostGranted
  <2>3. CASE u # t
    BY <1>0, <1>2, <1>4, <1>5, <1>6, <2>1, <2>3, BoostKeep
  <2>4. QED
    BY <2>2, <2>3
<1>18. QED
  BY <1>6, <1>8, <1>10, <1>11, <1>16, <1>17 DEF Inv, Places

\* The task that was taken runs.
LEMMA SwitchInv ==
  ASSUME Inv, Switch
  PROVE  Inv'
<1>0. Types /\ Places /\ OverrideInv /\ BoostInv /\ StarveInv
  BY DEF Inv
<1>1. PICK t \in Tasks : t = next /\ t # curr
  BY <1>0 DEF Switch, Places, OnCpu
<1>2. /\ Run(t, tctx[t], dctx)
      /\ state' = [state EXCEPT ![t] = "running"]
      /\ next' = Idle /\ at = "switch" /\ at' = "run"
      /\ UNCHANGED <<dsq, local, resched, kick, slice, hist>>
  BY <1>1 DEF Switch
<1>3. /\ dctx \in CpuCtx /\ hist \in Hist /\ slice \in [Tasks -> 0 .. SLICE] /\ SLICE \in Nat
      /\ state \in [Tasks -> {"blocked", "queued", "local", "running"}]
  BY <1>0, TypesFacts DEF Types
<1>4. /\ curr' = t
      /\ tctx' \in [Tasks -> Ctx] /\ dctx' \in CpuCtx
      /\ tctx'[t].ran = 0 /\ tctx'[t].resume_slice = tctx[t].resume_slice
      /\ tctx'[t].boost_dsq_type = tctx[t].boost_dsq_type
      /\ tctx'[t].boost_used = tctx[t].boost_used
      /\ \A u \in Tasks : u # t => tctx'[u] = tctx[u]
      /\ dctx'.head = dctx.head /\ dctx'.last_override = dctx.last_override
      /\ dctx'.override_left = dctx.override_left /\ dctx'.override_tier = dctx.override_tier
  BY <1>0, <1>2, <1>3, RunFacts
<1>5. /\ state' \in [Tasks -> {"blocked", "queued", "local", "running"}]
      /\ state'[t] = "running" /\ \A u \in Tasks : u # t => state'[u] = state[u]
  BY <1>2, <1>3
<1>6. Types'
  <2>1. local \in Seq(Tasks) /\ dsq \in [Tiers -> Seq(Tasks)]
          /\ kick \in BOOLEAN /\ resched \in BOOLEAN
    BY <1>0 DEF Types
  <2>2. QED
    BY <1>2, <1>3, <1>4, <1>5, <2>1, TypesStep
<1>7. /\ slice[t] > 0 /\ local = <<>> /\ curr \in Tasks
      /\ \A k \in Tiers : \A i \in 1 .. Len(dsq[k]) : dsq[k][i] # t
  BY <1>0, <1>1, <1>2 DEF Places, OnCpu, LocalOne
<1>8. Queued'
  <2>1. Distinct'
    BY <1>0, <1>2 DEF Places, Queued, Distinct
  <2>2. ASSUME NEW k \in Tiers, NEW i \in 1 .. Len(dsq[k])
        PROVE  state'[dsq[k][i]] = "queued" /\ slice[dsq[k][i]] > 0
    <3>1. state[dsq[k][i]] = "queued" /\ slice[dsq[k][i]] > 0
      BY <1>0 DEF Places, Queued
    <3>2. dsq[k][i] \in Tasks
      BY <1>0 DEF Types
    <3>3. QED
      BY <1>5, <1>7, <3>1, <3>2
  <2>3. QED
    BY <1>2, <2>1, <2>2 DEF Queued
<1>9. \A u \in Tasks : tctx[u].ran = 0 /\ tctx'[u].ran = 0
  BY <1>0, <1>2, <1>4 DEF Places, OnCpu
<1>10. OnCpu' /\ LocalOne' /\ IdleEmpty'
  <2>1. slice[t] \in 0 .. SLICE /\ t # Idle
    BY <1>3, Constants
  <2>2. OnCpu'
    BY <1>2, <1>3, <1>4, <1>5, <1>7, <1>9, <2>1 DEF OnCpu
  <2>3. LocalOne'
    BY <1>2, <1>7 DEF LocalOne
  <2>4. QED
    BY <1>4, <2>1, <2>2, <2>3 DEF IdleEmpty
<1>11. NoResume'
  BY <1>0, <1>4 DEF Places, NoResume
<1>12. HeadsStep
  BY <1>2, <1>4 DEF HeadsStep
<1>13. ChargeStep
  <2>1. Uncharged = 0
    BY <1>0, <1>2, NothingUncharged DEF Places
  <2>2. Uncharged' = 0
    BY <1>4 DEF Uncharged
  <2>3. QED
    BY <1>4, <2>1, <2>2 DEF ChargeStep
<1>14. ViaStep
  <2>1. \A u \in hist.via : u \in Tasks /\ Via(u) /\ slice[u] \in Nat
    BY <1>0, TypesFacts DEF Types, OverrideInv
  <2>2. \A u \in hist.via : u = t
    BY <1>1, <1>2, <1>7, <2>1 DEF Via
  <2>3. QED
    BY <1>2, <1>4, <2>1, <2>2 DEF ViaStep, Via
<1>15. Rest' <= Rest /\ Rest' \in Nat /\ Rest \in Nat
  <2>1. Runner' = t /\ Runner = t
    BY <1>1, <1>2, <1>4 DEF Runner
  <2>2. QED
    BY <1>0, <1>2, <1>6, <2>1, RestBounds, RestBoundsNext DEF Rest
<1>16. OverrideInv' /\ StarveInv'
  BY <1>0, <1>2, <1>6, <1>12, <1>13, <1>14, <1>15, OverrideKeep, StarveKeep
<1>17. BoostInv'
  <2> SUFFICES ASSUME NEW u \in Tasks PROVE BoostOk(u)'
    BY DEF BoostInv
  <2>1. BoostOk(u) /\ slice[u] \in Nat /\ tctx[u] \in Ctx
    BY <1>0, TypesFacts DEF BoostInv
  <2>2. CASE u = t
    <3>1. ~ hist'.jumped[t] /\ tctx'[t].boost_dsq_type # EMPTY =>
            /\ tctx'[t].boost_used < WAKE_BOOST_BUDGET
            /\ tctx'[t].boost_used = tctx[t].boost_used + tctx[t].ran
      <4>1. tctx[t].boost_used \in Nat /\ tctx[t].ran = 0
        BY <1>9, <2>1, <2>2 DEF Ctx
      <4>2. QED
        BY <1>1, <1>2, <1>4, <2>1, <2>2, <4>1 DEF BoostOk
    <3>2. QED
      BY <1>0, <1>2, <1>4, <1>5, <1>6, <2>1, <2>2, <3>1, BoostGranted
  <2>3. CASE u # t
    BY <1>0, <1>2, <1>4, <1>5, <1>6, <2>1, <2>3, BoostKeep
  <2>4. QED
    BY <2>2, <2>3
<1>18. QED
  BY <1>6, <1>8, <1>10, <1>11, <1>16, <1>17 DEF Inv, Places

\* The history when a tier is served.
LEMMA ServedHist ==
  ASSUME NEW h \in Hist, NEW k \in Tiers
  PROVE  LET g == Served(h, k) IN
         /\ g \in Hist
         /\ g.from = h.from /\ g.over = h.over /\ g.tier = h.tier /\ g.via = h.via
         /\ g.boosted = h.boosted /\ g.jumped = h.jumped
         /\ \A j \in Timed : g.unserved[j] = IF j = k THEN 0 ELSE h.unserved[j]
<1>1. CASE k \in Timed
  <2>1. PICK n : n = [h.unserved EXCEPT ![k] = 0]
    OBVIOUS
  <2>2. n \in [Timed -> Nat] /\ \A j \in Timed : n[j] = IF j = k THEN 0 ELSE h.unserved[j]
    BY <1>1, <2>1 DEF Hist
  <2>3. Served(h, k) = [h EXCEPT !.unserved = n]
    BY <1>1, <2>1 DEF Served, Hist
  <2>4. QED
    BY <2>2, <2>3 DEF Hist
<1>2. CASE k \notin Timed
  BY <1>2 DEF Served
<1>3. QED
  BY <1>1, <1>2

\* The history when a task sleeps.
LEMMA GoneHist ==
  ASSUME NEW h \in Hist, NEW t \in Tasks
  PROVE  LET g == Gone(h, t) IN
         /\ g \in Hist
         /\ g.from = h.from /\ g.over = h.over /\ g.tier = h.tier
         /\ g.unserved = h.unserved /\ g.via = h.via \ {t}
         /\ g.boosted[t] = 0 /\ ~ g.jumped[t]
         /\ \A u \in Tasks : u # t =>
              g.boosted[u] = h.boosted[u] /\ g.jumped[u] = h.jumped[u]
<1>1. PICK v \in SUBSET Tasks : v = h.via \ {t}
  BY DEF Hist
<1>2. PICK b : b = [h.boosted EXCEPT ![t] = 0]
  OBVIOUS
<1>3. PICK j : j = [h.jumped EXCEPT ![t] = FALSE]
  OBVIOUS
<1>4. PICK s : s = [h.spent EXCEPT ![t] = 0]
  OBVIOUS
<1>5. /\ b \in [Tasks -> Nat] /\ j \in [Tasks -> BOOLEAN] /\ s \in [Tasks -> Nat]
      /\ b[t] = 0 /\ ~ j[t]
      /\ \A u \in Tasks : u # t => b[u] = h.boosted[u] /\ j[u] = h.jumped[u]
  BY <1>2, <1>3, <1>4 DEF Hist
<1>6. Gone(h, t) = [h EXCEPT !.via = v, !.boosted = b, !.jumped = j, !.spent = s]
  BY <1>1, <1>2, <1>3, <1>4 DEF Gone, Hist
<1>7. QED
  BY <1>1, <1>5, <1>6 DEF Hist

\* A task of which no queue knows.
LEMMA NotQueued ==
  ASSUME Types, Queued, NEW t \in Tasks, state[t] # "queued"
  PROVE  Unqueued(t)
  BY DEF Queued, Unqueued, Types

\* lunar_sched_switch puts what was in the local DSQ into a queue.
LEMMA ReenqueueLocalInv ==
  ASSUME Inv, ReenqueueLocal
  PROVE  Inv'
<1>0. Types /\ Places /\ OverrideInv /\ BoostInv /\ StarveInv
  BY DEF Inv
<1>1. PICK t \in Tasks : t = Head(local) /\ t = local[1] /\ Tail(local) = <<>> /\ local # <<>>
  <2>1. local \in Seq(Tasks) /\ local # <<>> /\ Len(local) <= 1
    BY <1>0 DEF ReenqueueLocal, Types, Places, LocalOne
  <2>2. Len(local) = 1 /\ Head(local) = local[1] /\ Head(local) \in Tasks
    BY <2>1
  <2>3. Tail(local) = <<>>
    BY <2>1, TailOfOne
  <2>4. QED
    BY <2>1, <2>2, <2>3
<1>2. PICK x : x = [tctx[t] EXCEPT !.resume_slice = 0]
  OBVIOUS
<1>3. /\ Enqueue(t, x, dctx, hist) /\ local' = <<>> /\ curr = Rt /\ curr \notin Tasks
      /\ UNCHANGED <<tctx, curr, next, at, resched, kick>>
  BY <1>1, <1>2, Constants DEF ReenqueueLocal
<1>4. /\ tctx \in [Tasks -> Ctx] /\ dctx \in CpuCtx /\ SLICE \in Nat
      /\ slice \in [Tasks -> Nat]
  BY <1>0, TypesFacts
<1>5. x \in Ctx /\ x.resume_slice = 0
  BY <1>2, <1>4, Zeros DEF Ctx
<1>6. state[t] = "local" /\ at = "run"
  BY <1>0, <1>1, <1>3, Constants DEF Places, LocalOne, OnCpu, Types
<1>7. Unqueued(t) /\ Queued
  BY <1>0, <1>6, NotQueued DEF Places
<1>8. /\ dsq' \in [Tiers -> Seq(Tasks)] /\ slice' \in [Tasks -> 0 .. SLICE]
      /\ state' \in [Tasks -> {"blocked", "queued", "local", "running"}]
      /\ dctx' \in CpuCtx /\ hist' \in Hist
      /\ Queued' /\ HeadsStep
      /\ dctx'.last_override = dctx.last_override
      /\ dctx'.override_left = dctx.override_left /\ dctx'.override_tier = dctx.override_tier
      /\ hist'.from = hist.from /\ hist'.over = hist.over /\ hist'.tier = hist.tier
      /\ hist'.boosted = hist.boosted /\ hist'.via = hist.via \ {t}
      /\ state'[t] = "queued"
      /\ hist.jumped[t] => hist'.jumped[t]
      /\ \A u \in Tasks : u # t =>
           /\ hist'.jumped[u] = hist.jumped[u]
           /\ slice'[u] = slice[u] /\ state'[u] = state[u]
  BY <1>0, <1>3, <1>4, <1>5, <1>7, Enqueued
<1>9. Types'
  <2>1. <<>> \in Seq(Tasks) /\ curr \in Tasks \cup {Idle, Rt} /\ next \in Tasks \cup {Idle}
          /\ at \in {"run", "pick", "put", "switch"} /\ kick \in BOOLEAN /\ resched \in BOOLEAN
    BY <1>0 DEF Types
  <2>2. QED
    BY <1>3, <1>4, <1>8, <2>1, TypesStep
<1>10. OnCpu' /\ LocalOne' /\ IdleEmpty' /\ NoResume'
  <2>1. OnCpu'
    BY <1>0, <1>3, <1>6 DEF Places, OnCpu
  <2>2. LocalOne' /\ NoResume'
    BY <1>0, <1>3 DEF Places, LocalOne, NoResume
  <2>3. IdleEmpty'
    BY <1>3, Constants DEF IdleEmpty
  <2>4. QED
    BY <2>1, <2>2, <2>3
<1>11. ChargeStep
  BY <1>3, <1>8 DEF ChargeStep, Uncharged
<1>12. ViaStep
  <2>1. \A u \in hist.via : u \in Tasks /\ Via(u)
    BY <1>0 DEF Types, OverrideInv
  <2>2. \A u \in hist.via : u = t
    BY <1>1, <1>3, <1>6, <2>1 DEF Via
  <2>3. QED
    BY <1>8, <2>2 DEF ViaStep
<1>13. Rest' <= Rest /\ Rest' \in Nat /\ Rest \in Nat
  <2>1. Runner' = Idle
    BY <1>3, <1>6 DEF Runner
  <2>2. Rest' = 0
    BY <2>1, Constants DEF Rest
  <2>3. QED
    BY <1>0, <2>2, RestBounds
<1>14. OverrideInv' /\ StarveInv'
  BY <1>0, <1>8, <1>9, <1>11, <1>12, <1>13, OverrideKeep, StarveKeep
<1>15. BoostInv'
  <2> SUFFICES ASSUME NEW u \in Tasks PROVE BoostOk(u)'
    BY DEF BoostInv
  <2>1. BoostOk(u) /\ slice[u] \in Nat /\ tctx[u] \in Ctx /\ tctx[u].ran = 0
    BY <1>0, <1>3, <1>4 DEF BoostInv, Places, OnCpu
  <2>2. CASE u = t
    <3>1. ~ hist'.jumped[t] /\ tctx'[t].boost_dsq_type # EMPTY =>
            /\ tctx'[t].boost_used < WAKE_BOOST_BUDGET
            /\ tctx'[t].boost_used = tctx[t].boost_used + tctx[t].ran
      <4>1. tctx[t].boost_used \in Nat /\ tctx[t].ran = 0
        BY <2>1, <2>2 DEF Ctx
      <4>2. QED
        BY <1>3, <1>6, <1>8, <2>1, <2>2, <4>1 DEF BoostOk
    <3>2. QED
      BY <1>0, <1>3, <1>8, <1>9, <2>1, <2>2, <3>1, BoostGranted
  <2>3. CASE u # t
    BY <1>0, <1>3, <1>8, <1>9, <2>1, <2>3, BoostKeep
  <2>4. QED
    BY <2>2, <2>3
<1>16. QED
  BY <1>8, <1>9, <1>10, <1>14, <1>15 DEF Inv, Places

\* A task that sleeps has neither a boost nor a history.
LEMMA BoostBlocked ==
  ASSUME Types', NEW t \in Tasks, hist'.boosted[t] = 0, ~ hist'.jumped[t],
         tctx'[t].boost_dsq_type = EMPTY
  PROVE  BoostOk(t)'
  BY Constants DEF BoostOk

\* Another cpu takes a task.
LEMMA OtherCpuTakesInv ==
  ASSUME Inv, NEW k \in Tiers, OtherCpuTakes(k)
  PROVE  Inv'
<1>0. Types /\ Places /\ OverrideInv /\ BoostInv /\ StarveInv
  BY DEF Inv
<1>1. PICK t : t = Head(dsq[k])
  OBVIOUS
<1>2. /\ dsq[k] # <<>> /\ dsq' = [dsq EXCEPT ![k] = Tail(@)]
      /\ dctx' = stamp_tier_head_ts(dctx, k)
      /\ state' = [state EXCEPT ![t] = "blocked"]
      /\ tctx' = [tctx EXCEPT ![t] = quiescent_ctx(@)]
      /\ slice' = [slice EXCEPT ![t] = 0]
      /\ hist' = Gone(Served(hist, k), t)
      /\ UNCHANGED <<local, curr, next, at, resched, kick>>
  BY <1>1 DEF OtherCpuTakes
<1>3. /\ tctx \in [Tasks -> Ctx] /\ dctx \in CpuCtx /\ hist \in Hist
      /\ slice \in [Tasks -> 0 .. SLICE] /\ slice \in [Tasks -> Nat] /\ SLICE \in Nat
      /\ state \in [Tasks -> {"blocked", "queued", "local", "running"}]
      /\ dsq \in [Tiers -> Seq(Tasks)] /\ Queued /\ OnCpu /\ LocalOne
  BY <1>0, TypesFacts DEF Types, Places
<1>4. /\ dsq' \in [Tiers -> Seq(Tasks)]
      /\ t \in Tasks /\ state[t] = "queued"
      /\ Distinct'
      /\ \A l \in Tiers : \A i \in 1 .. Len(dsq'[l]) :
           dsq'[l][i] # t /\ state[dsq'[l][i]] = "queued" /\ slice[dsq'[l][i]] > 0
      /\ \A l \in Tiers : l # k => dsq'[l] = dsq[l]
  BY <1>1, <1>2, <1>3, TakeQueued, ZenonT(60)
<1>5. /\ state' \in [Tasks -> {"blocked", "queued", "local", "running"}]
      /\ slice' \in [Tasks -> 0 .. SLICE]
      /\ \A u \in Tasks : u # t => state'[u] = state[u] /\ slice'[u] = slice[u] /\ tctx'[u] = tctx[u]
  BY <1>2, <1>3, <1>4, Zeros
<1>6. /\ tctx' \in [Tasks -> Ctx] /\ tctx'[t].ran = 0 /\ tctx'[t].resume_slice = 0
      /\ tctx'[t].boost_dsq_type = EMPTY
  <2>1. PICK y : y = quiescent_ctx(tctx[t])
    OBVIOUS
  <2>2. y \in Ctx /\ y.ran = 0 /\ y.resume_slice = 0 /\ y.boost_dsq_type = EMPTY
    BY <1>3, <1>4, <2>1, QuiescentCtx
  <2>3. tctx' = [tctx EXCEPT ![t] = y]
    BY <1>2, <2>1
  <2>4. QED
    BY <1>3, <1>4, <2>2, <2>3
<1>7. /\ dctx' \in CpuCtx /\ dctx'.last_override = dctx.last_override
      /\ dctx'.override_left = dctx.override_left /\ dctx'.override_tier = dctx.override_tier
      /\ \A j \in Timed : dctx'.head[j] = IF j = k THEN 0 ELSE dctx.head[j]
  BY <1>2, <1>3, StampCpu
<1>8. PICK g : g = Served(hist, k)
  OBVIOUS
<1>9. /\ g \in Hist
      /\ g.from = hist.from /\ g.over = hist.over /\ g.tier = hist.tier /\ g.via = hist.via
      /\ g.boosted = hist.boosted /\ g.jumped = hist.jumped
      /\ \A j \in Timed : g.unserved[j] = IF j = k THEN 0 ELSE hist.unserved[j]
  BY <1>3, <1>8, ServedHist, Zenon
<1>10. /\ hist' \in Hist
       /\ hist'.from = g.from /\ hist'.over = g.over /\ hist'.tier = g.tier
       /\ hist'.unserved = g.unserved /\ hist'.via = g.via \ {t}
       /\ hist'.boosted[t] = 0 /\ ~ hist'.jumped[t]
       /\ \A u \in Tasks : u # t =>
            hist'.boosted[u] = g.boosted[u] /\ hist'.jumped[u] = g.jumped[u]
  <2>1. hist' = Gone(g, t)
    BY <1>2, <1>8
  <2>2. QED
    BY <1>4, <1>9, <2>1, GoneHist, ZenonT(60)
<1>11. Types'
  <2>1. local \in Seq(Tasks) /\ curr \in Tasks \cup {Idle, Rt} /\ next \in Tasks \cup {Idle}
          /\ at \in {"run", "pick", "put", "switch"} /\ kick \in BOOLEAN /\ resched \in BOOLEAN
    BY <1>0 DEF Types
  <2>2. QED
    BY <1>2, <1>4, <1>5, <1>6, <1>7, <1>10, <2>1, TypesStep
<1>12. Queued'
  <2> SUFFICES ASSUME NEW l \in Tiers, NEW i \in 1 .. Len(dsq'[l])
               PROVE  state'[dsq'[l][i]] = "queued" /\ slice'[dsq'[l][i]] > 0
    BY <1>4 DEF Queued
  <2>1. dsq'[l][i] \in Tasks
    BY <1>4
  <2>2. QED
    BY <1>4, <1>5, <2>1
<1>13. /\ curr \in Tasks /\ at \in {"run", "put"} => t # curr
       /\ at \in {"put", "switch"} => t # next
       /\ local # <<>> => t # local[1]
  <2>1. at \in {"put", "switch"} => t # next
    <3>1. 1 \in 1 .. Len(dsq[k]) /\ dsq[k][1] = t
      BY <1>1, <1>2, <1>3
    <3>2. QED
      BY <1>3, <3>1 DEF OnCpu
  <2>2. QED
    BY <1>3, <1>4, <2>1 DEF OnCpu, LocalOne
<1>14. \A u \in Tasks : Unqueued(u) => Unqueued(u)'
  <2> SUFFICES ASSUME NEW u \in Tasks, Unqueued(u), NEW l \in Tiers, NEW i \in 1 .. Len(dsq'[l])
               PROVE  dsq'[l][i] # u
    BY DEF Unqueued
  <2>1. CASE l = k
    <3>1. dsq[k] \in Seq(Tasks) /\ dsq'[k] = Tail(dsq[k])
      BY <1>2, <1>3
    <3>2. i + 1 \in 1 .. Len(dsq[k]) /\ dsq'[l][i] = dsq[k][i + 1]
      BY <1>2, <2>1, <3>1, TailOf
    <3>3. QED
      BY <3>2 DEF Unqueued
  <2>2. CASE l # k
    BY <1>4, <2>2 DEF Unqueued
  <2>3. QED
    BY <2>1, <2>2
<1>15. OnCpu'
  <2>1. at \in {"put", "switch"} => next \in Tasks /\ Unqueued(next)
    BY <1>3 DEF OnCpu, Unqueued
  <2>2. at \in {"put", "switch"} =>
          \A l \in Tiers : \A i \in 1 .. Len(dsq'[l]) : dsq'[l][i] # next
    BY <1>14, <2>1 DEF Unqueued
  <2>3. \A u \in Tasks : tctx'[u].ran # 0 => tctx[u].ran # 0
    BY <1>5, <1>6
  <2>4. curr \in Tasks /\ at \in {"run", "put"} =>
          state'[curr] = state[curr] /\ slice'[curr] = slice[curr] /\ tctx'[curr] = tctx[curr]
    BY <1>5, <1>13
  <2>5. at \in {"put", "switch"} => state'[next] = state[next] /\ slice'[next] = slice[next]
    BY <1>5, <1>13, <2>1
  <2>6. QED
    BY <1>2, <1>3, <2>1, <2>2, <2>3, <2>4, <2>5 DEF OnCpu
<1>16. LocalOne' /\ NoResume'
  <2>1. local # <<>> => local[1] \in Tasks
    BY <1>0 DEF Types
  <2>2. LocalOne'
    BY <1>2, <1>3, <1>5, <1>13, <2>1 DEF LocalOne
  <2>3. QED
    BY <1>0, <1>5, <1>6, <2>2 DEF Places, NoResume
<1>17. IdleEmpty'
  <2>1. ~ (curr = Idle /\ at = "run" /\ ~ resched)
    BY <1>0, <1>2 DEF Places, IdleEmpty
  <2>2. QED
    BY <1>2, <2>1 DEF IdleEmpty
<1>18. HeadsStep
  BY <1>4, <1>7, <1>9, <1>10, TierNumbers DEF HeadsStep
<1>19. ChargeStep
  <2>1. Uncharged' = Uncharged
    <3>1. CASE at = "run" /\ curr \in Tasks
      BY <1>2, <1>5, <1>7, <1>13, <3>1 DEF Uncharged
    <3>2. CASE ~ (at = "run" /\ curr \in Tasks)
      <4>1. Uncharged = 0
        BY <1>3, <3>2, NothingUncharged
      <4>2. Uncharged' = 0
        BY <1>2, <1>15, <3>2 DEF OnCpu, Uncharged
      <4>3. QED
        BY <4>1, <4>2
    <3>3. QED
      BY <3>1, <3>2
  <2>2. QED
    BY <1>7, <2>1 DEF ChargeStep
<1>20. ViaStep
  <2>1. \A u \in hist.via : u \in Tasks /\ Via(u)
    BY <1>0 DEF Types, OverrideInv
  <2>2. \A u \in hist'.via : u \in hist.via /\ u # t
    BY <1>9, <1>10
  <2>3. QED
    BY <1>2, <1>3, <1>5, <1>9, <1>10, <2>1, <2>2 DEF ViaStep, Via
<1>21. Rest' <= Rest /\ Rest' \in Nat /\ Rest \in Nat
  <2>1. Runner' = Runner
    BY <1>2 DEF Runner
  <2>2. Runner \in Tasks => Runner # t
    <3>1. at \in {"run", "pick", "put", "switch"}
      BY <1>0 DEF Types
    <3>2. QED
      BY <1>3, <1>13, <3>1, Constants DEF Runner, OnCpu
  <2>3. QED
    BY <1>0, <1>5, <1>9, <1>10, <1>11, <2>1, <2>2, RestBounds, RestBoundsNext DEF Rest
<1>22. OverrideInv' /\ StarveInv'
  BY <1>0, <1>9, <1>10, <1>11, <1>18, <1>19, <1>20, <1>21, OverrideKeep, StarveKeep
<1>23. BoostInv'
  <2> SUFFICES ASSUME NEW u \in Tasks PROVE BoostOk(u)'
    BY DEF BoostInv
  <2>1. BoostOk(u) /\ slice[u] \in Nat
    BY <1>0, <1>3 DEF BoostInv
  <2>2. CASE u = t
    BY <1>6, <1>10, <1>11, <2>2, BoostBlocked
  <2>3. CASE u # t
    BY <1>0, <1>2, <1>5, <1>9, <1>10, <1>11, <2>1, <2>3, BoostKeep
  <2>4. QED
    BY <2>2, <2>3
<1>24. QED
  BY <1>11, <1>12, <1>15, <1>16, <1>17, <1>22, <1>23 DEF Inv, Places

\* A task that sleeps is nowhere.
LEMMA BlockedAway ==
  ASSUME Types, Places, OverrideInv, NEW t \in Tasks, state[t] = "blocked"
  PROVE  /\ Unqueued(t)
         /\ curr \in Tasks /\ at \in {"run", "put"} => t # curr
         /\ at \in {"put", "switch"} => t # next
         /\ local # <<>> => t # local[1]
         /\ t \notin hist.via
         /\ tctx[t].ran = 0 /\ tctx[t].resume_slice = 0
         /\ Runner \in Tasks => t # Runner
<1>1. Unqueued(t)
  BY NotQueued DEF Places
<1>2. /\ curr \in Tasks /\ at \in {"run", "put"} => t # curr
      /\ at \in {"put", "switch"} => t # next
      /\ local # <<>> => t # local[1]
  BY DEF Places, OnCpu, LocalOne
<1>3. t \notin hist.via
  BY <1>2 DEF OverrideInv, Via
<1>4. tctx[t].ran = 0 /\ tctx[t].resume_slice = 0
  BY <1>2 DEF Places, OnCpu, NoResume
<1>5. Runner \in Tasks => t # Runner
  <2>1. at \in {"run", "pick", "put", "switch"} /\ (at = "pick" => curr = Idle)
    BY DEF Types, Places, OnCpu
  <2>2. QED
    BY <1>2, <2>1, Constants DEF Runner
<1>6. QED
  BY <1>1, <1>2, <1>3, <1>4, <1>5

\* The boost of a task that wakes up.
LEMMA BoostFresh ==
  ASSUME Types', NEW t \in Tasks, hist'.boosted[t] = 0, state'[t] # "blocked",
         tctx'[t].boost_dsq_type # EMPTY => tctx'[t].boost_used = 0
  PROVE  BoostOk(t)'
<1>1. /\ slice'[t] \in Nat /\ slice'[t] <= SLICE /\ SLICE \in Nat
      /\ WAKE_BOOST_BUDGET \in Nat /\ WAKE_BOOST_BUDGET > 0 /\ SLICE > 0
      /\ tctx'[t].ran \in Nat
  <2>1. slice'[t] \in 0 .. SLICE /\ tctx'[t] \in Ctx
    BY TypesNext
  <2>2. QED
    BY <2>1, Constants DEF Ctx
<1>2. QED
  BY <1>1 DEF BoostOk

\* A wakeup.
LEMMA WakeUpInv ==
  ASSUME Inv, NEW t \in Tasks, NEW w \in Tiers \cup {EMPTY}, NEW k \in Tiers, WakeUp(t, w, k)
  PROVE  Inv'
<1>0. Types /\ Places /\ OverrideInv /\ BoostInv /\ StarveInv
  BY DEF Inv
<1>1. PICK x : x = Reclassified(apply_wake_boost(tctx[t], w), k)
  OBVIOUS
<1>2. PICK pre \in BOOLEAN : pre = (effective_tier(x) = LC /\ dctx.running # EMPTY
                                    /\ dctx.running > effective_tier(x))
  OBVIOUS
<1>3. state[t] = "blocked" /\ tctx' = [tctx EXCEPT ![t] = x] /\ UNCHANGED <<curr, next, at>>
  BY <1>1, Zenon DEF WakeUp
<1>4. /\ tctx \in [Tasks -> Ctx] /\ dctx \in CpuCtx /\ hist \in Hist
      /\ slice \in [Tasks -> 0 .. SLICE] /\ slice \in [Tasks -> Nat] /\ SLICE \in Nat /\ SLICE > 0
      /\ state \in [Tasks -> {"blocked", "queued", "local", "running"}]
      /\ dsq \in [Tiers -> Seq(Tasks)] /\ Queued /\ OnCpu /\ LocalOne
      /\ next \in Tasks \cup {Idle} /\ local \in Seq(Tasks)
      /\ curr \in Tasks \cup {Idle, Rt} /\ at \in {"run", "pick", "put", "switch"}
      /\ resched \in BOOLEAN /\ kick \in BOOLEAN
  BY <1>0, TypesFacts DEF Types, Places
<1>5. /\ Unqueued(t)
      /\ curr \in Tasks /\ at \in {"run", "put"} => t # curr
      /\ at \in {"put", "switch"} => t # next
      /\ local # <<>> => t # local[1]
      /\ t \notin hist.via
      /\ tctx[t].ran = 0 /\ tctx[t].resume_slice = 0
      /\ Runner \in Tasks => t # Runner
  BY <1>0, <1>3, BlockedAway
<1>6. hist.boosted[t] = 0 /\ tctx[t].boost_dsq_type = EMPTY
  BY <1>0, <1>3 DEF BoostInv, BoostOk
<1>7. x \in Ctx /\ x.ran = 0 /\ x.resume_slice = 0 /\ (x.boost_dsq_type # EMPTY => x.boost_used = 0)
  <2>1. PICK y \in Ctx : y = tctx[t]
    BY <1>4
  <2>2. y.boost_dsq_type = EMPTY /\ x = Reclassified(apply_wake_boost(y, w), k)
    BY <1>1, <1>6, <2>1
  <2>3. x \in Ctx /\ x.ran = y.ran /\ x.resume_slice = y.resume_slice
          /\ (x.boost_dsq_type # EMPTY => x.boost_used = 0)
    BY <2>2, WakeCtx, Zenon
  <2>4. QED
    BY <1>5, <2>1, <2>3
<1>8. /\ tctx' \in [Tasks -> Ctx] /\ tctx'[t] = x
      /\ \A u \in Tasks : u # t => tctx'[u] = tctx[u]
  BY <1>3, <1>4, <1>7
<1>9. NoResume'
  BY <1>0, <1>7, <1>8 DEF Places, NoResume
<1>10. \A u \in Tasks : tctx'[u].ran # 0 => tctx[u].ran # 0 /\ u # t
  BY <1>7, <1>8
<1>11. CASE curr = Idle /\ at = "run" /\ ~ resched
  <2>1. /\ local' = <<t>> /\ slice' = [slice EXCEPT ![t] = SLICE]
        /\ state' = [state EXCEPT ![t] = "local"]
        /\ hist' = [hist EXCEPT !.from = effective_tier(x)]
        /\ resched' = TRUE /\ UNCHANGED <<dctx, dsq, kick>>
    BY <1>1, <1>11, Zenon DEF WakeUp
  <2>2. /\ \A l \in Tiers : dsq[l] = <<>>
        /\ local = <<>> /\ dctx.override_left = 0
    BY <1>0, <1>11 DEF Places, IdleEmpty
  <2>3. /\ hist' \in Hist /\ hist'.over = hist.over /\ hist'.tier = hist.tier
        /\ hist'.via = hist.via /\ hist'.boosted = hist.boosted
        /\ hist'.jumped = hist.jumped /\ hist'.unserved = hist.unserved
    <3>1. effective_tier(x) \in Tiers
      BY <1>7, EffectiveTier
    <3>2. QED
      BY <1>4, <2>1, <3>1 DEF Hist
  <2>4. /\ slice' \in [Tasks -> 0 .. SLICE] /\ slice'[t] = SLICE
        /\ state' \in [Tasks -> {"blocked", "queued", "local", "running"}]
        /\ state'[t] = "local"
        /\ \A u \in Tasks : u # t => slice'[u] = slice[u] /\ state'[u] = state[u]
    BY <1>4, <2>1
  <2>5. local' \in Seq(Tasks) /\ Len(local') = 1 /\ local'[1] = t
    BY <2>1
  <2>6. Types'
    BY <1>3, <1>4, <1>8, <2>1, <2>3, <2>4, <2>5, TypesStep
  <2>7. Queued'
    <3>1. \A l \in Tiers : Len(dsq'[l]) = 0
      BY <2>1, <2>2
    <3>2. QED
      BY <3>1 DEF Queued, Distinct
  <2>8. curr \notin Tasks /\ Idle \notin Tasks
    BY <1>11, Constants
  <2>9. OnCpu' /\ LocalOne' /\ IdleEmpty'
    BY <1>3, <1>4, <1>10, <1>11, <2>1, <2>4, <2>5, <2>8 DEF OnCpu, LocalOne, IdleEmpty
  <2>10. hist.via = {}
    <3>1. \A u \in hist.via : Via(u) /\ u \in Tasks
      BY <1>0 DEF OverrideInv, Types
    <3>2. QED
      BY <1>11, <2>2, <2>8, <3>1 DEF Via
  <2>11. OverrideInv'
    BY <1>0, <2>1, <2>2, <2>3, <2>10 DEF OverrideInv, OverrideBounded, STARVE_OVERRIDE_BUDGET
  <2>12. StarveInv'
    BY <1>0, <2>1, <2>2, <2>3, TierNumbers DEF StarveInv
  <2>13. BoostInv'
    <3> SUFFICES ASSUME NEW u \in Tasks PROVE BoostOk(u)'
      BY DEF BoostInv
    <3>1. BoostOk(u) /\ slice[u] \in Nat
      BY <1>0, <1>4 DEF BoostInv
    <3>2. CASE u = t
      BY <1>6, <1>7, <1>8, <2>3, <2>4, <2>6, <3>2, BoostFresh
    <3>3. CASE u # t
      BY <1>0, <1>3, <1>8, <2>3, <2>4, <2>6, <3>1, <3>3, BoostKeep
    <3>4. QED
      BY <3>2, <3>3
  <2>14. QED
    BY <1>9, <2>6, <2>7, <2>9, <2>11, <2>12, <2>13 DEF Inv, Places
<1>12. CASE ~ (curr = Idle /\ at = "run" /\ ~ resched)
  <2>1. PICK d : d = IF pre THEN [dctx EXCEPT !.preempt_pending = TRUE] ELSE dctx
    OBVIOUS
  <2>2. /\ d \in CpuCtx /\ d.head = dctx.head /\ d.last_override = dctx.last_override
        /\ d.override_left = dctx.override_left /\ d.override_tier = dctx.override_tier
    BY <1>4, <2>1 DEF CpuCtx
  <2>3. Enqueue(t, x, d, hist) /\ kick' = (kick \/ pre) /\ UNCHANGED <<local, resched>>
    BY <1>1, <1>2, <1>12, <2>1, Zenon DEF WakeUp
  <2>4. /\ dsq' \in [Tiers -> Seq(Tasks)] /\ slice' \in [Tasks -> 0 .. SLICE]
        /\ state' \in [Tasks -> {"blocked", "queued", "local", "running"}]
        /\ dctx' \in CpuCtx /\ hist' \in Hist
        /\ Queued' /\ HeadsStep
        /\ dctx'.last_override = d.last_override
        /\ dctx'.override_left = d.override_left /\ dctx'.override_tier = d.override_tier
        /\ hist'.from = hist.from /\ hist'.over = hist.over /\ hist'.tier = hist.tier
        /\ hist'.boosted = hist.boosted /\ hist'.via = hist.via \ {t}
        /\ state'[t] = "queued"
        /\ \A u \in Tasks : u # t =>
             /\ hist'.jumped[u] = hist.jumped[u]
             /\ slice'[u] = slice[u] /\ state'[u] = state[u]
             /\ Unqueued(u) => Unqueued(u)'
    BY <1>0, <1>4, <1>5, <1>7, <2>2, <2>3, Enqueued
  <2>5. Types'
    BY <1>2, <1>3, <1>4, <1>8, <2>3, <2>4, TypesStep
  <2>6. OnCpu'
    <3>1. at \in {"put", "switch"} => next \in Tasks /\ Unqueued(next) /\ next # t
      BY <1>4, <1>5 DEF OnCpu, Unqueued
    <3>2. at \in {"put", "switch"} =>
            \A l \in Tiers : \A i \in 1 .. Len(dsq'[l]) : dsq'[l][i] # next
      BY <1>3, <2>4, <3>1 DEF Unqueued
    <3>3. curr \in Tasks /\ at \in {"run", "put"} =>
            state'[curr] = state[curr] /\ slice'[curr] = slice[curr] /\ tctx'[curr] = tctx[curr]
      BY <1>5, <1>8, <2>4
    <3>4. at \in {"put", "switch"} => state'[next] = state[next] /\ slice'[next] = slice[next]
      BY <2>4, <3>1
    <3>5. QED
      BY <1>3, <1>4, <1>10, <2>3, <3>1, <3>2, <3>3, <3>4 DEF OnCpu
  <2>7. LocalOne'
    <3>1. local # <<>> => local[1] \in Tasks
      BY <1>4
    <3>2. QED
      BY <1>3, <1>4, <1>5, <2>3, <2>4, <3>1 DEF LocalOne
  <2>8. IdleEmpty'
    BY <1>3, <1>12, <2>3 DEF IdleEmpty
  <2>9. ChargeStep
    <3>1. Uncharged' = Uncharged
      <4>1. CASE at = "run" /\ curr \in Tasks
        BY <1>3, <1>5, <1>8, <2>2, <2>4, <4>1 DEF Uncharged
      <4>2. CASE ~ (at = "run" /\ curr \in Tasks)
        <5>1. Uncharged = 0
          BY <1>4, <4>2, NothingUncharged
        <5>2. Uncharged' = 0
          BY <1>3, <2>6, <4>2 DEF OnCpu, Uncharged
        <5>3. QED
          BY <5>1, <5>2
      <4>3. QED
        BY <4>1, <4>2
    <3>2. QED
      BY <2>2, <2>4, <3>1 DEF ChargeStep
  <2>10. ViaStep
    <3>1. \A u \in hist.via : u \in Tasks /\ Via(u) /\ u # t /\ slice[u] \in Nat
      BY <1>0, <1>4, <1>5 DEF Types, OverrideInv
    <3>2. QED
      BY <1>3, <2>3, <2>4, <3>1 DEF ViaStep, Via
  <2>11. Rest' <= Rest /\ Rest' \in Nat /\ Rest \in Nat
    <3>1. Runner' = Runner
      BY <1>3, <2>3 DEF Runner
    <3>2. QED
      BY <1>0, <1>5, <2>4, <2>5, <3>1, RestBounds, RestBoundsNext DEF Rest
  <2>12. OverrideInv' /\ StarveInv'
    BY <1>0, <2>4, <2>5, <2>9, <2>10, <2>11, OverrideKeep, StarveKeep
  <2>13. BoostInv'
    <3> SUFFICES ASSUME NEW u \in Tasks PROVE BoostOk(u)'
      BY DEF BoostInv
    <3>1. BoostOk(u) /\ slice[u] \in Nat
      BY <1>0, <1>4 DEF BoostInv
    <3>2. CASE u = t
      BY <1>6, <1>7, <1>8, <2>4, <2>5, <3>2, BoostFresh
    <3>3. CASE u # t
      <4>1. /\ tctx'[u] = tctx[u] /\ slice'[u] <= slice[u] /\ state'[u] = state[u]
            /\ hist'.boosted[u] = hist.boosted[u] /\ hist'.jumped[u] = hist.jumped[u]
        BY <1>8, <2>4, <3>1, <3>3
      <4>2. QED
        BY <1>0, <1>3, <2>5, <3>1, <4>1, BoostKeep
    <3>4. QED
      BY <3>2, <3>3
  <2>14. QED
    BY <1>9, <2>4, <2>5, <2>6, <2>7, <2>8, <2>12, <2>13 DEF Inv, Places
<1>13. QED
  BY <1>11, <1>12

\* What is left of the override once the time of the running task is charged.
LEMMA StoppedCpu ==
  ASSUME Types, curr \in Tasks
  PROVE  LET e == stopping_cpu(dctx, tctx[curr]) IN
         /\ e \in CpuCtx
         /\ e.head = dctx.head /\ e.last_override = dctx.last_override
         /\ e.override_left > 0 =>
              /\ dctx.override_left > 0
              /\ e.override_tier = dctx.override_tier
              /\ e.override_left = dctx.override_left - Uncharged
<1>1. tctx[curr] \in Ctx /\ dctx \in CpuCtx
  BY TypesFacts
<1>2. PICK e : e = stopping_cpu(dctx, tctx[curr])
  OBVIOUS
<1>3. /\ e \in CpuCtx
      /\ e.head = dctx.head /\ e.last_override = dctx.last_override
      /\ e.override_left > 0 =>
           /\ dctx.override_left > 0
           /\ e.override_tier = dctx.override_tier
           /\ e.override_left = dctx.override_left -
                (IF effective_tier(tctx[curr]) = dctx.override_tier THEN tctx[curr].ran ELSE 0)
  BY <1>1, <1>2, StoppingCpu, Zenon
<1>4. Uncharged = IF effective_tier(tctx[curr]) = dctx.override_tier THEN tctx[curr].ran ELSE 0
  BY DEF Uncharged
<1>5. QED
  BY <1>2, <1>3, <1>4

\* The running task sleeps.
LEMMA SleepInv ==
  ASSUME Inv, NEW k \in Tiers, Sleep(k)
  PROVE  Inv'
<1>0. Types /\ Places /\ OverrideInv /\ BoostInv /\ StarveInv
  BY DEF Inv
<1>1. PICK t \in Tasks : t = curr
  BY DEF Sleep
<1>2. /\ at = "run" /\ curr' = Idle /\ at' = "pick" /\ resched' = FALSE
      /\ dctx' = stopping_cpu(dctx, tctx[curr])
      /\ state' = [state EXCEPT ![t] = "blocked"]
      /\ slice' = [slice EXCEPT ![t] = 0]
      /\ hist' = Gone(hist, t)
      /\ UNCHANGED <<dsq, local, next, kick>>
  BY <1>1 DEF Sleep
<1>3. /\ tctx \in [Tasks -> Ctx] /\ dctx \in CpuCtx /\ hist \in Hist
      /\ slice \in [Tasks -> 0 .. SLICE] /\ slice \in [Tasks -> Nat] /\ SLICE \in Nat
      /\ state \in [Tasks -> {"blocked", "queued", "local", "running"}]
      /\ dsq \in [Tiers -> Seq(Tasks)] /\ Queued /\ OnCpu /\ LocalOne
      /\ next \in Tasks \cup {Idle} /\ kick \in BOOLEAN
  BY <1>0, TypesFacts DEF Types, Places
<1>4. state[t] = "running" /\ local = <<>> /\ tctx[t].resume_slice = 0
  BY <1>0, <1>1, <1>2 DEF Places, OnCpu, LocalOne, NoResume
<1>5. /\ tctx' \in [Tasks -> Ctx] /\ tctx'[t].ran = 0 /\ tctx'[t].resume_slice = 0
      /\ tctx'[t].boost_dsq_type = EMPTY
      /\ \A u \in Tasks : u # t => tctx'[u] = tctx[u]
  <2>1. PICK zero \in BOOLEAN, pending \in BOOLEAN :
          zero = (slice[curr] = 0) /\ pending = dctx.preempt_pending
    BY <1>3 DEF CpuCtx
  <2>2. PICK y : y = stopping_ctx(tctx[t], FALSE, pending, zero, k)
    OBVIOUS
  <2>3. y \in Ctx
    <3>1. PICK x \in Ctx : x = tctx[t] /\ x.resume_slice = 0
      BY <1>3, <1>4
    <3>2. y = stopping_ctx(x, FALSE, pending, zero, k)
      BY <2>2, <3>1
    <3>3. QED
      BY <3>1, <3>2, StoppingCtx, Zenon
  <2>4. PICK z : z = quiescent_ctx(y)
    OBVIOUS
  <2>5. z \in Ctx /\ z.ran = 0 /\ z.resume_slice = 0 /\ z.boost_dsq_type = EMPTY
    BY <2>3, <2>4, QuiescentCtx
  <2>6. tctx' = [tctx EXCEPT ![t] = z]
    BY <1>1, <2>1, <2>2, <2>4 DEF Sleep
  <2>7. QED
    BY <1>3, <2>5, <2>6
<1>6. /\ dctx' \in CpuCtx
      /\ dctx'.head = dctx.head /\ dctx'.last_override = dctx.last_override
      /\ dctx'.override_left > 0 =>
           /\ dctx.override_left > 0
           /\ dctx'.override_tier = dctx.override_tier
           /\ dctx'.override_left = dctx.override_left - Uncharged
  <2>1. curr \in Tasks
    BY <1>1
  <2>2. QED
    BY <1>0, <1>2, <2>1, StoppedCpu, Zenon
<1>7. /\ hist' \in Hist
      /\ hist'.from = hist.from /\ hist'.over = hist.over /\ hist'.tier = hist.tier
      /\ hist'.unserved = hist.unserved /\ hist'.via = hist.via \ {t}
      /\ hist'.boosted[t] = 0 /\ ~ hist'.jumped[t]
      /\ \A u \in Tasks : u # t =>
           hist'.boosted[u] = hist.boosted[u] /\ hist'.jumped[u] = hist.jumped[u]
  <2>1. hist \in Hist /\ hist' = Gone(hist, t)
    BY <1>2, <1>3
  <2>2. QED
    BY <2>1, GoneHist, ZenonT(60)
<1>8. /\ state' \in [Tasks -> {"blocked", "queued", "local", "running"}]
      /\ slice' \in [Tasks -> 0 .. SLICE]
      /\ \A u \in Tasks : u # t => state'[u] = state[u] /\ slice'[u] = slice[u]
  BY <1>2, <1>3, Zeros
<1>9. Types'
  <2>1. <<>> \in Seq(Tasks)
    OBVIOUS
  <2>2. QED
    BY <1>2, <1>3, <1>4, <1>5, <1>6, <1>7, <1>8, <2>1, TypesStep
<1>10. Queued'
  <2>1. Distinct'
    BY <1>2, <1>3 DEF Queued, Distinct
  <2>2. ASSUME NEW l \in Tiers, NEW i \in 1 .. Len(dsq[l])
        PROVE  state'[dsq[l][i]] = "queued" /\ slice'[dsq[l][i]] > 0
    <3>1. state[dsq[l][i]] = "queued" /\ slice[dsq[l][i]] > 0 /\ dsq[l][i] \in Tasks
      BY <1>3 DEF Queued
    <3>2. QED
      BY <1>4, <1>8, <3>1
  <2>3. QED
    BY <1>2, <2>1, <2>2 DEF Queued
<1>11. \A u \in Tasks : tctx'[u].ran = 0
  BY <1>1, <1>3, <1>5 DEF OnCpu
<1>12. Idle \notin Tasks
  BY Constants
<1>13. OnCpu' /\ LocalOne' /\ IdleEmpty' /\ NoResume'
  <2>1. NoResume'
    BY <1>0, <1>5 DEF Places, NoResume
  <2>2. QED
    BY <1>2, <1>4, <1>11, <1>12, <2>1 DEF OnCpu, LocalOne, IdleEmpty
<1>14. HeadsStep
  BY <1>2, <1>6, <1>7 DEF HeadsStep
<1>15. ChargeStep
  <2>1. Uncharged' = 0 /\ Uncharged \in Nat /\ dctx.override_left \in Nat
    BY <1>0, <1>2, <1>12, TypesFacts DEF Uncharged
  <2>2. QED
    BY <1>6, <2>1 DEF ChargeStep
<1>16. ViaStep
  <2>1. \A u \in hist.via : u = t
    BY <1>0, <1>1, <1>2, <1>4 DEF OverrideInv, Via
  <2>2. QED
    BY <1>7, <2>1 DEF ViaStep
<1>17. Rest' <= Rest /\ Rest' \in Nat /\ Rest \in Nat
  <2>1. Runner' = Idle
    BY <1>2, <1>4, <1>12 DEF Runner
  <2>2. Rest' = 0
    BY <1>12, <2>1 DEF Rest
  <2>3. QED
    BY <1>0, <2>2, RestBounds
<1>18. OverrideInv' /\ StarveInv'
  BY <1>0, <1>7, <1>9, <1>14, <1>15, <1>16, <1>17, OverrideKeep, StarveKeep
<1>19. BoostInv'
  <2> SUFFICES ASSUME NEW u \in Tasks PROVE BoostOk(u)'
    BY DEF BoostInv
  <2>1. CASE u = t
    BY <1>5, <1>7, <1>9, <2>1, BoostBlocked
  <2>2. CASE u # t
    <3>1. BoostOk(u) /\ slice[u] \in Nat
      BY <1>0, <1>3 DEF BoostInv
    <3>2. QED
      BY <1>0, <1>2, <1>5, <1>7, <1>8, <1>9, <2>2, <3>1, BoostKeep
  <2>3. QED
    BY <2>1, <2>2
<1>20. QED
  BY <1>9, <1>10, <1>13, <1>18, <1>19 DEF Inv, Places

\* The context of a task that was enqueued: the slice to resume is granted.
PutBack(x) == Off([x EXCEPT !.resume_slice = 0])

\* What becomes of the context of a task that is put back.
LEMMA StoppedCtx ==
  ASSUME NEW c \in Ctx, c.resume_slice = 0, NEW pending \in BOOLEAN,
         NEW zero \in BOOLEAN, NEW k \in Tiers
  PROVE  LET x == stopping_ctx(c, TRUE, pending, zero, k)
             y == PutBack(x)
         IN
         /\ x \in Ctx /\ y \in Ctx
         /\ x.resume_slice > 0 => zero
         /\ ~ zero => y = Off(x)
         /\ y.ran = 0 /\ y.resume_slice = 0
         /\ c.boost_dsq_type = EMPTY => y.boost_dsq_type = EMPTY
         /\ ~ (x.resume_slice > 0) /\ y.boost_dsq_type # EMPTY =>
              /\ y.boost_used < WAKE_BOOST_BUDGET
              /\ y.boost_used = c.boost_used + c.ran
<1>0. PICK x : x = stopping_ctx(c, TRUE, pending, zero, k)
  OBVIOUS
<1>1. /\ x \in Ctx
      /\ x.resume_slice > 0 => zero
      /\ x.boost_dsq_type \in {c.boost_dsq_type, EMPTY}
      /\ x.boost_dsq_type # EMPTY /\ x.resume_slice = 0 =>
           /\ x.boost_used < WAKE_BOOST_BUDGET
           /\ x.boost_used = c.boost_used + c.ran
  <2>1. PICK runnable \in BOOLEAN : runnable = TRUE
    OBVIOUS
  <2>2. x = stopping_ctx(c, runnable, pending, zero, k)
    BY <1>0, <2>1
  <2>3. /\ x \in Ctx
        /\ x.ran = c.ran
        /\ x.resume_slice > 0 => runnable /\ zero
        /\ x.boost_dsq_type \in {c.boost_dsq_type, EMPTY}
        /\ x.boost_dsq_type # EMPTY /\ x.resume_slice = 0 =>
             /\ runnable
             /\ x.boost_used < WAKE_BOOST_BUDGET
             /\ x.boost_used = c.boost_used + c.ran
    BY <2>2, StoppingCtx
  <2>4. QED
    BY <2>1, <2>3
<1>2. PICK z : z = [x EXCEPT !.resume_slice = 0]
  OBVIOUS
<1>3. /\ z \in Ctx /\ z.resume_slice = 0
      /\ z.boost_dsq_type = x.boost_dsq_type /\ z.boost_used = x.boost_used
  BY <1>1, <1>2, Zeros DEF Ctx
<1>4. PICK y : y = Off(z)
  OBVIOUS
<1>5. /\ y \in Ctx /\ y.ran = 0 /\ y.resume_slice = z.resume_slice
      /\ y.boost_dsq_type = z.boost_dsq_type
      /\ z.boost_dsq_type # EMPTY => y.boost_used = z.boost_used
  BY <1>3, <1>4, OffCtx
<1>6. x.resume_slice \in Nat
  BY <1>1, Constants DEF Ctx
<1>7. ~ zero => y = Off(x)
  <2>1. ASSUME ~ zero PROVE z = x
    <3>1. x.resume_slice = 0
      BY <1>1, <1>6, <2>1
    <3>2. QED
      BY <1>1, <1>2, <3>1 DEF Ctx
  <2>2. QED
    BY <1>4, <2>1
<1>8. /\ x \in Ctx /\ y \in Ctx
      /\ x.resume_slice > 0 => zero
      /\ ~ zero => y = Off(x)
      /\ y.ran = 0 /\ y.resume_slice = 0
      /\ c.boost_dsq_type = EMPTY => y.boost_dsq_type = EMPTY
      /\ ~ (x.resume_slice > 0) /\ y.boost_dsq_type # EMPTY =>
           /\ y.boost_used < WAKE_BOOST_BUDGET
           /\ y.boost_used = c.boost_used + c.ran
  BY <1>1, <1>3, <1>5, <1>6, <1>7
<1>9. y = PutBack(x)
  BY <1>2, <1>4 DEF PutBack
<1>10. QED
  BY <1>0, <1>8, <1>9, Zenon

\* The task that ran is put back.
LEMMA PutPrevInv ==
  ASSUME Inv, NEW k \in Tiers, PutPrev(k)
  PROVE  Inv'
<1>0. Types /\ Places /\ OverrideInv /\ BoostInv /\ StarveInv
  BY DEF Inv
<1>1. PICK t \in Tasks : t = curr /\ next \in Tasks /\ next # t
  BY <1>0 DEF PutPrev, Places, OnCpu
<1>2. /\ tctx \in [Tasks -> Ctx] /\ dctx \in CpuCtx /\ hist \in Hist
      /\ slice \in [Tasks -> 0 .. SLICE] /\ slice \in [Tasks -> Nat] /\ SLICE \in Nat
      /\ state \in [Tasks -> {"blocked", "queued", "local", "running"}]
      /\ dsq \in [Tiers -> Seq(Tasks)] /\ Queued /\ OnCpu /\ LocalOne
      /\ kick \in BOOLEAN /\ resched \in BOOLEAN /\ dctx.preempt_pending \in BOOLEAN
  BY <1>0, TypesFacts DEF Types, Places, CpuCtx
<1>3. PICK x : x = stopping_ctx(tctx[t], TRUE, dctx.preempt_pending, TRUE, k)
  OBVIOUS
<1>4. PICK y : y = PutBack(x)
  OBVIOUS
<1>5. PICK d : d = stopping_cpu(dctx, tctx[curr])
  OBVIOUS
<1>6. /\ at = "put" /\ Enqueue(t, x, d, hist) /\ at' = "switch"
      /\ tctx' = [tctx EXCEPT ![t] = y]
      /\ UNCHANGED <<local, curr, next, resched, kick>>
  BY <1>1, <1>3, <1>4, <1>5, Zenon DEF PutPrev, PutBack
<1>7. state[t] = "running" /\ local = <<>> /\ tctx[t].resume_slice = 0 /\ tctx[t] \in Ctx
  BY <1>0, <1>1, <1>2, <1>6 DEF Places, OnCpu, LocalOne, NoResume
<1>8. /\ x \in Ctx /\ y \in Ctx
      /\ y.ran = 0 /\ y.resume_slice = 0
      /\ tctx[t].boost_dsq_type = EMPTY => y.boost_dsq_type = EMPTY
      /\ ~ (x.resume_slice > 0) /\ y.boost_dsq_type # EMPTY =>
           /\ y.boost_used < WAKE_BOOST_BUDGET
           /\ y.boost_used = tctx[t].boost_used + tctx[t].ran
  <2>1. PICK c \in Ctx, pending \in BOOLEAN, zero \in BOOLEAN :
          c = tctx[t] /\ pending = dctx.preempt_pending /\ zero = TRUE /\ c.resume_slice = 0
    BY <1>2, <1>7
  <2>2. x = stopping_ctx(c, TRUE, pending, zero, k)
    BY <1>3, <2>1
  <2>3. /\ x \in Ctx /\ y \in Ctx
        /\ x.resume_slice > 0 => zero
        /\ ~ zero => y = Off(x)
        /\ y.ran = 0 /\ y.resume_slice = 0
        /\ c.boost_dsq_type = EMPTY => y.boost_dsq_type = EMPTY
        /\ ~ (x.resume_slice > 0) /\ y.boost_dsq_type # EMPTY =>
             /\ y.boost_used < WAKE_BOOST_BUDGET
             /\ y.boost_used = c.boost_used + c.ran
    <3>1. c.resume_slice = 0
      BY <2>1
    <3>2. QED
      BY <1>4, <2>2, <3>1, StoppedCtx, ZenonT(60)
  <2>4. QED
    BY <2>1, <2>3
<1>9. /\ d \in CpuCtx
      /\ d.head = dctx.head /\ d.last_override = dctx.last_override
      /\ d.override_left > 0 =>
           /\ dctx.override_left > 0
           /\ d.override_tier = dctx.override_tier
           /\ d.override_left = dctx.override_left - Uncharged
  <2>1. curr \in Tasks
    BY <1>1
  <2>2. QED
    BY <1>0, <1>5, <2>1, StoppedCpu, Zenon
<1>10. Unqueued(t) /\ Unqueued(next)
  BY <1>0, <1>2, <1>6, <1>7, NotQueued DEF OnCpu, Unqueued
<1>11. /\ dsq' \in [Tiers -> Seq(Tasks)] /\ slice' \in [Tasks -> 0 .. SLICE]
       /\ state' \in [Tasks -> {"blocked", "queued", "local", "running"}]
       /\ dctx' \in CpuCtx /\ hist' \in Hist
       /\ Queued' /\ HeadsStep
       /\ dctx'.last_override = d.last_override
       /\ dctx'.override_left = d.override_left /\ dctx'.override_tier = d.override_tier
       /\ hist'.from = hist.from /\ hist'.over = hist.over /\ hist'.tier = hist.tier
       /\ hist'.boosted = hist.boosted /\ hist'.via = hist.via \ {t}
       /\ state'[t] = "queued"
       /\ x.resume_slice > 0 => hist'.jumped[t]
       /\ hist.jumped[t] => hist'.jumped[t]
       /\ \A u \in Tasks : u # t =>
            /\ hist'.jumped[u] = hist.jumped[u]
            /\ slice'[u] = slice[u] /\ state'[u] = state[u]
            /\ Unqueued(u) => Unqueued(u)'
  BY <1>0, <1>2, <1>6, <1>8, <1>9, <1>10, Enqueued
<1>12. /\ tctx' \in [Tasks -> Ctx] /\ tctx'[t] = y
       /\ \A u \in Tasks : u # t => tctx'[u] = tctx[u]
  BY <1>2, <1>6, <1>8
<1>13. Types'
  <2>1. <<>> \in Seq(Tasks)
    OBVIOUS
  <2>2. QED
    BY <1>1, <1>2, <1>6, <1>7, <1>11, <1>12, <2>1, TypesStep
<1>14. \A u \in Tasks : tctx[u].ran = 0 /\ tctx'[u].ran = 0
  BY <1>2, <1>6, <1>8, <1>12 DEF OnCpu
<1>15. OnCpu'
  <2>1. state[next] = "queued" /\ slice[next] > 0
    BY <1>2, <1>6 DEF OnCpu
  <2>2. PICK n \in Tasks : n = next /\ n # t /\ Unqueued(n)
    BY <1>1, <1>10
  <2>3. slice'[n] = slice[n] /\ state'[n] = state[n] /\ Unqueued(n)'
    BY <1>11, <2>2
  <2>4. \A l \in Tiers : \A i \in 1 .. Len(dsq'[l]) : dsq'[l][i] # n
    BY <2>3 DEF Unqueued
  <2>5. QED
    BY <1>1, <1>6, <1>14, <2>1, <2>2, <2>3, <2>4 DEF OnCpu
<1>16. LocalOne' /\ IdleEmpty' /\ NoResume'
  <2>1. NoResume'
    BY <1>0, <1>8, <1>12 DEF Places, NoResume
  <2>2. QED
    BY <1>6, <1>7, <2>1 DEF LocalOne, IdleEmpty
<1>17. ChargeStep
  <2>1. Uncharged = 0
    BY <1>2, <1>6, NothingUncharged
  <2>2. Uncharged' = 0
    BY <1>14, <1>6 DEF Uncharged
  <2>3. dctx.override_left \in Nat
    BY <1>0, TypesFacts
  <2>4. QED
    BY <1>9, <1>11, <2>1, <2>2, <2>3 DEF ChargeStep
<1>18. ViaStep
  <2>1. \A u \in hist.via : u \in Tasks /\ Via(u) /\ slice[u] \in Nat
    BY <1>0, <1>2 DEF Types, OverrideInv
  <2>2. \A u \in hist.via : u # t => u = next
    BY <1>1, <1>6, <1>7, <2>1 DEF Via
  <2>3. QED
    BY <1>6, <1>11, <2>1, <2>2 DEF ViaStep, Via
<1>19. Rest' <= Rest /\ Rest' \in Nat /\ Rest \in Nat
  <2>1. Runner' = next /\ Runner = next
    BY <1>6 DEF Runner
  <2>2. slice'[next] = slice[next] /\ hist'.from = hist.from
    BY <1>1, <1>11
  <2>3. QED
    BY <1>0, <1>13, <2>1, <2>2, RestBounds, RestBoundsNext DEF Rest
<1>20. OverrideInv' /\ StarveInv'
  BY <1>0, <1>11, <1>13, <1>17, <1>18, <1>19, OverrideKeep, StarveKeep
<1>21. BoostInv'
  <2> SUFFICES ASSUME NEW u \in Tasks PROVE BoostOk(u)'
    BY DEF BoostInv
  <2>1. BoostOk(u) /\ slice[u] \in Nat
    BY <1>0, <1>2 DEF BoostInv
  <2>2. CASE u = t
    BY <1>0, <1>8, <1>11, <1>12, <1>13, <2>1, <2>2, BoostGranted
  <2>3. CASE u # t
    <3>1. /\ tctx'[u] = tctx[u] /\ slice'[u] <= slice[u] /\ state'[u] = state[u]
          /\ hist'.boosted[u] = hist.boosted[u] /\ hist'.jumped[u] = hist.jumped[u]
      BY <1>11, <1>12, <2>1, <2>3
    <3>2. QED
      BY <1>0, <1>1, <1>13, <2>1, <2>3, <3>1, BoostKeep
  <2>4. QED
    BY <2>2, <2>3
<1>22. QED
  BY <1>11, <1>13, <1>15, <1>16, <1>20, <1>21 DEF Inv, Places

\* A realtime task takes the cpu.
LEMMA RtTakesInv ==
  ASSUME Inv, NEW k, curr \in Tasks => k \in Tiers, RtTakes(k)
  PROVE  Inv'
<1>0. Types /\ Places /\ OverrideInv /\ BoostInv /\ StarveInv
  BY DEF Inv
<1>1. /\ at = "run" /\ curr # Rt /\ curr' = Rt /\ resched' = FALSE
      /\ UNCHANGED <<next, at, kick>>
      /\ curr' \notin Tasks /\ curr' # Idle
  BY Constants DEF RtTakes
<1>2. /\ tctx \in [Tasks -> Ctx] /\ dctx \in CpuCtx /\ hist \in Hist
      /\ slice \in [Tasks -> 0 .. SLICE] /\ slice \in [Tasks -> Nat] /\ SLICE \in Nat
      /\ state \in [Tasks -> {"blocked", "queued", "local", "running"}]
      /\ dsq \in [Tiers -> Seq(Tasks)] /\ Queued /\ OnCpu /\ LocalOne
      /\ next \in Tasks \cup {Idle} /\ local \in Seq(Tasks)
      /\ kick \in BOOLEAN /\ dctx.preempt_pending \in BOOLEAN
  BY <1>0, TypesFacts DEF Types, Places, CpuCtx
<1>3. CASE curr \notin Tasks
  <2>1. UNCHANGED <<tctx, dctx, dsq, local, slice, state, hist>>
    BY <1>3, Zenon DEF RtTakes, PrevRuns
  <2>2. Types'
    BY <1>1, <1>2, <2>1, TypesStep
  <2>3. Queued' /\ LocalOne' /\ IdleEmpty' /\ NoResume'
    BY <1>0, <1>1, <2>1 DEF Places, Queued, Distinct, LocalOne, IdleEmpty, NoResume
  <2>4. OnCpu'
    BY <1>1, <1>2, <1>3, <2>1 DEF OnCpu
  <2>5. HeadsStep /\ ChargeStep
    BY <1>1, <1>3, <2>1 DEF HeadsStep, ChargeStep, Uncharged
  <2>6. \A t \in hist.via : t \in Tasks /\ Via(t) /\ slice[t] \in Nat
    BY <1>0, <1>2 DEF Types, OverrideInv
  <2>7. ViaStep
    BY <1>1, <1>3, <2>1, <2>6 DEF ViaStep, Via
  <2>8. Rest' <= Rest /\ Rest' \in Nat /\ Rest \in Nat
    <3>1. Runner' = Runner
      BY <1>1, <1>3, <2>1 DEF Runner
    <3>2. QED
      BY <1>0, <2>1, <2>2, <3>1, RestBounds, RestBoundsNext DEF Rest
  <2>9. OverrideInv' /\ StarveInv'
    BY <1>0, <2>1, <2>2, <2>5, <2>7, <2>8, OverrideKeep, StarveKeep
  <2>10. BoostInv'
    <3> SUFFICES ASSUME NEW t \in Tasks PROVE BoostOk(t)'
      BY DEF BoostInv
    <3>1. BoostOk(t) /\ slice[t] \in Nat
      BY <1>0, <1>2 DEF BoostInv
    <3>2. QED
      BY <1>0, <1>1, <2>1, <2>2, <3>1, BoostKeep
  <2>11. QED
    BY <2>2, <2>3, <2>4, <2>9, <2>10 DEF Inv, Places
<1>4. CASE curr \in Tasks
  <2>1. PICK t \in Tasks : t = curr /\ k \in Tiers
    BY <1>4
  <2>2. PICK zero \in BOOLEAN : zero = (slice[t] = 0)
    OBVIOUS
  <2>3. PICK x : x = stopping_ctx(tctx[t], TRUE, dctx.preempt_pending, zero, k)
    OBVIOUS
  <2>4. PICK y : y = PutBack(x)
    OBVIOUS
  <2>5. PICK d : d = stopping_cpu(dctx, tctx[curr])
    OBVIOUS
  <2>6. /\ state[t] = "running" /\ local = <<>>
        /\ tctx[t] \in Ctx /\ tctx[t].resume_slice = 0
    BY <1>0, <1>1, <1>2, <2>1 DEF Places, OnCpu, LocalOne, NoResume
  <2>7. /\ x \in Ctx /\ y \in Ctx
        /\ ~ zero => y = Off(x) /\ ~ (x.resume_slice > 0)
        /\ y.ran = 0 /\ y.resume_slice = 0
        /\ tctx[t].boost_dsq_type = EMPTY => y.boost_dsq_type = EMPTY
        /\ ~ (x.resume_slice > 0) /\ y.boost_dsq_type # EMPTY =>
             /\ y.boost_used < WAKE_BOOST_BUDGET
             /\ y.boost_used = tctx[t].boost_used + tctx[t].ran
    <3>1. PICK c \in Ctx, pending \in BOOLEAN :
            c = tctx[t] /\ pending = dctx.preempt_pending /\ c.resume_slice = 0
      BY <1>2, <2>6
    <3>2. x = stopping_ctx(c, TRUE, pending, zero, k)
      BY <2>3, <3>1
    <3>3. /\ x \in Ctx /\ y \in Ctx
          /\ x.resume_slice > 0 => zero
          /\ ~ zero => y = Off(x)
          /\ y.ran = 0 /\ y.resume_slice = 0
          /\ c.boost_dsq_type = EMPTY => y.boost_dsq_type = EMPTY
          /\ ~ (x.resume_slice > 0) /\ y.boost_dsq_type # EMPTY =>
               /\ y.boost_used < WAKE_BOOST_BUDGET
               /\ y.boost_used = c.boost_used + c.ran
      <4>1. c.resume_slice = 0 /\ k \in Tiers
        BY <2>1, <3>1
      <4>2. QED
        BY <2>4, <3>2, <4>1, StoppedCtx, ZenonT(60)
    <3>4. QED
      BY <3>1, <3>3
  <2>8. /\ d \in CpuCtx
        /\ d.head = dctx.head /\ d.last_override = dctx.last_override
        /\ d.override_left > 0 =>
             /\ dctx.override_left > 0
             /\ d.override_tier = dctx.override_tier
             /\ d.override_left = dctx.override_left - Uncharged
    BY <1>0, <1>4, <2>5, StoppedCpu, Zenon
  <2>9. \A u \in hist.via : u = t
    BY <1>0, <1>1, <2>1, <2>6 DEF OverrideInv, Via
  <2>10. Uncharged' = 0 /\ Uncharged \in Nat /\ dctx.override_left \in Nat
    BY <1>0, <1>1, TypesFacts DEF Uncharged
  <2>11. \A u \in Tasks : u # t => tctx[u].ran = 0
    BY <1>2, <2>1 DEF OnCpu
  <2>12. CASE slice[t] > 0
    <3>0. ~ zero /\ slice[t] # 0
      <4>1. slice[t] # 0
        BY <1>2, <2>12
      <4>2. QED
        BY <2>2, <4>1, Zenon
    <3>1. /\ local' = <<t>> \o local /\ state' = [state EXCEPT ![t] = "local"]
          /\ tctx' = [tctx EXCEPT ![t] = y] /\ dctx' = d
          /\ UNCHANGED <<dsq, slice, hist>>
      <4>1. y = Off(x)
        BY <2>7, <3>0
      <4>2. zero = (slice[curr] = 0) /\ slice[curr] # 0
        BY <2>1, <2>2, <3>0
      <4>3. QED
        BY <1>4, <2>1, <2>3, <2>5, <4>1, <4>2, Zenon DEF RtTakes, PrevRuns
    <3>2. local' \in Seq(Tasks) /\ Len(local') = 1 /\ local'[1] = t
      BY <2>6, <3>1
    <3>3. /\ tctx' \in [Tasks -> Ctx] /\ tctx'[t] = y
          /\ state' \in [Tasks -> {"blocked", "queued", "local", "running"}]
          /\ state'[t] = "local"
          /\ \A u \in Tasks : u # t => tctx'[u] = tctx[u] /\ state'[u] = state[u]
      BY <1>2, <2>7, <3>1
    <3>4. Types'
      BY <1>1, <1>2, <2>8, <3>1, <3>2, <3>3, TypesStep
    <3>5. Queued'
      <4>1. Distinct'
        BY <1>2, <3>1 DEF Queued, Distinct
      <4>2. ASSUME NEW l \in Tiers, NEW i \in 1 .. Len(dsq[l])
            PROVE  state'[dsq[l][i]] = "queued" /\ slice[dsq[l][i]] > 0
        <5>1. state[dsq[l][i]] = "queued" /\ slice[dsq[l][i]] > 0 /\ dsq[l][i] \in Tasks
          BY <1>2 DEF Queued
        <5>2. QED
          BY <2>6, <3>3, <5>1
      <4>3. QED
        BY <3>1, <4>1, <4>2 DEF Queued
    <3>6. \A u \in Tasks : tctx'[u].ran = 0 /\ tctx'[u].resume_slice = 0
      BY <1>0, <2>7, <2>11, <3>3 DEF Places, NoResume
    <3>7. OnCpu' /\ LocalOne' /\ IdleEmpty' /\ NoResume'
      BY <1>1, <2>12, <3>1, <3>2, <3>3, <3>6 DEF OnCpu, LocalOne, IdleEmpty, NoResume
    <3>8. HeadsStep /\ ChargeStep
      BY <2>8, <2>10, <3>1 DEF HeadsStep, ChargeStep
    <3>9. ViaStep
      <4>1. local' # <<>>
        BY <3>2
      <4>2. slice[t] \in Nat
        BY <1>2
      <4>3. QED
        BY <2>9, <3>1, <3>2, <4>1, <4>2 DEF ViaStep, Via
    <3>10. Rest' <= Rest /\ Rest' \in Nat /\ Rest \in Nat
      <4>1. Runner' = t /\ Runner = t
        <5>1. local' # <<>>
          BY <3>2
        <5>2. QED
          BY <1>1, <2>1, <3>2, <5>1 DEF Runner
      <4>2. QED
        BY <1>0, <3>1, <3>4, <4>1, RestBounds, RestBoundsNext DEF Rest
    <3>11. OverrideInv' /\ StarveInv'
      BY <1>0, <3>1, <3>4, <3>8, <3>9, <3>10, OverrideKeep, StarveKeep
    <3>12. BoostInv'
      <4> SUFFICES ASSUME NEW u \in Tasks PROVE BoostOk(u)'
        BY DEF BoostInv
      <4>1. BoostOk(u) /\ slice[u] \in Nat
        BY <1>0, <1>2 DEF BoostInv
      <4>2. CASE u = t
        BY <1>0, <2>7, <3>0, <3>1, <3>3, <3>4, <4>1, <4>2, BoostGranted
      <4>3. CASE u # t
        BY <1>0, <1>1, <3>1, <3>3, <3>4, <4>1, <4>3, BoostKeep
      <4>4. QED
        BY <4>2, <4>3
    <3>13. QED
      BY <3>4, <3>5, <3>7, <3>11, <3>12 DEF Inv, Places
  <2>13. CASE slice[t] = 0
    <3>1. /\ Enqueue(t, x, d, hist) /\ tctx' = [tctx EXCEPT ![t] = y] /\ local' = <<>>
      <4>1. zero = (slice[curr] = 0) /\ slice[curr] = 0 /\ ~ (slice[curr] > 0)
        BY <1>2, <2>1, <2>2, <2>13
      <4>2. QED
        BY <1>4, <2>1, <2>3, <2>4, <2>5, <2>6, <4>1, Zenon DEF RtTakes, PrevRuns, PutBack
    <3>2. Unqueued(t)
      BY <1>0, <1>2, <2>6, NotQueued
    <3>3. /\ dsq' \in [Tiers -> Seq(Tasks)] /\ slice' \in [Tasks -> 0 .. SLICE]
          /\ state' \in [Tasks -> {"blocked", "queued", "local", "running"}]
          /\ dctx' \in CpuCtx /\ hist' \in Hist
          /\ Queued' /\ HeadsStep
          /\ dctx'.last_override = d.last_override
          /\ dctx'.override_left = d.override_left /\ dctx'.override_tier = d.override_tier
          /\ hist'.from = hist.from /\ hist'.over = hist.over /\ hist'.tier = hist.tier
          /\ hist'.boosted = hist.boosted /\ hist'.via = hist.via \ {t}
          /\ state'[t] = "queued"
          /\ x.resume_slice > 0 => hist'.jumped[t]
          /\ hist.jumped[t] => hist'.jumped[t]
          /\ \A u \in Tasks : u # t =>
               /\ hist'.jumped[u] = hist.jumped[u]
               /\ slice'[u] = slice[u] /\ state'[u] = state[u]
      BY <1>0, <1>2, <2>7, <2>8, <3>1, <3>2, Enqueued
    <3>4. /\ tctx' \in [Tasks -> Ctx] /\ tctx'[t] = y
          /\ \A u \in Tasks : u # t => tctx'[u] = tctx[u]
      BY <1>2, <2>7, <3>1
    <3>5. Types'
      <4>1. <<>> \in Seq(Tasks)
        OBVIOUS
      <4>2. QED
        BY <1>1, <1>2, <3>1, <3>3, <3>4, <4>1, TypesStep
    <3>6. \A u \in Tasks : tctx'[u].ran = 0 /\ tctx'[u].resume_slice = 0
      BY <1>0, <2>7, <2>11, <3>4 DEF Places, NoResume
    <3>7. OnCpu' /\ LocalOne' /\ IdleEmpty' /\ NoResume'
      BY <1>1, <3>1, <3>6 DEF OnCpu, LocalOne, IdleEmpty, NoResume
    <3>8. ChargeStep /\ ViaStep
      BY <2>8, <2>9, <2>10, <3>3 DEF ChargeStep, ViaStep
    <3>9. Rest' <= Rest /\ Rest' \in Nat /\ Rest \in Nat
      <4>1. Runner' = Idle
        BY <1>1, <3>1 DEF Runner
      <4>2. Rest' = 0
        BY <4>1, Constants DEF Rest
      <4>3. QED
        BY <1>0, <4>2, RestBounds
    <3>10. OverrideInv' /\ StarveInv'
      BY <1>0, <3>3, <3>5, <3>8, <3>9, OverrideKeep, StarveKeep
    <3>11. BoostInv'
      <4> SUFFICES ASSUME NEW u \in Tasks PROVE BoostOk(u)'
        BY DEF BoostInv
      <4>1. BoostOk(u) /\ slice[u] \in Nat
        BY <1>0, <1>2 DEF BoostInv
      <4>2. CASE u = t
        BY <1>0, <2>7, <3>3, <3>4, <3>5, <4>1, <4>2, BoostGranted
      <4>3. CASE u # t
        <5>1. /\ tctx'[u] = tctx[u] /\ slice'[u] <= slice[u] /\ state'[u] = state[u]
              /\ hist'.boosted[u] = hist.boosted[u] /\ hist'.jumped[u] = hist.jumped[u]
          BY <3>3, <3>4, <4>1, <4>3
        <5>2. QED
          BY <1>0, <1>1, <3>5, <4>1, <5>1, BoostKeep
      <4>4. QED
        BY <4>2, <4>3
    <3>12. QED
      BY <3>3, <3>5, <3>7, <3>10, <3>11 DEF Inv, Places
  <2>14. QED
    BY <1>2, <2>12, <2>13
<1>5. QED
  BY <1>3, <1>4

\* Time passes: a tier that waits is charged with o, and what is left to be run before
\* it shrinks by as much.
TimeStep(o) ==
  /\ dsq' = dsq /\ hist'.from = hist.from
  /\ dctx'.override_left = dctx.override_left /\ dctx'.override_tier = dctx.override_tier
  /\ \A k \in Timed :
       /\ dctx'.head[k] = IF dsq[k] # <<>> THEN dctx.head[k] + 1 ELSE dctx.head[k]
       /\ hist'.unserved[k] = IF dsq[k] # <<>> THEN hist.unserved[k] + o
                              ELSE hist.unserved[k]
  /\ dctx'.last_override < STARVE_OVERRIDE_COOLDOWN =>
       dctx'.last_override = dctx.last_override + 1
  /\ Rest' + o <= Rest /\ Uncharged' >= Uncharged
  /\ dctx.override_left > Uncharged' => Uncharged' >= Uncharged + o

\* Time does not break the bound on starving.
LEMMA StarveTick ==
  ASSUME Types, Types', StarveInv, NEW o \in {0, 1}, TimeStep(o)
  PROVE  StarveInv'
<1>0. o \in Nat /\ o <= 1
  OBVIOUS
<1>1. dctx'.override_left > 0 /\ hist'.from # LC => hist'.from = dctx'.override_tier
  BY DEF StarveInv, TimeStep
<1>2. /\ dctx.head \in [Timed -> Nat] /\ STARVE_BUDGET \in [Timed -> Nat]
      /\ hist.unserved \in [Timed -> Nat]
      /\ dctx.last_override \in Nat /\ STARVE_OVERRIDE_COOLDOWN \in Nat
      /\ dctx.override_left \in Nat /\ dctx.override_left <= SLICE
      /\ Uncharged \in Nat /\ SLICE \in Nat /\ SLICE > 0
  BY TypesFacts
<1>3. dctx'.last_override \in Nat /\ Uncharged' \in Nat
  BY TypesNext
<1>4. \A k \in Timed : /\ hist'.unserved[k] <= dctx'.head[k]
                       /\ dsq'[k] = <<>> => hist'.unserved[k] = 0
  <2> SUFFICES ASSUME NEW k \in Timed
               PROVE  /\ hist'.unserved[k] <= dctx'.head[k]
                      /\ dsq'[k] = <<>> => hist'.unserved[k] = 0
    OBVIOUS
  <2>1. /\ hist.unserved[k] <= dctx.head[k]
        /\ dsq[k] = <<>> => hist.unserved[k] = 0
    BY DEF StarveInv
  <2>2. hist.unserved[k] \in Nat /\ dctx.head[k] \in Nat
    BY <1>2
  <2>3. QED
    BY <2>1, <2>2 DEF TimeStep
<1>5. ASSUME NEW k \in Timed, dsq'[k] # <<>>, dctx'.head[k] > STARVE_BUDGET[k]
      PROVE  /\ Rest' <= Margin(k)'
             /\ dctx'.last_override < STARVE_OVERRIDE_COOLDOWN =>
                  STARVE_OVERRIDE_COOLDOWN - dctx'.last_override + SLICE - 1 <= Margin(k)'
             /\ dctx'.override_left > Uncharged' =>
                  dctx'.override_left - Uncharged' + SLICE - 1 <= Margin(k)'
  <2>1. PICK u \in Nat, h \in Nat, B \in Nat :
          u = hist.unserved[k] /\ h = dctx.head[k] /\ B = STARVE_BUDGET[k]
    BY <1>2
  <2>2. dsq[k] # <<>> /\ dctx'.head[k] = h + 1 /\ hist'.unserved[k] = u + o /\ u <= h
    BY <1>5, <2>1 DEF StarveInv, TimeStep
  <2>3. TurnsBefore(k)' = TurnsBefore(k)
    <3>1. ASSUME NEW j \in Timed PROVE Ahead(j, k)' <=> Ahead(j, k)
      <4>1. PICK g \in Nat, C \in Nat : g = dctx.head[j] /\ C = STARVE_BUDGET[j]
        BY <1>2
      <4>2. dsq'[j] = dsq[j] /\ (dsq[j] # <<>> => dctx'.head[j] = g + 1)
        BY <4>1 DEF TimeStep
      <4>3. Ahead(j, k) <=> j # k /\ dsq[j] # <<>> /\ g - C >= h - B
        BY <2>1, <4>1 DEF Ahead
      <4>4. Ahead(j, k)' <=> j # k /\ dsq[j] # <<>> /\ g + 1 - C >= h + 1 - B
        <5>1. Ahead(j, k)' <=> /\ j # k /\ dsq'[j] # <<>>
                               /\ dctx'.head[j] - STARVE_BUDGET[j] >= dctx'.head[k] - STARVE_BUDGET[k]
          BY DEF Ahead
        <5>2. QED
          <6>1. CASE dsq[j] = <<>>
            BY <4>2, <5>1, <6>1
          <6>2. CASE dsq[j] # <<>>
            <7>1. dctx'.head[j] = g + 1 /\ dctx'.head[k] = h + 1
              BY <2>2, <4>2, <6>2
            <7>2. QED
              <8>1. /\ dctx'.head[j] - STARVE_BUDGET[j] = g + 1 - C
                    /\ dctx'.head[k] - STARVE_BUDGET[k] = h + 1 - B
                BY <2>1, <4>1, <7>1
              <8>2. dsq'[j] = dsq[j]
                BY <4>2
              <8>3. QED
                BY <5>1, <8>1, <8>2, Zenon
          <6>3. QED
            BY <6>1, <6>2
      <4>5. g + 1 - C >= h + 1 - B <=> g - C >= h - B
        OBVIOUS
      <4>6. QED
        BY <4>3, <4>4, <4>5
    <3>2. \A j \in Timed : TurnOf(j, k)' = TurnOf(j, k)
      BY <3>1 DEF TurnOf, Turn, STARVE_OVERRIDE_BUDGET
    <3>3. QED
      BY <3>2, TierNumbers DEF TurnsBefore
  <2>4. PICK b \in Nat, T \in Nat : b = TurnsBefore(k) /\ T = Turn /\ b <= 2 * T
    BY TurnsBounds, TurnBounds
  <2>5. Margin(k) = B + 3 * T - b - u /\ Margin(k)' = B + 3 * T - b - (u + o)
    <3>1. Margin(k)' = STARVE_BUDGET[k] + 3 * Turn - TurnsBefore(k)' - hist'.unserved[k]
      BY DEF Margin, Turn, STARVE_OVERRIDE_BUDGET
    <3>2. QED
      BY <2>1, <2>2, <2>3, <2>4, <3>1 DEF Margin
  <2>6. PICK r \in Nat, rr \in Nat : r = Rest /\ rr = Rest' /\ r <= SLICE /\ rr + o <= r
    BY RestBounds, RestBoundsNext DEF TimeStep
  <2>7. /\ T >= SLICE + SLICE - 1 /\ T >= STARVE_OVERRIDE_COOLDOWN + SLICE - 1
    BY <2>4, TurnBounds, Constants
  <2> DEFINE C == STARVE_OVERRIDE_COOLDOWN
  <2>70. SLICE \in Nat /\ SLICE > 0 /\ C \in Nat
    BY Constants
  <2>71. PICK L \in Nat, U \in Nat, UU \in Nat, p \in Nat, pp \in Nat :
           /\ L = dctx.override_left /\ U = Uncharged /\ UU = Uncharged'
           /\ p = dctx.last_override /\ pp = dctx'.last_override /\ L = dctx'.override_left
           /\ L <= SLICE /\ UU >= U /\ (L > UU => UU >= U + o) /\ (pp < C => pp = p + 1)
    BY <1>2, <1>3, ZenonT(60) DEF TimeStep
  <2>8. CASE h > B
    <3>1. /\ r <= Margin(k)
          /\ dctx.last_override < STARVE_OVERRIDE_COOLDOWN =>
               STARVE_OVERRIDE_COOLDOWN - dctx.last_override + SLICE - 1 <= Margin(k)
          /\ dctx.override_left > Uncharged =>
               dctx.override_left - Uncharged + SLICE - 1 <= Margin(k)
      BY <2>1, <2>2, <2>6, <2>8 DEF StarveInv
    <3>2. Margin(k)' = Margin(k) - o /\ Margin(k) \in Int
      BY <2>4, <2>5
    <3>3. QED
      <4>1. PICK m \in Int : m = Margin(k) /\ Margin(k)' = m - o
        BY <3>2
      <4>2. /\ r <= m /\ (p < C => C - p + SLICE - 1 <= m)
            /\ (L > U => L - U + SLICE - 1 <= m)
        BY <2>71, <3>1, <4>1
      <4>3. rr <= m - o /\ (pp < C => C - pp + SLICE - 1 <= m - o)
        <5>1. rr <= m - o
          <6>1. rr + o <= r /\ r <= m
            BY <2>6, <4>2
          <6>2. QED
            BY <1>0, <6>1
        <5>2. ASSUME pp < C PROVE C - pp + SLICE - 1 <= m - o
          <6>1. pp = p + 1
            BY <2>71, <5>2
          <6>2. p < C
            BY <2>70, <5>2, <6>1
          <6>3. C - p + SLICE - 1 <= m
            BY <4>2, <6>2
          <6>4. QED
            BY <1>0, <2>70, <6>1, <6>3
        <5>3. QED
          BY <5>1, <5>2
      <4>4. L > UU => L - UU + SLICE - 1 <= m - o
        BY <1>0, <2>70, <2>71, <4>2
      <4>5. QED
        <5>1. Rest' <= Margin(k)'
          BY <2>6, <4>1, <4>3
        <5>2. dctx'.last_override < C => C - dctx'.last_override + SLICE - 1 <= Margin(k)'
          BY <2>71, <4>1, <4>3
        <5>3. dctx'.override_left > Uncharged' =>
                dctx'.override_left - Uncharged' + SLICE - 1 <= Margin(k)'
          BY <2>71, <4>1, <4>4
        <5>4. QED
          BY <5>1, <5>2, <5>3, Zenon
  <2>9. CASE h <= B
    <3>1. Margin(k)' >= T - o /\ Margin(k)' \in Int
      <4>1. u <= B /\ b <= 2 * T
        <5>1. u <= h
          BY <2>2
        <5>2. QED
          BY <2>4, <2>9, <5>1
      <4>2. PICK m \in Int : m = B + 3 * T - b - (u + o)
        BY <1>0
      <4>3. m >= T - o
        BY <1>0, <4>1, <4>2
      <4>4. QED
        BY <2>5, <4>2, <4>3, Zenon
    <3>2. QED
      <4>1. PICK m \in Int : m = Margin(k)' /\ m >= T - o
        BY <3>1
      <4>2. rr <= m /\ (pp < C => C - pp + SLICE - 1 <= m)
        <5>1. rr <= m
          <6>1. rr + o <= r /\ r <= SLICE /\ T >= SLICE + SLICE - 1 /\ m >= T - o
            BY <2>6, <2>7, <4>1
          <6>2. QED
            BY <1>0, <2>70, <6>1
        <5>2. ASSUME pp < C PROVE C - pp + SLICE - 1 <= m
          <6>1. pp = p + 1
            BY <2>71, <5>2
          <6>2. QED
            BY <1>0, <2>7, <2>70, <4>1, <6>1
        <5>3. QED
          BY <5>1, <5>2
      <4>3. L > UU => L - UU + SLICE - 1 <= m
        BY <1>0, <2>7, <2>70, <2>71, <4>1
      <4>4. QED
        <5>1. Rest' <= Margin(k)'
          BY <2>6, <4>1, <4>2
        <5>2. dctx'.last_override < C => C - dctx'.last_override + SLICE - 1 <= Margin(k)'
          BY <2>71, <4>1, <4>2
        <5>3. dctx'.override_left > Uncharged' =>
                dctx'.override_left - Uncharged' + SLICE - 1 <= Margin(k)'
          BY <2>71, <4>1, <4>3
        <5>4. QED
          BY <5>1, <5>2, <5>3, Zenon
  <2>10. QED
    BY <2>8, <2>9
<1>6. QED
  BY <1>1, <1>4, <1>5 DEF StarveInv

\* The tier of a task does not depend on how long it has run.
LEMMA TierOfRan ==
  ASSUME NEW x \in Ctx, NEW n \in 0 .. SLICE
  PROVE  LET y == [x EXCEPT !.ran = n] IN
         /\ y \in Ctx /\ y.ran = n /\ effective_tier(y) = effective_tier(x)
         /\ y.boost_dsq_type = x.boost_dsq_type /\ y.boost_used = x.boost_used
         /\ y.resume_slice = x.resume_slice
<1>1. PICK y : y = [x EXCEPT !.ran = n]
  OBVIOUS
<1>2. /\ y \in Ctx /\ y.ran = n
      /\ y.boost_dsq_type = x.boost_dsq_type /\ y.boost_used = x.boost_used
      /\ y.resume_slice = x.resume_slice /\ y.current_dsq_type = x.current_dsq_type
  BY <1>1 DEF Ctx
<1>3. effective_tier(y) = effective_tier(x)
  BY <1>2 DEF effective_tier
<1>4. QED
  BY <1>1, <1>2, <1>3, Zenon

\* What a tick does to the cpu and to the history, as far as the task that runs
\* does not matter.
LEMMA TickFacts ==
  ASSUME Types, Tick,
         NEW o \in {0, 1},
         o = IF curr \in Tasks /\ hist.from > LC /\ effective_tier(tctx[curr]) = hist.from
             THEN 1 ELSE 0
  PROVE  /\ dctx' \in CpuCtx /\ hist' \in Hist
         /\ dsq' = dsq /\ hist'.from = hist.from /\ hist'.tier = hist.tier
         /\ hist'.via = hist.via /\ hist'.jumped = hist.jumped
         /\ dctx'.override_left = dctx.override_left
         /\ dctx'.override_tier = dctx.override_tier
         /\ \A k \in Timed :
              /\ dctx'.head[k] = IF dsq[k] # <<>> THEN dctx.head[k] + 1 ELSE dctx.head[k]
              /\ hist'.unserved[k] = IF dsq[k] # <<>> THEN hist.unserved[k] + o
                                     ELSE hist.unserved[k]
         /\ dctx'.last_override < STARVE_OVERRIDE_COOLDOWN =>
              dctx'.last_override = dctx.last_override + 1
         /\ hist'.over = IF curr \in hist.via /\ effective_tier(tctx[curr]) = hist.tier
                         THEN hist.over + 1 ELSE hist.over
         /\ \A u \in Tasks : hist'.boosted[u] =
              IF u = curr /\ tctx[u].boost_dsq_type # EMPTY
              THEN Min({hist.boosted[u] + 1, WAKE_BOOST_BUDGET + SLICE}) ELSE hist.boosted[u]
<1> DEFINE waiting == {k \in Timed : dsq[k] # <<>>}
           ours == curr \in Tasks /\ hist.from > LC /\ effective_tier(tctx[curr]) = hist.from
<1>1. dctx \in CpuCtx /\ hist \in Hist /\ SLICE \in Nat /\ WAKE_BOOST_BUDGET \in Nat
        /\ STARVE_OVERRIDE_COOLDOWN \in Nat /\ MaxAge \in Nat
  BY TypesFacts, Constants
<1>2. PICK h : h = [k \in Timed |-> IF k \in waiting THEN dctx.head[k] + 1 ELSE dctx.head[k]]
  OBVIOUS
<1>3. PICK l : l = Min({dctx.last_override + 1, STARVE_OVERRIDE_COOLDOWN})
  OBVIOUS
<1>4. PICK un : un = [k \in Timed |-> IF ours /\ k \in waiting THEN hist.unserved[k] + 1
                                      ELSE hist.unserved[k]]
  OBVIOUS
<1>5. PICK ov : ov = IF curr \in hist.via /\ effective_tier(tctx[curr]) = hist.tier
                     THEN hist.over + 1 ELSE hist.over
  OBVIOUS
<1>6. PICK bo : bo = [u \in Tasks |-> IF u = curr /\ tctx[u].boost_dsq_type # EMPTY
                        THEN Min({hist.boosted[u] + 1, WAKE_BOOST_BUDGET + SLICE})
                        ELSE hist.boosted[u]]
  OBVIOUS
<1>7. PICK sp : sp = [u \in Tasks |-> IF u = curr THEN Min({hist.spent[u] + 1, SLICE})
                                      ELSE hist.spent[u]]
  OBVIOUS
<1>8. /\ dctx' = [dctx EXCEPT !.head = h, !.last_override = l]
      /\ hist' = [hist EXCEPT !.unserved = un, !.over = ov, !.boosted = bo, !.spent = sp]
      /\ dsq' = dsq
      /\ \A k \in waiting : dctx.head[k] < MaxAge
  BY <1>2, <1>3, <1>4, <1>5, <1>6, <1>7 DEF Tick
<1>9. h \in [Timed -> 0 .. MaxAge]
  <2>1. ASSUME NEW k \in Timed PROVE h[k] \in 0 .. MaxAge
    <3>1. dctx.head[k] \in 0 .. MaxAge
      BY <1>1 DEF CpuCtx
    <3>2. QED
      BY <1>1, <1>2, <1>8, <3>1
  <2>2. QED
    BY <1>2, <2>1
<1>10. /\ l \in 0 .. STARVE_OVERRIDE_COOLDOWN
       /\ l < STARVE_OVERRIDE_COOLDOWN => l = dctx.last_override + 1
  <2>1. PICK n \in Nat : n = dctx.last_override
    BY <1>1 DEF CpuCtx
  <2>2. l = IF n + 1 <= STARVE_OVERRIDE_COOLDOWN THEN n + 1 ELSE STARVE_OVERRIDE_COOLDOWN
    BY <1>1, <1>3, <2>1, MinPair
  <2>3. QED
    BY <1>1, <2>1, <2>2
<1>11. un \in [Timed -> Nat] /\ ov \in Nat
  BY <1>1, <1>4, <1>5 DEF Hist
<1>12. bo \in [Tasks -> Nat] /\ sp \in [Tasks -> Nat]
  <2>1. ASSUME NEW u \in Tasks PROVE bo[u] \in Nat /\ sp[u] \in Nat
    <3>1. PICK n \in Nat, m \in Nat : n = hist.boosted[u] /\ m = hist.spent[u]
      BY <1>1 DEF Hist
    <3>2. Min({n + 1, WAKE_BOOST_BUDGET + SLICE}) \in Nat
      BY <1>1, MinPair
    <3>3. Min({m + 1, SLICE}) \in Nat
      BY <1>1, MinPair
    <3>4. QED
      BY <1>6, <1>7, <3>1, <3>2, <3>3
  <2>2. QED
    BY <1>6, <1>7, <2>1
<1>13. /\ dctx' \in CpuCtx /\ dctx'.head = h /\ dctx'.last_override = l
       /\ dctx'.override_left = dctx.override_left
       /\ dctx'.override_tier = dctx.override_tier
  BY <1>1, <1>8, <1>9, <1>10 DEF CpuCtx
<1>14. /\ hist' \in Hist /\ hist'.from = hist.from /\ hist'.tier = hist.tier
       /\ hist'.via = hist.via /\ hist'.jumped = hist.jumped
       /\ hist'.unserved = un /\ hist'.over = ov /\ hist'.boosted = bo
  BY <1>1, <1>8, <1>11, <1>12 DEF Hist
<1>15. \A k \in Timed :
         /\ h[k] = IF dsq[k] # <<>> THEN dctx.head[k] + 1 ELSE dctx.head[k]
         /\ un[k] = IF dsq[k] # <<>> THEN hist.unserved[k] + o ELSE hist.unserved[k]
  <2> SUFFICES ASSUME NEW k \in Timed
               PROVE  /\ h[k] = IF dsq[k] # <<>> THEN dctx.head[k] + 1 ELSE dctx.head[k]
                      /\ un[k] = IF dsq[k] # <<>> THEN hist.unserved[k] + o
                                 ELSE hist.unserved[k]
    OBVIOUS
  <2>1. h[k] = IF dsq[k] # <<>> THEN dctx.head[k] + 1 ELSE dctx.head[k]
    BY <1>2
  <2>2. hist.unserved[k] \in Nat
    BY <1>1 DEF Hist
  <2>3. un[k] = IF ours /\ dsq[k] # <<>> THEN hist.unserved[k] + 1 ELSE hist.unserved[k]
    BY <1>4
  <2>4. CASE ours
    <3>1. o = 1
      BY <2>4
    <3>2. QED
      BY <2>1, <2>3, <2>4, <3>1
  <2>5. CASE ~ ours
    <3>1. o = 0
      BY <2>5
    <3>2. QED
      BY <2>1, <2>2, <2>3, <2>5, <3>1
  <2>6. QED
    BY <2>4, <2>5
<1>16. QED
  BY <1>5, <1>6, <1>8, <1>10, <1>13, <1>14, <1>15

\* A tick.
LEMMA TickInv ==
  ASSUME Inv, Tick
  PROVE  Inv'
<1>0. Types /\ Places /\ OverrideInv /\ BoostInv /\ StarveInv
  BY DEF Inv
<1>1. PICK o \in {0, 1} :
        o = IF curr \in Tasks /\ hist.from > LC /\ effective_tier(tctx[curr]) = hist.from
            THEN 1 ELSE 0
  OBVIOUS
<1>2. /\ dctx' \in CpuCtx /\ hist' \in Hist
      /\ dsq' = dsq /\ hist'.from = hist.from /\ hist'.tier = hist.tier
      /\ hist'.via = hist.via /\ hist'.jumped = hist.jumped
      /\ dctx'.override_left = dctx.override_left
      /\ dctx'.override_tier = dctx.override_tier
      /\ \A k \in Timed :
           /\ dctx'.head[k] = IF dsq[k] # <<>> THEN dctx.head[k] + 1 ELSE dctx.head[k]
           /\ hist'.unserved[k] = IF dsq[k] # <<>> THEN hist.unserved[k] + o
                                  ELSE hist.unserved[k]
      /\ dctx'.last_override < STARVE_OVERRIDE_COOLDOWN =>
           dctx'.last_override = dctx.last_override + 1
      /\ hist'.over = IF curr \in hist.via /\ effective_tier(tctx[curr]) = hist.tier
                      THEN hist.over + 1 ELSE hist.over
      /\ \A u \in Tasks : hist'.boosted[u] =
           IF u = curr /\ tctx[u].boost_dsq_type # EMPTY
           THEN Min({hist.boosted[u] + 1, WAKE_BOOST_BUDGET + SLICE}) ELSE hist.boosted[u]
  BY <1>0, <1>1, TickFacts
<1>3. /\ at = "run" /\ ~ resched /\ ~ kick /\ local = <<>>
      /\ UNCHANGED <<dsq, local, curr, next, at, kick, state>>
  BY DEF Tick
<1>4. /\ tctx \in [Tasks -> Ctx] /\ dctx \in CpuCtx /\ hist \in Hist
      /\ slice \in [Tasks -> 0 .. SLICE] /\ slice \in [Tasks -> Nat] /\ SLICE \in Nat
      /\ state \in [Tasks -> {"blocked", "queued", "local", "running"}]
      /\ dsq \in [Tiers -> Seq(Tasks)] /\ Queued /\ OnCpu /\ LocalOne
      /\ next \in Tasks \cup {Idle} /\ local \in Seq(Tasks) /\ curr \in Tasks \cup {Idle, Rt}
      /\ at \in {"run", "pick", "put", "switch"} /\ kick \in BOOLEAN
  BY <1>0, TypesFacts DEF Types, Places
<1>5. /\ \A u \in hist.via : u \in Tasks /\ u = curr
      /\ Uncharged \in Nat /\ dctx.override_left \in Nat /\ hist.over \in Nat
  <2>1. \A u \in hist.via : u \in Tasks /\ Via(u)
    BY <1>0 DEF OverrideInv, Types
  <2>2. QED
    BY <1>0, <1>3, <2>1, TypesFacts DEF Via
<1>6. CASE curr \notin Tasks
  <2>1. tctx' = tctx /\ slice' = slice /\ resched' = FALSE
    BY <1>6 DEF Tick
  <2>2. Types'
    BY <1>2, <1>3, <1>4, <2>1, TypesStep
  <2>3. Queued' /\ LocalOne' /\ IdleEmpty' /\ NoResume'
    BY <1>0, <1>2, <1>3, <2>1 DEF Places, Queued, Distinct, LocalOne, IdleEmpty, NoResume
  <2>4. OnCpu'
    BY <1>3, <1>4, <1>6, <2>1 DEF OnCpu
  <2>5. Uncharged' = 0 /\ Uncharged = 0
    BY <1>3, <1>6 DEF Uncharged
  <2>6. Runner' = Idle /\ Runner = Idle /\ Idle \notin Tasks
    BY <1>3, <1>6, Constants DEF Runner
  <2>7. Rest' = 0 /\ Rest = 0
    BY <2>6 DEF Rest
  <2>8. o = 0
    BY <1>1, <1>6
  <2>9. TimeStep(o)
    BY <1>2, <2>5, <2>7, <2>8 DEF TimeStep
  <2>10. StarveInv'
    BY <1>0, <2>2, <2>9, StarveTick
  <2>11. OverrideInv'
    <3>1. hist.via = {} /\ hist'.over = hist.over
      BY <1>2, <1>5, <1>6
    <3>2. QED
      BY <1>0, <1>2, <2>5, <3>1 DEF OverrideInv, OverrideBounded, STARVE_OVERRIDE_BUDGET
  <2>12. BoostInv'
    <3> SUFFICES ASSUME NEW u \in Tasks PROVE BoostOk(u)'
      BY DEF BoostInv
    <3>1. BoostOk(u) /\ slice[u] \in Nat
      BY <1>0, <1>4 DEF BoostInv
    <3>2. u # curr
      BY <1>6
    <3>3. QED
      <4>1. hist'.boosted[u] = hist.boosted[u] /\ hist'.jumped[u] = hist.jumped[u]
        <5>1. hist'.boosted[u] = IF u = curr /\ tctx[u].boost_dsq_type # EMPTY
                THEN Min({hist.boosted[u] + 1, WAKE_BOOST_BUDGET + SLICE}) ELSE hist.boosted[u]
          BY <1>2, Zenon
        <5>2. QED
          BY <1>2, <3>2, <5>1
      <4>2. QED
        BY <1>0, <1>3, <2>1, <2>2, <3>1, <4>1, BoostKeep
  <2>13. QED
    BY <2>2, <2>3, <2>4, <2>10, <2>11, <2>12 DEF Inv, Places
<1>7. CASE curr \in Tasks
  <2>1. PICK t \in Tasks : t = curr
    BY <1>7
  <2>2. PICK x \in Ctx, s \in Nat, n \in Nat : x = tctx[t] /\ s = slice[t] /\ n = x.ran
    BY <1>4 DEF Ctx
  <2>3. s > 0 /\ n + s <= SLICE /\ state[t] = "running" /\ x.resume_slice = 0
    BY <1>0, <1>3, <2>1, <2>2 DEF Places, OnCpu, NoResume
  <2>4. n + 1 \in 0 .. SLICE /\ s - 1 \in 0 .. SLICE /\ s - 1 \in Nat
    BY <1>4, <2>3
  <2>5. PICK y : y = [x EXCEPT !.ran = n + 1]
    OBVIOUS
  <2>6. /\ y \in Ctx /\ y.ran = n + 1 /\ effective_tier(y) = effective_tier(x)
        /\ y.boost_dsq_type = x.boost_dsq_type /\ y.boost_used = x.boost_used
        /\ y.resume_slice = x.resume_slice
    BY <2>4, <2>5, TierOfRan
  <2>7. /\ tctx' = [tctx EXCEPT ![t] = y] /\ slice' = [slice EXCEPT ![t] = s - 1]
        /\ resched' = (s = 1)
    <3>1. tctx' = [tctx EXCEPT ![t].ran = @ + 1]
      BY <1>7, <2>1, Zenon DEF Tick
    <3>2. slice' = [slice EXCEPT ![t] = @ - 1] /\ resched' = (curr \in Tasks /\ slice[t] = 1)
      BY <1>7, <2>1, Zenon DEF Tick
    <3>3. tctx' = [tctx EXCEPT ![t] = y]
      BY <1>4, <2>2, <2>5, <3>1
    <3>4. QED
      BY <1>4, <1>7, <2>2, <3>2, <3>3
  <2>8. /\ tctx' \in [Tasks -> Ctx] /\ tctx'[t] = y /\ slice'[t] = s - 1
        /\ slice' \in [Tasks -> 0 .. SLICE]
        /\ \A u \in Tasks : u # t => tctx'[u] = tctx[u] /\ slice'[u] = slice[u]
    BY <1>4, <2>4, <2>6, <2>7
  <2>9. Types'
    <3>1. resched' \in BOOLEAN
      BY <2>7
    <3>2. QED
      BY <1>2, <1>3, <1>4, <2>8, <3>1, TypesStep
  <2>10. Queued'
    <3>1. Distinct'
      BY <1>2, <1>4 DEF Queued, Distinct
    <3>2. ASSUME NEW l \in Tiers, NEW i \in 1 .. Len(dsq[l])
          PROVE  state[dsq[l][i]] = "queued" /\ slice'[dsq[l][i]] > 0
      <4>1. state[dsq[l][i]] = "queued" /\ slice[dsq[l][i]] > 0 /\ dsq[l][i] \in Tasks
        BY <1>4 DEF Queued
      <4>2. QED
        BY <2>3, <2>8, <4>1
    <3>3. QED
      BY <1>2, <1>3, <3>1, <3>2 DEF Queued
  <2>11. OnCpu'
    <3>1. \A u \in Tasks : tctx'[u].ran # 0 => u = t
      BY <1>4, <2>1, <2>8 DEF OnCpu
    <3>2. tctx'[t].ran + slice'[t] <= SLICE
      BY <1>4, <2>3, <2>6, <2>8
    <3>3. ~ resched' => slice'[t] > 0
      <4>1. ~ resched' => s # 1
        BY <2>7
      <4>2. slice'[t] = s - 1
        BY <2>8
      <4>3. QED
        BY <2>3, <4>1, <4>2
    <3>4. QED
      BY <1>3, <2>1, <2>3, <3>1, <3>2, <3>3 DEF OnCpu
  <2>12. LocalOne' /\ IdleEmpty' /\ NoResume'
    <3>1. t # Idle
      BY Constants
    <3>2. NoResume'
      BY <1>0, <2>3, <2>6, <2>8 DEF Places, NoResume
    <3>3. QED
      BY <1>3, <2>1, <3>1, <3>2 DEF LocalOne, IdleEmpty
  <2>13. PICK c \in {0, 1} : c = IF effective_tier(x) = dctx.override_tier THEN 1 ELSE 0
    OBVIOUS
  <2>14. Uncharged' = Uncharged + c
    <3>1. Uncharged = IF effective_tier(x) = dctx.override_tier THEN n ELSE 0
      BY <2>1, <2>2 DEF Uncharged
    <3>2. Uncharged' = IF effective_tier(x) = dctx.override_tier THEN n + 1 ELSE 0
      <4>1. curr' = t /\ tctx'[t] = y /\ dctx'.override_tier = dctx.override_tier
        BY <1>2, <1>3, <2>1, <2>8
      <4>2. Uncharged' = IF effective_tier(y) = dctx'.override_tier THEN y.ran ELSE 0
        BY <4>1 DEF Uncharged, effective_tier
      <4>3. QED
        BY <2>6, <4>1, <4>2
    <3>3. QED
      BY <2>13, <3>1, <3>2
  <2>15. c \in Nat /\ o \in Nat
    OBVIOUS
  <2>16. Rest' + o <= Rest
    <3>1. Runner' = t /\ Runner = t
      BY <1>3, <2>1 DEF Runner
    <3>2. Rest = (IF hist.from # LC THEN s ELSE 0) /\ Rest' = (IF hist.from # LC THEN s - 1 ELSE 0)
      BY <1>2, <2>2, <2>8, <3>1 DEF Rest
    <3>3. o = 1 => hist.from # LC
      BY <1>1, TierNumbers
    <3>4. QED
      BY <2>3, <3>2, <3>3
  <2>17. TimeStep(o)
    <3>1. dctx.override_left > Uncharged' => c >= o
      <4>1. SUFFICES ASSUME dctx.override_left > Uncharged', o = 1 PROVE c = 1
        BY <2>15
      <4>2. dctx.override_left > 0
        BY <1>5, <2>14, <2>15, <4>1
      <4>3. hist.from # LC /\ effective_tier(x) = hist.from
        BY <1>1, <2>1, <2>2, <4>1, TierNumbers
      <4>4. hist.from = dctx.override_tier
        BY <1>0, <4>2, <4>3 DEF StarveInv
      <4>5. QED
        BY <2>13, <4>3, <4>4
    <3>2. /\ Uncharged' >= Uncharged
          /\ dctx.override_left > Uncharged' => Uncharged' >= Uncharged + o
      BY <1>5, <2>14, <2>15, <3>1
    <3>3. QED
      BY <1>2, <2>16, <3>2, Zenon DEF TimeStep
  <2>18. StarveInv'
    BY <1>0, <2>9, <2>17, StarveTick
  <2>19. OverrideInv'
    <3>1. STARVE_OVERRIDE_BUDGET = SLICE
      BY DEF STARVE_OVERRIDE_BUDGET
    <3>2. PICK v \in {0, 1} : v = IF t \in hist.via /\ effective_tier(x) = hist.tier THEN 1 ELSE 0
      OBVIOUS
    <3>3. hist'.over = hist.over + v /\ v \in Nat
      BY <1>2, <1>5, <2>1, <2>2, <3>2
    <3>4. hist.over < SLICE + SLICE
      BY <1>0, <3>1 DEF OverrideInv, OverrideBounded
    <3>5. t \in hist.via => hist.over + s < SLICE + SLICE
      BY <1>0, <2>2, <3>1 DEF OverrideInv
    <3>6. hist'.over < SLICE + SLICE
      BY <1>4, <1>5, <2>3, <3>2, <3>3, <3>4, <3>5
    <3>7. \A u \in hist'.via : Via(u)'
      BY <1>2, <1>3, <1>5 DEF Via
    <3>8. \A u \in hist'.via : hist'.over + slice'[u] < SLICE + SLICE
      <4>1. ASSUME t \in hist.via PROVE hist'.over + slice'[t] < SLICE + SLICE
        <5>1. hist.over + s < SLICE + SLICE /\ v <= 1
          BY <3>2, <3>5, <4>1
        <5>2. QED
          BY <1>4, <1>5, <2>3, <2>8, <3>3, <5>1, SMTT(30)
      <4>2. QED
        BY <1>2, <1>5, <2>1, <4>1
    <3>9. ASSUME dctx'.override_left > 0
          PROVE  /\ dctx'.override_tier # EMPTY
                 /\ hist'.tier = dctx'.override_tier
                 /\ hist'.over + dctx'.override_left <= SLICE + Uncharged'
      <4>1. /\ dctx.override_tier # EMPTY /\ hist.tier = dctx.override_tier
            /\ hist.over + dctx.override_left <= SLICE + Uncharged
        BY <1>0, <1>2, <3>1, <3>9 DEF OverrideInv
      <4>2. v <= c
        BY <2>13, <3>2, <4>1
      <4>3. hist.over + v + dctx.override_left <= SLICE + (Uncharged + c)
        BY <1>4, <1>5, <2>15, <3>3, <4>1, <4>2, SMTT(30)
      <4>4. QED
        BY <1>2, <2>14, <3>3, <4>1, <4>3
    <3>10. QED
      BY <3>1, <3>6, <3>7, <3>8, <3>9 DEF OverrideInv, OverrideBounded, STARVE_OVERRIDE_BUDGET
  <2>20. BoostInv'
    <3> SUFFICES ASSUME NEW u \in Tasks PROVE BoostOk(u)'
      BY DEF BoostInv
    <3>1. BoostOk(u) /\ slice[u] \in Nat
      BY <1>0, <1>4 DEF BoostInv
    <3>2. CASE u # t
      <4>1. /\ tctx'[u] = tctx[u] /\ slice'[u] <= slice[u]
            /\ hist'.boosted[u] = hist.boosted[u] /\ hist'.jumped[u] = hist.jumped[u]
        <5>1. hist'.boosted[u] = IF u = curr /\ tctx[u].boost_dsq_type # EMPTY
                THEN Min({hist.boosted[u] + 1, WAKE_BOOST_BUDGET + SLICE}) ELSE hist.boosted[u]
          BY <1>2, Zenon
        <5>2. hist'.boosted[u] = hist.boosted[u] /\ hist'.jumped[u] = hist.jumped[u]
          BY <1>2, <2>1, <3>2, <5>1
        <5>3. QED
          BY <2>8, <3>1, <3>2, <5>2
      <4>2. QED
        BY <1>0, <1>3, <2>9, <3>1, <4>1, BoostKeep
    <3>3. CASE u = t
      <4>1. PICK b \in Nat, W \in Nat, e \in Nat :
              b = hist.boosted[t] /\ W = WAKE_BOOST_BUDGET /\ e = x.boost_used
        <5>1. hist.boosted[t] \in Nat
          BY <1>4 DEF Hist
        <5>2. x.boost_used \in Nat /\ WAKE_BOOST_BUDGET \in Nat
          BY Constants DEF Ctx
        <5>3. QED
          BY <5>1, <5>2
      <4>2. PICK bb : bb = hist'.boosted[t]
        OBVIOUS
      <4>3. bb = IF x.boost_dsq_type # EMPTY THEN Min({b + 1, W + SLICE}) ELSE b
        BY <1>2, <2>1, <2>2, <4>1, <4>2
      <4>4. /\ ~ hist.jumped[t] => b < W + SLICE
            /\ ~ hist.jumped[t] /\ x.boost_dsq_type # EMPTY =>
                 /\ b + s < W + SLICE
                 /\ e < W => b <= e + n
                 /\ e < W
        BY <1>3, <2>2, <3>1, <3>3, <4>1 DEF BoostOk
      <4>5. /\ ~ hist.jumped[t] => bb < W + SLICE
            /\ ~ hist.jumped[t] /\ x.boost_dsq_type # EMPTY =>
                 /\ bb + (s - 1) < W + SLICE
                 /\ e < W => bb <= e + (n + 1)
                 /\ e < W
        <5>1. Min({b + 1, W + SLICE}) = IF b + 1 <= W + SLICE THEN b + 1 ELSE W + SLICE
          <6>1. SLICE \in Nat
            BY <1>4
          <6>2. b + 1 \in Int /\ W + SLICE \in Int
            BY <6>1
          <6>3. QED
            BY <6>2, MinPair
        <5>2. CASE hist.jumped[t]
          BY <5>2
        <5>3. CASE ~ hist.jumped[t] /\ x.boost_dsq_type = EMPTY
          BY <4>3, <4>4, <5>3
        <5>4. CASE ~ hist.jumped[t] /\ x.boost_dsq_type # EMPTY
          <6>1. b + s < W + SLICE /\ e < W /\ b <= e + n
            BY <4>4, <5>4
          <6>2. bb = b + 1
            BY <1>4, <2>3, <4>3, <5>1, <5>4, <6>1
          <6>3. QED
            BY <1>4, <2>3, <6>1, <6>2
        <5>5. QED
          BY <5>2, <5>3, <5>4
      <4>6. /\ state'[t] = "running" /\ tctx'[t] = y /\ slice'[t] = s - 1
            /\ hist'.jumped[t] = hist.jumped[t]
        BY <1>2, <1>3, <2>3, <2>8
      <4>7. QED
        BY <2>6, <3>3, <4>1, <4>2, <4>5, <4>6 DEF BoostOk
    <3>4. QED
      BY <3>2, <3>3
  <2>21. QED
    BY <2>9, <2>10, <2>11, <2>12, <2>18, <2>19, <2>20 DEF Inv, Places
<1>8. QED
  BY <1>6, <1>7

-----------------------------------------------------------------------------
(* lunar_dispatch                                                          *)

\* The cpu once the time of the task that ran is charged.
Charged(d) ==
  /\ d \in CpuCtx /\ d.head = dctx.head /\ d.last_override = dctx.last_override
  /\ d.override_left > 0 =>
       /\ dctx.override_left > 0
       /\ d.override_tier = dctx.override_tier
       /\ d.override_left = dctx.override_left - Uncharged

\* Why a tier was chosen.
InOrder(r) == r.tier = LC /\ r.how = "order"

GoesOn(d, r) ==
  /\ r.how = "goes_on" /\ r.tier \in Timed
  /\ r.tier = d.override_tier /\ d.override_left > 0

Starved(d, r) ==
  /\ r.how = "starved" /\ r.tier \in Timed
  /\ \A k \in Timed : dsq[k] # <<>> =>
       d.head[k] - STARVE_BUDGET[k] <= d.head[r.tier] - STARVE_BUDGET[r.tier]

NobodyStarves(d, r) ==
  /\ r.how = "order" /\ r.tier \in Timed \cup {EMPTY}
  /\ \/ d.last_override < STARVE_OVERRIDE_COOLDOWN
     \/ \A k \in Timed : dsq[k] # <<>> => d.head[k] <= STARVE_BUDGET[k]

Chosen(d, r) ==
  /\ r.tier \in Tiers \cup {EMPTY}
  /\ r.tier # EMPTY => dsq[r.tier] # <<>>
  /\ InOrder(r) \/ GoesOn(d, r) \/ Starved(d, r) \/ NobodyStarves(d, r)

\* The first task of a tier is taken.
Takes(d, r) ==
  /\ r.tier \in Tiers /\ dsq[r.tier] # <<>> /\ dsq' = [dsq EXCEPT ![r.tier] = Tail(@)]
  /\ \A j \in Timed : /\ dctx'.head[j] = IF j = r.tier THEN 0 ELSE dctx.head[j]
                      /\ hist'.unserved[j] = IF j = r.tier THEN 0 ELSE hist.unserved[j]
  /\ hist'.from = r.tier /\ hist'.boosted = hist.boosted /\ hist'.jumped = hist.jumped
  /\ \/ /\ InOrder(r)
        /\ dctx'.last_override = d.last_override
        /\ dctx'.override_left = d.override_left /\ dctx'.override_tier = d.override_tier
        /\ hist'.via = hist.via /\ hist'.tier = hist.tier /\ hist'.over = hist.over
     \/ /\ GoesOn(d, r)
        /\ dctx'.last_override = d.last_override
        /\ dctx'.override_left = d.override_left /\ dctx'.override_tier = d.override_tier
        /\ hist'.via = hist.via \cup {Head(dsq[r.tier])}
        /\ hist'.tier = hist.tier /\ hist'.over = hist.over
     \/ /\ Starved(d, r)
        /\ dctx'.last_override = 0
        /\ dctx'.override_left = STARVE_OVERRIDE_BUDGET /\ dctx'.override_tier = r.tier
        /\ hist'.via = hist.via \cup {Head(dsq[r.tier])}
        /\ hist'.tier = r.tier /\ hist'.over = 0
     \/ /\ NobodyStarves(d, r)
        /\ dctx'.last_override = d.last_override /\ dctx'.override_left = 0
        /\ hist'.via = {} /\ hist'.over = 0

\* The history of a dispatch.
TakenHist(r) ==
  [Served(hist, r.tier) EXCEPT
     !.from = r.tier,
     !.via = IF r.tier = LC THEN @ ELSE IF r.how = "order" THEN {}
             ELSE @ \cup {Head(dsq[r.tier])},
     !.tier = IF r.tier = LC \/ r.how = "goes_on" THEN @
              ELSE IF r.how = "starved" THEN r.tier ELSE EMPTY,
     !.over = IF r.tier = LC \/ r.how = "goes_on" THEN @ ELSE 0]

\* The history, field by field.
LEMMA TakenHistFacts ==
  ASSUME hist \in Hist, NEW r, r.tier \in Tiers, r.how = "starved" => r.tier \in Timed,
         NEW n \in Tasks, n = Head(dsq[r.tier])
  PROVE  LET g == TakenHist(r) IN
         /\ g \in Hist
         /\ g.from = r.tier /\ g.boosted = hist.boosted /\ g.jumped = hist.jumped
         /\ \A j \in Timed : g.unserved[j] = IF j = r.tier THEN 0 ELSE hist.unserved[j]
         /\ g.via = IF r.tier = LC THEN hist.via ELSE IF r.how = "order" THEN {}
                    ELSE hist.via \cup {n}
         /\ g.tier = IF r.tier = LC \/ r.how = "goes_on" THEN hist.tier
                     ELSE IF r.how = "starved" THEN r.tier ELSE EMPTY
         /\ g.over = IF r.tier = LC \/ r.how = "goes_on" THEN hist.over ELSE 0
<1>1. PICK q \in Tiers : q = r.tier
  OBVIOUS
<1>2. PICK s : s = Served(hist, q)
  OBVIOUS
<1>3. /\ s \in Hist
      /\ s.from = hist.from /\ s.over = hist.over /\ s.tier = hist.tier /\ s.via = hist.via
      /\ s.boosted = hist.boosted /\ s.jumped = hist.jumped
      /\ \A j \in Timed : s.unserved[j] = IF j = q THEN 0 ELSE hist.unserved[j]
  BY <1>2, ServedHist, Zenon
<1>4. PICK v : v = IF r.tier = LC THEN hist.via ELSE IF r.how = "order" THEN {}
                   ELSE hist.via \cup {n}
  OBVIOUS
<1>5. PICK w : w = IF r.tier = LC \/ r.how = "goes_on" THEN hist.tier
                   ELSE IF r.how = "starved" THEN r.tier ELSE EMPTY
  OBVIOUS
<1>6. PICK o : o = IF r.tier = LC \/ r.how = "goes_on" THEN hist.over ELSE 0
  OBVIOUS
<1>7. v \in SUBSET Tasks /\ w \in Timed \cup {EMPTY} /\ o \in Nat
  BY <1>4, <1>5, <1>6 DEF Hist
<1>8. TakenHist(r) = [s EXCEPT !.from = q, !.via = v, !.tier = w, !.over = o]
  <2>1. TakenHist(r) = [s EXCEPT !.from = q,
           !.via = IF r.tier = LC THEN s.via ELSE IF r.how = "order" THEN {}
                   ELSE s.via \cup {n},
           !.tier = IF r.tier = LC \/ r.how = "goes_on" THEN s.tier
                    ELSE IF r.how = "starved" THEN r.tier ELSE EMPTY,
           !.over = IF r.tier = LC \/ r.how = "goes_on" THEN s.over ELSE 0]
    BY <1>1, <1>2, <1>3 DEF TakenHist, Hist
  <2>2. QED
    BY <1>3, <1>4, <1>5, <1>6, <2>1
<1>9. PICK g : g = [s EXCEPT !.from = q, !.via = v, !.tier = w, !.over = o]
  OBVIOUS
<1>10. /\ g \in Hist /\ g.from = q /\ g.via = v /\ g.tier = w /\ g.over = o
       /\ g.unserved = s.unserved /\ g.boosted = s.boosted /\ g.jumped = s.jumped
  BY <1>3, <1>7, <1>9 DEF Hist
<1>11. /\ g \in Hist
       /\ g.from = r.tier /\ g.boosted = hist.boosted /\ g.jumped = hist.jumped
       /\ \A j \in Timed : g.unserved[j] = IF j = r.tier THEN 0 ELSE hist.unserved[j]
       /\ g.via = v /\ g.tier = w /\ g.over = o
  BY <1>1, <1>3, <1>10
<1>12. QED
  BY <1>4, <1>5, <1>6, <1>8, <1>9, <1>11, ZenonT(60)

\* Dispatch takes a task; the cpu has the fields of e, whatever runs.
LEMMA TakesStep ==
  ASSUME Types, Queued, NEW d, NEW r, Charged(d), Chosen(d, r), r.tier # EMPTY,
         dsq' = [dsq EXCEPT ![r.tier] = Tail(@)], hist' = TakenHist(r),
         NEW e, e = override_cpu(stamp_tier_head_ts(d, r.tier), r),
         dctx'.head = e.head, dctx'.last_override = e.last_override,
         dctx'.override_left = e.override_left, dctx'.override_tier = e.override_tier
  PROVE  e \in CpuCtx /\ hist' \in Hist /\ Takes(d, r)
<1>0. /\ r.tier \in Tiers /\ dsq[r.tier] # <<>> /\ hist \in Hist /\ d \in CpuCtx
      /\ d.head = dctx.head /\ d.last_override = dctx.last_override
      /\ dsq \in [Tiers -> Seq(Tasks)]
  BY TypesFacts DEF Chosen, Charged, Types
<1>1. LC # EMPTY /\ LC \notin Timed /\ EMPTY \notin Timed /\ EMPTY \notin Tiers
  BY TierNumbers
<1>2. PICK c : c = stamp_tier_head_ts(d, r.tier)
  OBVIOUS
<1>3. /\ c \in CpuCtx
      /\ \A j \in Timed : c.head[j] = IF j = r.tier THEN 0 ELSE d.head[j]
      /\ c.last_override = d.last_override
      /\ c.override_left = d.override_left /\ c.override_tier = d.override_tier
  <2>1. PICK q \in Tiers \cup {EMPTY} : q = r.tier
    BY <1>0
  <2>2. QED
    <3>1. d \in CpuCtx /\ c = stamp_tier_head_ts(d, q)
      BY <1>0, <1>2, <2>1
    <3>2. /\ c \in CpuCtx
          /\ \A j \in Timed : c.head[j] = IF j = q THEN 0 ELSE d.head[j]
          /\ c.last_override = d.last_override
          /\ c.override_left = d.override_left /\ c.override_tier = d.override_tier
      BY <3>1, StampCpu, Zenon
    <3>3. QED
      BY <2>1, <3>2
<1>4. /\ r.tier = LC \/ r.how = "goes_on" => e = c
      /\ r.tier \in Timed /\ r.how = "starved" =>
           /\ e \in CpuCtx /\ e.head = c.head
           /\ e.last_override = 0 /\ e.override_tier = r.tier
           /\ e.override_left = STARVE_OVERRIDE_BUDGET
      /\ r.tier # LC /\ r.how = "order" =>
           /\ e \in CpuCtx /\ e.head = c.head
           /\ e.last_override = c.last_override /\ e.override_left = 0
  <2>1. e = override_cpu(c, r) /\ r.tier \in Tiers \cup {EMPTY}
    BY <1>0, <1>2
  <2>2. QED
    <3>1. c \in CpuCtx
      BY <1>3
    <3>2. QED
      BY <2>1, <3>1, OverrideCpu
<1>5. PICK n \in Tasks : n = Head(dsq[r.tier])
  <2>1. dsq[r.tier] \in Seq(Tasks) /\ dsq[r.tier] # <<>>
    BY <1>0
  <2>2. QED
    BY <2>1
<1>6. /\ hist' \in Hist
      /\ hist'.from = r.tier /\ hist'.boosted = hist.boosted /\ hist'.jumped = hist.jumped
      /\ \A j \in Timed : hist'.unserved[j] = IF j = r.tier THEN 0 ELSE hist.unserved[j]
      /\ hist'.via = IF r.tier = LC THEN hist.via ELSE IF r.how = "order" THEN {}
                     ELSE hist.via \cup {n}
      /\ hist'.tier = IF r.tier = LC \/ r.how = "goes_on" THEN hist.tier
                      ELSE IF r.how = "starved" THEN r.tier ELSE EMPTY
      /\ hist'.over = IF r.tier = LC \/ r.how = "goes_on" THEN hist.over ELSE 0
  <2>1. r.how = "starved" => r.tier \in Timed
    BY DEF Chosen, InOrder, GoesOn, Starved, NobodyStarves
  <2>2. QED
    BY <1>0, <1>5, <2>1, TakenHistFacts
<1>7. CASE InOrder(r)
  <2>1. r.tier = LC /\ e = c
    BY <1>4, <1>7 DEF InOrder
  <2>2. QED
    BY <1>0, <1>3, <1>6, <1>7, <2>1 DEF Takes
<1>8. CASE GoesOn(d, r)
  <2>1. r.tier # LC /\ r.how = "goes_on" /\ e = c
    BY <1>1, <1>4, <1>8 DEF GoesOn
  <2>2. hist'.via = hist.via \cup {n}
    BY <1>6, <2>1
  <2>3. QED
    BY <1>0, <1>3, <1>5, <1>6, <1>8, <2>1, <2>2 DEF Takes
<1>9. CASE Starved(d, r)
  <2>1. r.tier # LC /\ r.how = "starved" /\ r.tier \in Timed
    BY <1>1, <1>9 DEF Starved
  <2>2. /\ hist'.via = hist.via \cup {n} /\ hist'.tier = r.tier /\ hist'.over = 0
    BY <1>6, <2>1
  <2>3. QED
    BY <1>0, <1>3, <1>4, <1>5, <1>6, <1>9, <2>1, <2>2 DEF Takes
<1>10. CASE NobodyStarves(d, r)
  <2>1. r.tier # LC /\ r.how = "order"
    BY <1>0, <1>1, <1>10 DEF NobodyStarves
  <2>2. hist'.via = {} /\ hist'.over = 0
    BY <1>6, <2>1
  <2>3. QED
    BY <1>0, <1>3, <1>4, <1>6, <1>10, <2>1, <2>2 DEF Takes
<1>11. QED
  BY <1>7, <1>8, <1>9, <1>10 DEF Chosen

\* The tier that a dispatch serves starts from nothing.
LEMMA TakesHeads ==
  ASSUME Types, NEW d, NEW r, Takes(d, r)
  PROVE  HeadsStep
<1>1. dsq \in [Tiers -> Seq(Tasks)] /\ Timed \subseteq Tiers
  BY TierNumbers DEF Types
<1>2. QED
  BY <1>1 DEF Takes, HeadsStep

\* A dispatch keeps the bound on starving: a tier that was further over its budget
\* is served before another one, and its turn is over.
LEMMA TakesStarve ==
  ASSUME Types, Types', StarveInv, NEW d, NEW r, Charged(d), Takes(d, r),
         Uncharged' = 0, r.tier = LC => Rest' = 0
  PROVE  StarveInv'
<1>1. HeadsStep
  BY TakesHeads
<1>2. /\ dctx.head \in [Timed -> Nat] /\ STARVE_BUDGET \in [Timed -> Nat]
      /\ hist.unserved \in [Timed -> Nat]
      /\ dctx.last_override \in Nat /\ STARVE_OVERRIDE_COOLDOWN \in Nat
      /\ dctx.override_left \in Nat /\ dctx.override_left <= SLICE
      /\ Uncharged \in Nat /\ SLICE \in Nat /\ SLICE > 0
  BY TypesFacts
<1>3. dctx'.override_left \in Nat /\ Rest' \in Nat /\ Rest' <= SLICE /\ Rest \in Nat
  BY TypesNext, RestBounds, RestBoundsNext
<1>4. LC \notin Timed /\ STARVE_OVERRIDE_BUDGET = SLICE
  BY TierNumbers DEF STARVE_OVERRIDE_BUDGET
<1>5. dctx'.override_left > 0 /\ hist'.from # LC => hist'.from = dctx'.override_tier
  BY DEF Takes, InOrder, GoesOn
<1>6. \A k \in Timed : /\ hist'.unserved[k] <= dctx'.head[k]
                       /\ dsq'[k] = <<>> => hist'.unserved[k] = 0
  BY <1>1 DEF StarveInv, HeadsStep
<1>7. ASSUME NEW k \in Timed, dsq'[k] # <<>>, dctx'.head[k] > STARVE_BUDGET[k]
      PROVE  /\ Rest' <= Margin(k)'
             /\ dctx'.last_override < STARVE_OVERRIDE_COOLDOWN =>
                  STARVE_OVERRIDE_COOLDOWN - dctx'.last_override + SLICE - 1 <= Margin(k)'
             /\ dctx'.override_left > Uncharged' =>
                  dctx'.override_left - Uncharged' + SLICE - 1 <= Margin(k)'
  <2>1. /\ dsq[k] # <<>> /\ dctx.head[k] > STARVE_BUDGET[k]
        /\ dctx'.head[k] = dctx.head[k]
        /\ Margin(k) \in Int /\ Margin(k)' \in Int
        /\ Margin(k)' >= Margin(k)
        /\ \A j \in Timed : Ahead(j, k) /\ dctx'.head[j] = 0 =>
             Margin(k)' >= Margin(k) + Turn
    BY <1>1, <1>7, Margins
  <2>2. PICK m \in Int, mm \in Int : m = Margin(k) /\ mm = Margin(k)' /\ mm >= m
    BY <2>1
  <2>3. PICK p \in Nat, C \in Nat, L \in Nat, U \in Nat :
          /\ p = dctx.last_override /\ C = STARVE_OVERRIDE_COOLDOWN
          /\ L = dctx.override_left /\ U = Uncharged
    BY <1>2
  <2>4. /\ Rest <= m
        /\ p < C => C - p + SLICE - 1 <= m
        /\ L > U => L - U + SLICE - 1 <= m
    BY <2>1, <2>2, <2>3 DEF StarveInv
  <2>5. m >= 0
    BY <1>3, <2>4
  <2>6. d.last_override = p /\ d.head = dctx.head /\ (d.override_left > 0 => d.override_left = L - U)
    BY <2>3 DEF Charged
  <2>7. d.override_left \in Nat
    BY Constants DEF Charged, CpuCtx
  <2> DEFINE Goal(left, last) == /\ Rest' <= mm
                                 /\ last < C => C - last + SLICE - 1 <= mm
                                 /\ left > 0 => left + SLICE - 1 <= mm
  <2>8. Goal(dctx'.override_left, dctx'.last_override)
    <3>1. CASE InOrder(r) /\ dctx'.last_override = d.last_override
                 /\ dctx'.override_left = d.override_left
      <4>1. Rest' = 0
        BY <3>1 DEF InOrder
      <4>2. C - p + SLICE - 1 <= mm \/ ~ (p < C)
        BY <1>2, <2>2, <2>4
      <4>3. d.override_left > 0 => d.override_left + SLICE - 1 <= mm
        BY <1>2, <2>2, <2>4, <2>6
      <4>4. QED
        BY <2>2, <2>5, <2>6, <3>1, <4>1, <4>2, <4>3
    <3>2. CASE GoesOn(d, r) /\ dctx'.last_override = d.last_override
                 /\ dctx'.override_left = d.override_left
      <4>1. d.override_left > 0 /\ L - U > 0
        BY <2>6, <3>2 DEF GoesOn
      <4>2. L - U + SLICE - 1 <= m
        BY <2>4, <4>1
      <4>3. Rest' <= mm
        BY <1>2, <1>3, <2>2, <4>1, <4>2
      <4>4. C - p + SLICE - 1 <= mm \/ ~ (p < C)
        BY <1>2, <2>2, <2>4
      <4>5. d.override_left + SLICE - 1 <= mm
        BY <1>2, <2>2, <2>6, <4>1, <4>2
      <4>6. QED
        BY <2>6, <3>2, <4>3, <4>4, <4>5
    <3>3. CASE Starved(d, r) /\ dctx'.last_override = 0
                 /\ dctx'.override_left = STARVE_OVERRIDE_BUDGET
      <4>1. r.tier \in Timed /\ dctx'.head[r.tier] = 0 /\ dsq[r.tier] # <<>>
        BY <3>3 DEF Starved, Takes
      <4>2. r.tier # k
        BY <1>2, <1>7, <4>1
      <4>3. Ahead(r.tier, k)
        <5>1. d.head[k] - STARVE_BUDGET[k] <= d.head[r.tier] - STARVE_BUDGET[r.tier]
          BY <2>1, <3>3 DEF Starved
        <5>2. QED
          BY <1>2, <2>6, <4>1, <4>2, <5>1 DEF Ahead
      <4>4. PICK T \in Nat : T = Turn /\ mm >= m + T
        BY <2>1, <2>2, <4>1, <4>3, TurnBounds
      <4>5. T >= SLICE + SLICE - 1 /\ T >= C + SLICE - 1
        BY <1>4, <2>3, <4>4, TurnBounds
      <4>6. Rest' <= mm /\ C + SLICE - 1 <= mm /\ SLICE + SLICE - 1 <= mm
        BY <1>2, <1>3, <2>5, <4>4, <4>5
      <4>7. QED
        BY <1>4, <2>3, <3>3, <4>6
    <3>4. CASE NobodyStarves(d, r) /\ dctx'.last_override = d.last_override
                 /\ dctx'.override_left = 0
      <4>1. p < C
        <5>1. ~ (d.head[k] <= STARVE_BUDGET[k])
          BY <1>2, <2>1, <2>6
        <5>2. QED
          BY <2>1, <2>3, <2>6, <3>4, <5>1 DEF NobodyStarves
      <4>2. C - p + SLICE - 1 <= mm
        BY <1>2, <2>2, <2>4, <4>1
      <4>3. Rest' <= mm
        BY <1>2, <1>3, <4>1, <4>2
      <4>4. QED
        BY <2>6, <3>4, <4>2, <4>3
    <3>5. QED
      BY <3>1, <3>2, <3>3, <3>4 DEF Takes
  <2>9. QED
    BY <1>3, <2>2, <2>3, <2>8
<1>8. QED
  BY <1>5, <1>6, <1>7 DEF StarveInv

\* A dispatch keeps the bound on an override: one that goes on has budget left.
LEMMA TakesOverride ==
  ASSUME Types, Types', OverrideInv, NEW d, NEW r, Charged(d), Takes(d, r),
         Uncharged' = 0, NEW n \in Tasks, n = Head(dsq[r.tier]), Via(n)', slice' = slice,
         \A u \in hist.via : Via(u)'
  PROVE  OverrideInv'
<1>1. /\ dctx.override_left \in Nat /\ Uncharged \in Nat /\ hist.over \in Nat
      /\ slice \in [Tasks -> 0 .. SLICE] /\ SLICE \in Nat /\ SLICE > 0
  BY TypesFacts
<1>2. STARVE_OVERRIDE_BUDGET = SLICE
  BY DEF STARVE_OVERRIDE_BUDGET
<1>3. \A u \in hist.via : u \in Tasks /\ hist.over + slice[u] < SLICE + SLICE
  BY <1>2 DEF OverrideInv, Types
<1>4. hist.over < SLICE + SLICE
  BY <1>2 DEF OverrideInv, OverrideBounded
<1>5. /\ d.override_left > 0 =>
           /\ dctx.override_left > 0
           /\ d.override_tier = dctx.override_tier
           /\ d.override_left = dctx.override_left - Uncharged
      /\ dctx.override_left > 0 =>
           /\ dctx.override_tier # EMPTY
           /\ hist.tier = dctx.override_tier
           /\ hist.over + dctx.override_left <= SLICE + Uncharged
  BY <1>2 DEF Charged, OverrideInv
<1>6. d.override_left \in Nat
  BY Constants DEF Charged, CpuCtx
<1>7. d.override_left > 0 => hist.over + d.override_left <= SLICE
  BY <1>1, <1>5, <1>6
<1> DEFINE Goal(left, tier) ==
      /\ hist'.over < SLICE + SLICE
      /\ \A u \in hist'.via : Via(u)'
      /\ \A u \in hist'.via : hist'.over + slice[u] < SLICE + SLICE
      /\ left > 0 => tier # EMPTY /\ hist'.tier = tier /\ hist'.over + left <= SLICE
<1>8. Goal(dctx'.override_left, dctx'.override_tier)
  <2>1. CASE /\ dctx'.override_left = d.override_left /\ dctx'.override_tier = d.override_tier
             /\ hist'.via = hist.via /\ hist'.tier = hist.tier /\ hist'.over = hist.over
    <3>1. hist'.over < SLICE + SLICE
      BY <1>4, <2>1
    <3>2. \A u \in hist'.via : Via(u)' /\ hist'.over + slice[u] < SLICE + SLICE
      BY <1>3, <2>1
    <3>3. d.override_left > 0 => /\ d.override_tier # EMPTY /\ hist'.tier = d.override_tier
                                 /\ hist'.over + d.override_left <= SLICE
      BY <1>5, <1>7, <2>1
    <3>4. QED
      BY <2>1, <3>1, <3>2, <3>3
  <2>2. CASE /\ GoesOn(d, r)
             /\ dctx'.override_left = d.override_left /\ dctx'.override_tier = d.override_tier
             /\ hist'.via = hist.via \cup {n} /\ hist'.tier = hist.tier /\ hist'.over = hist.over
    <3>1. hist.over + slice[n] < SLICE + SLICE
      <4>1. d.override_left > 0 /\ slice[n] \in 0 .. SLICE
        BY <1>1, <2>2 DEF GoesOn
      <4>2. hist.over + d.override_left <= SLICE
        BY <1>7, <4>1
      <4>3. QED
        BY <1>1, <1>6, <4>1, <4>2
    <3>2. hist'.over < SLICE + SLICE
      BY <1>4, <2>2
    <3>3. \A u \in hist'.via : Via(u)' /\ hist'.over + slice[u] < SLICE + SLICE
      BY <1>3, <2>2, <3>1
    <3>4. d.override_left > 0 => /\ d.override_tier # EMPTY /\ hist'.tier = d.override_tier
                                 /\ hist'.over + d.override_left <= SLICE
      BY <1>5, <1>7, <2>2
    <3>5. QED
      BY <2>2, <3>2, <3>3, <3>4
  <2>3. CASE /\ r.tier \in Timed
             /\ dctx'.override_left = SLICE /\ dctx'.override_tier = r.tier
             /\ hist'.via = hist.via \cup {n} /\ hist'.tier = r.tier /\ hist'.over = 0
    <3>1. \A u \in Tasks : 0 + slice[u] < SLICE + SLICE
      BY <1>1
    <3>2. \A u \in hist'.via : Via(u)' /\ u \in Tasks
      BY <1>3, <2>3
    <3>3. r.tier # EMPTY /\ 0 + SLICE <= SLICE /\ 0 < SLICE + SLICE
      BY <1>1, <2>3, TierNumbers
    <3>4. QED
      BY <2>3, <3>1, <3>2, <3>3
  <2>4. CASE dctx'.override_left = 0 /\ hist'.via = {} /\ hist'.over = 0
    BY <1>1, <2>4
  <2>5. QED
    BY <1>2, <2>1, <2>2, <2>3, <2>4 DEF Takes, Starved
<1>9. QED
  <2>1. OverrideBounded'
    BY <1>8 DEF OverrideBounded, STARVE_OVERRIDE_BUDGET
  <2>2. \A u \in hist'.via : Via(u)'
    BY <1>8
  <2>3. \A u \in hist'.via : hist'.over + slice'[u] < SLICE + SLICE
    BY <1>8
  <2>4. dctx'.override_left > 0 =>
          /\ dctx'.override_tier # EMPTY /\ hist'.tier = dctx'.override_tier
          /\ hist'.over + dctx'.override_left <= SLICE + Uncharged'
    BY <1>1, <1>8
  <2>5. QED
    BY <2>1, <2>2, <2>3, <2>4 DEF OverrideInv, STARVE_OVERRIDE_BUDGET

\* What lunar_dispatch decides.
LEMMA DispatchDecides ==
  ASSUME Types, Places, OverrideInv, NEW k, curr \in Tasks => k \in Tiers,
         NEW px, curr \in Tasks => px = dispatch_prev(tctx[curr], dctx.preempt_pending, k),
         NEW prev, prev = IF curr \in Tasks THEN effective_tier(px) ELSE EMPTY,
         NEW d, d = IF curr \in Tasks
                    THEN charge_override(dctx, effective_tier(tctx[curr]), tctx[curr].ran)
                    ELSE dctx,
         NEW r, r = dispatch_dsq_per_cpu(d, prev)
  PROVE  /\ Charged(d) /\ Chosen(d, r)
         /\ curr \notin Tasks /\ r.tier = EMPTY => \A l \in Tiers : dsq[l] = <<>>
         /\ curr \in Tasks =>
              /\ px \in Ctx /\ px.ran = 0 /\ px.resume_slice = 0
              /\ px.boost_dsq_type \in {tctx[curr].boost_dsq_type, EMPTY}
              /\ px.boost_dsq_type # EMPTY /\ px.boost_used < WAKE_BOOST_BUDGET =>
                   px.boost_used = tctx[curr].boost_used + tctx[curr].ran
<1>1. /\ tctx \in [Tasks -> Ctx] /\ dctx \in CpuCtx /\ dctx.preempt_pending \in BOOLEAN
      /\ dctx.override_left \in Nat
  BY TypesFacts DEF CpuCtx
<1>2. ASSUME curr \in Tasks
      PROVE  /\ px \in Ctx /\ px.ran = 0 /\ px.resume_slice = 0
             /\ px.boost_dsq_type \in {tctx[curr].boost_dsq_type, EMPTY}
             /\ px.boost_dsq_type # EMPTY /\ px.boost_used < WAKE_BOOST_BUDGET =>
                  px.boost_used = tctx[curr].boost_used + tctx[curr].ran
  <2>1. PICK x \in Ctx, pending \in BOOLEAN, l \in Tiers :
          x = tctx[curr] /\ pending = dctx.preempt_pending /\ l = k
    BY <1>1, <1>2
  <2>2. px = dispatch_prev(x, pending, l)
    BY <1>2, <2>1
  <2>3. /\ px \in Ctx
        /\ px.ran = 0
        /\ px.resume_slice = x.resume_slice
        /\ px.boost_dsq_type \in {x.boost_dsq_type, EMPTY}
        /\ px.boost_dsq_type # EMPTY /\ px.boost_used < WAKE_BOOST_BUDGET =>
             px.boost_used = x.boost_used + x.ran
    BY <2>2, DispatchPrev
  <2>4. x.resume_slice = 0
    BY <1>2, <2>1 DEF Places, NoResume
  <2>5. QED
    BY <2>1, <2>3, <2>4
<1>3. prev \in Tiers \cup {EMPTY} /\ (curr \notin Tasks => prev = EMPTY)
  BY <1>2, EffectiveTier
<1>4. Charged(d)
  <2>1. CASE curr \notin Tasks
    <3>1. d = dctx /\ Uncharged = 0
      BY <2>1 DEF Uncharged
    <3>2. QED
      BY <1>1, <3>1 DEF Charged
  <2>2. CASE curr \in Tasks
    <3>1. PICK tier \in Tiers, used \in 0 .. SLICE :
            tier = effective_tier(tctx[curr]) /\ used = tctx[curr].ran
      BY <1>1, <2>2, EffectiveTier DEF Ctx
    <3>2. d = charge_override(dctx, tier, used)
      BY <2>2, <3>1
    <3>3. /\ d \in CpuCtx
          /\ d.head = dctx.head /\ d.last_override = dctx.last_override
          /\ d.override_left > 0 =>
               /\ dctx.override_left > 0
               /\ d.override_tier = dctx.override_tier
               /\ d.override_left = dctx.override_left -
                    (IF tier = dctx.override_tier THEN used ELSE 0)
      BY <1>1, <3>2, ChargeOverride
    <3>4. Uncharged = IF tier = dctx.override_tier THEN used ELSE 0
      BY <2>2, <3>1 DEF Uncharged
    <3>5. QED
      BY <3>3, <3>4 DEF Charged
  <2>3. QED
    BY <2>1, <2>2
<1>5. d \in CpuCtx /\ (d.override_left > 0 => d.override_tier # EMPTY)
  BY <1>4 DEF Charged, OverrideInv
<1>6. /\ r.tier \in Tiers \cup {EMPTY}
      /\ r.tier # EMPTY => dsq[r.tier] # <<>>
      /\ prev = EMPTY /\ r.tier = EMPTY => \A l \in Tiers : dsq[l] = <<>>
      /\ \/ r.tier = LC /\ r.how = "order"
         \/ /\ r.how = "goes_on" /\ r.tier \in Timed
            /\ r.tier = d.override_tier /\ d.override_left > 0
         \/ /\ r.how = "starved" /\ r.tier \in Timed
            /\ \A l \in Timed : dsq[l] # <<>> =>
                 d.head[l] - STARVE_BUDGET[l] <= d.head[r.tier] - STARVE_BUDGET[r.tier]
         \/ /\ r.how = "order" /\ r.tier \in Timed \cup {EMPTY}
            /\ \/ d.last_override < STARVE_OVERRIDE_COOLDOWN
               \/ \A l \in Timed : dsq[l] # <<>> => d.head[l] <= STARVE_BUDGET[l]
  BY <1>3, <1>5, DispatchTakes, SMTT(30)
<1>7. Chosen(d, r)
  BY <1>6 DEF Chosen, InOrder, GoesOn, Starved, NobodyStarves
<1>8. QED
  BY <1>2, <1>3, <1>4, <1>6, <1>7

\* A task is taken while another one runs, which is put back afterwards.
LEMMA DispatchPutInv ==
  ASSUME Inv, NEW d, NEW r, NEW px \in Ctx, NEW e, NEW t \in Tasks,
         Charged(d), Chosen(d, r), r.tier # EMPTY,
         e = override_cpu(stamp_tier_head_ts(d, r.tier), r),
         px.ran = 0, px.resume_slice = 0,
         px.boost_dsq_type \in {tctx[t].boost_dsq_type, EMPTY},
         px.boost_dsq_type # EMPTY /\ px.boost_used < WAKE_BOOST_BUDGET =>
           px.boost_used = tctx[t].boost_used + tctx[t].ran,
         at = "run", t = curr, slice[t] = 0,
         dsq' = [dsq EXCEPT ![r.tier] = Tail(@)], hist' = TakenHist(r),
         next' = Head(dsq[r.tier]), at' = "put", tctx' = [tctx EXCEPT ![t] = px], dctx' = e,
         resched' = FALSE, UNCHANGED <<curr, state, slice, local, kick>>
  PROVE  Inv'
<1>0. Types /\ Places /\ OverrideInv /\ BoostInv /\ StarveInv
  BY DEF Inv
<1>1. /\ tctx \in [Tasks -> Ctx] /\ dctx \in CpuCtx /\ hist \in Hist
      /\ slice \in [Tasks -> 0 .. SLICE] /\ slice \in [Tasks -> Nat] /\ SLICE \in Nat
      /\ state \in [Tasks -> {"blocked", "queued", "local", "running"}]
      /\ dsq \in [Tiers -> Seq(Tasks)] /\ Queued /\ OnCpu /\ LocalOne
      /\ local \in Seq(Tasks) /\ curr \in Tasks \cup {Idle, Rt} /\ kick \in BOOLEAN
  BY <1>0, TypesFacts DEF Types, Places
<1>2. /\ e \in CpuCtx /\ hist' \in Hist /\ Takes(d, r)
  BY <1>0, <1>1, TakesStep
<1>3. PICK q, n : q \in Tiers /\ q = r.tier /\ n = Head(dsq[q]) /\ dsq[q] # <<>>
  BY <1>2 DEF Takes
<1>4. /\ dsq' \in [Tiers -> Seq(Tasks)]
      /\ n \in Tasks /\ state[n] = "queued" /\ slice[n] > 0
      /\ Distinct'
      /\ \A l \in Tiers : \A i \in 1 .. Len(dsq'[l]) :
           /\ dsq'[l][i] # n
           /\ state[dsq'[l][i]] = "queued" /\ slice[dsq'[l][i]] > 0
  <2>1. dsq' = [dsq EXCEPT ![q] = Tail(@)]
    BY <1>3
  <2>2. QED
    <3>1. /\ dsq' \in [Tiers -> Seq(Tasks)]
          /\ Head(dsq[q]) \in Tasks
          /\ state[Head(dsq[q])] = "queued" /\ slice[Head(dsq[q])] > 0
          /\ Distinct'
          /\ \A l \in Tiers : \A i \in 1 .. Len(dsq'[l]) :
               /\ dsq'[l][i] # Head(dsq[q])
               /\ state[dsq'[l][i]] = "queued" /\ slice[dsq'[l][i]] > 0
      BY <1>1, <1>3, <2>1, TakeQueued, Zenon
    <3>2. QED
      BY <1>3, <3>1, Zenon
<1>5. /\ tctx' \in [Tasks -> Ctx] /\ tctx'[t] = px
      /\ \A u \in Tasks : u # t => tctx'[u] = tctx[u]
  BY <1>1
<1>6. next' = n /\ state[t] = "running" /\ n # t /\ local = <<>>
  BY <1>1, <1>3, <1>4 DEF OnCpu, LocalOne
<1>7. Types'
  BY <1>1, <1>2, <1>4, <1>5, <1>6, TypesStep
<1>8. Queued'
  BY <1>4 DEF Queued
<1>9. \A u \in Tasks : tctx'[u].ran = 0
  BY <1>1, <1>5 DEF OnCpu
<1>10. OnCpu'
  BY <1>4, <1>6, <1>9 DEF OnCpu
<1>11. LocalOne' /\ IdleEmpty' /\ NoResume'
  <2>1. NoResume'
    BY <1>0, <1>5 DEF Places, NoResume
  <2>2. QED
    BY <1>6, <2>1 DEF LocalOne, IdleEmpty
<1>12. Uncharged' = 0
  BY <1>9 DEF Uncharged
<1>13. r.tier = LC => Rest' = 0
  BY <1>2 DEF Takes, Rest
<1>14. StarveInv'
  BY <1>0, <1>2, <1>7, <1>12, <1>13, TakesStarve
<1>15. OverrideInv'
  <2>1. Via(n)'
    BY <1>6 DEF Via
  <2>2. \A u \in hist.via : u = t
    BY <1>0, <1>6 DEF OverrideInv, Via
  <2>3. \A u \in hist.via : Via(u)'
    BY <2>2 DEF Via
  <2>4. n = Head(dsq[r.tier]) /\ n \in Tasks
    BY <1>3, <1>4
  <2>5. QED
    BY <1>0, <1>2, <1>7, <1>12, <2>1, <2>3, <2>4, TakesOverride
<1>16. BoostInv'
  <2> SUFFICES ASSUME NEW u \in Tasks PROVE BoostOk(u)'
    BY DEF BoostInv
  <2>1. BoostOk(u) /\ slice[u] \in Nat
    BY <1>0, <1>1 DEF BoostInv
  <2>2. hist'.boosted = hist.boosted /\ hist'.jumped = hist.jumped
    BY <1>2 DEF Takes
  <2>3. CASE u # t
    BY <1>0, <1>5, <1>7, <2>1, <2>2, <2>3, BoostKeep
  <2>4. CASE u = t
    <3>1. PICK b \in Nat, W \in Nat, f \in Nat, ran \in Nat, g \in Nat :
            /\ b = hist.boosted[t] /\ W = WAKE_BOOST_BUDGET /\ f = tctx[t].boost_used
            /\ ran = tctx[t].ran /\ g = px.boost_used
      <4>1. hist.boosted[t] \in Nat
        BY <1>1 DEF Hist
      <4>2. tctx[t] \in Ctx
        BY <1>1
      <4>3. tctx[t].boost_used \in Nat /\ tctx[t].ran \in Nat /\ px.boost_used \in Nat
              /\ WAKE_BOOST_BUDGET \in Nat
        BY <4>2, Constants DEF Ctx
      <4>4. QED
        BY <4>1, <4>3
    <3>2. /\ ~ hist.jumped[t] => b < W + SLICE
          /\ ~ hist.jumped[t] /\ tctx[t].boost_dsq_type # EMPTY =>
               /\ b + slice[t] < W + SLICE
               /\ f < W => b <= f + ran
      BY <2>1, <2>4, <3>1 DEF BoostOk
    <3>3. /\ px.boost_dsq_type # EMPTY => tctx[t].boost_dsq_type # EMPTY
          /\ px.boost_dsq_type # EMPTY /\ g < W => g = f + ran
      BY <3>1
    <3>4. ~ hist.jumped[t] /\ px.boost_dsq_type # EMPTY => (g < W => b <= g + 0)
      BY <3>1, <3>2, <3>3
    <3>5. tctx'[t] = px /\ hist'.boosted[t] = b /\ hist'.jumped[t] = hist.jumped[t]
            /\ state'[t] = "running" /\ slice'[t] = slice[t]
      BY <1>5, <1>6, <2>2, <3>1
    <3>6. /\ ~ hist'.jumped[t] => hist'.boosted[t] < W + SLICE
          /\ ~ hist'.jumped[t] /\ tctx'[t].boost_dsq_type # EMPTY =>
               /\ hist'.boosted[t] + slice'[t] < W + SLICE
               /\ tctx'[t].boost_used < W => hist'.boosted[t] <= tctx'[t].boost_used + tctx'[t].ran
      BY <3>1, <3>2, <3>3, <3>4, <3>5
    <3>7. QED
      BY <2>4, <3>1, <3>5, <3>6 DEF BoostOk
  <2>5. QED
    BY <2>3, <2>4
<1>17. QED
  BY <1>7, <1>8, <1>10, <1>11, <1>14, <1>15, <1>16 DEF Inv, Places

\* A task is taken and runs at once.
LEMMA DispatchRunInv ==
  ASSUME Inv, NEW d, NEW r, NEW e,
         Charged(d), Chosen(d, r), r.tier # EMPTY,
         e = override_cpu(stamp_tier_head_ts(d, r.tier), r),
         curr \notin Tasks, local = <<>>, at \in {"run", "pick"},
         dsq' = [dsq EXCEPT ![r.tier] = Tail(@)], hist' = TakenHist(r),
         Run(Head(dsq[r.tier]), tctx[Head(dsq[r.tier])], e),
         state' = [state EXCEPT ![Head(dsq[r.tier])] = "running"], at' = "run",
         resched' = FALSE, UNCHANGED <<next, slice, local, kick>>
  PROVE  Inv'
<1>0. Types /\ Places /\ OverrideInv /\ BoostInv /\ StarveInv
  BY DEF Inv
<1>1. /\ tctx \in [Tasks -> Ctx] /\ dctx \in CpuCtx /\ hist \in Hist
      /\ slice \in [Tasks -> 0 .. SLICE] /\ slice \in [Tasks -> Nat] /\ SLICE \in Nat
      /\ state \in [Tasks -> {"blocked", "queued", "local", "running"}]
      /\ dsq \in [Tiers -> Seq(Tasks)] /\ Queued /\ OnCpu /\ LocalOne
      /\ next \in Tasks \cup {Idle} /\ kick \in BOOLEAN
  BY <1>0, TypesFacts DEF Types, Places
<1>2. PICK q, n : q \in Tiers /\ q = r.tier /\ n = Head(dsq[q]) /\ dsq[q] # <<>>
  BY DEF Chosen
<1>3. /\ dsq' \in [Tiers -> Seq(Tasks)]
      /\ n \in Tasks /\ state[n] = "queued" /\ slice[n] > 0
      /\ Distinct'
      /\ \A l \in Tiers : \A i \in 1 .. Len(dsq'[l]) :
           /\ dsq'[l][i] # n
           /\ state[dsq'[l][i]] = "queued" /\ slice[dsq'[l][i]] > 0
  <2>1. dsq' = [dsq EXCEPT ![q] = Tail(@)]
    BY <1>2
  <2>2. QED
    <3>1. /\ dsq' \in [Tiers -> Seq(Tasks)]
          /\ Head(dsq[q]) \in Tasks
          /\ state[Head(dsq[q])] = "queued" /\ slice[Head(dsq[q])] > 0
          /\ Distinct'
          /\ \A l \in Tiers : \A i \in 1 .. Len(dsq'[l]) :
               /\ dsq'[l][i] # Head(dsq[q])
               /\ state[dsq'[l][i]] = "queued" /\ slice[dsq'[l][i]] > 0
      BY <1>1, <1>2, <2>1, TakeQueued, Zenon
    <3>2. QED
      BY <1>2, <3>1, Zenon
<1>4. Run(n, tctx[n], e) /\ state' = [state EXCEPT ![n] = "running"]
  BY <1>2
<1>5. e \in CpuCtx
  <2>1. d \in CpuCtx /\ q \in Tiers \cup {EMPTY}
    BY <1>2 DEF Charged
  <2>2. PICK c : c = stamp_tier_head_ts(d, q)
    OBVIOUS
  <2>3. c \in CpuCtx
    BY <2>1, <2>2, StampCpu, Zenon
  <2>4. e = override_cpu(c, r) /\ r.tier \in Tiers \cup {EMPTY}
    BY <1>2, <2>2
  <2>5. /\ r.tier = LC \/ r.how = "goes_on" => e = c
        /\ r.tier \in Timed /\ r.how = "starved" => e \in CpuCtx
        /\ r.tier # LC /\ r.how = "order" => e \in CpuCtx
    BY <2>3, <2>4, OverrideCpu
  <2>6. QED
    BY <1>2, <2>3, <2>5, TierNumbers DEF Chosen, InOrder, GoesOn, Starved, NobodyStarves
<1>6. /\ curr' = n
      /\ tctx' \in [Tasks -> Ctx] /\ dctx' \in CpuCtx
      /\ tctx'[n].ran = 0 /\ tctx'[n].resume_slice = tctx[n].resume_slice
      /\ tctx'[n].boost_dsq_type = tctx[n].boost_dsq_type
      /\ tctx'[n].boost_used = tctx[n].boost_used
      /\ \A u \in Tasks : u # n => tctx'[u] = tctx[u]
      /\ dctx'.head = e.head /\ dctx'.last_override = e.last_override
      /\ dctx'.override_left = e.override_left /\ dctx'.override_tier = e.override_tier
  BY <1>0, <1>3, <1>4, <1>5, RunFacts
<1>7. hist' \in Hist /\ Takes(d, r)
  <2>1. Types /\ Queued
    BY <1>0, <1>1
  <2>2. QED
    BY <1>6, <2>1, TakesStep, ZenonT(60)
<1>8. /\ state' \in [Tasks -> {"blocked", "queued", "local", "running"}]
      /\ state'[n] = "running" /\ \A u \in Tasks : u # n => state'[u] = state[u]
  BY <1>1, <1>3, <1>4
<1>9. Types'
  <2>1. <<>> \in Seq(Tasks)
    OBVIOUS
  <2>2. QED
    BY <1>1, <1>3, <1>6, <1>7, <1>8, <2>1, TypesStep
<1>10. Queued'
  <2> SUFFICES ASSUME NEW l \in Tiers, NEW i \in 1 .. Len(dsq'[l])
               PROVE  state'[dsq'[l][i]] = "queued" /\ slice'[dsq'[l][i]] > 0
    BY <1>3 DEF Queued
  <2>1. dsq'[l][i] \in Tasks
    BY <1>3
  <2>2. QED
    BY <1>3, <1>8, <2>1, ZenonT(60)
<1>11. \A u \in Tasks : tctx'[u].ran = 0 /\ tctx[u].ran = 0
  BY <1>1, <1>6 DEF OnCpu
<1>12. OnCpu'
  <2>1. slice[n] \in 0 .. SLICE /\ tctx'[n].ran + slice'[n] <= SLICE
    BY <1>1, <1>3, <1>11
  <2>2. QED
    BY <1>3, <1>6, <1>8, <1>11, <2>1 DEF OnCpu
<1>13. LocalOne' /\ IdleEmpty' /\ NoResume'
  <2>1. NoResume'
    BY <1>0, <1>3, <1>6 DEF Places, NoResume
  <2>2. n # Idle
    BY <1>3, Constants
  <2>3. QED
    BY <1>6, <2>1, <2>2 DEF LocalOne, IdleEmpty
<1>14. Uncharged' = 0
  BY <1>11 DEF Uncharged
<1>15. r.tier = LC => Rest' = 0
  BY <1>7 DEF Takes, Rest
<1>16. StarveInv'
  BY <1>0, <1>7, <1>9, <1>14, <1>15, TakesStarve
<1>17. OverrideInv'
  <2>1. Via(n)'
    BY <1>6 DEF Via
  <2>2. \A u \in hist.via : FALSE
    <3>1. \A u \in hist.via : u \in Tasks /\ Via(u)
      BY <1>0 DEF OverrideInv, Types
    <3>2. QED
      BY <3>1 DEF Via
  <2>3. n = Head(dsq[r.tier]) /\ n \in Tasks
    BY <1>2, <1>3
  <2>4. QED
    BY <1>0, <1>7, <1>9, <1>14, <2>1, <2>2, <2>3, TakesOverride
<1>18. BoostInv'
  <2> SUFFICES ASSUME NEW u \in Tasks PROVE BoostOk(u)'
    BY DEF BoostInv
  <2>1. BoostOk(u) /\ slice[u] \in Nat /\ tctx[u] \in Ctx
    BY <1>0, <1>1 DEF BoostInv
  <2>2. hist'.boosted = hist.boosted /\ hist'.jumped = hist.jumped
    BY <1>7 DEF Takes
  <2>3. CASE u = n
    <3>1. ~ hist'.jumped[n] /\ tctx'[n].boost_dsq_type # EMPTY =>
            /\ tctx'[n].boost_used < WAKE_BOOST_BUDGET
            /\ tctx'[n].boost_used = tctx[n].boost_used + tctx[n].ran
      <4>1. tctx[n].boost_used \in Nat /\ tctx[n].ran = 0
        BY <1>11, <2>1, <2>3 DEF Ctx
      <4>2. QED
        BY <1>6, <2>1, <2>2, <2>3, <4>1 DEF BoostOk
    <3>2. QED
      BY <1>0, <1>6, <1>8, <1>9, <2>1, <2>2, <2>3, <3>1, BoostGranted
  <2>4. CASE u # n
    BY <1>0, <1>6, <1>8, <1>9, <2>1, <2>2, <2>4, BoostKeep
  <2>5. QED
    BY <2>3, <2>4
<1>19. QED
  BY <1>9, <1>10, <1>12, <1>13, <1>16, <1>17, <1>18 DEF Inv, Places

\* No override begins or goes on: no tier is over its budget, or the cooldown of the
\* last override is the longest that a tier still waits.
LEMMA NobodyStarvesInv ==
  ASSUME Types, Types', StarveInv, HeadsStep, NEW d, NEW r, Charged(d), NobodyStarves(d, r),
         dctx'.last_override = d.last_override, dctx'.override_left = 0
  PROVE  StarveInv'
<1>1. /\ dctx.head \in [Timed -> Nat] /\ STARVE_BUDGET \in [Timed -> Nat]
      /\ dctx.last_override \in Nat /\ STARVE_OVERRIDE_COOLDOWN \in Nat
      /\ SLICE \in Nat /\ SLICE > 0 /\ Uncharged' \in Nat
  <2>1. Uncharged' \in Nat
    BY TypesNext
  <2>2. QED
    BY <2>1, TypesFacts
<1>2. Rest' \in Nat /\ Rest' <= SLICE
  BY RestBoundsNext
<1>3. d.last_override = dctx.last_override /\ d.head = dctx.head
  BY DEF Charged
<1>4. \A k \in Timed : /\ hist'.unserved[k] <= dctx'.head[k]
                       /\ dsq'[k] = <<>> => hist'.unserved[k] = 0
  BY DEF StarveInv, HeadsStep
<1>5. ASSUME NEW k \in Timed, dsq'[k] # <<>>, dctx'.head[k] > STARVE_BUDGET[k]
      PROVE  /\ Rest' <= Margin(k)'
             /\ dctx'.last_override < STARVE_OVERRIDE_COOLDOWN =>
                  STARVE_OVERRIDE_COOLDOWN - dctx'.last_override + SLICE - 1 <= Margin(k)'
  <2>1. /\ dsq[k] # <<>> /\ dctx.head[k] > STARVE_BUDGET[k]
        /\ Margin(k) \in Int /\ Margin(k)' \in Int
        /\ Margin(k)' >= Margin(k)
    BY <1>5, Margins
  <2>2. PICK m \in Int, mm \in Int : m = Margin(k) /\ mm = Margin(k)' /\ mm >= m
    BY <2>1
  <2>3. PICK p \in Nat, C \in Nat : p = dctx.last_override /\ C = STARVE_OVERRIDE_COOLDOWN
    BY <1>1
  <2>4. p < C
    <3>1. ~ (d.head[k] <= STARVE_BUDGET[k])
      BY <1>1, <1>3, <2>1
    <3>2. QED
      BY <1>3, <2>1, <2>3, <3>1 DEF NobodyStarves
  <2>5. C - p + SLICE - 1 <= m
    BY <2>1, <2>2, <2>3, <2>4 DEF StarveInv
  <2>6. Rest' <= mm /\ C - p + SLICE - 1 <= mm
    BY <1>1, <1>2, <2>2, <2>4, <2>5
  <2>7. QED
    BY <1>3, <2>2, <2>3, <2>6
<1>6. ~ (dctx'.override_left > 0) /\ ~ (dctx'.override_left > Uncharged')
  BY <1>1
<1>7. QED
  BY <1>4, <1>5, <1>6 DEF StarveInv

\* No task is taken, and the cpu is charged and without an override.
LEMMA NothingTaken ==
  ASSUME NEW d, NEW r, Charged(d), Chosen(d, r), r.tier = EMPTY,
         NEW e, e = override_cpu(d, r)
  PROVE  /\ e \in CpuCtx /\ e.head = d.head /\ e.last_override = d.last_override
         /\ e.override_left = 0 /\ NobodyStarves(d, r)
<1>1. NobodyStarves(d, r) /\ EMPTY # LC
  BY TierNumbers DEF Chosen, InOrder, GoesOn, Starved
<1>2. d \in CpuCtx /\ r.how = "order" /\ r.tier # LC /\ r.tier \in Tiers \cup {EMPTY}
  BY <1>1 DEF Charged, NobodyStarves
<1>3. QED
  BY <1>1, <1>2, OverrideCpu

\* The history of a task that goes on with a new slice.
LEMMA KeptHist ==
  ASSUME hist \in Hist, NEW t \in Tasks, NEW f \in Tiers
  PROVE  LET g == [NewSlice(hist, t) EXCEPT !.from = f, !.via = {}, !.over = 0, !.tier = EMPTY]
         IN /\ g \in Hist
            /\ g.unserved = hist.unserved /\ g.boosted = hist.boosted /\ g.jumped = hist.jumped
            /\ g.via = {} /\ g.over = 0
<1>1. PICK s : s = [hist.spent EXCEPT ![t] = 0]
  OBVIOUS
<1>2. s \in [Tasks -> Nat]
  BY <1>1 DEF Hist
<1>3. PICK h : h = [hist EXCEPT !.spent = s]
  OBVIOUS
<1>4. /\ h \in Hist /\ h.unserved = hist.unserved /\ h.boosted = hist.boosted
      /\ h.jumped = hist.jumped
  BY <1>2, <1>3 DEF Hist
<1>5. NewSlice(hist, t) = h
  BY <1>1, <1>3 DEF NewSlice
<1>6. PICK g : g = [h EXCEPT !.from = f, !.via = {}, !.over = 0, !.tier = EMPTY]
  OBVIOUS
<1>7. /\ g \in Hist
      /\ g.unserved = h.unserved /\ g.boosted = h.boosted /\ g.jumped = h.jumped
      /\ g.via = {} /\ g.over = 0
  BY <1>4, <1>6 DEF Hist
<1>8. QED
  BY <1>4, <1>5, <1>6, <1>7

\* No task is taken, and none runs: the cpu is idle.
LEMMA DispatchIdleInv ==
  ASSUME Inv, NEW d, NEW r, NEW e,
         Charged(d), Chosen(d, r), r.tier = EMPTY, e = override_cpu(d, r),
         \A l \in Tiers : dsq[l] = <<>>,
         curr \notin Tasks, local = <<>>, at \in {"run", "pick"},
         dctx' = e, curr' = Idle, at' = "run", resched' = FALSE,
         UNCHANGED <<tctx, dsq, next, slice, state, hist, local, kick>>
  PROVE  Inv'
<1>0. Types /\ Places /\ OverrideInv /\ BoostInv /\ StarveInv
  BY DEF Inv
<1>1. /\ tctx \in [Tasks -> Ctx] /\ hist \in Hist
      /\ slice \in [Tasks -> 0 .. SLICE] /\ slice \in [Tasks -> Nat]
      /\ state \in [Tasks -> {"blocked", "queued", "local", "running"}]
      /\ dsq \in [Tiers -> Seq(Tasks)] /\ local \in Seq(Tasks)
      /\ next \in Tasks \cup {Idle} /\ kick \in BOOLEAN
      /\ Queued /\ OnCpu /\ LocalOne /\ NoResume
  BY <1>0, TypesFacts DEF Types, Places
<1>2. /\ e \in CpuCtx /\ e.head = d.head /\ e.last_override = d.last_override
      /\ e.override_left = 0 /\ NobodyStarves(d, r)
  BY NothingTaken
<1>3. Types'
  BY <1>1, <1>2, TypesStep
<1>4. Idle \notin Tasks
  BY Constants
<1>5. Queued' /\ NoResume' /\ LocalOne'
  BY <1>1, <1>4 DEF Queued, Distinct, NoResume, LocalOne
<1>6. OnCpu'
  BY <1>1, <1>4 DEF OnCpu
<1>7. IdleEmpty'
  BY <1>2 DEF IdleEmpty
<1>8. HeadsStep
  BY <1>2 DEF HeadsStep, Charged
<1>9. StarveInv'
  BY <1>0, <1>2, <1>3, <1>8, NobodyStarvesInv
<1>10. OverrideInv'
  <2>1. \A u \in hist.via : FALSE
    <3>1. \A u \in hist.via : u \in Tasks /\ Via(u)
      BY <1>0 DEF OverrideInv, Types
    <3>2. QED
      BY <3>1 DEF Via
  <2>2. OverrideBounded'
    BY <1>0 DEF OverrideInv, OverrideBounded
  <2>3. QED
    BY <1>2, <2>1, <2>2 DEF OverrideInv
<1>11. BoostInv'
  <2> SUFFICES ASSUME NEW u \in Tasks PROVE BoostOk(u)'
    BY DEF BoostInv
  <2>1. BoostOk(u) /\ slice[u] \in Nat
    BY <1>0, <1>1 DEF BoostInv
  <2>2. /\ tctx'[u] = tctx[u] /\ slice'[u] <= slice[u]
        /\ hist'.boosted[u] = hist.boosted[u] /\ hist'.jumped[u] = hist.jumped[u]
        /\ state'[u] = state[u] /\ at # "put"
    BY <2>1
  <2>3. QED
    BY <1>0, <1>3, <2>1, <2>2, BoostKeep
<1>12. QED
  BY <1>3, <1>5, <1>6, <1>7, <1>9, <1>10, <1>11 DEF Inv, Places

\* No task is taken, and the one that ran goes on with a new slice.
LEMMA DispatchKeepInv ==
  ASSUME Inv, NEW d, NEW r, NEW px \in Ctx, NEW e, NEW kept, NEW t \in Tasks,
         Charged(d), Chosen(d, r), r.tier = EMPTY, e = override_cpu(d, r),
         px.ran = 0, px.resume_slice = 0,
         px.boost_dsq_type \in {tctx[t].boost_dsq_type, EMPTY},
         px.boost_dsq_type # EMPTY /\ px.boost_used < WAKE_BOOST_BUDGET =>
           px.boost_used = tctx[t].boost_used + tctx[t].ran,
         kept = IF BoostSpent(px) THEN Unboosted(px) ELSE px,
         at = "run", t = curr, local = <<>>,
         tctx' = [tctx EXCEPT ![t] = [kept EXCEPT !.granted_slice = SLICE]],
         slice' = [slice EXCEPT ![t] = SLICE], dctx' = running_cpu(e, kept),
         hist' = [NewSlice(hist, t) EXCEPT !.from = effective_tier(kept), !.via = {},
                                           !.over = 0, !.tier = EMPTY],
         at' = "run", resched' = FALSE, UNCHANGED <<dsq, curr, next, state, local, kick>>
  PROVE  Inv'
<1>0. Types /\ Places /\ OverrideInv /\ BoostInv /\ StarveInv
  BY DEF Inv
<1>1. /\ tctx \in [Tasks -> Ctx] /\ hist \in Hist
      /\ slice \in [Tasks -> 0 .. SLICE] /\ slice \in [Tasks -> Nat]
      /\ SLICE \in Nat /\ SLICE > 0 /\ WAKE_BOOST_BUDGET \in Nat
      /\ state \in [Tasks -> {"blocked", "queued", "local", "running"}]
      /\ dsq \in [Tiers -> Seq(Tasks)] /\ local \in Seq(Tasks)
      /\ next \in Tasks \cup {Idle} /\ kick \in BOOLEAN /\ Idle \notin Tasks
      /\ Queued /\ OnCpu /\ LocalOne /\ NoResume
  <2>1. WAKE_BOOST_BUDGET \in Nat /\ Idle \notin Tasks
    BY Constants
  <2>2. QED
    BY <1>0, <2>1, TypesFacts DEF Types, Places
<1>2. /\ kept \in Ctx /\ kept.ran = 0 /\ kept.resume_slice = 0
      /\ kept.boost_dsq_type \in {tctx[t].boost_dsq_type, EMPTY}
      /\ kept.boost_dsq_type # EMPTY =>
           /\ kept.boost_used < WAKE_BOOST_BUDGET
           /\ kept.boost_used = tctx[t].boost_used + tctx[t].ran
  <2>1. CASE BoostSpent(px)
    <3>1. kept = [px EXCEPT !.boost_dsq_type = EMPTY]
      BY <2>1 DEF Unboosted
    <3>2. kept \in Ctx /\ kept.ran = px.ran /\ kept.resume_slice = px.resume_slice
            /\ kept.boost_dsq_type = EMPTY
      BY <3>1 DEF Ctx
    <3>3. QED
      BY <3>2
  <2>2. CASE ~ BoostSpent(px)
    <3>1. kept = px
      BY <2>2
    <3>2. px.boost_used \in 0 .. WAKE_BOOST_BUDGET
      BY DEF Ctx
    <3>3. px.boost_used < WAKE_BOOST_BUDGET
      BY <1>1, <2>2, <3>2 DEF BoostSpent
    <3>4. QED
      BY <3>1, <3>3
  <2>3. QED
    BY <2>1, <2>2
<1>3. PICK y : y = [kept EXCEPT !.granted_slice = SLICE]
  OBVIOUS
<1>4. /\ y \in Ctx /\ y.ran = 0 /\ y.resume_slice = 0
      /\ y.boost_dsq_type = kept.boost_dsq_type /\ y.boost_used = kept.boost_used
  <2>1. SLICE \in 0 .. SLICE
    BY <1>1
  <2>2. QED
    BY <1>2, <1>3, <2>1 DEF Ctx
<1>5. /\ tctx' \in [Tasks -> Ctx] /\ tctx'[t] = y
      /\ \A u \in Tasks : u # t => tctx'[u] = tctx[u]
  <2>1. tctx' = [tctx EXCEPT ![t] = y]
    BY <1>3
  <2>2. QED
    BY <1>1, <1>4, <2>1, ZenonT(60)
<1>6. /\ slice' \in [Tasks -> 0 .. SLICE] /\ slice'[t] = SLICE
      /\ \A u \in Tasks : u # t => slice'[u] = slice[u]
  BY <1>1
<1>7. /\ e \in CpuCtx /\ e.head = d.head /\ e.last_override = d.last_override
      /\ e.override_left = 0 /\ NobodyStarves(d, r)
  BY NothingTaken
<1>8. /\ dctx' \in CpuCtx /\ dctx'.head = e.head /\ dctx'.last_override = e.last_override
      /\ dctx'.override_left = e.override_left
  BY <1>2, <1>7, RunningCpu, Zenon
<1>9. /\ hist' \in Hist
      /\ hist'.unserved = hist.unserved /\ hist'.boosted = hist.boosted
      /\ hist'.jumped = hist.jumped /\ hist'.via = {} /\ hist'.over = 0
  <2>1. PICK f \in Tiers : f = effective_tier(kept)
    BY <1>2, EffectiveTier
  <2>2. hist' = [NewSlice(hist, t) EXCEPT !.from = f, !.via = {}, !.over = 0, !.tier = EMPTY]
    BY <2>1
  <2>3. PICK g : g = [NewSlice(hist, t) EXCEPT !.from = f, !.via = {}, !.over = 0, !.tier = EMPTY]
    OBVIOUS
  <2>4. /\ g \in Hist
        /\ g.unserved = hist.unserved /\ g.boosted = hist.boosted
        /\ g.jumped = hist.jumped /\ g.via = {} /\ g.over = 0
    BY <1>1, <2>3, KeptHist, Zenon
  <2>5. QED
    BY <2>2, <2>3, <2>4, Zenon
<1>10. Types'
  BY <1>1, <1>5, <1>6, <1>8, <1>9, TypesStep
<1>11. state[t] = "running"
  BY <1>1 DEF OnCpu
<1>12. Queued'
  <2> SUFFICES ASSUME NEW l \in Tiers, NEW i \in 1 .. Len(dsq[l])
               PROVE  state[dsq[l][i]] = "queued" /\ slice'[dsq[l][i]] > 0
    BY <1>1 DEF Queued, Distinct
  <2>1. dsq[l][i] \in Tasks /\ state[dsq[l][i]] = "queued" /\ slice[dsq[l][i]] > 0
    BY <1>1 DEF Queued
  <2>2. QED
    BY <1>6, <1>11, <2>1
<1>13. \A u \in Tasks : tctx'[u].ran = 0
  BY <1>1, <1>4, <1>5 DEF OnCpu
<1>14. OnCpu'
  BY <1>1, <1>6, <1>11, <1>13 DEF OnCpu
<1>15. LocalOne' /\ IdleEmpty' /\ NoResume'
  <2>1. NoResume'
    BY <1>1, <1>4, <1>5 DEF NoResume
  <2>2. QED
    BY <1>1, <2>1 DEF LocalOne, IdleEmpty
<1>16. StarveInv'
  <2>1. HeadsStep
    BY <1>7, <1>8, <1>9 DEF HeadsStep, Charged
  <2>2. dctx'.last_override = d.last_override /\ dctx'.override_left = 0
    BY <1>7, <1>8
  <2>3. QED
    BY <1>0, <1>7, <1>10, <2>1, <2>2, NobodyStarvesInv
<1>17. OverrideInv'
  <2>1. 0 < SLICE + SLICE
    BY <1>1
  <2>2. QED
    BY <1>7, <1>8, <1>9, <2>1 DEF OverrideInv, OverrideBounded, STARVE_OVERRIDE_BUDGET
<1>18. BoostInv'
  <2> SUFFICES ASSUME NEW u \in Tasks PROVE BoostOk(u)'
    BY DEF BoostInv
  <2>1. BoostOk(u) /\ slice[u] \in Nat
    BY <1>0, <1>1 DEF BoostInv
  <2>2. CASE u = t
    <3>1. /\ state'[t] # "blocked" /\ hist'.boosted[t] = hist.boosted[t]
          /\ hist.jumped[t] => hist'.jumped[t]
          /\ tctx[t].boost_dsq_type = EMPTY => tctx'[t].boost_dsq_type = EMPTY
          /\ ~ hist'.jumped[t] /\ tctx'[t].boost_dsq_type # EMPTY =>
               /\ tctx'[t].boost_used < WAKE_BOOST_BUDGET
               /\ tctx'[t].boost_used = tctx[t].boost_used + tctx[t].ran
      BY <1>2, <1>4, <1>5, <1>9, <1>11
    <3>2. QED
      BY <1>0, <1>10, <2>1, <2>2, <3>1, BoostGranted
  <2>3. CASE u # t
    <3>1. /\ tctx'[u] = tctx[u] /\ slice'[u] <= slice[u]
          /\ hist'.boosted[u] = hist.boosted[u] /\ hist'.jumped[u] = hist.jumped[u]
          /\ state'[u] = state[u] /\ at # "put"
      BY <1>5, <1>6, <1>9, <2>1, <2>3
    <3>2. QED
      BY <1>0, <1>10, <2>1, <3>1, BoostKeep
  <2>4. QED
    BY <2>2, <2>3
<1>19. QED
  BY <1>10, <1>12, <1>14, <1>15, <1>16, <1>17, <1>18 DEF Inv, Places

\* lunar_dispatch.
LEMMA DispatchInv ==
  ASSUME Inv, NEW k, curr \in Tasks => k \in Tiers, Dispatch(k)
  PROVE  Inv'
<1>0. Types /\ Places /\ OverrideInv /\ BoostInv /\ StarveInv
  BY DEF Inv
<1> DEFINE px == IF curr \in Tasks THEN dispatch_prev(tctx[curr], dctx.preempt_pending, k)
                 ELSE init_task_ctx(curr)
           prev == IF curr \in Tasks THEN effective_tier(px) ELSE EMPTY
           d == IF curr \in Tasks
                THEN charge_override(dctx, effective_tier(tctx[curr]), tctx[curr].ran)
                ELSE dctx
           r == dispatch_dsq_per_cpu(d, prev)
           kept == IF BoostSpent(px) THEN Unboosted(px) ELSE px
           taken == override_cpu(stamp_tier_head_ts(d, r.tier), r)
           none == override_cpu(d, r)
           g == IF r.tier = EMPTY THEN hist ELSE TakenHist(r)
           first == Head(dsq[r.tier])
           Puts == /\ r.tier # EMPTY /\ dsq' = [dsq EXCEPT ![r.tier] = Tail(@)] /\ hist' = g
                   /\ curr \in Tasks /\ next' = first /\ at' = "put"
                   /\ tctx' = [tctx EXCEPT ![curr] = px] /\ dctx' = taken
                   /\ UNCHANGED <<curr, state>> /\ slice' = slice
           Runs == /\ r.tier # EMPTY /\ dsq' = [dsq EXCEPT ![r.tier] = Tail(@)] /\ hist' = g
                   /\ curr \notin Tasks /\ Run(first, tctx[first], taken)
                   /\ state' = [state EXCEPT ![first] = "running"]
                   /\ at' = "run" /\ next' = next /\ slice' = slice
           Keeps == /\ r.tier = EMPTY /\ curr \in Tasks
                    /\ tctx' = [tctx EXCEPT ![curr] = [kept EXCEPT !.granted_slice = SLICE]]
                    /\ slice' = [slice EXCEPT ![curr] = SLICE]
                    /\ dctx' = running_cpu(none, kept)
                    /\ hist' = [NewSlice(hist, curr) EXCEPT !.from = effective_tier(kept),
                                  !.via = {}, !.over = 0, !.tier = EMPTY]
                    /\ at' = "run" /\ UNCHANGED <<dsq, curr, next, state>>
           Idles == /\ r.tier = EMPTY /\ curr \notin Tasks
                    /\ dctx' = none /\ curr' = Idle /\ at' = "run"
                    /\ UNCHANGED <<tctx, dsq, next, slice, state, hist>>
<1>1. /\ at = "pick" \/ (at = "run" /\ resched)
      /\ local = <<>> /\ (curr \in Tasks => slice[curr] = 0)
      /\ resched' = FALSE /\ UNCHANGED <<local, kick>>
  BY ZenonT(60) DEF Dispatch, PrevRuns, Picking
<1>2. Puts \/ Runs \/ Keeps \/ Idles
  BY DEF Dispatch, PrevRuns, TakenHist
<1>3. /\ curr \in Tasks => px = dispatch_prev(tctx[curr], dctx.preempt_pending, k)
      /\ prev = IF curr \in Tasks THEN effective_tier(px) ELSE EMPTY
      /\ d = IF curr \in Tasks
             THEN charge_override(dctx, effective_tier(tctx[curr]), tctx[curr].ran)
             ELSE dctx
      /\ r = dispatch_dsq_per_cpu(d, prev)
      /\ kept = IF BoostSpent(px) THEN Unboosted(px) ELSE px
      /\ taken = override_cpu(stamp_tier_head_ts(d, r.tier), r)
      /\ none = override_cpu(d, r)
      /\ r.tier # EMPTY => g = TakenHist(r)
  BY Zenon
<1> HIDE DEF px, prev, d, r, kept, taken, none, g
<1>4. /\ Charged(d) /\ Chosen(d, r)
      /\ curr \notin Tasks /\ r.tier = EMPTY => \A l \in Tiers : dsq[l] = <<>>
      /\ curr \in Tasks =>
           /\ px \in Ctx /\ px.ran = 0 /\ px.resume_slice = 0
           /\ px.boost_dsq_type \in {tctx[curr].boost_dsq_type, EMPTY}
           /\ px.boost_dsq_type # EMPTY /\ px.boost_used < WAKE_BOOST_BUDGET =>
                px.boost_used = tctx[curr].boost_used + tctx[curr].ran
  BY <1>0, <1>3, DispatchDecides, Zenon
<1>5. /\ curr \in Tasks => at = "run"
      /\ at \in {"run", "pick"}
  BY <1>0, <1>1, Constants DEF Places, OnCpu
<1>6. CASE Puts
  <2>1. PICK t \in Tasks : t = curr
    BY <1>6
  <2>2. /\ px \in Ctx /\ px.ran = 0 /\ px.resume_slice = 0
        /\ px.boost_dsq_type \in {tctx[t].boost_dsq_type, EMPTY}
        /\ px.boost_dsq_type # EMPTY /\ px.boost_used < WAKE_BOOST_BUDGET =>
             px.boost_used = tctx[t].boost_used + tctx[t].ran
        /\ tctx' = [tctx EXCEPT ![t] = px] /\ at = "run" /\ slice[t] = 0
    BY <1>1, <1>4, <1>5, <1>6, <2>1, Zenon
  <2>3. /\ hist' = TakenHist(r) /\ next' = Head(dsq[r.tier]) /\ dctx' = taken
        /\ UNCHANGED <<curr, state, slice, local, kick>>
    BY <1>1, <1>3, <1>6, Zenon
  <2>4. QED
    BY <1>1, <1>3, <1>4, <1>6, <2>1, <2>2, <2>3, DispatchPutInv, ZenonT(60)
<1>7. CASE Runs
  <2>1. /\ hist' = TakenHist(r) /\ Run(Head(dsq[r.tier]), tctx[Head(dsq[r.tier])], taken)
        /\ state' = [state EXCEPT ![Head(dsq[r.tier])] = "running"]
        /\ UNCHANGED <<next, slice, local, kick>>
    BY <1>1, <1>3, <1>7, Zenon
  <2>2. QED
    BY <1>1, <1>3, <1>4, <1>5, <1>7, <2>1, DispatchRunInv, Zenon
<1>8. CASE Keeps
  <2>1. PICK t \in Tasks : t = curr
    BY <1>8
  <2>2. /\ px \in Ctx /\ px.ran = 0 /\ px.resume_slice = 0
        /\ px.boost_dsq_type \in {tctx[t].boost_dsq_type, EMPTY}
        /\ px.boost_dsq_type # EMPTY /\ px.boost_used < WAKE_BOOST_BUDGET =>
             px.boost_used = tctx[t].boost_used + tctx[t].ran
        /\ at = "run"
    BY <1>4, <1>5, <1>8, <2>1, Zenon
  <2>3. /\ tctx' = [tctx EXCEPT ![t] = [kept EXCEPT !.granted_slice = SLICE]]
        /\ slice' = [slice EXCEPT ![t] = SLICE] /\ dctx' = running_cpu(none, kept)
        /\ hist' = [NewSlice(hist, t) EXCEPT !.from = effective_tier(kept), !.via = {},
                                             !.over = 0, !.tier = EMPTY]
        /\ UNCHANGED <<dsq, curr, next, state, local, kick>>
    BY <1>1, <1>8, <2>1, Zenon
  <2>4. /\ kept = IF BoostSpent(px) THEN Unboosted(px) ELSE px
        /\ none = override_cpu(d, r) /\ Charged(d) /\ Chosen(d, r) /\ r.tier = EMPTY
        /\ local = <<>> /\ at' = "run" /\ resched' = FALSE
    BY <1>1, <1>3, <1>4, <1>8, Zenon
  <2>5. QED
    BY <2>1, <2>2, <2>3, <2>4, DispatchKeepInv, Zenon
<1>9. CASE Idles
  <2>1. UNCHANGED <<tctx, dsq, next, slice, state, hist, local, kick>>
    BY <1>1, <1>9, Zenon
  <2>2. \A l \in Tiers : dsq[l] = <<>>
    BY <1>4, <1>9, Zenon
  <2>3. QED
    BY <1>1, <1>3, <1>4, <1>5, <1>9, <2>1, <2>2, DispatchIdleInv, Zenon
<1>10. QED
  BY <1>2, <1>6, <1>7, <1>8, <1>9, ZenonT(60)

-----------------------------------------------------------------------------
(* The theorems                                                            *)

\* The invariant is inductive.
LEMMA NextInv == Inv /\ [Next]_vars => Inv'
<1> SUFFICES ASSUME Inv, [Next]_vars PROVE Inv'
  OBVIOUS
<1>1. \A t \in Tasks : OwnTiers[t] \subseteq Tiers /\ WakerTiers[t] \subseteq Tiers
  BY Constants
<1>2. ASSUME NEW k \in Classes
      PROVE  curr \in Tasks => k \in Tiers
  BY <1>1, <1>2 DEF Classes
<1>3. ASSUME NEW t \in Tasks, NEW w \in WakerTiers[t] \cup {EMPTY}, NEW k \in OwnTiers[t],
             WakeUp(t, w, k)
      PROVE  Inv'
  <2>1. w \in Tiers \cup {EMPTY} /\ k \in Tiers
    BY <1>1
  <2>2. QED
    BY <1>3, <2>1, WakeUpInv
<1>4. ASSUME NEW k \in Tiers, OtherCpuTakes(k)
      PROVE  Inv'
  BY <1>4, OtherCpuTakesInv
<1>5. CASE Tick
  BY <1>5, TickInv
<1>6. CASE KickPreempt
  BY <1>6, KickPreemptInv
<1>7. CASE PickLocal
  BY <1>7, PickLocalInv
<1>8. CASE Switch
  BY <1>8, SwitchInv
<1>9. CASE ReenqueueLocal
  BY <1>9, ReenqueueLocalInv
<1>10. CASE RtSleeps
  BY <1>10, RtSleepsInv
<1>11. ASSUME NEW k \in Classes, Sleep(k)
       PROVE  Inv'
  <2>1. k \in Tiers
    BY <1>2, <1>11 DEF Sleep
  <2>2. QED
    BY <1>11, <2>1, SleepInv
<1>12. ASSUME NEW k \in Classes, Dispatch(k)
       PROVE  Inv'
  BY <1>2, <1>12, DispatchInv
<1>13. ASSUME NEW k \in Classes, PutPrev(k)
       PROVE  Inv'
  <2>1. curr \in Tasks
    BY <1>13 DEF PutPrev, Inv, Places, OnCpu
  <2>2. k \in Tiers
    BY <1>2, <2>1
  <2>3. QED
    BY <1>13, <2>2, PutPrevInv
<1>14. ASSUME NEW k \in Classes, RtTakes(k)
       PROVE  Inv'
  BY <1>2, <1>14, RtTakesInv
<1>15. CASE UNCHANGED vars
  <2>1. /\ tctx' = tctx /\ dctx' = dctx /\ dsq' = dsq /\ local' = local /\ curr' = curr
        /\ next' = next /\ at' = at /\ resched' = resched /\ kick' = kick
        /\ slice' = slice /\ state' = state /\ hist' = hist
    BY <1>15 DEF vars
  <2>2. Types'
    <3>1. /\ tctx \in [Tasks -> Ctx] /\ dctx \in CpuCtx /\ hist \in Hist
          /\ slice \in [Tasks -> 0 .. SLICE]
      BY TypesFacts DEF Inv
    <3>2. /\ dsq \in [Tiers -> Seq(Tasks)] /\ local \in Seq(Tasks)
          /\ curr \in Tasks \cup {Idle, Rt} /\ next \in Tasks \cup {Idle}
          /\ at \in {"run", "pick", "put", "switch"} /\ resched \in BOOLEAN /\ kick \in BOOLEAN
          /\ state \in [Tasks -> {"blocked", "queued", "local", "running"}]
      BY DEF Inv, Types
    <3>3. QED
      BY <2>1, <3>1, <3>2, TypesStep
  <2>3. Places'
    <3>1. Places
      BY DEF Inv
    <3>2. Queued' /\ LocalOne' /\ IdleEmpty' /\ NoResume'
      BY <2>1, <3>1 DEF Places, Queued, Distinct, LocalOne, IdleEmpty, NoResume
    <3>3. OnCpu'
      BY <2>1, <3>1 DEF Places, OnCpu
    <3>4. QED
      BY <3>2, <3>3 DEF Places
  <2>4. OverrideInv' /\ BoostInv'
    BY <2>1 DEF Inv, OverrideInv, OverrideBounded, Via, Uncharged, BoostInv, BoostOk
  <2>5. StarveInv'
    BY <2>1 DEF Inv, StarveInv, Uncharged, Rest, Runner, Margin, TurnsBefore, TurnOf, Ahead
  <2>6. QED
    BY <2>2, <2>3, <2>4, <2>5 DEF Inv
<1>16. CASE Next
  BY <1>3, <1>4, <1>5, <1>6, <1>7, <1>8, <1>9, <1>10, <1>11, <1>12, <1>13, <1>14, <1>16
     DEF Next
<1>17. QED
  BY <1>15, <1>16

\* There are three timed tiers.
LEMMA TimedTiers == Cardinality(Timed) = 3
<1>1. PICK a \in Int, b \in Int : a = 2 /\ b = 4
  OBVIOUS
<1>2. Timed = a .. b
  BY <1>1 DEF Timed, INTERACTIVE, GREEDY
<1>3. Cardinality(a .. b) = IF a > b THEN 0 ELSE b - a + 1
  BY FS_Interval, Zenon
<1>4. Cardinality(a .. b) = 3
  BY <1>1, <1>3
<1>5. QED
  BY <1>2, <1>4

\* A tier that is not over its budget has waited for less; one that is has what is
\* left of its margin.
LEMMA InvStarvationBounded == Inv => StarvationBounded
<1> SUFFICES ASSUME Inv, NEW k \in Timed
             PROVE  hist.unserved[k] <= STARVE_BUDGET[k] + Cardinality(Timed) * Turn
  BY DEF StarvationBounded
<1>1. Types /\ StarveInv
  BY DEF Inv
<1>2. PICK u \in Nat, B \in Nat, T \in Nat, h \in Nat :
        /\ u = hist.unserved[k] /\ B = STARVE_BUDGET[k] /\ T = Turn /\ h = dctx.head[k]
  BY <1>1, TypesFacts, TurnBounds
<1>3. PICK c \in Nat : c = TurnsBefore(k)
  <2>1. \A j : TurnOf(j, k) \in Nat
    BY TurnBounds DEF TurnOf
  <2>2. PICK x \in Nat, y \in Nat, z \in Nat :
          x = TurnOf(INTERACTIVE, k) /\ y = TurnOf(NORMAL, k) /\ z = TurnOf(GREEDY, k)
    BY <2>1
  <2>3. QED
    BY <2>2 DEF TurnsBefore
<1>4. PICK v \in Nat : v = Rest
  BY <1>1, RestBounds
<1>5. /\ u <= h
      /\ dsq[k] = <<>> => u = 0
      /\ dsq[k] # <<>> /\ h > B => v <= B + 3 * T - c - u
  BY <1>1, <1>2, <1>3, <1>4 DEF StarveInv, Margin
<1>6. u <= B + 3 * T
  BY <1>5
<1>7. QED
  BY <1>2, <1>6, TimedTiers

\* The model keeps its types, whatever the constants are: charge_override() never
\* makes a budget negative, and what is left of a slice is a slice at most.
THEOREM SliceTypeOK == Spec => []TypeOK
<1>1. Inv => TypeOK
  BY DEF Inv, Types
<1>2. QED
  BY <1>1, InitInv, NextInv, PTL DEF Spec

\* An override lasts for its budget and the end of the last slice it began.
THEOREM SliceOverrideBounded == Spec => []OverrideBounded
<1>1. Inv => OverrideBounded
  BY DEF Inv, OverrideInv
<1>2. QED
  BY <1>1, InitInv, NextInv, PTL DEF Spec

\* A boost of a task that was not given a slice to resume ends with the slice in
\* which its budget is used up.
THEOREM SliceBoostBounded == Spec => []BoostBounded
<1>1. Inv => BoostBounded
  <2> SUFFICES ASSUME Inv, NEW t \in Tasks, hist.boosted[t] >= WAKE_BOOST_BUDGET + SLICE
               PROVE  hist.jumped[t]
    BY DEF BoostBounded
  <2>1. BoostOk(t) /\ hist.boosted[t] \in Nat
    BY DEF Inv, BoostInv, Types
  <2>2. WAKE_BOOST_BUDGET + SLICE \in Nat
    BY Constants
  <2>3. QED
    BY <2>1, <2>2 DEF BoostOk
<1>2. QED
  BY <1>1, InitInv, NextInv, PTL DEF Spec

\* No waiting tier is passed over for longer than its budget and a turn for every
\* timed tier, for every number of tasks, slice, budget and cooldown.
THEOREM SliceStarvationBounded == Spec => []StarvationBounded
<1>1. Inv => StarvationBounded
  BY InvStarvationBounded
<1>2. QED
  BY <1>1, InitInv, NextInv, PTL DEF Spec
=============================================================================
