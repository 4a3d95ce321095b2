-------------------------- MODULE LunarTaskProofs --------------------------
(***************************************************************************)
(* The bounds of LunarTask for every unit of time, window, interval and    *)
(* number of steps.  The invariant is one about the context of the task,   *)
(* CtxInv, which every callback preserves because duty_account, task_duty, *)
(* the moving average, calc_crit and classify do.                          *)
(***************************************************************************)
EXTENDS LunarTask, TLAPS

\* The bounds of defines.h as numbers.
LEMMA CapValues ==
  /\ DUTY_CAP_LC = 51 /\ DUTY_CAP_INTERACTIVE = 102 /\ DUTY_CAP_NORMAL = 819
  /\ DUTY_HYST = 10
BY DEF DUTY_CAP_LC, DUTY_CAP_INTERACTIVE, DUTY_CAP_NORMAL, DUTY_HYST, DUTY_RANGE

\* target_tier() yields a tier.
LEMMA TargetTierType ==
  ASSUME NEW crit \in Int, NEW duty \in Int
  PROVE  target_tier(crit, duty) \in Tiers
BY CapValues DEF target_tier, tier_from_crit, tier_cap_from_duty, Tiers, LC, INTERACTIVE,
   NORMAL, GREEDY, CRIT_EDGE_LC, CRIT_EDGE_INTERACTIVE, CRIT_EDGE_NORMAL

\* A higher duty never leads to a better tier.
LEMMA TargetTierMonotone ==
  ASSUME NEW crit \in Int, NEW d \in Int, NEW e \in Int, d <= e
  PROVE  target_tier(crit, d) <= target_tier(crit, e)
BY CapValues DEF target_tier, tier_from_crit, tier_cap_from_duty, LC, INTERACTIVE,
   NORMAL, GREEDY, CRIT_EDGE_LC, CRIT_EDGE_INTERACTIVE, CRIT_EDGE_NORMAL

\* The hysteresis leads into its band from any tier.
LEMMA HysteresisBand ==
  ASSUME NEW old \in Tiers, NEW crit \in Int, NEW duty \in Int
  PROVE  /\ hysteresis(old, crit, duty) \in Tiers
         /\ target_tier(crit, duty - DUTY_HYST) <= hysteresis(old, crit, duty)
         /\ hysteresis(old, crit, duty) <= target_tier(crit, duty + DUTY_HYST)
<1> DEFINE lo == target_tier(crit, duty - DUTY_HYST)
           hi == target_tier(crit, duty + DUTY_HYST)
<1>1. duty - DUTY_HYST \in Int /\ duty + DUTY_HYST \in Int /\ duty - DUTY_HYST <= duty + DUTY_HYST
  BY CapValues
<1>2. lo \in Tiers /\ hi \in Tiers
  BY <1>1, TargetTierType
<1>3. lo <= hi
  BY <1>1, TargetTierMonotone
<1>4. hysteresis(old, crit, duty) = IF hi < old THEN hi ELSE IF lo > old THEN lo ELSE old
  BY DEF hysteresis
<1> HIDE DEF lo, hi
<1>5. QED
  BY <1>2, <1>3, <1>4 DEF Tiers, LC, GREEDY, lo, hi

\* classify() yields a tier, and one that is in the band of its inputs.
LEMMA ClassifyInBand ==
  ASSUME NEW old \in Tiers, NEW samples \in Nat, NEW crit \in Int, NEW duty \in Int
  PROVE  /\ classify(old, samples, crit, duty) \in Tiers
         /\ InBand(classify(old, samples, crit, duty), samples, crit, duty)
<1> DEFINE h == hysteresis(old, crit, duty)
           lo == target_tier(crit, duty - DUTY_HYST)
           hi == target_tier(crit, duty + DUTY_HYST)
           tier == IF samples < DUTY_SAMPLES_NEEDED THEN GREEDY ELSE h
           floor == Kthread /\ duty < DUTY_CAP_INTERACTIVE /\ tier > INTERACTIVE
           c == classify(old, samples, crit, duty)
<1>1. h \in Tiers /\ lo <= h /\ h <= hi
  BY HysteresisBand
<1>2. c = IF floor THEN INTERACTIVE ELSE tier
  BY DEF classify
<1>3. GREEDY \in Tiers /\ INTERACTIVE \in Tiers
  BY DEF Tiers, LC, INTERACTIVE, GREEDY
<1>4. c \in Tiers
  BY <1>1, <1>2, <1>3
<1>5. tier \in 1 .. 4 /\ INTERACTIVE = 2 /\ GREEDY = 4
  BY <1>1, <1>3 DEF Tiers, LC, INTERACTIVE, GREEDY
<1> DEFINE low == Kthread /\ duty < DUTY_CAP_INTERACTIVE /\ c >= INTERACTIVE
<1> HIDE DEF h, lo, hi, c
<1>6. low => c = INTERACTIVE
  BY <1>2, <1>5
<1>7. ~ low => c = tier
  <2>1. floor => c = INTERACTIVE
    BY <1>2
  <2>2. floor => low
    BY <2>1, <1>5
  <2>3. QED
    BY <1>2, <2>2
<1>8. ~ low /\ samples < DUTY_SAMPLES_NEEDED => c = GREEDY
  BY <1>7
<1>9. ~ low /\ ~ (samples < DUTY_SAMPLES_NEEDED) => lo <= c /\ c <= hi
  BY <1>1, <1>7
<1>10. QED
  BY <1>4, <1>6, <1>8, <1>9 DEF InBand, c, lo, hi

\* What is invariant about a task context.
CtxInv(x) ==
  /\ x \in CtxType
  /\ x.run_acc + x.sleep_acc <= 2 * DUTY_WINDOW
  /\ x.duty < DUTY_RANGE
  /\ x.wait_interval \in INTERVAL_MIN .. INTERVAL_REF
  /\ x.wake_interval \in INTERVAL_MIN .. INTERVAL_REF
  /\ x.crit <= 32
  /\ InBand(x.current_dsq_type, x.duty_samples, x.crit, x.duty)

Inv ==
  /\ CtxInv(tctx)
  /\ age \in AgeType
  /\ phase \in {"ready", "running", "asleep"}
  /\ steps \in Nat

-----------------------------------------------------------------------------

\* A quotient of natural numbers is one, and is less than any bound that the
\* divisor times the bound is above the dividend.
LEMMA DivBound ==
  ASSUME NEW n \in Nat, NEW m \in Nat \ {0}, NEW b \in Nat, n < b * m
  PROVE  n \div m \in Nat /\ n \div m < b
<1> DEFINE q == n \div m
<1>1. q \in Int /\ m * q <= n /\ n < m * q + m
  BY Z3
<1>2. q >= 0
  <2>1. SUFFICES ASSUME q <= 0 - 1 PROVE FALSE
    BY <1>1
  <2>2. m * q <= m * (0 - 1)
    BY <1>1, <2>1
  <2>3. QED
    BY <1>1, <2>2
<1>3. q < b
  <2>1. SUFFICES ASSUME q >= b PROVE FALSE
    BY <1>1
  <2>2. m * q >= m * b
    BY <1>1, <2>1
  <2>3. QED
    BY <1>1, <2>2
<1>4. QED
  BY <1>1, <1>2, <1>3

\* The duty of a task is between 0 and 1023.
LEMMA TaskDutyBound ==
  ASSUME NEW x \in CtxType
  PROVE  task_duty(x) \in Nat /\ task_duty(x) < DUTY_RANGE
<1>1. x.run_acc \in Nat /\ x.sleep_acc \in Nat
  BY DEF CtxType
<1> DEFINE n == x.run_acc * 1024
           m == x.run_acc + x.sleep_acc + 1
<1>2. n \in Nat /\ m \in Nat \ {0} /\ n < 1024 * m
  BY <1>1
<1>3. task_duty(x) = n \div m
  BY DEF task_duty
<1> HIDE DEF n, m
<1>4. n \div m \in Nat /\ n \div m < 1024
  BY <1>2, DivBound
<1>5. QED
  BY <1>3, <1>4 DEF DUTY_RANGE

\* duty_account keeps the accumulators within two windows.
LEMMA DutyAccountBound ==
  ASSUME NEW x \in CtxType, x.run_acc + x.sleep_acc <= 2 * DUTY_WINDOW,
         NEW run \in Nat, NEW slept \in Nat
  PROVE  LET y == duty_account(x, run, slept)
         IN /\ y \in CtxType
            /\ y.run_acc + y.sleep_acc <= 2 * DUTY_WINDOW
            /\ y.current_dsq_type = x.current_dsq_type
            /\ y.duty_samples = x.duty_samples
            /\ y.wait_interval = x.wait_interval
            /\ y.wake_interval = x.wake_interval
<1> DEFINE r == x.run_acc + AtMost(run, DUTY_WINDOW)
           s == x.sleep_acc + AtMost(slept, DUTY_WINDOW)
           full == r + s > 2 * DUTY_WINDOW
           r2 == IF full THEN r \div 2 ELSE r
           s2 == IF full THEN s \div 2 ELSE s
<1>1. x.run_acc \in Nat /\ x.sleep_acc \in Nat
  BY DEF CtxType
<1>2. r \in Nat /\ s \in Nat /\ r + s <= 4 * DUTY_WINDOW
  BY <1>1, UnitAssumption DEF AtMost
<1> HIDE DEF r, s
<1>3. r2 \in Nat /\ s2 \in Nat /\ r2 + s2 <= 2 * DUTY_WINDOW
  BY <1>2, UnitAssumption
<1>4. duty_account(x, run, slept) = [x EXCEPT !.run_acc = r2, !.sleep_acc = s2]
  BY DEF duty_account, r, s
<1> HIDE DEF r2, s2
<1>5. QED
  BY <1>3, <1>4 DEF CtxType

\* A clamped interval is within the bounds.
LEMMA ClampBound ==
  ASSUME NEW i \in Nat
  PROVE  clamp_interval(i) \in INTERVAL_MIN .. INTERVAL_REF
BY UnitAssumption DEF clamp_interval

\* The moving average of two values within the bounds is within them too.
LEMMA AverageBound ==
  ASSUME NEW old \in INTERVAL_MIN .. INTERVAL_REF,
         NEW sample \in INTERVAL_MIN .. INTERVAL_REF
  PROVE  exponentially_weighted_moving_avg(old, sample) \in INTERVAL_MIN .. INTERVAL_REF
BY UnitAssumption DEF exponentially_weighted_moving_avg

\* The powers of two up to 2 ^ 17.
LEMMA Powers ==
  /\ 2 ^ 0 = 1 /\ 2 ^ 1 = 2 /\ 2 ^ 2 = 4 /\ 2 ^ 3 = 8 /\ 2 ^ 4 = 16 /\ 2 ^ 5 = 32
  /\ 2 ^ 6 = 64 /\ 2 ^ 7 = 128 /\ 2 ^ 8 = 256 /\ 2 ^ 9 = 512 /\ 2 ^ 10 = 1024 /\ 2 ^ 11 = 2048
  /\ 2 ^ 12 = 4096 /\ 2 ^ 13 = 8192 /\ 2 ^ 14 = 16384 /\ 2 ^ 15 = 32768 /\ 2 ^ 16 = 65536 /\ 2 ^ 17 = 131072
BY SMT

\* The shifts of log2_u32 compute the logarithm of every value of up to 17 bits.
LEMMA Log2OfRatio ==
  ASSUME NEW v \in Nat, v >= 1, v < 2 ^ 17
  PROVE  ilog2(v) \in 0 .. 16 /\ IsLog2(ilog2(v), v)
<1>1. ilog2(v) = log2_u32(v)
  BY SMT DEF ilog2
<1>2. v >= 1 /\ v < 2 => log2_u32(v) = 0
  BY SMT DEF log2_u32
<1>3. v >= 2 /\ v < 4 => log2_u32(v) = 1
  BY SMT DEF log2_u32
<1>4. v >= 4 /\ v < 8 => log2_u32(v) = 2
  BY SMT DEF log2_u32
<1>5. v >= 8 /\ v < 16 => log2_u32(v) = 3
  BY SMT DEF log2_u32
<1>6. v >= 16 /\ v < 32 => log2_u32(v) = 4
  BY SMT DEF log2_u32
<1>7. v >= 32 /\ v < 64 => log2_u32(v) = 5
  BY SMT DEF log2_u32
<1>8. v >= 64 /\ v < 128 => log2_u32(v) = 6
  BY SMT DEF log2_u32
<1>9. v >= 128 /\ v < 256 => log2_u32(v) = 7
  BY SMT DEF log2_u32
<1>10. v >= 256 /\ v < 512 => log2_u32(v) = 8
  BY SMT DEF log2_u32
<1>11. v >= 512 /\ v < 1024 => log2_u32(v) = 9
  BY SMT DEF log2_u32
<1>12. v >= 1024 /\ v < 2048 => log2_u32(v) = 10
  BY SMT DEF log2_u32
<1>13. v >= 2048 /\ v < 4096 => log2_u32(v) = 11
  BY SMT DEF log2_u32
<1>14. v >= 4096 /\ v < 8192 => log2_u32(v) = 12
  BY SMT DEF log2_u32
<1>15. v >= 8192 /\ v < 16384 => log2_u32(v) = 13
  BY SMT DEF log2_u32
<1>16. v >= 16384 /\ v < 32768 => log2_u32(v) = 14
  BY SMT DEF log2_u32
<1>17. v >= 32768 /\ v < 65536 => log2_u32(v) = 15
  BY SMT DEF log2_u32
<1>18. v >= 65536 /\ v < 131072 => log2_u32(v) = 16
  BY SMT DEF log2_u32
<1>19. \E n \in 0 .. 16 : log2_u32(v) = n /\ 2 ^ n <= v /\ v < 2 ^ (n + 1)
  <2>1. CASE v >= 1 /\ v < 2
    BY <1>2, <2>1, Powers, SMT
  <2>2. CASE v >= 2 /\ v < 4
    BY <1>3, <2>2, Powers, SMT
  <2>3. CASE v >= 4 /\ v < 8
    BY <1>4, <2>3, Powers, SMT
  <2>4. CASE v >= 8 /\ v < 16
    BY <1>5, <2>4, Powers, SMT
  <2>5. CASE v >= 16 /\ v < 32
    BY <1>6, <2>5, Powers, SMT
  <2>6. CASE v >= 32 /\ v < 64
    BY <1>7, <2>6, Powers, SMT
  <2>7. CASE v >= 64 /\ v < 128
    BY <1>8, <2>7, Powers, SMT
  <2>8. CASE v >= 128 /\ v < 256
    BY <1>9, <2>8, Powers, SMT
  <2>9. CASE v >= 256 /\ v < 512
    BY <1>10, <2>9, Powers, SMT
  <2>10. CASE v >= 512 /\ v < 1024
    BY <1>11, <2>10, Powers, SMT
  <2>11. CASE v >= 1024 /\ v < 2048
    BY <1>12, <2>11, Powers, SMT
  <2>12. CASE v >= 2048 /\ v < 4096
    BY <1>13, <2>12, Powers, SMT
  <2>13. CASE v >= 4096 /\ v < 8192
    BY <1>14, <2>13, Powers, SMT
  <2>14. CASE v >= 8192 /\ v < 16384
    BY <1>15, <2>14, Powers, SMT
  <2>15. CASE v >= 16384 /\ v < 32768
    BY <1>16, <2>15, Powers, SMT
  <2>16. CASE v >= 32768 /\ v < 65536
    BY <1>17, <2>16, Powers, SMT
  <2>17. CASE v >= 65536 /\ v < 131072
    BY <1>18, <2>17, Powers, SMT
  <2>18. v < 131072
    BY Powers, SMT
  <2>19. QED
    BY <2>1, <2>2, <2>3, <2>4, <2>5, <2>6, <2>7, <2>8, <2>9,
       <2>10, <2>11, <2>12, <2>13, <2>14, <2>15, <2>16, <2>17, <2>18, SMT
<1>20. QED
  BY <1>1, <1>19, Zenon DEF IsLog2

\* The reference over an interval within the bounds is a value of up to 17 bits.
LEMMA RatioBound ==
  ASSUME NEW e \in INTERVAL_MIN .. INTERVAL_REF
  PROVE  /\ INTERVAL_REF \div e \in Nat
         /\ INTERVAL_REF \div e >= 1 /\ INTERVAL_REF \div e < 2 ^ 17
<1>1. PICK b \in Nat : b = 2 ^ 17
  BY Powers, SMT
<1>2. /\ INTERVAL_REF \in Nat /\ e \in Nat \ {0} /\ e <= INTERVAL_REF /\ INTERVAL_MIN <= e
      /\ INTERVAL_MIN \in Nat /\ INTERVAL_REF < b * INTERVAL_MIN
  BY <1>1, UnitAssumption, SMT
<1>3. INTERVAL_REF < b * e
  BY <1>1, <1>2, SMT
<1>4. INTERVAL_REF \div e \in Nat /\ INTERVAL_REF \div e < b
  BY <1>2, <1>3, DivBound, Zenon
<1>5. PICK q \in Nat : q = INTERVAL_REF \div e
  BY <1>4, Zenon
<1>6. q >= 1
  <2>1. INTERVAL_REF < e * q + e
    BY <1>2, <1>5, Z3
  <2>2. SUFFICES ASSUME q = 0 PROVE FALSE
    BY <1>5, SMT
  <2>3. QED
    BY <1>2, <2>1, <2>2, SMT
<1>7. QED
  BY <1>1, <1>4, <1>5, <1>6, Zenon

\* The crit score is a natural number of at most 32.
LEMMA CalcCritBound ==
  ASSUME NEW x \in CtxType, NEW a \in AgeType
  PROVE  calc_crit(x, a) \in Nat /\ calc_crit(x, a) <= 32
<1>1. /\ x.wait_interval \in Nat /\ x.wake_interval \in Nat
      /\ a.woken \in Nat /\ a.wake \in Nat
  BY UnitAssumption DEF CtxType, AgeType, AGE_MAX
<1>2. ASSUME NEW avg \in Nat, NEW since \in Nat
      PROVE  ilog2(INTERVAL_REF \div effective_interval(avg, since)) \in 0 .. 16
  <2>1. effective_interval(avg, since) \in INTERVAL_MIN .. INTERVAL_REF
    BY ClampBound DEF effective_interval
  <2>2. LET v == INTERVAL_REF \div effective_interval(avg, since)
        IN v \in Nat /\ v >= 1 /\ v < 2 ^ 17
    BY <2>1, RatioBound, Zenon
  <2>3. QED
    BY <2>2, Log2OfRatio, Zenon
<1> DEFINE wait == ilog2(INTERVAL_REF \div effective_interval(x.wait_interval, a.woken))
           wake == ilog2(INTERVAL_REF \div effective_interval(x.wake_interval, a.wake))
<1>3. wait \in 0 .. 16 /\ wake \in 0 .. 16
  BY <1>1, <1>2
<1>4. calc_crit(x, a) = IF wait + wake > CRIT_MAX THEN CRIT_MAX ELSE wait + wake
  BY DEF calc_crit
<1> HIDE DEF wait, wake
<1>5. QED
  BY <1>3, <1>4 DEF CRIT_MAX

\* Accounting and a new classification lead to a context that is in order,
\* whatever tier and duty the context had before.
LEMMA AccountedInv ==
  ASSUME NEW x \in CtxType, x.run_acc + x.sleep_acc <= 2 * DUTY_WINDOW,
         x.wait_interval \in INTERVAL_MIN .. INTERVAL_REF,
         x.wake_interval \in INTERVAL_MIN .. INTERVAL_REF,
         NEW run \in Nat, NEW slept \in Nat, NEW a \in AgeType
  PROVE  CtxInv(accounted(x, run, slept, a))
<1> DEFINE y == duty_account(x, run, slept)
           z == [y EXCEPT !.duty = task_duty(y)]
           crit == calc_crit(z, a)
           tier == classify(z.current_dsq_type, z.duty_samples, crit, z.duty)
           u == [z EXCEPT !.crit = crit, !.current_dsq_type = tier]
<1>1. /\ y \in CtxType /\ y.run_acc + y.sleep_acc <= 2 * DUTY_WINDOW
      /\ y.wait_interval = x.wait_interval /\ y.wake_interval = x.wake_interval
  BY DutyAccountBound
<1>2. task_duty(y) \in Nat /\ task_duty(y) < DUTY_RANGE
  BY <1>1, TaskDutyBound
<1> HIDE DEF y
<1>3. /\ z \in CtxType /\ z.run_acc = y.run_acc /\ z.sleep_acc = y.sleep_acc
      /\ z.wait_interval = y.wait_interval /\ z.wake_interval = y.wake_interval
      /\ z.duty = task_duty(y)
  BY <1>1, <1>2 DEF CtxType
<1> HIDE DEF z
<1>4. crit \in Nat /\ crit <= 32
  BY <1>3, CalcCritBound
<1> HIDE DEF crit
<1>5. /\ z.current_dsq_type \in Tiers /\ z.duty_samples \in Nat /\ z.duty \in Int
  BY <1>3 DEF CtxType
<1>6. tier \in Tiers /\ InBand(tier, z.duty_samples, crit, z.duty)
  BY <1>4, <1>5, ClassifyInBand
<1> HIDE DEF tier
<1>7. /\ u \in CtxType /\ u.run_acc = z.run_acc /\ u.sleep_acc = z.sleep_acc
      /\ u.wait_interval = z.wait_interval /\ u.wake_interval = z.wake_interval
      /\ u.duty = z.duty /\ u.duty_samples = z.duty_samples
      /\ u.crit = crit /\ u.current_dsq_type = tier
  BY <1>3, <1>4, <1>6 DEF CtxType
<1>8. accounted(x, run, slept, a) = u
  BY DEF accounted, update_task_dsq_type, y, z, crit, tier
<1> HIDE DEF u
<1>9. QED
  BY <1>1, <1>2, <1>3, <1>4, <1>6, <1>7, <1>8 DEF CtxInv

-----------------------------------------------------------------------------

\* The ages after d units of time are ages.
LEMMA AgedType ==
  ASSUME age \in AgeType, NEW d \in Nat
  PROVE  Aged(d) \in AgeType
<1>1. DOMAIN age = {"started", "blocked", "woken", "wake"}
  BY DEF AgeType
<1>2. ASSUME NEW k \in {"started", "blocked", "woken", "wake"}
      PROVE  AtMost(age[k] + d, AGE_MAX) \in 0 .. AGE_MAX
  BY UnitAssumption DEF AgeType, AtMost, AGE_MAX
<1>3. QED
  BY <1>1, <1>2 DEF Aged, AgeType

\* The context of a new task is in order.
LEMMA InitInv == Init => Inv
<1> SUFFICES ASSUME Init PROVE Inv
  OBVIOUS
<1> DEFINE x == [current_dsq_type |-> GREEDY,
                 run_acc |-> DUTY_INIT_RUN, sleep_acc |-> 0, duty_samples |-> 0,
                 wait_interval |-> INTERVAL_REF, wake_interval |-> INTERVAL_REF,
                 crit |-> 0, duty |-> DUTY_RANGE \div 2]
           run == (KTHREAD_INIT_DUTY_PCT * DUTY_WINDOW) \div 100
           y == [x EXCEPT !.run_acc = run, !.sleep_acc = DUTY_WINDOW - run,
                          !.duty_samples = DUTY_SAMPLES_NEEDED,
                          !.current_dsq_type = INTERACTIVE]
           z == [y EXCEPT !.duty = task_duty(y)]
<1>1. tctx = IF Kthread THEN z ELSE x
  BY DEF Init, init_task_ctx
<1>2. GREEDY \in Tiers /\ INTERACTIVE \in Tiers /\ GREEDY = 4 /\ INTERACTIVE = 2
  BY DEF Tiers, LC, INTERACTIVE, GREEDY
<1>3. CASE ~ Kthread
  <2>1. x \in CtxType
    BY <1>2, UnitAssumption DEF CtxType, DUTY_RANGE, DUTY_SAMPLES_MAX
  <2>2. CtxInv(x)
    BY <2>1, <1>2, <1>3, UnitAssumption
       DEF CtxInv, InBand, DUTY_RANGE, DUTY_SAMPLES_NEEDED
  <2>3. QED
    BY <1>1, <1>3, <2>2, UnitAssumption DEF Inv, Init, AgeType, AGE_MAX
<1>4. CASE Kthread
  <2>1. run \in 0 .. DUTY_WINDOW /\ 100 * run <= 8 * DUTY_WINDOW
    BY UnitAssumption DEF KTHREAD_INIT_DUTY_PCT
  <2>2. DUTY_WINDOW - run \in Nat
    BY <2>1, UnitAssumption
  <2> HIDE DEF run
  <2>3. /\ y \in CtxType
        /\ y.run_acc = run /\ y.sleep_acc = DUTY_WINDOW - run
    <3>1. DUTY_SAMPLES_NEEDED \in 0 .. DUTY_SAMPLES_MAX /\ DUTY_RANGE \div 2 \in Nat
      BY DEF DUTY_SAMPLES_NEEDED, DUTY_SAMPLES_MAX, DUTY_RANGE
    <3>2. x \in CtxType
      BY <1>2, <3>1, UnitAssumption DEF CtxType, DUTY_SAMPLES_MAX
    <3>3. run \in Nat
      BY <2>1, UnitAssumption
    <3> HIDE DEF x
    <3>4. QED
      BY <1>2, <2>2, <3>1, <3>2, <3>3 DEF CtxType
  <2>4. /\ y.current_dsq_type = INTERACTIVE /\ y.duty_samples = DUTY_SAMPLES_NEEDED
        /\ y.wait_interval = INTERVAL_REF /\ y.wake_interval = INTERVAL_REF /\ y.crit = 0
    OBVIOUS
  <2> HIDE DEF y
  <2>5. task_duty(y) \in Nat /\ task_duty(y) < 102
    <3> DEFINE n == y.run_acc * 1024
               m == y.run_acc + y.sleep_acc + 1
    <3>1. n \in Nat /\ m \in Nat \ {0} /\ n < 102 * m
      BY <2>1, <2>3, UnitAssumption
    <3>2. task_duty(y) = n \div m
      BY DEF task_duty
    <3> HIDE DEF n, m
    <3>3. QED
      BY <3>1, <3>2, DivBound
  <2>6. /\ z \in CtxType /\ z.run_acc = y.run_acc /\ z.sleep_acc = y.sleep_acc
        /\ z.current_dsq_type = INTERACTIVE /\ z.duty = task_duty(y)
        /\ z.wait_interval = INTERVAL_REF /\ z.wake_interval = INTERVAL_REF /\ z.crit = 0
    BY <2>3, <2>4, <2>5 DEF CtxType
  <2> HIDE DEF z
  <2>7. z.run_acc + z.sleep_acc <= 2 * DUTY_WINDOW
    BY <2>1, <2>3, <2>6, UnitAssumption
  <2>8. InBand(z.current_dsq_type, z.duty_samples, z.crit, z.duty)
    BY <1>2, <1>4, <2>5, <2>6, CapValues DEF InBand
  <2>9. CtxInv(z)
    BY <2>5, <2>6, <2>7, <2>8, UnitAssumption DEF CtxInv, DUTY_RANGE
  <2>10. QED
    BY <1>1, <1>4, <2>9, UnitAssumption DEF Inv, Init, AgeType, AGE_MAX
<1>5. QED
  BY <1>3, <1>4

\* Every callback keeps the context in order.
LEMMA NextInv == Inv /\ [Next]_vars => Inv'
<1> SUFFICES ASSUME Inv, [Next]_vars PROVE Inv'
  OBVIOUS
<1>0. /\ CtxInv(tctx) /\ tctx \in CtxType /\ steps \in Nat /\ age \in AgeType
      /\ tctx.run_acc + tctx.sleep_acc <= 2 * DUTY_WINDOW
      /\ tctx.wait_interval \in INTERVAL_MIN .. INTERVAL_REF
      /\ tctx.wake_interval \in INTERVAL_MIN .. INTERVAL_REF
  BY DEF Inv, CtxInv
<1>1. ASSUME NEW d \in Durations
      PROVE  Aged(d) \in AgeType
  BY <1>0, AgedType, UnitAssumption
<1>2. ASSUME NEW a \in AgeType
      PROVE  /\ a.started \in Nat /\ a.blocked \in Nat /\ a.woken \in Nat /\ a.wake \in Nat
             /\ [a EXCEPT !.started = 0] \in AgeType
             /\ [a EXCEPT !.blocked = 0] \in AgeType
             /\ [a EXCEPT !.woken = 0] \in AgeType
             /\ [a EXCEPT !.wake = 0] \in AgeType
  BY UnitAssumption DEF AgeType, AGE_MAX
<1>3. ASSUME NEW d \in Durations, Runnable(d)
      PROVE  Inv'
  <2> DEFINE a == Aged(d)
             b == [a EXCEPT !.woken = 0]
             wait == exponentially_weighted_moving_avg(tctx.wait_interval,
                                                       clamp_interval(a.woken))
             samples == AtMost(tctx.duty_samples + 1, DUTY_SAMPLES_MAX)
             x == [tctx EXCEPT !.wait_interval = wait, !.duty_samples = samples]
  <2>1. a \in AgeType /\ b \in AgeType /\ a.woken \in Nat /\ a.blocked \in Nat
    BY <1>1, <1>2
  <2>2. wait \in INTERVAL_MIN .. INTERVAL_REF
    BY <1>0, <2>1, ClampBound, AverageBound
  <2>3. samples \in 0 .. DUTY_SAMPLES_MAX
    BY <1>0 DEF CtxType, AtMost, DUTY_SAMPLES_MAX
  <2>4. wait \in Nat
    BY <2>2, UnitAssumption
  <2>5. age' = b /\ phase' = "ready" /\ steps' = steps + 1
        /\ tctx' = accounted(x, 0, a.blocked, b)
    BY <1>3 DEF Runnable, Becomes
  <2> HIDE DEF a, b, wait, samples
  <2>6. /\ x \in CtxType /\ x.run_acc = tctx.run_acc /\ x.sleep_acc = tctx.sleep_acc
        /\ x.wait_interval = wait /\ x.wake_interval = tctx.wake_interval
    BY <1>0, <2>3, <2>4 DEF CtxType
  <2> HIDE DEF x
  <2>7. CtxInv(accounted(x, 0, a.blocked, b))
    BY <1>0, <2>1, <2>2, <2>6, AccountedInv
  <2>8. QED
    BY <1>0, <2>1, <2>5, <2>7 DEF Inv
<1>4. ASSUME NEW d \in Durations, Running(d)
      PROVE  Inv'
  <2>1. [Aged(d) EXCEPT !.started = 0] \in AgeType
    BY <1>1, <1>2
  <2>2. tctx' = tctx /\ steps' \in Nat /\ phase' = "running" /\ age' \in AgeType
    BY <1>0, <1>4, <2>1 DEF Running, Becomes
  <2>3. QED
    BY <1>0, <2>2 DEF Inv
<1>5. ASSUME NEW d \in Durations, WakesOther(d)
      PROVE  Inv'
  <2> DEFINE a == Aged(d)
             wake == exponentially_weighted_moving_avg(tctx.wake_interval,
                                                       clamp_interval(a.wake))
             x == [tctx EXCEPT !.wake_interval = wake]
  <2>1. a \in AgeType /\ [a EXCEPT !.wake = 0] \in AgeType /\ a.wake \in Nat
    BY <1>1, <1>2
  <2>2. wake \in INTERVAL_MIN .. INTERVAL_REF
    BY <1>0, <2>1, ClampBound, AverageBound
  <2>3. wake \in Nat
    BY <2>2, UnitAssumption
  <2>4. age' = [a EXCEPT !.wake = 0] /\ phase' = "running" /\ steps' = steps + 1 /\ tctx' = x
    BY <1>5 DEF WakesOther, Becomes
  <2> HIDE DEF a, wake
  <2>5. /\ x \in CtxType /\ x.run_acc = tctx.run_acc /\ x.sleep_acc = tctx.sleep_acc
        /\ x.wait_interval = tctx.wait_interval /\ x.wake_interval = wake
        /\ x.duty = tctx.duty /\ x.crit = tctx.crit
        /\ x.duty_samples = tctx.duty_samples /\ x.current_dsq_type = tctx.current_dsq_type
    BY <1>0, <2>3 DEF CtxType
  <2> HIDE DEF x
  <2>6. CtxInv(x)
    BY <1>0, <2>2, <2>5 DEF CtxInv
  <2>7. QED
    BY <1>0, <2>1, <2>4, <2>6 DEF Inv
<1>6. ASSUME NEW d \in Durations
      PROVE  CtxInv(accounted(tctx, Aged(d).started, 0, Aged(d)))
  BY <1>0, <1>1, <1>2, AccountedInv
<1>7. ASSUME NEW d \in Durations, Dispatch(d)
      PROVE  Inv'
  <2>1. [Aged(d) EXCEPT !.started = 0] \in AgeType
    BY <1>1, <1>2
  <2>2. /\ tctx' = accounted(tctx, Aged(d).started, 0, Aged(d))
        /\ steps' \in Nat /\ phase' = "running" /\ age' \in AgeType
    BY <1>0, <1>7, <2>1 DEF Dispatch, Becomes
  <2>3. QED
    BY <1>6, <2>2 DEF Inv
<1>8. ASSUME NEW d \in Durations, NEW runnable \in BOOLEAN, Stopping(d, runnable)
      PROVE  Inv'
  <2>1. Aged(d) \in AgeType /\ [Aged(d) EXCEPT !.blocked = 0] \in AgeType
    BY <1>1, <1>2
  <2>2. /\ tctx' = accounted(tctx, Aged(d).started, 0, Aged(d))
        /\ steps' \in Nat /\ phase' \in {"ready", "asleep"} /\ age' \in AgeType
    BY <1>0, <1>8, <2>1 DEF Stopping, Becomes
  <2>3. QED
    BY <1>6, <2>2 DEF Inv
<1>9. CASE UNCHANGED vars
  BY <1>9 DEF vars, Inv
<1>10. QED
  BY <1>3, <1>4, <1>5, <1>7, <1>8, <1>9 DEF Next

\* The state of the task stays in order forever.
THEOREM TaskInvariant == Spec => []Inv
BY InitInv, NextInv, PTL DEF Spec

\* Every variable keeps its type (LunarTask!TypeOK).
THEOREM TaskTypeOK == Spec => []TypeOK
<1>1. Inv => TypeOK
  BY DEF Inv, CtxInv, TypeOK
<1>2. QED
  BY <1>1, TaskInvariant, PTL

\* The accumulators stay within two windows and the duty below DUTY_RANGE, for
\* every length of the window (duty_account, task_duty).
THEOREM TaskDutyBounded == Spec => []DutyBounded
<1>1. Inv => DutyBounded
  BY DEF Inv, CtxInv, DutyBounded
<1>2. QED
  BY <1>1, TaskInvariant, PTL

\* The moving averages stay within the bounds of their samples
\* (exponentially_weighted_moving_avg).
THEOREM TaskIntervalsBounded == Spec => []IntervalsBounded
<1>1. Inv => IntervalsBounded
  BY DEF Inv, CtxInv, IntervalsBounded
<1>2. QED
  BY <1>1, TaskInvariant, PTL

\* The tier always lies in the band of the duty, the crit score and the samples
\* (update_task_dsq_type and the callbacks that call it).
THEOREM TaskTierInBand == Spec => []TierInBand
<1>1. Inv => TierInBand
  BY DEF Inv, CtxInv, TierInBand
<1>2. QED
  BY <1>1, TaskInvariant, PTL

\* log2_u32 is the logarithm of the ratio of every interval that is reached, and
\* the crit score stays between 0 and 32, for every pair of bounds of the
\* intervals that are less than 2 ^ 17 apart (ilog2, calc_crit).
THEOREM TaskCritIsLog2 == Spec => []CritIsLog2
<1>1. ASSUME Inv PROVE CritIsLog2
  <2>1. /\ tctx.wait_interval \in INTERVAL_MIN .. INTERVAL_REF
        /\ tctx.wake_interval \in INTERVAL_MIN .. INTERVAL_REF
        /\ tctx.crit <= 32
    BY <1>1, Zenon DEF Inv, CtxInv
  <2>2. ASSUME NEW i \in INTERVAL_MIN .. INTERVAL_REF
        PROVE  IsLog2(ilog2(INTERVAL_REF \div i), INTERVAL_REF \div i)
    <3>1. LET v == INTERVAL_REF \div i IN v \in Nat /\ v >= 1 /\ v < 2 ^ 17
      BY RatioBound, Zenon
    <3>2. QED
      BY <3>1, Log2OfRatio, Zenon
  <2>3. QED
    BY <2>1, <2>2, Zenon DEF CritIsLog2
<1>2. QED
  BY <1>1, TaskInvariant, PTL
=============================================================================
