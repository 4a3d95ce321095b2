----------------------------- MODULE LunarTask -----------------------------
(***************************************************************************)
(* How scx_lunar classifies one task: the accounting of its run and sleep  *)
(* time (duty), of how often it is woken and wakes others (crit), and the  *)
(* tier update_task_dsq_type() derives from both, in the callbacks         *)
(* lunar_runnable, lunar_running, lunar_dispatch and lunar_stopping.       *)
(*                                                                         *)
(* A time stamp of struct task_ctx is kept as its age, the time since it   *)
(* was taken, cut off at AGE_MAX, beyond which it makes no difference.     *)
(* Every callback comes d units of time after the one before.  The unit is *)
(* free: the constants of defines.h are parameters.                        *)
(***************************************************************************)
EXTENDS LunarTier

CONSTANTS
  DUTY_WINDOW,    \* DUTY_WINDOW_NS
  DUTY_INIT_RUN,  \* DUTY_INIT_RUN_NS
  INTERVAL_REF,   \* CRIT_INTERVAL_REF
  INTERVAL_MIN,   \* CRIT_INTERVAL_MIN
  Durations,      \* bound: the times between two callbacks
  MaxSteps        \* bound: the number of callbacks

ASSUME UnitAssumption ==
  /\ DUTY_WINDOW \in Nat \ {0}
  /\ DUTY_INIT_RUN \in 0 .. DUTY_WINDOW
  /\ INTERVAL_MIN \in Nat \ {0}
  /\ INTERVAL_REF \in Nat
  /\ INTERVAL_MIN <= INTERVAL_REF
  /\ INTERVAL_REF < 2 ^ 17 * INTERVAL_MIN   \* 100000 times it in defines.h
  /\ DUTY_WINDOW <= INTERVAL_REF
  /\ Durations \subseteq Nat
  /\ MaxSteps \in Nat

DUTY_SAMPLES_MAX      == 1000
KTHREAD_INIT_DUTY_PCT == 8
CRIT_MAX              == 40

AGE_MAX == 8 * INTERVAL_REF + 1

VARIABLES
  tctx,   \* struct task_ctx, as far as it is about the classification
  age,    \* the ages of started_at, blocked_at, last_woken_at, last_wake_at
  phase,  \* "ready", "running" or "asleep"
  steps   \* number of callbacks so far

vars == <<tctx, age, phase, steps>>

-----------------------------------------------------------------------------
(* Latency criticality                                                     *)

\* Shifts, comparisons and ors on disjoint bits.
log2_u32(v) ==
  LET r16 == IF v > 65535 THEN 16 ELSE 0
      v16 == IF v > 65535 THEN v \div 65536 ELSE v
      r8  == IF v16 > 255 THEN 8 ELSE 0
      v8  == IF v16 > 255 THEN v16 \div 256 ELSE v16
      r4  == IF v8 > 15 THEN 4 ELSE 0
      v4  == IF v8 > 15 THEN v8 \div 16 ELSE v8
      r2  == IF v4 > 3 THEN 2 ELSE 0
      v2  == IF v4 > 3 THEN v4 \div 4 ELSE v4
  IN r16 + r8 + r4 + r2 + v2 \div 2

\* Variant: the result of log2_u64 is used as it is.
ilog2_PlusOne(v) == IF v = 0 THEN 0 ELSE log2_u32(v) + 1

\* log2_u64 is one more than log2_u32 for a value of 32 bits, ilog2 one less.
ilog2(v) == IF v = 0 THEN 0 ELSE log2_u32(v)

clamp_interval(i) ==
  IF i < INTERVAL_MIN THEN INTERVAL_MIN
  ELSE IF i > INTERVAL_REF THEN INTERVAL_REF ELSE i

\* Variant: the sample has twice its weight.
exponentially_weighted_moving_avg_Half(old, sample) == old - old \div 4 + sample \div 2

exponentially_weighted_moving_avg(old, sample) == old - old \div 4 + sample \div 4

\* The interval avg, unless the last event is too long ago for it to be true.
effective_interval(avg, since) ==
  clamp_interval(IF since > avg * 8 THEN since ELSE avg)

calc_crit(x, a) ==
  LET crit == ilog2(INTERVAL_REF \div effective_interval(x.wait_interval, a.woken))
              + ilog2(INTERVAL_REF \div effective_interval(x.wake_interval, a.wake))
  IN IF crit > CRIT_MAX THEN CRIT_MAX ELSE crit

-----------------------------------------------------------------------------
(* Duty                                                                    *)

task_duty(x) == (x.run_acc * 1024) \div (x.run_acc + x.sleep_acc + 1)

AtMost(n, max) == IF n > max THEN max ELSE n

\* Variant: only the run time is halved.
duty_account_HalfRun(x, run, slept) ==
  LET r == x.run_acc + AtMost(run, DUTY_WINDOW)
      s == x.sleep_acc + AtMost(slept, DUTY_WINDOW)
      full == r + s > 2 * DUTY_WINDOW
  IN [x EXCEPT !.run_acc = IF full THEN r \div 2 ELSE r, !.sleep_acc = s]

duty_account(x, run, slept) ==
  LET r == x.run_acc + AtMost(run, DUTY_WINDOW)
      s == x.sleep_acc + AtMost(slept, DUTY_WINDOW)
      full == r + s > 2 * DUTY_WINDOW
  IN [x EXCEPT !.run_acc = IF full THEN r \div 2 ELSE r,
               !.sleep_acc = IF full THEN s \div 2 ELSE s]

\* x with its tier brought up to date, given the ages a.
update_task_dsq_type(x, a) ==
  LET crit == calc_crit(x, a)
  IN [x EXCEPT !.crit = crit,
               !.current_dsq_type =
                  classify(x.current_dsq_type, x.duty_samples, crit, x.duty)]

\* x after duty_account(), task_duty() and update_task_dsq_type().
accounted(x, run, slept, a) ==
  LET y == duty_account(x, run, slept)
  IN update_task_dsq_type([y EXCEPT !.duty = task_duty(y)], a)

-----------------------------------------------------------------------------
(* Callbacks.  Each begins with the passage of d units of time.            *)

Aged(d) == [k \in DOMAIN age |-> AtMost(age[k] + d, AGE_MAX)]

Becomes(x) == tctx' = x /\ steps' = steps + 1

\* lunar_runnable for a wakeup, after lunar_quiescent set blocked_at.
Runnable(d) ==
  LET a == Aged(d)
      wait == exponentially_weighted_moving_avg(tctx.wait_interval, clamp_interval(a.woken))
      samples == AtMost(tctx.duty_samples + 1, DUTY_SAMPLES_MAX)
      x == [tctx EXCEPT !.wait_interval = wait, !.duty_samples = samples]
      b == [a EXCEPT !.woken = 0]
  IN
  /\ phase = "asleep"
  /\ Becomes(accounted(x, 0, a.blocked, b))
  /\ age' = b
  /\ phase' = "ready"

\* lunar_running.
Running(d) ==
  /\ phase = "ready"
  /\ age' = [Aged(d) EXCEPT !.started = 0]
  /\ phase' = "running"
  /\ Becomes(tctx)

\* record_waker, for a wakeup that the task performs.
WakesOther(d) ==
  LET a == Aged(d)
      wake == exponentially_weighted_moving_avg(tctx.wake_interval, clamp_interval(a.wake))
  IN
  /\ phase = "running"
  /\ age' = [a EXCEPT !.wake = 0]
  /\ Becomes([tctx EXCEPT !.wake_interval = wake])
  /\ phase' = phase

\* lunar_dispatch at the end of a slice; the task may go on.
Dispatch(d) ==
  LET a == Aged(d) IN
  /\ phase = "running"
  /\ Becomes(accounted(tctx, a.started, 0, a))
  /\ age' = [a EXCEPT !.started = 0]
  /\ phase' = phase

\* lunar_stopping, and lunar_quiescent if the task goes to sleep.
Stopping(d, runnable) ==
  LET a == Aged(d) IN
  /\ phase = "running"
  /\ Becomes(accounted(tctx, a.started, 0, a))
  /\ age' = IF runnable THEN a ELSE [a EXCEPT !.blocked = 0]
  /\ phase' = IF runnable THEN "ready" ELSE "asleep"

-----------------------------------------------------------------------------

\* Variant: the tier is left zeroed.
init_task_ctx_NoTier ==
  [current_dsq_type |-> 0,
   run_acc |-> DUTY_INIT_RUN, sleep_acc |-> 0, duty_samples |-> 0,
   wait_interval |-> INTERVAL_REF, wake_interval |-> INTERVAL_REF,
   crit |-> 0, duty |-> DUTY_RANGE \div 2]

\* lunar_init_task.
init_task_ctx ==
  LET x == [current_dsq_type |-> GREEDY,
            run_acc |-> DUTY_INIT_RUN, sleep_acc |-> 0, duty_samples |-> 0,
            wait_interval |-> INTERVAL_REF, wake_interval |-> INTERVAL_REF,
            crit |-> 0, duty |-> DUTY_RANGE \div 2]
      run == (KTHREAD_INIT_DUTY_PCT * DUTY_WINDOW) \div 100
      y == [x EXCEPT !.run_acc = run, !.sleep_acc = DUTY_WINDOW - run,
                     !.duty_samples = DUTY_SAMPLES_NEEDED,
                     !.current_dsq_type = INTERACTIVE]
  IN IF Kthread THEN [y EXCEPT !.duty = task_duty(y)] ELSE x

Init ==
  /\ tctx = init_task_ctx
  /\ age = [started |-> 0, blocked |-> 0, woken |-> 0, wake |-> 0]
  /\ phase = "ready"
  /\ steps = 0

Next ==
  /\ steps < MaxSteps
  /\ \E d \in Durations :
       \/ Runnable(d)
       \/ Running(d)
       \/ WakesOther(d)
       \/ Dispatch(d)
       \/ \E runnable \in BOOLEAN : Stopping(d, runnable)

Spec == Init /\ [][Next]_vars

-----------------------------------------------------------------------------
(* Properties                                                              *)

CtxType == [current_dsq_type : Tiers, run_acc : Nat, sleep_acc : Nat,
            duty_samples : 0 .. DUTY_SAMPLES_MAX,
            wait_interval : Nat, wake_interval : Nat, crit : Nat, duty : Nat]

AgeType == [started : 0 .. AGE_MAX, blocked : 0 .. AGE_MAX,
            woken : 0 .. AGE_MAX, wake : 0 .. AGE_MAX]

\* Every variable has its type.
TypeOK ==
  /\ tctx \in CtxType
  /\ age \in AgeType
  /\ phase \in {"ready", "running", "asleep"}
  /\ steps \in Nat

\* The accumulators never hold more than two windows, so that the shift by ten
\* bits cannot overflow, and the duty stays below DUTY_RANGE (duty_account,
\* task_duty).
DutyBounded ==
  /\ tctx.run_acc + tctx.sleep_acc <= 2 * DUTY_WINDOW
  /\ tctx.duty < DUTY_RANGE

\* The averages never leave the range their samples are clamped to, for all the
\* rounding of the shifts: the divisor of calc_crit is never 0 and its ratio
\* never less than 1 (exponentially_weighted_moving_avg, clamp_interval).
IntervalsBounded ==
  /\ tctx.wait_interval \in INTERVAL_MIN .. INTERVAL_REF
  /\ tctx.wake_interval \in INTERVAL_MIN .. INTERVAL_REF

\* The tier is the one the crit score, the duty and the number of samples of the
\* context ask for: no callback changes one of them and leaves the tier as it
\* was (update_task_dsq_type).
TierInBand == InBand(tctx.current_dsq_type, tctx.duty_samples, tctx.crit, tctx.duty)

\* n is the logarithm of v to the base 2, rounded down.
IsLog2(n, v) == 2 ^ n <= v /\ v < 2 ^ (n + 1)

\* The shifts of log2_u32 compute the logarithm of the ratio of every interval
\* that is reached, and the crit score stays between 0 and 32 as README says, so
\* that CRIT_MAX never cuts it off (calc_crit).
CritIsLog2 ==
  /\ \A i \in {tctx.wait_interval, tctx.wake_interval} :
       IsLog2(ilog2(INTERVAL_REF \div i), INTERVAL_REF \div i)
  /\ tctx.crit <= 32

\* "All new tasks start in normal" (lunar_init_task).
NewTasksStartNormal == steps = 0 => tctx.current_dsq_type = NORMAL
=============================================================================
