----------------------------- MODULE LunarTier -----------------------------
(***************************************************************************)
(* The tier a task belongs to, as a function of its duty, its crit score   *)
(* and the tier it is in: the operators behind update_task_dsq_type() of   *)
(* source/lunar.bpf.c.                                                     *)
(***************************************************************************)
EXTENDS Integers

CONSTANT Kthread  \* the task is a kernel thread (PF_KTHREAD)

ASSUME KthreadAssumption == Kthread \in BOOLEAN

LC          == 1
INTERACTIVE == 2
NORMAL      == 3
GREEDY      == 4
Tiers       == LC .. GREEDY

DUTY_RANGE           == 1024
DUTY_CAP_LC          == (5 * DUTY_RANGE) \div 100
DUTY_CAP_INTERACTIVE == (10 * DUTY_RANGE) \div 100
DUTY_CAP_NORMAL      == (80 * DUTY_RANGE) \div 100
DUTY_HYST            == DUTY_RANGE \div 100
DUTY_SAMPLES_NEEDED  == 3

CRIT_EDGE_LC          == 5
CRIT_EDGE_INTERACTIVE == 3
CRIT_EDGE_NORMAL      == 1

-----------------------------------------------------------------------------
(* Tiers                                                                   *)

tier_from_crit(crit) ==
  IF crit >= CRIT_EDGE_LC THEN LC
  ELSE IF crit >= CRIT_EDGE_INTERACTIVE THEN INTERACTIVE
  ELSE IF crit >= CRIT_EDGE_NORMAL THEN NORMAL
  ELSE GREEDY

tier_cap_from_duty(duty) ==
  IF duty < DUTY_CAP_LC THEN LC
  ELSE IF duty < DUTY_CAP_INTERACTIVE THEN INTERACTIVE
  ELSE IF duty < DUTY_CAP_NORMAL THEN NORMAL
  ELSE GREEDY

target_tier(crit, duty) ==
  LET wanted == tier_from_crit(crit)
      allowed == tier_cap_from_duty(duty)
  IN IF wanted > allowed THEN wanted ELSE allowed

\* Variant: a task is demoted without the hysteresis.
hysteresis_OneSided(old, crit, duty) ==
  LET pessimistic == target_tier(crit, duty + DUTY_HYST)
      optimistic == target_tier(crit, duty)
  IN IF pessimistic < old THEN pessimistic
     ELSE IF optimistic > old THEN optimistic ELSE old

\* Variant: a task is promoted without the hysteresis.
hysteresis_Eager(old, crit, duty) ==
  LET pessimistic == target_tier(crit, duty)
      optimistic == target_tier(crit, duty - DUTY_HYST)
  IN IF pessimistic < old THEN pessimistic
     ELSE IF optimistic > old THEN optimistic ELSE old

\* The tier of a task that is in tier old, as its duty and crit ask for.
hysteresis(old, crit, duty) ==
  LET pessimistic == target_tier(crit, duty + DUTY_HYST)
      optimistic == target_tier(crit, duty - DUTY_HYST)
  IN IF pessimistic < old THEN pessimistic
     ELSE IF optimistic > old THEN optimistic ELSE old

\* Variant: kernel threads are classified like every other task.
classify_NoFloor(old, samples, crit, duty) ==
  IF samples < DUTY_SAMPLES_NEEDED THEN GREEDY ELSE hysteresis(old, crit, duty)

\* update_task_dsq_type() of a task in tier old with so many duty samples.
classify(old, samples, crit, duty) ==
  LET tier == IF samples < DUTY_SAMPLES_NEEDED THEN GREEDY
              ELSE hysteresis(old, crit, duty)
  IN IF Kthread /\ duty < DUTY_CAP_INTERACTIVE /\ tier > INTERACTIVE
     THEN INTERACTIVE ELSE tier

\* The tier is one a task with this crit and duty may have: with enough samples
\* it lies between the one the duty asks for with the hysteresis in its favour
\* and the one with the hysteresis against it, without it is GREEDY; and a
\* kernel thread with a low duty is at least INTERACTIVE.
InBand(tier, samples, crit, duty) ==
  IF Kthread /\ duty < DUTY_CAP_INTERACTIVE /\ tier >= INTERACTIVE
  THEN tier = INTERACTIVE
  ELSE IF samples < DUTY_SAMPLES_NEEDED THEN tier = GREEDY
  ELSE /\ target_tier(crit, duty - DUTY_HYST) <= tier
       /\ tier <= target_tier(crit, duty + DUTY_HYST)
=============================================================================
