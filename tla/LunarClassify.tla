--------------------------- MODULE LunarClassify ---------------------------
(***************************************************************************)
(* A task that is classified again and again (update_task_dsq_type), with  *)
(* any duty and any crit score each time: LunarTask models where the two   *)
(* come from.                                                              *)
(***************************************************************************)
EXTENDS LunarTier

CONSTANTS
  Duties,  \* the values the duty takes
  Crits    \* the values the crit score takes

ASSUME InputsAssumption == Duties \subseteq 0 .. DUTY_RANGE - 1 /\ Crits \subseteq Nat

VARIABLES
  tier,     \* tctx->current_dsq_type
  samples,  \* tctx->duty_samples, as far as it counts
  turn      \* history: the direction of the last change of the tier, and the
            \* duty and crit it was made with

vars == <<tier, samples, turn>>

\* lunar_init_task.
Init ==
  /\ tier = IF Kthread THEN INTERACTIVE ELSE GREEDY
  /\ samples = IF Kthread THEN DUTY_SAMPLES_NEEDED ELSE 0
  /\ turn = [way |-> "none", duty |-> 0, crit |-> 0]

\* Variant: the samples are counted without an end.
Update_Uncapped(duty, crit, slept) ==
  /\ samples' = IF slept THEN samples + 1 ELSE samples
  /\ tier' = classify(tier, samples', crit, duty)
  /\ turn' = turn

\* update_task_dsq_type, in lunar_dispatch or lunar_stopping, or in
\* lunar_runnable after a sleep, which is one more sample.
Update(duty, crit, slept) ==
  /\ samples' = IF slept /\ samples < DUTY_SAMPLES_NEEDED THEN samples + 1 ELSE samples
  /\ tier' = classify(tier, samples', crit, duty)
  /\ turn' = IF tier' = tier THEN turn
             ELSE [way |-> IF tier' < tier THEN "up" ELSE "down",
                   duty |-> duty, crit |-> crit]

Next == \E duty \in Duties, crit \in Crits, slept \in BOOLEAN : Update(duty, crit, slept)

Spec == Init /\ [][Next]_vars

-----------------------------------------------------------------------------

\* Every variable has its type.
TypeOK ==
  /\ tier \in Tiers
  /\ samples \in 0 .. DUTY_SAMPLES_NEEDED
  /\ turn \in [way : {"none", "up", "down"}, duty : Nat, crit : Nat]

NoFlappingStep ==
  ~ Kthread /\ turn'.crit = turn.crit =>
    /\ turn.way = "up" /\ turn'.way = "down" => turn'.duty - turn.duty > 2 * DUTY_HYST
    /\ turn.way = "down" /\ turn'.way = "up" => turn.duty - turn'.duty > 2 * DUTY_HYST

\* A task that is not a kernel thread and turns around, from a promotion to a
\* demotion or back, at the same crit score has a duty that moved by more than
\* twice the hysteresis in between, over however many steps: it does not flap
\* between two tiers (update_task_dsq_type).
NoFlapping == [][NoFlappingStep]_vars

PromotionEarnedStep ==
  turn' # turn /\ turn'.way = "up" =>
    \/ Kthread
    \/ /\ samples' >= DUTY_SAMPLES_NEEDED
       /\ tier_cap_from_duty(turn'.duty + DUTY_HYST) <= tier'

\* A task is only promoted above GREEDY with enough samples of its duty, and a
\* promotion never goes above the tier its duty is capped to, the hysteresis
\* counted against it (update_task_dsq_type).
PromotionEarned == [][PromotionEarnedStep]_vars
=============================================================================
