------------------------ MODULE LunarClassifyProofs ------------------------
(***************************************************************************)
(* The tier of a task neither flaps nor is a promotion given away, for     *)
(* every set of duties and crit scores.                                    *)
(***************************************************************************)
EXTENDS LunarClassify, TLAPS

\* The bounds of defines.h as numbers.
LEMMA CapValues ==
  /\ DUTY_CAP_LC = 51 /\ DUTY_CAP_INTERACTIVE = 102 /\ DUTY_CAP_NORMAL = 819
  /\ DUTY_HYST = 10
BY DEF DUTY_CAP_LC, DUTY_CAP_INTERACTIVE, DUTY_CAP_NORMAL, DUTY_HYST, DUTY_RANGE

\* target_tier() yields a tier.
LEMMA TargetTierType ==
  ASSUME NEW crit \in Int, NEW duty \in Int
  PROVE  target_tier(crit, duty) \in Tiers
BY CapValues DEF target_tier, tier_from_crit, tier_cap_from_duty, Tiers, LC, INTERACTIVE,
   NORMAL, GREEDY, CRIT_EDGE_LC, CRIT_EDGE_INTERACTIVE, CRIT_EDGE_NORMAL

\* A higher duty never leads to a better tier.
LEMMA TargetTierMonotone ==
  ASSUME NEW crit \in Int, NEW d \in Int, NEW e \in Int, d <= e
  PROVE  target_tier(crit, d) <= target_tier(crit, e)
BY CapValues DEF target_tier, tier_from_crit, tier_cap_from_duty, LC, INTERACTIVE,
   NORMAL, GREEDY, CRIT_EDGE_LC, CRIT_EDGE_INTERACTIVE, CRIT_EDGE_NORMAL

\* A task is never put above the tier its duty is capped to.
LEMMA TargetTierCapped ==
  ASSUME NEW crit \in Int, NEW d \in Int
  PROVE  tier_cap_from_duty(d) <= target_tier(crit, d)
BY CapValues DEF target_tier, tier_from_crit, tier_cap_from_duty, LC, INTERACTIVE,
   NORMAL, GREEDY, CRIT_EDGE_LC, CRIT_EDGE_INTERACTIVE, CRIT_EDGE_NORMAL

\* The hysteresis leads from a tier to a tier.
LEMMA HysteresisType ==
  ASSUME NEW old \in Tiers, NEW crit \in Int, NEW duty \in Int
  PROVE  hysteresis(old, crit, duty) \in Tiers
<1> DEFINE lo == target_tier(crit, duty - DUTY_HYST)
           hi == target_tier(crit, duty + DUTY_HYST)
<1>1. duty - DUTY_HYST \in Int /\ duty + DUTY_HYST \in Int
  BY CapValues
<1>2. lo \in Tiers /\ hi \in Tiers
  BY <1>1, TargetTierType
<1>3. hysteresis(old, crit, duty) = IF hi < old THEN hi ELSE IF lo > old THEN lo ELSE old
  BY DEF hysteresis
<1> HIDE DEF lo, hi
<1>4. QED
  BY <1>2, <1>3

\* So does a classification.
LEMMA ClassifyType ==
  ASSUME NEW old \in Tiers, NEW n \in Nat, NEW crit \in Int, NEW duty \in Int
  PROVE  classify(old, n, crit, duty) \in Tiers
<1>1. hysteresis(old, crit, duty) \in Tiers
  BY HysteresisType
<1>2. GREEDY \in Tiers /\ INTERACTIVE \in Tiers
  BY DEF Tiers, LC, INTERACTIVE, GREEDY
<1>3. QED
  BY <1>1, <1>2 DEF classify

\* A tier that was reached by a promotion is the one its duty asks for with the
\* hysteresis against it, one that was reached by a demotion the one with the
\* hysteresis in its favour, and the last change left the samples complete.
TurnExplained ==
  /\ turn.way = "up" =>
       /\ samples >= DUTY_SAMPLES_NEEDED
       /\ tier = target_tier(turn.crit, turn.duty + DUTY_HYST)
  /\ turn.way = "down" =>
       /\ samples >= DUTY_SAMPLES_NEEDED
       /\ tier = target_tier(turn.crit, turn.duty - DUTY_HYST)

\* Before the samples are complete the task is GREEDY.
GreedyUntilSampled == samples < DUTY_SAMPLES_NEEDED => tier = GREEDY

IInv == TypeOK /\ (~ Kthread => GreedyUntilSampled /\ TurnExplained)

\* What one classification does to a task that is not a kernel thread.
LEMMA UpdateStep ==
  ASSUME TypeOK, GreedyUntilSampled, ~ Kthread,
         NEW duty \in Duties, NEW crit \in Crits, NEW slept \in BOOLEAN,
         Update(duty, crit, slept)
  PROVE  /\ samples' >= samples
         /\ samples' < DUTY_SAMPLES_NEEDED => tier' = GREEDY
         /\ tier' < tier => /\ samples' >= DUTY_SAMPLES_NEEDED
                            /\ tier' = target_tier(crit, duty + DUTY_HYST)
         /\ tier' > tier => /\ samples' >= DUTY_SAMPLES_NEEDED
                            /\ tier' = target_tier(crit, duty - DUTY_HYST)
<1> DEFINE h == hysteresis(tier, crit, duty)
<1>1. duty \in Int /\ crit \in Int
  BY InputsAssumption DEF DUTY_RANGE
<1>2. h \in Tiers
  BY <1>1, HysteresisType DEF TypeOK
<1>3. tier' = IF samples' < DUTY_SAMPLES_NEEDED THEN GREEDY ELSE h
  BY DEF Update, classify
<1>4. samples' >= samples /\ samples' \in Nat
  BY DEF Update, TypeOK, DUTY_SAMPLES_NEEDED
<1>5. /\ h < tier => h = target_tier(crit, duty + DUTY_HYST)
      /\ h > tier => h = target_tier(crit, duty - DUTY_HYST)
  <2> DEFINE lo == target_tier(crit, duty - DUTY_HYST)
             hi == target_tier(crit, duty + DUTY_HYST)
  <2>1. h = IF hi < tier THEN hi ELSE IF lo > tier THEN lo ELSE tier
    BY DEF hysteresis
  <2>2. lo \in Tiers /\ hi \in Tiers
    BY <1>1, CapValues, TargetTierType
  <2> HIDE DEF lo, hi, h
  <2>3. QED
    BY <2>1, <2>2 DEF TypeOK, Tiers, LC, GREEDY, lo, hi
<1> HIDE DEF h
<1>6. samples' < DUTY_SAMPLES_NEEDED => tier' = GREEDY /\ tier = GREEDY
  BY <1>3, <1>4 DEF GreedyUntilSampled, TypeOK, DUTY_SAMPLES_NEEDED
<1>7. ~ (GREEDY < GREEDY)
  BY DEF GREEDY
<1>8. tier' # tier => samples' >= DUTY_SAMPLES_NEEDED /\ tier' = h
  BY <1>3, <1>4, <1>6 DEF DUTY_SAMPLES_NEEDED
<1>9. tier \in Int /\ h \in Int
  BY <1>2 DEF TypeOK, Tiers, LC, GREEDY
<1>10. QED
  BY <1>4, <1>5, <1>6, <1>8, <1>9

\* A new task satisfies the inductive invariant (lunar_init_task).
LEMMA InitIInv == Init => IInv
<1> SUFFICES ASSUME Init PROVE IInv
  OBVIOUS
<1>1. TypeOK
  BY DEF Init, TypeOK, Tiers, LC, INTERACTIVE, GREEDY, DUTY_SAMPLES_NEEDED
<1>2. turn.way = "none"
  BY DEF Init
<1>3. ~ Kthread => GreedyUntilSampled
  BY DEF Init, GreedyUntilSampled
<1>4. QED
  BY <1>1, <1>2, <1>3 DEF IInv, TurnExplained

\* Every classification preserves it (update_task_dsq_type).
LEMMA NextIInv == IInv /\ [Next]_vars => IInv'
<1> SUFFICES ASSUME IInv, [Next]_vars PROVE IInv'
  OBVIOUS
<1>1. CASE UNCHANGED vars
  BY <1>1 DEF vars, IInv, TypeOK, GreedyUntilSampled, TurnExplained
<1>2. ASSUME NEW duty \in Duties, NEW crit \in Crits, NEW slept \in BOOLEAN,
             Update(duty, crit, slept)
      PROVE  IInv'
  <2>1. duty \in Nat /\ crit \in Nat
    BY InputsAssumption DEF DUTY_RANGE
  <2>2. samples' \in 0 .. DUTY_SAMPLES_NEEDED
    BY <1>2 DEF IInv, TypeOK, Update, DUTY_SAMPLES_NEEDED
  <2>3. tier' \in Tiers
    BY <1>2, <2>1, <2>2, ClassifyType DEF IInv, TypeOK, Update
  <2>4. turn' \in [way : {"none", "up", "down"}, duty : Nat, crit : Nat]
    BY <1>2, <2>1 DEF IInv, TypeOK, Update
  <2>5. ASSUME ~ Kthread PROVE GreedyUntilSampled' /\ TurnExplained'
    <3>1. TypeOK /\ GreedyUntilSampled /\ TurnExplained
      BY <2>5 DEF IInv
    <3>2. /\ samples' >= samples
          /\ samples' < DUTY_SAMPLES_NEEDED => tier' = GREEDY
          /\ tier' < tier => /\ samples' >= DUTY_SAMPLES_NEEDED
                             /\ tier' = target_tier(crit, duty + DUTY_HYST)
          /\ tier' > tier => /\ samples' >= DUTY_SAMPLES_NEEDED
                             /\ tier' = target_tier(crit, duty - DUTY_HYST)
      BY <1>2, <2>5, <3>1, UpdateStep
    <3>3. GreedyUntilSampled'
      BY <3>2 DEF GreedyUntilSampled
    <3>4. tier \in Int /\ tier' \in Int
      BY <3>1, <2>3 DEF TypeOK, Tiers, LC, GREEDY
    <3>5. CASE tier' = tier
      <4>1. turn' = turn
        BY <1>2, <3>5 DEF Update
      <4>2. samples >= DUTY_SAMPLES_NEEDED => samples' >= DUTY_SAMPLES_NEEDED
        BY <3>1, <3>2, <2>2 DEF TypeOK, DUTY_SAMPLES_NEEDED
      <4>3. TurnExplained'
        BY <3>1, <3>5, <4>1, <4>2 DEF TurnExplained
      <4>4. QED
        BY <3>3, <4>3
    <3>6. CASE tier' < tier
      <4>1. turn' = [way |-> "up", duty |-> duty, crit |-> crit]
        BY <1>2, <3>4, <3>6 DEF Update
      <4>2. TurnExplained'
        BY <3>2, <3>6, <4>1 DEF TurnExplained
      <4>3. QED
        BY <3>3, <4>2
    <3>7. CASE tier' > tier
      <4>1. turn' = [way |-> "down", duty |-> duty, crit |-> crit]
        BY <1>2, <3>4, <3>7 DEF Update
      <4>2. TurnExplained'
        BY <3>2, <3>7, <4>1 DEF TurnExplained
      <4>3. QED
        BY <3>3, <4>2
    <3>8. QED
      BY <3>4, <3>5, <3>6, <3>7
  <2>6. QED
    BY <2>2, <2>3, <2>4, <2>5 DEF IInv, TypeOK
<1>3. QED
  BY <1>1, <1>2 DEF Next

\* The inductive invariant of the classification.
THEOREM ClassifyInvariant == Spec => []IInv
BY InitIInv, NextIInv, PTL DEF Spec

\* Every variable keeps its type, whatever the duty and crit scores are.
THEOREM ClassifyTypeOK == Spec => []TypeOK
<1>1. IInv => TypeOK
  BY DEF IInv
<1>2. QED
  BY <1>1, ClassifyInvariant, PTL

\* No single classification turns a task around without a move of its duty.
LEMMA NoFlappingByStep == IInv /\ [Next]_vars => [NoFlappingStep]_vars
<1> SUFFICES ASSUME IInv, Next, ~ Kthread, turn'.crit = turn.crit
             PROVE  /\ turn.way = "up" /\ turn'.way = "down"
                         => turn'.duty - turn.duty > 2 * DUTY_HYST
                    /\ turn.way = "down" /\ turn'.way = "up"
                         => turn.duty - turn'.duty > 2 * DUTY_HYST
  BY DEF NoFlappingStep
<1>1. PICK duty \in Duties, crit \in Crits, slept \in BOOLEAN : Update(duty, crit, slept)
  BY DEF Next
<1>2. TypeOK /\ GreedyUntilSampled /\ TurnExplained
  BY DEF IInv
<1>3. duty \in Nat /\ crit \in Nat /\ turn.duty \in Nat /\ turn.crit \in Nat
  BY <1>2, InputsAssumption DEF TypeOK, DUTY_RANGE
<1>4. /\ tier' < tier => tier' = target_tier(crit, duty + DUTY_HYST)
      /\ tier' > tier => tier' = target_tier(crit, duty - DUTY_HYST)
  BY <1>1, <1>2, UpdateStep
<1>5. tier' = tier => turn' = turn
  BY <1>1 DEF Update
<1>6. tier \in Int /\ tier' \in Int
  <2>1. IInv'
    BY NextIInv
  <2>2. QED
    BY <1>2, <2>1 DEF IInv, TypeOK, Tiers, LC, GREEDY
<1>7. ASSUME turn.way = "up", turn'.way = "down"
      PROVE  turn'.duty - turn.duty > 2 * DUTY_HYST
  <2>1. tier' # tier
    BY <1>5, <1>7
  <2>2. turn' = [way |-> IF tier' < tier THEN "up" ELSE "down", duty |-> duty, crit |-> crit]
    BY <1>1, <2>1 DEF Update
  <2>3. tier' > tier
    BY <1>6, <1>7, <2>1, <2>2
  <2>4. tier' = target_tier(turn.crit, duty - DUTY_HYST)
    BY <1>4, <2>2, <2>3
  <2>5. tier = target_tier(turn.crit, turn.duty + DUTY_HYST)
    BY <1>2, <1>7 DEF TurnExplained
  <2>6. duty - DUTY_HYST \in Int /\ turn.duty + DUTY_HYST \in Int
    BY <1>3, CapValues
  <2>7. ~ (duty - DUTY_HYST <= turn.duty + DUTY_HYST)
    <3>1. SUFFICES ASSUME duty - DUTY_HYST <= turn.duty + DUTY_HYST PROVE FALSE
      OBVIOUS
    <3>2. tier' <= tier
      BY <1>3, <2>4, <2>5, <2>6, <3>1, TargetTierMonotone
    <3>3. QED
      BY <1>6, <2>3, <3>2
  <2>8. turn'.duty = duty
    BY <2>2
  <2>9. QED
    BY <1>3, <2>7, <2>8, CapValues
<1>8. ASSUME turn.way = "down", turn'.way = "up"
      PROVE  turn.duty - turn'.duty > 2 * DUTY_HYST
  <2>1. tier' # tier
    BY <1>5, <1>8
  <2>2. turn' = [way |-> IF tier' < tier THEN "up" ELSE "down", duty |-> duty, crit |-> crit]
    BY <1>1, <2>1 DEF Update
  <2>3. tier' < tier
    BY <1>6, <1>8, <2>1, <2>2
  <2>4. tier' = target_tier(turn.crit, duty + DUTY_HYST)
    BY <1>4, <2>2, <2>3
  <2>5. tier = target_tier(turn.crit, turn.duty - DUTY_HYST)
    BY <1>2, <1>8 DEF TurnExplained
  <2>6. duty + DUTY_HYST \in Int /\ turn.duty - DUTY_HYST \in Int
    BY <1>3, CapValues
  <2>7. ~ (turn.duty - DUTY_HYST <= duty + DUTY_HYST)
    <3>1. SUFFICES ASSUME turn.duty - DUTY_HYST <= duty + DUTY_HYST PROVE FALSE
      OBVIOUS
    <3>2. tier <= tier'
      BY <1>3, <2>4, <2>5, <2>6, <3>1, TargetTierMonotone
    <3>3. QED
      BY <1>6, <2>3, <3>2
  <2>8. turn'.duty = duty
    BY <2>2
  <2>9. QED
    BY <1>3, <2>7, <2>8, CapValues
<1>9. QED
  BY <1>7, <1>8

\* A task that turns around at the same crit score has moved its duty by more
\* than twice the hysteresis since its last change of tier.
THEOREM TierDoesNotFlap == Spec => NoFlapping
<1>1. Spec => [][NoFlappingStep]_vars
  BY ClassifyInvariant, NoFlappingByStep, PTL DEF Spec
<1>2. QED
  BY <1>1 DEF NoFlapping

\* No single classification gives a promotion away.
LEMMA PromotionEarnedByStep == IInv /\ [Next]_vars => [PromotionEarnedStep]_vars
<1> SUFFICES ASSUME IInv, Next, turn' # turn, turn'.way = "up", ~ Kthread
             PROVE  /\ samples' >= DUTY_SAMPLES_NEEDED
                    /\ tier_cap_from_duty(turn'.duty + DUTY_HYST) <= tier'
  BY DEF PromotionEarnedStep
<1>1. IInv'
  BY NextIInv
<1>2. TypeOK' /\ TurnExplained'
  BY <1>1 DEF IInv
<1>3. samples' >= DUTY_SAMPLES_NEEDED /\ tier' = target_tier(turn'.crit, turn'.duty + DUTY_HYST)
  BY <1>2 DEF TurnExplained
<1>4. turn'.crit \in Int /\ turn'.duty + DUTY_HYST \in Int
  BY <1>2, CapValues DEF TypeOK
<1>5. QED
  BY <1>3, <1>4, TargetTierCapped

\* A promotion above GREEDY takes enough samples, and stays below the cap of
\* the duty with the hysteresis against it.
THEOREM PromotionsAreEarned == Spec => PromotionEarned
<1>1. Spec => [][PromotionEarnedStep]_vars
  BY ClassifyInvariant, PromotionEarnedByStep, PTL DEF Spec
<1>2. QED
  BY <1>1 DEF PromotionEarned
=============================================================================
