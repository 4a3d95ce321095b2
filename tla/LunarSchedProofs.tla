-------------------------- MODULE LunarSchedProofs --------------------------
(***************************************************************************)
(* Invariants of the scheduling core, for every number of cpus, tasks and  *)
(* caches: first the types and what holds at each program counter (Inv),   *)
(* then where the tasks are (Places), which tier runs where (TierInv) and  *)
(* that a cpu without work is told of tasks that wait for it (WakeInv).    *)
(***************************************************************************)
EXTENDS LunarSched, FiniteSetTheorems, SequenceTheorems, WellFoundedInduction, TLAPS

\* Where a program counter stands tells what is there to work on: a cpu that
\* puts its task back has one, a cpu that switches to a sched_ext task has it in
\* its local DSQ, and an enqueue past its placement has an online target.
PcInv ==
  /\ \A c \in CPUs : sched[c] = "put" => curr[c] \in Tasks
  /\ \A c \in CPUs : sched[c] \in {"put", "switch"} /\ next[c] \in Tasks => local[c] # <<>>
  /\ \A t \in Tasks : HoldsRq(t) => enq[t].cpu \in Online /\ enq[t].tier \in Tiers

\* Nothing leads to an offline cpu.
OnlineInv ==
  /\ idle \subseteq Online
  /\ \A t \in Tasks : task_cpu[t] \in Online

Inv == TypeOK /\ PcInv /\ OnlineInv

USE DEF LC, INTERACTIVE, NORMAL, GREEDY, EMPTY, Tiers

-----------------------------------------------------------------------------
(* Contexts                                                                *)

\* A task runs in a tier.
LEMMA EffectiveTier ==
  ASSUME NEW x \in CtxType
  PROVE  effective_tier(x) \in Tiers
BY DEF effective_tier, CtxType

\* A wakeup leaves a task a context, and the rest of its slice as it was.
LEMMA WakeBoost ==
  ASSUME TypeOK, NEW t, NEW x \in CtxType, NEW w \in Tasks \cup {NoTask}
  PROVE  /\ apply_wake_boost(t, x, w) \in CtxType
         /\ apply_wake_boost(t, x, w).resume_slice = x.resume_slice
<1>1. CASE w = NoTask
  BY <1>1 DEF apply_wake_boost
<1>2. CASE w \in Tasks
  <2>1. effective_tier(tctx[w]) \in Tiers
    BY <1>2, EffectiveTier DEF TypeOK, CtxTypeOK, QueueTypeOK
  <2>2. QED
    BY <2>1 DEF apply_wake_boost, CtxType
<1>3. QED
  BY <1>1, <1>2

\* A new task has a context, without a slice to resume.
LEMMA InitTaskCtx ==
  ASSUME NEW t
  PROVE  init_task_ctx(t) \in CtxType /\ ~ init_task_ctx(t).resume_slice
BY DEF init_task_ctx, CtxType

\* What the other steps make of a context is one.
LEMMA CtxSteps ==
  ASSUME NEW x \in CtxType, NEW k \in Tiers
  PROVE  /\ Reclassified(x, k) \in CtxType
         /\ Reclassified(x, k).resume_slice = x.resume_slice
         /\ Unboosted(x) \in CtxType
         /\ Unboosted(x).resume_slice = x.resume_slice
         /\ quiescent_ctx(x) \in CtxType
         /\ ~ quiescent_ctx(x).resume_slice
         /\ [x EXCEPT !.resume_slice = FALSE] \in CtxType
BY DEF Reclassified, Unboosted, quiescent_ctx, CtxType

\* lunar_stopping gives back a slice only after it was taken away.
LEMMA StoppingCtx ==
  ASSUME NEW x \in CtxType, NEW k \in Tiers, NEW runnable \in BOOLEAN,
         NEW pending \in BOOLEAN, NEW zero \in BOOLEAN, NEW left \in BOOLEAN,
         NEW spent \in BOOLEAN
  PROVE  LET y == stopping_ctx(x, runnable, pending, zero, left, k, spent)
         IN  y \in CtxType /\ (y.resume_slice => x.resume_slice \/ zero)
<1> DEFINE r == Reclassified(x, k)
           z == IF pending /\ runnable /\ zero /\ left
                THEN [r EXCEPT !.resume_slice = TRUE] ELSE r
<1>1. r \in CtxType /\ r.resume_slice = x.resume_slice
  BY CtxSteps
<1>2. z \in CtxType /\ (z.resume_slice => x.resume_slice \/ zero)
  BY <1>1 DEF CtxType
<1>3. Unboosted(z) \in CtxType /\ Unboosted(z).resume_slice = z.resume_slice
  BY <1>2, CtxSteps
<1>4. stopping_ctx(x, runnable, pending, zero, left, k, spent)
        = IF ~ z.resume_slice /\ (~ runnable \/ spent) THEN Unboosted(z) ELSE z
  BY DEF stopping_ctx
<1> HIDE DEF z
<1>5. QED
  BY <1>2, <1>3, <1>4

\* The boost of a context ends.
LEMMA UnboostedCtx ==
  ASSUME NEW x \in CtxType
  PROVE  Unboosted(x) \in CtxType /\ Unboosted(x).resume_slice = x.resume_slice
BY DEF Unboosted, CtxType

\* A task begins to run, or goes on.
LEMMA RunningCpu ==
  ASSUME NEW d \in CpuCtxType, NEW x \in CtxType
  PROVE  running_cpu(d, x) \in CpuCtxType /\ running_cpu(d, x).rt_busy = d.rt_busy
<1>1. effective_tier(x) \in Tiers
  BY EffectiveTier
<1>2. QED
  BY <1>1 DEF running_cpu, CpuCtxType

\* What else is done to the context of a cpu leaves it one.
LEMMA CpuCtxSteps ==
  ASSUME NEW d \in CpuCtxType, NEW b \in BOOLEAN
  PROVE  /\ stopping_cpu(d) \in CpuCtxType /\ stopping_cpu(d).rt_busy = d.rt_busy
         /\ [d EXCEPT !.preempt_pending = b] \in CpuCtxType
         /\ [d EXCEPT !.preempt_pending = b].rt_busy = d.rt_busy
         /\ [d EXCEPT !.rt_busy = b] \in CpuCtxType
         /\ [d EXCEPT !.rt_busy = b].rt_busy = b
BY DEF stopping_cpu, CpuCtxType

-----------------------------------------------------------------------------
(* Placement                                                               *)

\* The cpus a wakeup may choose are online.
LEMMA SelectCpu ==
  ASSUME Inv, NEW t \in Tasks, NEW s \in select_cpu_dfl(t)
  PROVE  s.cpu \in Online
BY DEF Inv, OnlineInv, select_cpu_dfl

-----------------------------------------------------------------------------
(* Queues                                                                  *)

\* A queue without one of its tasks is a queue.
LEMMA WithoutType ==
  ASSUME NEW S, NEW s \in Seq(S), NEW i \in 1 .. Len(s)
  PROVE  Without(s, i) \in Seq(S)
BY SubSeqProperties, ConcatProperties DEF Without

\* The queue of a tier.
LEMMA QueueOf ==
  ASSUME QueueTypeOK, NEW c \in CPUs, NEW k \in Tiers
  PROVE  dsq[c][k] \in Seq(Tasks)
BY DEF QueueTypeOK

\* Another queue in its place.
LEMMA QueueUpdate ==
  ASSUME QueueTypeOK, NEW c \in CPUs, NEW k \in Tiers, NEW q \in Seq(Tasks)
  PROVE  [dsq EXCEPT ![c][k] = q] \in [CPUs -> [Tiers -> Seq(Tasks)]]
BY DEF QueueTypeOK

\* A set of natural numbers has a least element.
LEMMA LeastOf ==
  ASSUME NEW S, S \subseteq Nat, S # {}
  PROVE  \E i \in S : \A j \in S : i <= j
<1>1. PICK i \in S : \A j \in S : ~ (<<j, i>> \in OpToRel(<, Nat))
  BY NatLessThanWellFounded, WFMin
<1>2. \A j \in S : ~ (j < i)
  BY <1>1, Zenon DEF OpToRel
<1>3. QED
  BY <1>2

\* A kernel move finds the first task that may run on c.
LEMMA FirstForExists ==
  ASSUME TypeOK, NEW c \in CPUs, NEW o \in CPUs, NEW k \in Tiers, Takeable(o, k, c)
  PROVE  /\ FirstFor(o, k, c) \in 1 .. Len(dsq[o][k])
         /\ dsq[o][k][FirstFor(o, k, c)] \in Tasks
         /\ c \in Allowed[dsq[o][k][FirstFor(o, k, c)]]
<1> DEFINE q == dsq[o][k]
           fit == {i \in 1 .. Len(q) : c \in Allowed[q[i]]}
<1>1. q \in Seq(Tasks) /\ Len(q) \in Nat
  BY DEF TypeOK, CtxTypeOK, QueueTypeOK
<1>2. fit \subseteq Nat /\ fit # {}
  BY <1>1 DEF Takeable
<1>3. PICK i \in fit : \A j \in fit : i <= j
  BY <1>2, LeastOf
<1>4. \A j \in 1 .. i - 1 : c \notin Allowed[q[j]]
  BY <1>1, <1>2, <1>3
<1>5. \E m \in 1 .. Len(q) : /\ c \in Allowed[q[m]]
                             /\ \A j \in 1 .. m - 1 : c \notin Allowed[q[j]]
  BY <1>3, <1>4
<1>6. FirstFor(o, k, c) \in 1 .. Len(q) /\ c \in Allowed[q[FirstFor(o, k, c)]]
  BY <1>5 DEF FirstFor
<1>7. QED
  BY <1>1, <1>6

\* A function on 1 .. n is a sequence.
LEMMA FunctionIsSeq ==
  ASSUME NEW S, NEW n \in Nat, NEW f \in [1 .. n -> S]
  PROVE  f \in Seq(S)
BY SeqDef, Zenon

\* The attempts that can be made for cpu c: each looks at queues that hold a
\* task for it.
AttemptsFor(c) ==
  {r \in [tier : Tiers, from : SUBSET CPUs] : \A o \in r.from : Takeable(o, r.tier, c)}

\* The parts of the plan of dispatch_dsq_per_cpu: the LC tier, the override, the
\* better tiers of the LLC, a tier of its own, and the steal.
PlanFirst(c) == <<try_acquire_from_rt_cpu(LC, c), take_from_local_tier(LC, c)>>

PlanOver(c, starved) ==
  IF starved = EMPTY THEN <<>> ELSE <<take_from_local_tier(starved, c)>>

PlanStrict(c, best) ==
  IF best = EMPTY THEN <<>> ELSE [k \in 1 .. best - 1 |-> take_from_other_tier(k, c, TRUE)]

PlanServe(c, prev_tier, k) ==
  IF ~ looks_at(prev_tier, k) THEN <<>>
  ELSE <<try_acquire_from_rt_cpu(k, c), take_from_local_tier(k, c)>>

PlanSteal(c, prev_tier) ==
  IF prev_tier <= GREEDY THEN <<>>
  ELSE [k \in Tiers |-> take_from_other_tier(k, c, TRUE)]
       \o [k \in Tiers |-> take_from_other_tier(k, c, FALSE)]

\* The plan is made of these parts, and every attempt is of that kind.
LEMMA AttemptsParts ==
  ASSUME NEW c \in CPUs, NEW prev_tier \in Tiers \cup {EMPTY},
         NEW starved \in Tiers \cup {EMPTY}
  PROVE  /\ PlanFirst(c) \in Seq(AttemptsFor(c))
         /\ PlanOver(c, starved) \in Seq(AttemptsFor(c))
         /\ PlanStrict(c, local_best(c, prev_tier)) \in Seq(AttemptsFor(c))
         /\ \A k \in Tiers : PlanServe(c, prev_tier, k) \in Seq(AttemptsFor(c))
         /\ PlanSteal(c, prev_tier) \in Seq(AttemptsFor(c))
         /\ Attempts(c, prev_tier, starved)
              = PlanFirst(c) \o PlanOver(c, starved) \o PlanStrict(c, local_best(c, prev_tier))
                \o PlanServe(c, prev_tier, INTERACTIVE) \o PlanServe(c, prev_tier, NORMAL)
                \o PlanServe(c, prev_tier, GREEDY) \o PlanSteal(c, prev_tier)
<1> DEFINE A == AttemptsFor(c)
           best == local_best(c, prev_tier)
           Steal(thisLLC) == [k \in Tiers |-> take_from_other_tier(k, c, thisLLC)]
<1>1. \A k \in Tiers : take_from_local_tier(k, c) \in A
  BY DEF take_from_local_tier, AttemptsFor
<1>2. \A k \in Tiers, l \in BOOLEAN : take_from_other_tier(k, c, l) \in A
  BY DEF take_from_other_tier, AttemptsFor
<1>3. \A k \in Tiers : try_acquire_from_rt_cpu(k, c) \in A
  BY DEF try_acquire_from_rt_cpu, AttemptsFor, Peers
<1> HIDE DEF A
<1>4. PlanFirst(c) \in Seq(A)
  BY <1>1, <1>3 DEF PlanFirst
<1>5. PlanOver(c, starved) \in Seq(A)
  BY <1>1 DEF PlanOver
<1>6. PlanStrict(c, best) \in Seq(A)
  <2>1. best \in 1 .. 5
    BY DEF local_best
  <2> HIDE DEF best
  <2>2. best - 1 \in Nat /\ \A k \in 1 .. best - 1 : take_from_other_tier(k, c, TRUE) \in A
    <3>1. best - 1 \in Nat /\ \A k \in 1 .. best - 1 : k \in Tiers
      BY <2>1
    <3>2. QED
      BY <1>2, <3>1
  <2>3. CASE best = EMPTY
    BY <2>3 DEF PlanStrict
  <2>4. CASE best # EMPTY
    <3> DEFINE n == best - 1
    <3>1. n \in Nat /\ \A k \in 1 .. n : take_from_other_tier(k, c, TRUE) \in A
      BY <2>2
    <3> HIDE DEF n
    <3>2. [k \in 1 .. n |-> take_from_other_tier(k, c, TRUE)] \in Seq(A)
      BY <3>1, FunctionIsSeq
    <3>3. QED
      BY <2>4, <3>2 DEF n, PlanStrict
  <2>5. QED
    BY <2>3, <2>4
<1>7. \A k \in Tiers : PlanServe(c, prev_tier, k) \in Seq(A)
  BY <1>1, <1>3 DEF PlanServe
<1>8. \A l \in BOOLEAN : Steal(l) \in Seq(A)
  <2>1. \A l \in BOOLEAN : Steal(l) \in [1 .. 4 -> A]
    BY <1>2
  <2>2. QED
    BY <2>1, FunctionIsSeq
<1>9. PlanSteal(c, prev_tier) \in Seq(A)
  <2>1. Steal(TRUE) \in Seq(A) /\ Steal(FALSE) \in Seq(A)
    BY <1>8
  <2>2. PlanSteal(c, prev_tier) = IF prev_tier <= GREEDY THEN <<>> ELSE Steal(TRUE) \o Steal(FALSE)
    BY DEF PlanSteal
  <2> HIDE DEF Steal
  <2>3. Steal(TRUE) \o Steal(FALSE) \in Seq(A)
    BY <2>1, ConcatProperties
  <2>4. QED
    BY <2>2, <2>3, EmptySeq, Zenon
<1>10. Attempts(c, prev_tier, starved)
         = PlanFirst(c) \o PlanOver(c, starved) \o PlanStrict(c, best)
           \o PlanServe(c, prev_tier, INTERACTIVE) \o PlanServe(c, prev_tier, NORMAL)
           \o PlanServe(c, prev_tier, GREEDY) \o PlanSteal(c, prev_tier)
  BY DEF Attempts, PlanFirst, PlanOver, PlanStrict, PlanServe, PlanSteal
<1>11. QED
  BY <1>4, <1>5, <1>6, <1>7, <1>9, <1>10 DEF A

\* Every attempt of dispatch_dsq_per_cpu is of that kind.
LEMMA AttemptsType ==
  ASSUME NEW c \in CPUs, NEW prev_tier \in Tiers \cup {EMPTY},
         NEW starved \in Tiers \cup {EMPTY}
  PROVE  Attempts(c, prev_tier, starved) \in Seq(AttemptsFor(c))
<1> DEFINE A == AttemptsFor(c)
           strict == PlanStrict(c, local_best(c, prev_tier))
<1>1. /\ PlanFirst(c) \in Seq(A) /\ PlanOver(c, starved) \in Seq(A) /\ strict \in Seq(A)
      /\ \A k \in Tiers : PlanServe(c, prev_tier, k) \in Seq(A)
      /\ PlanSteal(c, prev_tier) \in Seq(A)
      /\ Attempts(c, prev_tier, starved)
           = PlanFirst(c) \o PlanOver(c, starved) \o strict
             \o PlanServe(c, prev_tier, INTERACTIVE) \o PlanServe(c, prev_tier, NORMAL)
             \o PlanServe(c, prev_tier, GREEDY) \o PlanSteal(c, prev_tier)
  BY AttemptsParts, Zenon
<1> HIDE DEF A, strict
<1>2. Attempts(c, prev_tier, starved) \in Seq(A)
  BY <1>1
<1>3. QED
  BY <1>2 DEF A

\* What a dispatch finds is a queue with a task for c.
LEMMA DispatchFinds ==
  ASSUME NEW c \in CPUs, NEW prev_tier \in Tiers \cup {EMPTY},
         NEW starved \in Tiers \cup {EMPTY},
         NEW r \in dispatch_dsq_per_cpu(c, prev_tier, starved)
  PROVE  r.tier \in Tiers /\ r.from \in CPUs /\ Takeable(r.from, r.tier, c)
<1> DEFINE plan == Attempts(c, prev_tier, starved)
           succeed == {i \in DOMAIN plan : plan[i].from # {}}
           first == CHOOSE i \in succeed : \A j \in succeed : i <= j
<1>1. plan \in Seq(AttemptsFor(c))
  BY AttemptsType
<1>2. succeed # {} /\ \E o \in plan[first].from : r = [tier |-> plan[first].tier, from |-> o]
  BY DEF dispatch_dsq_per_cpu
<1> HIDE DEF plan
<1>3. first \in succeed
  <2>1. succeed \subseteq Nat
    BY <1>1
  <2> HIDE DEF succeed
  <2>2. \E i \in succeed : \A j \in succeed : i <= j
    BY <1>2, <2>1, LeastOf
  <2>3. QED
    BY <2>2
<1> HIDE DEF first
<1>4. plan[first] \in AttemptsFor(c)
  BY <1>1, <1>3
<1>5. QED
  BY <1>2, <1>4 DEF AttemptsFor

-----------------------------------------------------------------------------
(* The invariant, action by action                                         *)

\* The state the scheduler is loaded in.
LEMMA InitInv == Init => Inv
<1> SUFFICES ASSUME Init PROVE Inv
  OBVIOUS
<1>1. TypeOK
  BY ConstantsAssumption, InitTaskCtx DEF Init, TypeOK, CtxTypeOK, QueueTypeOK, CpuTypeOK,
     TaskTypeOK, NoEnqueue, EnqType, CpuCtxType
<1>2. PcInv
  BY DEF Init, PcInv, HoldsRq, NoEnqueue
<1>3. OnlineInv
  BY DEF Init, OnlineInv
<1>4. QED
  BY <1>1, <1>2, <1>3 DEF Inv

\* DirectInsert preserves the invariant.
LEMMA DirectInsertInv ==
  ASSUME Inv, NEW t \in Tasks, DirectInsert(t)
  PROVE  Inv'
<1> USE ConstantsAssumption DEF Inv, TypeOK
<1>1. CtxTypeOK'
  BY InitTaskCtx DEF CtxTypeOK, DirectInsert, RqFree, NoEnqueue
<1>2. QueueTypeOK'
  <2>1. task_cpu[t] \in CPUs
    BY DEF TaskTypeOK
  <2>2. QED
    BY <2>1 DEF QueueTypeOK, DirectInsert
<1>3. CpuTypeOK'
  BY DEF CpuTypeOK, TaskTypeOK, DirectInsert
<1>4. TaskTypeOK'
  BY DEF TaskTypeOK, EnqType, DirectInsert, RqFree, NoEnqueue
<1>5. PcInv'
  BY DEF PcInv, CpuTypeOK, TaskTypeOK, EnqType, HoldsRq, DirectInsert, RqFree, NoEnqueue
<1>6. OnlineInv'
  BY DEF OnlineInv, DirectInsert, RqFree, NoEnqueue
<1>7. QED
  BY <1>1, <1>2, <1>3, <1>4, <1>5, <1>6

\* EnqueueInsert preserves the invariant.
LEMMA EnqueueInsertInv ==
  ASSUME Inv, NEW t \in Tasks, EnqueueInsert(t)
  PROVE  Inv'
<1> USE ConstantsAssumption DEF Inv, TypeOK
<1>1. CtxTypeOK'
  BY InitTaskCtx DEF CtxTypeOK, EnqueueInsert, NoEnqueue
<1>2. QueueTypeOK'
  <2> DEFINE c == enq[t].cpu
             k == enq[t].tier
             q == IF enq[t].head THEN <<t>> \o dsq[c][k] ELSE Append(dsq[c][k], t)
  <2>1. c \in CPUs /\ k \in Tiers
    BY DEF PcInv, HoldsRq, EnqueueInsert
  <2>2. dsq[c][k] \in Seq(Tasks)
    BY <2>1, QueueOf
  <2>3. dsq' = [dsq EXCEPT ![c][k] = q] /\ local' = local
    BY DEF EnqueueInsert
  <2> HIDE DEF c, k
  <2>4. q \in Seq(Tasks)
    BY <2>2
  <2> HIDE DEF q
  <2>5. [dsq EXCEPT ![c][k] = q] \in [CPUs -> [Tiers -> Seq(Tasks)]]
    BY <2>1, <2>4, QueueUpdate
  <2>6. QED
    BY <2>3, <2>5 DEF QueueTypeOK
<1>3. CpuTypeOK'
  <2>1. enq[t].cpu \in CPUs
    BY DEF PcInv, HoldsRq, EnqueueInsert
  <2>2. enq[t].kick \in {"none", "idle", "preempt"}
    BY DEF TaskTypeOK, EnqType
  <2>3. kicks' \subseteq CPUs \X {"idle", "preempt"}
    BY <2>1, <2>2 DEF CpuTypeOK, EnqueueInsert, kick_target
  <2>4. QED
    BY <2>3 DEF CpuTypeOK, EnqueueInsert
<1>4. TaskTypeOK'
  BY DEF TaskTypeOK, EnqType, EnqueueInsert, NoEnqueue
<1>5. PcInv'
  BY DEF PcInv, CpuTypeOK, TaskTypeOK, EnqType, HoldsRq, EnqueueInsert, NoEnqueue
<1>6. OnlineInv'
  BY DEF OnlineInv, EnqueueInsert, NoEnqueue
<1>7. QED
  BY <1>1, <1>2, <1>3, <1>4, <1>5, <1>6

\* What EnqueueObserve makes of the enqueue: it goes on with a kick or with the
\* insertion, and notes an idle kick if the target runs nothing.
LEMMA ObserveEnq ==
  ASSUME NEW t \in Tasks, EnqueueObserve(t)
  PROVE  \E at \in {"kick", "insert"}, kick \in {enq[t].kick, "none", "idle"} :
           enq' = [enq EXCEPT ![t] = [enq[t] EXCEPT !.at = at, !.kick = kick]]
<1>1. CASE dctx[enq[t].cpu].current_task_dsq_type = EMPTY
  <2>1. enq' = [enq EXCEPT ![t] = [enq[t] EXCEPT !.at = "insert", !.kick = kick_idle(enq[t].cpu)]]
    BY <1>1 DEF EnqueueObserve
  <2>2. kick_idle(enq[t].cpu) \in {"none", "idle"}
    BY DEF kick_idle
  <2>3. QED
    BY <2>1, <2>2, Zenon
<1>2. CASE dctx[enq[t].cpu].current_task_dsq_type # EMPTY
  <2>1. PICK at \in {"kick", "insert"} :
          enq' = [enq EXCEPT ![t] = [enq[t] EXCEPT !.at = at]]
    BY <1>2 DEF EnqueueObserve
  <2>2. [enq[t] EXCEPT !.at = at] = [enq[t] EXCEPT !.at = at, !.kick = enq[t].kick]
    OBVIOUS
  <2>3. QED
    BY <2>1, <2>2, Zenon
<1>3. QED
  BY <1>1, <1>2

\* EnqueueObserve preserves the invariant.
LEMMA EnqueueObserveInv ==
  ASSUME Inv, NEW t \in Tasks, EnqueueObserve(t)
  PROVE  Inv'
<1> USE ConstantsAssumption DEF Inv, TypeOK
<1>1. CtxTypeOK'
  BY DEF CtxTypeOK, EnqueueObserve
<1>2. QueueTypeOK'
  BY DEF QueueTypeOK, EnqueueObserve
<1>3. CpuTypeOK'
  BY DEF CpuTypeOK, EnqueueObserve
<1>0. PICK at \in {"kick", "insert"}, kick \in {enq[t].kick, "none", "idle"} :
        enq' = [enq EXCEPT ![t] = [enq[t] EXCEPT !.at = at, !.kick = kick]]
  BY ObserveEnq
<1>0a. enq[t] \in EnqType /\ enq[t].at = "observe"
  BY DEF TaskTypeOK, EnqueueObserve
<1> DEFINE e == [enq[t] EXCEPT !.at = at, !.kick = kick]
<1>0b. e \in EnqType /\ e.cpu = enq[t].cpu /\ e.tier = enq[t].tier
  BY <1>0a DEF EnqType
<1> HIDE DEF e
<1>0c. enq' = [enq EXCEPT ![t] = e]
  BY <1>0 DEF e
<1>4. TaskTypeOK'
  BY <1>0b, <1>0c DEF TaskTypeOK, EnqueueObserve
<1>5. PcInv'
  BY <1>0a, <1>0b, <1>0c DEF PcInv, TaskTypeOK, HoldsRq, EnqueueObserve
<1>6. OnlineInv'
  BY DEF OnlineInv, EnqueueObserve
<1>7. QED
  BY <1>1, <1>2, <1>3, <1>4, <1>5, <1>6

\* EnqueueKick preserves the invariant.
LEMMA EnqueueKickInv ==
  ASSUME Inv, NEW t \in Tasks, EnqueueKick(t)
  PROVE  Inv'
<1> USE ConstantsAssumption DEF Inv, TypeOK
<1>1. CtxTypeOK'
  <2> DEFINE o == enq[t].cpu
  <2>1. o \in CPUs
    BY DEF PcInv, HoldsRq, EnqueueKick
  <2>2. /\ dctx' = [dctx EXCEPT ![o] = [@ EXCEPT !.preempt_pending = TRUE]]
        /\ UNCHANGED <<tctx, nr_rt_busy>>
    BY DEF EnqueueKick
  <2> HIDE DEF o
  <2>3. [dctx[o] EXCEPT !.preempt_pending = TRUE] \in CpuCtxType
    BY <2>1, CpuCtxSteps DEF CtxTypeOK
  <2>4. dctx' \in [CPUs -> CpuCtxType]
    BY <2>2, <2>3 DEF CtxTypeOK
  <2>5. QED
    BY <2>2, <2>4 DEF CtxTypeOK
<1>2. QueueTypeOK'
  BY DEF QueueTypeOK, EnqueueKick
<1>3. CpuTypeOK'
  BY DEF CpuTypeOK, EnqueueKick
<1> DEFINE e == [enq[t] EXCEPT !.at = "insert", !.kick = "preempt"]
<1>4. TaskTypeOK'
  <2>1. enq[t] \in EnqType
    BY DEF TaskTypeOK
  <2>2. e \in EnqType
    BY <2>1 DEF EnqType
  <2> HIDE DEF e
  <2>3. enq' = [enq EXCEPT ![t] = e]
    BY DEF EnqueueKick, e
  <2>4. QED
    BY <2>2, <2>3 DEF TaskTypeOK, EnqueueKick
<1>5. PcInv'
  BY DEF PcInv, CpuTypeOK, TaskTypeOK, EnqType, HoldsRq, EnqueueKick
<1>6. OnlineInv'
  BY DEF OnlineInv, EnqueueKick
<1>7. QED
  BY <1>1, <1>2, <1>3, <1>4, <1>5, <1>6

\* KickIdle preserves the invariant.
LEMMA KickIdleInv ==
  ASSUME Inv, NEW c \in Online, KickIdle(c)
  PROVE  Inv'
<1> USE ConstantsAssumption DEF Inv, TypeOK
<1>1. CtxTypeOK'
  BY InitTaskCtx DEF CtxTypeOK, KickIdle
<1>2. QueueTypeOK'
  BY DEF QueueTypeOK, KickIdle
<1>3. CpuTypeOK'
  BY ZenonT(60) DEF CpuTypeOK, QueueTypeOK, PcInv, HoldsRq, KickIdle
<1>4. TaskTypeOK'
  BY DEF TaskTypeOK, EnqType, KickIdle
<1>5. PcInv'
  BY DEF PcInv, CpuTypeOK, TaskTypeOK, EnqType, HoldsRq, KickIdle
<1>6. OnlineInv'
  BY DEF OnlineInv, KickIdle
<1>7. QED
  BY <1>1, <1>2, <1>3, <1>4, <1>5, <1>6

\* KickPreempt preserves the invariant.
LEMMA KickPreemptInv ==
  ASSUME Inv, NEW c \in Online, KickPreempt(c)
  PROVE  Inv'
<1> USE ConstantsAssumption DEF Inv, TypeOK
<1>1. CtxTypeOK'
  BY InitTaskCtx DEF CtxTypeOK, KickPreempt
<1>2. QueueTypeOK'
  BY DEF QueueTypeOK, KickPreempt
<1>3. CpuTypeOK'
  BY DEF CpuTypeOK, QueueTypeOK, PcInv, HoldsRq, KickPreempt
<1>4. TaskTypeOK'
  BY DEF TaskTypeOK, EnqType, KickPreempt
<1>5. PcInv'
  BY DEF PcInv, CpuTypeOK, TaskTypeOK, EnqType, HoldsRq, KickPreempt
<1>6. OnlineInv'
  BY DEF OnlineInv, KickPreempt
<1>7. QED
  BY <1>1, <1>2, <1>3, <1>4, <1>5, <1>6

\* SliceEnd preserves the invariant.
LEMMA SliceEndInv ==
  ASSUME Inv, NEW c \in Online, SliceEnd(c)
  PROVE  Inv'
<1> USE ConstantsAssumption DEF Inv, TypeOK
<1>1. CtxTypeOK'
  BY InitTaskCtx DEF CtxTypeOK, SliceEnd
<1>2. QueueTypeOK'
  BY DEF QueueTypeOK, SliceEnd
<1>3. CpuTypeOK'
  BY SMTT(30) DEF CpuTypeOK, QueueTypeOK, PcInv, HoldsRq, SliceEnd
<1>4. TaskTypeOK'
  BY DEF TaskTypeOK, EnqType, SliceEnd
<1>5. PcInv'
  BY DEF PcInv, CpuTypeOK, TaskTypeOK, EnqType, HoldsRq, SliceEnd
<1>6. OnlineInv'
  BY DEF OnlineInv, SliceEnd
<1>7. QED
  BY <1>1, <1>2, <1>3, <1>4, <1>5, <1>6

\* HigherSleeps preserves the invariant.
LEMMA HigherSleepsInv ==
  ASSUME Inv, NEW c \in Online, HigherSleeps(c)
  PROVE  Inv'
<1> USE ConstantsAssumption DEF Inv, TypeOK
<1>1. CtxTypeOK'
  BY InitTaskCtx DEF CtxTypeOK, HigherSleeps
<1>2. QueueTypeOK'
  BY DEF QueueTypeOK, HigherSleeps
<1>3. CpuTypeOK'
  BY DEF CpuTypeOK, QueueTypeOK, PcInv, HoldsRq, HigherSleeps
<1>4. TaskTypeOK'
  BY DEF TaskTypeOK, EnqType, HigherSleeps
<1>5. PcInv'
  BY DEF PcInv, CpuTypeOK, TaskTypeOK, EnqType, HoldsRq, HigherSleeps
<1>6. OnlineInv'
  BY DEF OnlineInv, HigherSleeps
<1>7. QED
  BY <1>1, <1>2, <1>3, <1>4, <1>5, <1>6

\* Exit preserves the invariant.
LEMMA ExitInv ==
  ASSUME Inv, NEW c \in Online, Exit(c)
  PROVE  Inv'
<1> USE ConstantsAssumption DEF Inv, TypeOK
<1>1. CtxTypeOK'
  <2>1. tctx' \in [Tasks -> CtxType]
    BY InitTaskCtx DEF CtxTypeOK, Exit
  <2>2. stopping_cpu(dctx[c]) \in CpuCtxType
    BY CpuCtxSteps DEF CtxTypeOK
  <2>3. QED
    BY <2>1, <2>2 DEF CtxTypeOK, Exit
<1>2. QueueTypeOK'
  BY DEF QueueTypeOK, Exit, stopping_cpu
<1>3. CpuTypeOK'
  BY DEF CpuTypeOK, QueueTypeOK, PcInv, HoldsRq, Exit, stopping_cpu
<1>4. TaskTypeOK'
  BY DEF TaskTypeOK, EnqType, Exit, stopping_cpu
<1>5. PcInv'
  BY DEF PcInv, CpuTypeOK, TaskTypeOK, EnqType, HoldsRq, Exit, stopping_cpu
<1>6. OnlineInv'
  BY DEF OnlineInv, Exit, stopping_cpu
<1>7. QED
  BY <1>1, <1>2, <1>3, <1>4, <1>5, <1>6

\* SchedSwitch preserves the invariant.
LEMMA SchedSwitchInv ==
  ASSUME Inv, NEW c \in Online, SchedSwitch(c)
  PROVE  Inv'
<1> USE ConstantsAssumption DEF Inv, TypeOK
<1>1. CtxTypeOK'
  <2> DEFINE rt == is_rt_task(curr[c])
  <2>1. rt \in BOOLEAN
    BY DEF is_rt_task
  <2>2. [dctx[c] EXCEPT !.rt_busy = rt] \in CpuCtxType
    BY <2>1, CpuCtxSteps DEF CtxTypeOK
  <2>3. dctx' = [dctx EXCEPT ![c] = [@ EXCEPT !.rt_busy = rt]] /\ tctx' = tctx
    BY DEF SchedSwitch
  <2>4. nr_rt_busy' \in Int
    BY DEF CtxTypeOK, SchedSwitch, count_rt_busy
  <2> HIDE DEF rt
  <2>5. QED
    BY <2>2, <2>3, <2>4 DEF CtxTypeOK
<1>2. QueueTypeOK'
  BY DEF QueueTypeOK, SchedSwitch, count_rt_busy, is_rt_task
<1>3. CpuTypeOK'
  <2>1. idle' \subseteq CPUs /\ kicks' \subseteq CPUs \X {"idle", "preempt"}
    <3>1. kick_idle_for_waiting(c) \subseteq idle
      BY DEF kick_idle_for_waiting
    <3>2. QED
      BY <3>1 DEF CpuTypeOK, SchedSwitch
  <2>2. reenq' \subseteq CPUs
    BY DEF CpuTypeOK, SchedSwitch
  <2>3. QED
    BY <2>1, <2>2 DEF CpuTypeOK, SchedSwitch
<1>4. TaskTypeOK'
  BY DEF TaskTypeOK, EnqType, SchedSwitch, count_rt_busy, is_rt_task
<1>5. PcInv'
  BY DEF PcInv, CpuTypeOK, TaskTypeOK, EnqType, HoldsRq, SchedSwitch, count_rt_busy, is_rt_task
<1>6. OnlineInv'
  BY DEF OnlineInv, SchedSwitch, count_rt_busy, is_rt_task
<1>7. QED
  BY <1>1, <1>2, <1>3, <1>4, <1>5, <1>6

\* ReenqueueLocal preserves the invariant.
LEMMA ReenqueueLocalInv ==
  ASSUME Inv, NEW c \in Online, ReenqueueLocal(c)
  PROVE  Inv'
<1> USE ConstantsAssumption DEF Inv, TypeOK
<1>1. CtxTypeOK'
  BY InitTaskCtx DEF CtxTypeOK, ReenqueueLocal, RqFree, BeginEnqueue, NoEnqueue
<1>2. QueueTypeOK'
  BY DEF QueueTypeOK, ReenqueueLocal, RqFree, BeginEnqueue, NoEnqueue
<1>3. CpuTypeOK'
  BY DEF CpuTypeOK, QueueTypeOK, PcInv, HoldsRq, ReenqueueLocal, RqFree, BeginEnqueue, NoEnqueue
<1>4. TaskTypeOK'
  BY DEF TaskTypeOK, EnqType, ReenqueueLocal, RqFree, BeginEnqueue, NoEnqueue
<1>5. PcInv'
  BY DEF PcInv, CpuTypeOK, TaskTypeOK, EnqType, HoldsRq, ReenqueueLocal, RqFree, BeginEnqueue, NoEnqueue
<1>6. OnlineInv'
  BY DEF OnlineInv, ReenqueueLocal, RqFree, BeginEnqueue, NoEnqueue
<1>7. QED
  BY <1>1, <1>2, <1>3, <1>4, <1>5, <1>6

\* PickNext preserves the invariant.
LEMMA PickNextInv ==
  ASSUME Inv, NEW c \in Online, PickNext(c)
  PROVE  Inv'
<1> USE ConstantsAssumption DEF Inv, TypeOK
<1>1. CtxTypeOK'
  BY InitTaskCtx DEF CtxTypeOK, PickNext, Picking, LooksForTask, PrevRuns
<1>2. QueueTypeOK'
  BY DEF QueueTypeOK, PickNext, Picking, LooksForTask, PrevRuns
<1>3. CpuTypeOK'
  <2>1. next' \in [CPUs -> Tasks \cup {Idle, Rt, PercpuRt}]
    <3>1. CASE hi[c] # NoTask /\ next' = [next EXCEPT ![c] = hi[c]]
      BY <3>1 DEF CpuTypeOK
    <3>2. CASE local[c] # <<>> /\ next' = [next EXCEPT ![c] = Head(local[c])]
      <4>1. Head(local[c]) \in Tasks
        BY <3>2 DEF QueueTypeOK
      <4>2. QED
        BY <3>2, <4>1 DEF CpuTypeOK
    <3>3. QED
      BY <3>1, <3>2 DEF PickNext
  <2>2. QED
    BY <2>1 DEF CpuTypeOK, PickNext
<1>4. TaskTypeOK'
  BY DEF TaskTypeOK, EnqType, PickNext, Picking, LooksForTask, PrevRuns
<1>5. PcInv'
  BY DEF PcInv, CpuTypeOK, TaskTypeOK, EnqType, HoldsRq, PickNext, Picking, LooksForTask, PrevRuns
<1>6. OnlineInv'
  BY DEF OnlineInv, PickNext, Picking, LooksForTask, PrevRuns
<1>7. QED
  BY <1>1, <1>2, <1>3, <1>4, <1>5, <1>6

\* WakeUp preserves the invariant.
LEMMA WakeUpInv ==
  ASSUME Inv, NEW t \in Tasks, NEW w \in Wakers, NEW k \in OwnTiers[t],
         WakeUp(t, w, k)
  PROVE  Inv'
<1> USE ConstantsAssumption DEF Inv, TypeOK
<1>1. CtxTypeOK'
  <2>1. w \in Tasks \cup {NoTask} /\ k \in Tiers
    BY DEF Wakers
  <2> DEFINE x == IF state[t] = "blocked" THEN apply_wake_boost(t, tctx[t], w) ELSE tctx[t]
  <2>2. tctx[t] \in CtxType
    BY DEF CtxTypeOK
  <2>3. x \in CtxType
    BY <2>1, <2>2, WakeBoost
  <2>4. Reclassified(x, k) \in CtxType
    BY <2>1, <2>3, CtxSteps
  <2>5. PICK y \in CtxType : tctx' = [tctx EXCEPT ![t] = y]
    BY <2>3, <2>4 DEF WakeUp
  <2>6. QED
    BY <2>5 DEF CtxTypeOK, WakeUp
<1>2. QueueTypeOK'
  BY DEF QueueTypeOK, WakeUp
<1>3. CpuTypeOK'
  BY DEF CpuTypeOK, WakeUp
<1>4. TaskTypeOK'
  <2>1. w \in Tasks \cup {NoTask}
    BY DEF Wakers
  <2>2. PICK s \in select_cpu_dfl(t), at \in {"direct", "place"} :
          /\ task_cpu' = [task_cpu EXCEPT ![t] = s.cpu]
          /\ enq' = [enq EXCEPT ![t] = BeginEnqueue(at, state[t] = "blocked", w)]
    BY DEF WakeUp
  <2>3. s.cpu \in CPUs
    BY SelectCpu
  <2>4. BeginEnqueue(at, state[t] = "blocked", w) \in EnqType
    BY <2>1 DEF BeginEnqueue, NoEnqueue, EnqType
  <2>5. QED
    BY <2>2, <2>3, <2>4 DEF TaskTypeOK, WakeUp
<1>5. PcInv'
  <2>1. \E at \in {"direct", "place"} :
          enq' = [enq EXCEPT ![t] = BeginEnqueue(at, state[t] = "blocked", w)]
    BY DEF WakeUp
  <2>2. QED
    BY <2>1 DEF PcInv, CpuTypeOK, TaskTypeOK, EnqType, HoldsRq, WakeUp, BeginEnqueue, NoEnqueue
<1>6. OnlineInv'
  <2>1. PICK s \in select_cpu_dfl(t) : /\ task_cpu' = [task_cpu EXCEPT ![t] = s.cpu]
                                       /\ idle' \subseteq idle
    BY DEF WakeUp
  <2>2. s.cpu \in Online
    BY SelectCpu
  <2>3. QED
    BY <2>1, <2>2 DEF OnlineInv, TaskTypeOK
<1>7. QED
  BY <1>1, <1>2, <1>3, <1>4, <1>5, <1>6

\* WakeUpInPlace preserves the invariant.
LEMMA WakeUpInPlaceInv ==
  ASSUME Inv, NEW t \in Tasks, NEW w \in Wakers, NEW k \in OwnTiers[t],
         WakeUpInPlace(t, w, k)
  PROVE  Inv'
<1> USE ConstantsAssumption DEF Inv, TypeOK
<1>1. CtxTypeOK'
  <2>1. tctx[t] \in CtxType /\ k \in Tiers
    BY DEF CtxTypeOK
  <2>2. Reclassified(tctx[t], k) \in CtxType
    BY <2>1, CtxSteps
  <2>3. PICK y \in CtxType : tctx' = [tctx EXCEPT ![t] = y]
    BY <2>1, <2>2 DEF WakeUpInPlace
  <2>4. QED
    BY <2>3 DEF CtxTypeOK, WakeUpInPlace
<1>2. QueueTypeOK'
  BY DEF QueueTypeOK, WakeUpInPlace
<1>3. CpuTypeOK'
  BY DEF CpuTypeOK, WakeUpInPlace
<1>4. TaskTypeOK'
  <2>1. w \in Tasks \cup {NoTask}
    BY DEF Wakers
  <2>2. BeginEnqueue("place", state[t] = "blocked", w) \in EnqType
    BY <2>1 DEF BeginEnqueue, NoEnqueue, EnqType
  <2>3. QED
    BY <2>2 DEF TaskTypeOK, WakeUpInPlace
<1>5. PcInv'
  BY DEF PcInv, CpuTypeOK, TaskTypeOK, EnqType, HoldsRq, WakeUpInPlace, BeginEnqueue, NoEnqueue
<1>6. OnlineInv'
  BY DEF OnlineInv, WakeUpInPlace
<1>7. QED
  BY <1>1, <1>2, <1>3, <1>4, <1>5, <1>6

\* EnqueuePlace preserves the invariant.
LEMMA EnqueuePlaceInv ==
  ASSUME Inv, NEW t \in Tasks, NEW limited \in BOOLEAN,
         EnqueuePlace(t, limited)
  PROVE  Inv'
<1> USE ConstantsAssumption DEF Inv, TypeOK
<1>0. PICK y \in CtxType, cpu \in Online, tier \in Tiers, head \in BOOLEAN :
        /\ tctx' = [tctx EXCEPT ![t] = y]
        /\ enq' = [enq EXCEPT ![t] = Placed(@, cpu, tier, head)]
        /\ idle' \subseteq idle
  <2>1. BoostContexts(t) \subseteq Tasks \cup {NoTask}
    BY DEF BoostContexts, TaskTypeOK, EnqType
  <2>2. PICK w \in BoostContexts(t) :
       LET x == apply_wake_boost(t, tctx[t], w)
           tier == enqueue_tier(t, x)
           cpu == task_cpu[t]
       IN /\ tctx' = [tctx EXCEPT ![t] = [x EXCEPT !.resume_slice = FALSE]]
          /\ \/ /\ enq' = [enq EXCEPT ![t] = Placed(@, cpu, tier, TRUE)]
                /\ idle' = idle
             \/ \E r \in pick_enqueue_cpu(t, tier, cpu, limited) :
                  /\ enq' = [enq EXCEPT ![t] =
                       Placed(@, IF cpu_is_online(r.cpu) THEN r.cpu ELSE cpu, tier, FALSE)]
                  /\ idle' = idle \ r.claimed
    BY DEF EnqueuePlace
  <2> DEFINE x == apply_wake_boost(t, tctx[t], w)
             tier == enqueue_tier(t, x)
  <2>3. tctx[t] \in CtxType
    BY DEF CtxTypeOK
  <2>4. x \in CtxType
    BY <2>1, <2>3, WakeBoost
  <2>5. tier \in Tiers
    BY <2>4, EffectiveTier DEF enqueue_tier
  <2>6. task_cpu[t] \in Online
    BY DEF OnlineInv
  <2>7. [x EXCEPT !.resume_slice = FALSE] \in CtxType
    BY <2>4, <2>5, CtxSteps
  <2> HIDE DEF x, tier
  <2>8. \E cpu \in Online, head \in BOOLEAN :
          /\ enq' = [enq EXCEPT ![t] = Placed(@, cpu, tier, head)]
          /\ idle' \subseteq idle
    BY <2>2, <2>6 DEF x, tier, cpu_is_online
  <2>9. tctx' = [tctx EXCEPT ![t] = [x EXCEPT !.resume_slice = FALSE]]
    BY <2>2 DEF x
  <2>10. QED
    BY <2>5, <2>7, <2>8, <2>9, Zenon
<1>0a. enq[t] \in EnqType /\ cpu \in CPUs
  BY DEF TaskTypeOK
<1>0b. /\ Placed(enq[t], cpu, tier, head) \in EnqType
       /\ Placed(enq[t], cpu, tier, head).cpu = cpu
       /\ Placed(enq[t], cpu, tier, head).tier = tier
  BY <1>0a DEF Placed, EnqType
<1>1. CtxTypeOK'
  BY <1>0 DEF CtxTypeOK, EnqueuePlace
<1>2. QueueTypeOK'
  BY DEF QueueTypeOK, EnqueuePlace
<1>3. CpuTypeOK'
  BY <1>0 DEF CpuTypeOK, EnqueuePlace
<1>4. TaskTypeOK'
  BY <1>0, <1>0b DEF TaskTypeOK, EnqueuePlace
<1>5. PcInv'
  BY <1>0, <1>0b DEF PcInv, TaskTypeOK, HoldsRq, EnqueuePlace
<1>6. OnlineInv'
  BY <1>0 DEF OnlineInv, EnqueuePlace
<1>7. QED
  BY <1>1, <1>2, <1>3, <1>4, <1>5, <1>6

\* ChangeAttr preserves the invariant.
LEMMA ChangeAttrInv ==
  ASSUME Inv, NEW t \in Tasks, NEW c \in Online, NEW k \in Tiers,
         ChangeAttr(t, c, k)
  PROVE  Inv'
<1> USE ConstantsAssumption DEF Inv, TypeOK
<1>1. CtxTypeOK'
  <2>1. quiescent_ctx(tctx[t]) \in CtxType
    BY CtxSteps DEF CtxTypeOK
  <2>2. QED
    BY <2>1 DEF CtxTypeOK, ChangeAttr
<1>2. QueueTypeOK'
  <2>1. dsq[c][k] \in Seq(Tasks)
    BY DEF QueueTypeOK
  <2>2. PICK i \in 1 .. Len(dsq[c][k]) : dsq' = [dsq EXCEPT ![c][k] = Without(@, i)]
    BY DEF ChangeAttr
  <2>3. Without(dsq[c][k], i) \in Seq(Tasks)
    BY <2>1, WithoutType
  <2>4. QED
    BY <2>2, <2>3 DEF QueueTypeOK, ChangeAttr
<1>3. CpuTypeOK'
  BY DEF CpuTypeOK, ChangeAttr, BeginEnqueue, NoEnqueue
<1>4. TaskTypeOK'
  BY DEF TaskTypeOK, EnqType, ChangeAttr, BeginEnqueue, NoEnqueue
<1>5. PcInv'
  BY DEF PcInv, CpuTypeOK, TaskTypeOK, EnqType, HoldsRq, ChangeAttr, BeginEnqueue, NoEnqueue
<1>6. OnlineInv'
  BY DEF OnlineInv, ChangeAttr, BeginEnqueue, NoEnqueue
<1>7. QED
  BY <1>1, <1>2, <1>3, <1>4, <1>5, <1>6

\* HigherWakes preserves the invariant.
LEMMA HigherWakesInv ==
  ASSUME Inv, NEW c \in Online, NEW h \in Higher[c],
         HigherWakes(c, h)
  PROVE  Inv'
<1> USE ConstantsAssumption DEF Inv, TypeOK
<1>1. CtxTypeOK'
  BY DEF CtxTypeOK, HigherWakes
<1>2. QueueTypeOK'
  BY DEF QueueTypeOK, HigherWakes
<1>3. CpuTypeOK'
  BY DEF CpuTypeOK, HigherWakes
<1>4. TaskTypeOK'
  BY DEF TaskTypeOK, EnqType, HigherWakes
<1>5. PcInv'
  BY DEF PcInv, CpuTypeOK, TaskTypeOK, EnqType, HoldsRq, HigherWakes
<1>6. OnlineInv'
  BY DEF OnlineInv, HigherWakes
<1>7. QED
  BY <1>1, <1>2, <1>3, <1>4, <1>5, <1>6

\* Sleep preserves the invariant.
LEMMA SleepInv ==
  ASSUME Inv, NEW c \in Online, NEW k \in Classes(curr[c]),
         Sleep(c, k)
  PROVE  Inv'
<1> USE ConstantsAssumption DEF Inv, TypeOK
<1>1. CtxTypeOK'
  <2> DEFINE t == curr[c]
             y == stopping_ctx(tctx[t], FALSE, dctx[c].preempt_pending, ~ slice[t], FALSE, k, FALSE)
  <2>1. t \in Tasks /\ k \in Tiers
    BY DEF Sleep, Classes
  <2>2. dctx[c] \in CpuCtxType /\ tctx[t] \in CtxType
    BY <2>1 DEF CtxTypeOK
  <2>3. dctx[c].preempt_pending \in BOOLEAN /\ (~ slice[t]) \in BOOLEAN
    BY <2>2 DEF CpuCtxType
  <2>4. y \in CtxType
    BY <2>1, <2>2, <2>3, StoppingCtx
  <2>5. quiescent_ctx(y) \in CtxType /\ stopping_cpu(dctx[c]) \in CpuCtxType
    BY <2>1, <2>2, <2>4, CtxSteps, CpuCtxSteps
  <2>6. /\ tctx' = [tctx EXCEPT ![t] = quiescent_ctx(y)]
        /\ dctx' = [dctx EXCEPT ![c] = stopping_cpu(@)]
        /\ nr_rt_busy' = nr_rt_busy
    BY DEF Sleep
  <2> HIDE DEF y
  <2>7. QED
    BY <2>5, <2>6 DEF CtxTypeOK
<1>2. QueueTypeOK'
  BY DEF QueueTypeOK, Sleep, stopping_cpu
<1>3. CpuTypeOK'
  BY DEF CpuTypeOK, Sleep, stopping_cpu
<1>4. TaskTypeOK'
  BY DEF TaskTypeOK, EnqType, Sleep, stopping_cpu
<1>5. PcInv'
  BY DEF PcInv, CpuTypeOK, TaskTypeOK, EnqType, HoldsRq, Sleep, stopping_cpu
<1>6. OnlineInv'
  BY DEF OnlineInv, Sleep, stopping_cpu
<1>7. QED
  BY <1>1, <1>2, <1>3, <1>4, <1>5, <1>6

\* Dispatch preserves the invariant.
LEMMA DispatchInv ==
  ASSUME Inv, NEW c \in Online, NEW k \in Classes(curr[c]), NEW spent \in BOOLEAN,
         NEW starved \in StarvedTiers \cup {EMPTY},
         Dispatch(c, k, spent, starved)
  PROVE  Inv'
<1> USE ConstantsAssumption DEF Inv, TypeOK
<1> DEFINE prev == curr[c]
           px == IF PrevRuns(c) THEN dispatch_prev(c, k, spent) ELSE init_task_ctx(NoTask)
           prev_tier == IF PrevRuns(c) THEN effective_tier(px) ELSE EMPTY
           found == dispatch_dsq_per_cpu(c, prev_tier, starved)
           kept == IF spent THEN Unboosted(px) ELSE px
<1>a. PrevRuns(c) => prev \in Tasks /\ k \in Tiers
  BY DEF PrevRuns, Classes
<1>b. px \in CtxType /\ kept \in CtxType
  <2>1. PrevRuns(c) => dispatch_prev(c, k, spent) \in CtxType
    BY <1>a, CtxSteps DEF dispatch_prev, CtxTypeOK
  <2>2. px \in CtxType
    BY <2>1, InitTaskCtx
  <2>3. Unboosted(px) \in CtxType
    BY <2>2, UnboostedCtx
  <2>4. QED
    BY <2>2, <2>3
<1>c. prev_tier \in Tiers \cup {EMPTY} /\ effective_tier(kept) \in Tiers
  BY <1>b, EffectiveTier
<1>d. ASSUME NEW r \in found
      PROVE  /\ r.tier \in Tiers /\ r.from \in CPUs
             /\ FirstFor(r.from, r.tier, c) \in 1 .. Len(dsq[r.from][r.tier])
             /\ dsq[r.from][r.tier][FirstFor(r.from, r.tier, c)] \in Tasks
  <2>1. c \in CPUs /\ starved \in Tiers \cup {EMPTY}
    OBVIOUS
  <2>2. r.tier \in Tiers /\ r.from \in CPUs /\ Takeable(r.from, r.tier, c)
    BY <1>c, <2>1, DispatchFinds
  <2>3. QED
    BY <2>1, <2>2, FirstForExists, SMTT(30)
<1> HIDE DEF px, prev_tier, found, kept
<1> DEFINE Moves ==
         \E r \in found :
              LET i == FirstFor(r.from, r.tier, c)
                  t == dsq[r.from][r.tier][i]
              IN /\ dsq' = [dsq EXCEPT ![r.from][r.tier] = Without(@, i)]
                 /\ local' = [local EXCEPT ![c] = <<t>>]
                 /\ task_cpu' = [task_cpu EXCEPT ![t] = c]
                 /\ state' = [state EXCEPT ![t] = "local"]
                 /\ next' = [next EXCEPT ![c] = t]
<1>e. \/ /\ Moves
         /\ tctx' = IF PrevRuns(c) THEN [tctx EXCEPT ![prev] = px] ELSE tctx
         /\ sched' = [sched EXCEPT ![c] = IF PrevRuns(c) THEN "put" ELSE "switch"]
         /\ UNCHANGED <<dctx, slice>>
      \/ /\ PrevRuns(c)
         /\ tctx' = [tctx EXCEPT ![prev] = kept]
         /\ dctx' = [dctx EXCEPT ![c] = running_cpu(@, kept)]
         /\ slice' = [slice EXCEPT ![prev] = TRUE]
         /\ sched' = [sched EXCEPT ![c] = "run"]
         /\ UNCHANGED <<dsq, local, task_cpu, state, next>>
      \/ /\ ~ PrevRuns(c)
         /\ next' = [next EXCEPT ![c] = Idle]
         /\ sched' = [sched EXCEPT ![c] = "switch"]
         /\ UNCHANGED <<tctx, dctx, slice, dsq, local, task_cpu, state>>
  BY ZenonT(60) DEF Dispatch, px, prev_tier, found, kept
<1> HIDE DEF Moves
<1>f. UNCHANGED <<nr_rt_busy, curr, hi, reenq, kicks, idle, enq>> /\ resched' \subseteq resched
  BY DEF Dispatch
<1>g. \/ /\ dsq' \in [CPUs -> [Tiers -> Seq(Tasks)]]
         /\ \E t \in Tasks : /\ local' = [local EXCEPT ![c] = <<t>>]
                             /\ task_cpu' = [task_cpu EXCEPT ![t] = c]
                             /\ state' = [state EXCEPT ![t] = "local"]
                             /\ next' = [next EXCEPT ![c] = t]
      \/ UNCHANGED <<dsq, local, task_cpu, state>> /\ next' = next /\ sched' = [sched EXCEPT ![c] = "run"]
      \/ UNCHANGED <<dsq, local, task_cpu, state>> /\ next' = [next EXCEPT ![c] = Idle]
  <2>1. ASSUME NEW r \in found
        PROVE  [dsq EXCEPT ![r.from][r.tier] = Without(@, FirstFor(r.from, r.tier, c))]
                 \in [CPUs -> [Tiers -> Seq(Tasks)]]
    <3> DEFINE o == r.from
               m == r.tier
               i == FirstFor(o, m, c)
    <3>1. m \in Tiers /\ o \in CPUs /\ i \in 1 .. Len(dsq[o][m])
      BY <1>d, <2>1
    <3> HIDE DEF o, m, i
    <3>2. dsq[o][m] \in Seq(Tasks)
      BY <3>1, QueueOf
    <3>3. Without(dsq[o][m], i) \in Seq(Tasks)
      BY <3>1, <3>2, WithoutType
    <3>4. [dsq EXCEPT ![o][m] = Without(dsq[o][m], i)] \in [CPUs -> [Tiers -> Seq(Tasks)]]
      BY <3>1, <3>3, QueueUpdate
    <3>5. QED
      BY <3>4 DEF o, m, i
  <2>2. ASSUME NEW r \in found
        PROVE  dsq[r.from][r.tier][FirstFor(r.from, r.tier, c)] \in Tasks
    BY <1>d, <2>2
  <2>3. CASE Moves
    <3>1. PICK r \in found :
              LET i == FirstFor(r.from, r.tier, c)
                  t == dsq[r.from][r.tier][i]
              IN /\ dsq' = [dsq EXCEPT ![r.from][r.tier] = Without(@, i)]
                 /\ local' = [local EXCEPT ![c] = <<t>>]
                 /\ task_cpu' = [task_cpu EXCEPT ![t] = c]
                 /\ state' = [state EXCEPT ![t] = "local"]
                 /\ next' = [next EXCEPT ![c] = t]
      BY <2>3 DEF Moves
    <3>2. dsq' \in [CPUs -> [Tiers -> Seq(Tasks)]]
      BY <2>1, <3>1
    <3>3. QED
      BY <2>2, <3>1, <3>2, ZenonT(60)
  <2>4. CASE ~ Moves
    <3>1. \/ Moves
          \/ /\ UNCHANGED <<dsq, local, task_cpu, state>>
             /\ \/ next' = next /\ sched' = [sched EXCEPT ![c] = "run"]
                \/ next' = [next EXCEPT ![c] = Idle]
      BY <1>e
    <3>2. QED
      BY <2>4, <3>1
  <2>5. QED
    BY <2>3, <2>4
<1>1. CtxTypeOK'
  <2>1. PrevRuns(c) => running_cpu(dctx[c], kept) \in CpuCtxType
    BY <1>b, RunningCpu DEF CtxTypeOK
  <2>2. tctx' \in [Tasks -> CtxType]
    BY <1>a, <1>b, <1>e DEF CtxTypeOK
  <2>3. dctx' \in [CPUs -> CpuCtxType]
    BY <1>e, <2>1 DEF CtxTypeOK
  <2>4. QED
    BY <1>f, <2>2, <2>3 DEF CtxTypeOK
<1>2. QueueTypeOK'
  <2>1. \/ local' = local
        \/ \E q \in Seq(Tasks) : local' = [local EXCEPT ![c] = q]
    <3>1. \A t \in Tasks : <<t>> \in Seq(Tasks)
      OBVIOUS
    <3>2. QED
      BY <1>g, <3>1, Zenon
  <2>2. local' \in [CPUs -> Seq(Tasks)]
    BY <2>1 DEF QueueTypeOK
  <2>3. dsq' \in [CPUs -> [Tiers -> Seq(Tasks)]]
    BY <1>g DEF QueueTypeOK
  <2>4. QED
    BY <2>2, <2>3 DEF QueueTypeOK
<1>3. CpuTypeOK'
  <2>1. next' \in [CPUs -> Tasks \cup {Idle, Rt, PercpuRt}]
    <3>1. \E x \in Tasks \cup {Idle} : next' = next \/ next' = [next EXCEPT ![c] = x]
      BY <1>g, Zenon
    <3>2. QED
      BY <3>1 DEF CpuTypeOK
  <2>2. sched' \in [CPUs -> {"run", "pick", "put", "switch", "hook"}]
    BY <1>e DEF CpuTypeOK
  <2>3. QED
    BY <1>f, <2>1, <2>2 DEF CpuTypeOK
<1>4. TaskTypeOK'
  <2>1. slice' \in [Tasks -> BOOLEAN]
    BY <1>e DEF TaskTypeOK
  <2>2. \/ UNCHANGED <<task_cpu, state>>
        \/ \E t \in Tasks : /\ task_cpu' = [task_cpu EXCEPT ![t] = c]
                            /\ state' = [state EXCEPT ![t] = "local"]
    BY <1>g, Zenon
  <2>3. QED
    BY <1>f, <2>1, <2>2 DEF TaskTypeOK
<1>5. PcInv'
  <2>1. \A d \in CPUs \ {c} : /\ sched'[d] = sched[d] /\ curr'[d] = curr[d]
                              /\ next'[d] = next[d] /\ local'[d] = local[d]
    <3>1. \A d \in CPUs \ {c} : sched'[d] = sched[d]
      BY <1>e DEF CpuTypeOK
    <3>2. QED
      BY <1>f, <1>g, <3>1 DEF CpuTypeOK, QueueTypeOK
  <2>2. sched'[c] = "put" => curr'[c] \in Tasks
    BY <1>a, <1>e, <1>f DEF CpuTypeOK
  <2>3. sched'[c] \in {"put", "switch"} /\ next'[c] \in Tasks => local'[c] # <<>>
    <3>1. CASE \E t \in Tasks : local' = [local EXCEPT ![c] = <<t>>]
      <4>1. \A t : <<t>> # <<>>
        OBVIOUS
      <4>2. QED
        BY <3>1, <4>1 DEF QueueTypeOK
    <3>2. CASE sched' = [sched EXCEPT ![c] = "run"]
      BY <3>2 DEF CpuTypeOK
    <3>3. CASE next' = [next EXCEPT ![c] = Idle]
      BY <3>3 DEF CpuTypeOK
    <3>4. QED
      BY <1>g, <3>1, <3>2, <3>3
  <2>4. enq' = enq
    BY <1>f
  <2>5. QED
    BY <2>1, <2>2, <2>3, <2>4 DEF PcInv, HoldsRq
<1>6. OnlineInv'
  BY <1>f, <1>g DEF OnlineInv, TaskTypeOK
<1>7. QED
  BY <1>1, <1>2, <1>3, <1>4, <1>5, <1>6

\* PutPrev preserves the invariant.
LEMMA PutPrevInv ==
  ASSUME Inv, NEW c \in Online, NEW k \in Classes(curr[c]), NEW left \in BOOLEAN,
         NEW spent \in BOOLEAN,
         PutPrev(c, k, left, spent)
  PROVE  Inv'
<1> USE ConstantsAssumption DEF Inv, TypeOK
<1>0. curr[c] \in Tasks /\ k \in Tiers
  BY DEF PcInv, PutPrev, Classes
<1>1. CtxTypeOK'
  <2> DEFINE t == curr[c]
             y == stopping_ctx(tctx[t], TRUE, dctx[c].preempt_pending, ~ slice[t], left, k, spent)
  <2>1. dctx[c] \in CpuCtxType /\ tctx[t] \in CtxType
    BY <1>0 DEF CtxTypeOK
  <2>2. dctx[c].preempt_pending \in BOOLEAN /\ (~ slice[t]) \in BOOLEAN
    BY <2>1 DEF CpuCtxType
  <2>3. y \in CtxType /\ stopping_cpu(dctx[c]) \in CpuCtxType
    BY <1>0, <2>1, <2>2, StoppingCtx, CpuCtxSteps
  <2>4. /\ tctx' = [tctx EXCEPT ![t] = y]
        /\ dctx' = [dctx EXCEPT ![c] = stopping_cpu(@)]
        /\ nr_rt_busy' = nr_rt_busy
    BY DEF PutPrev
  <2> HIDE DEF y
  <2>5. QED
    BY <2>3, <2>4 DEF CtxTypeOK
<1>2. QueueTypeOK'
  <2>1. local[c] \in Seq(Tasks) /\ <<curr[c]>> \in Seq(Tasks)
    BY <1>0 DEF QueueTypeOK
  <2>2. <<curr[c]>> \o local[c] \in Seq(Tasks)
    BY <2>1, ConcatProperties
  <2>3. \E q \in Seq(Tasks) : local' = local \/ local' = [local EXCEPT ![c] = q]
    BY <2>2 DEF PutPrev
  <2>4. local' \in [CPUs -> Seq(Tasks)] /\ dsq' = dsq
    <3>1. dsq' = dsq
      BY DEF PutPrev
    <3>2. QED
      BY <2>3, <3>1, ZenonT(60) DEF QueueTypeOK
  <2>5. QED
    BY <2>4 DEF QueueTypeOK
<1>3. CpuTypeOK'
  BY DEF CpuTypeOK, PutPrev, stopping_cpu, BeginEnqueue, NoEnqueue
<1>4. TaskTypeOK'
  <2>1. BeginEnqueue("place", FALSE, NoTask) \in EnqType
    BY DEF BeginEnqueue, NoEnqueue, EnqType
  <2>2. \E e \in EnqType : enq' = enq \/ enq' = [enq EXCEPT ![curr[c]] = e]
    BY <2>1 DEF PutPrev
  <2>3. \E x \in {"local", "enqueue"} : state' = [state EXCEPT ![curr[c]] = x]
    BY DEF PutPrev
  <2>4. UNCHANGED <<task_cpu, slice>>
    BY DEF PutPrev
  <2>5. QED
    BY <1>0, <2>2, <2>3, <2>4 DEF TaskTypeOK
<1>5. PcInv'
  <2>1. BeginEnqueue("place", FALSE, NoTask).at = "place"
    BY DEF BeginEnqueue, NoEnqueue
  <2>2. \A d \in CPUs : local'[d] = local[d] \/ (d = c /\ local'[d] # <<>>)
    <3>1. local[c] \in Seq(Tasks) /\ <<curr[c]>> \in Seq(Tasks)
      BY <1>0 DEF QueueTypeOK
    <3>2. <<curr[c]>> \o local[c] # <<>>
      BY <3>1
    <3>3. QED
      BY <3>2 DEF QueueTypeOK, PutPrev
  <2>3. \A d \in CPUs : sched'[d] \in {"put", "switch"} /\ next'[d] \in Tasks => local'[d] # <<>>
    BY <2>2 DEF PcInv, CpuTypeOK, PutPrev
  <2>4. \A t \in Tasks : enq'[t] = enq[t] \/ enq'[t].at = "place"
    BY <1>0, <2>1 DEF TaskTypeOK, PutPrev
  <2>5. \A t \in Tasks : HoldsRq(t)' => enq'[t].cpu \in Online /\ enq'[t].tier \in Tiers
    BY <2>4 DEF PcInv, HoldsRq
  <2>6. \A d \in CPUs : sched'[d] = "put" => curr'[d] \in Tasks
    BY DEF PcInv, CpuTypeOK, PutPrev
  <2>7. QED
    BY <2>3, <2>5, <2>6 DEF PcInv
<1>6. OnlineInv'
  BY DEF OnlineInv, PutPrev, stopping_cpu, BeginEnqueue, NoEnqueue
<1>7. QED
  BY <1>1, <1>2, <1>3, <1>4, <1>5, <1>6

\* Switch preserves the invariant.
LEMMA SwitchInv ==
  ASSUME Inv, NEW c \in Online,
         Switch(c)
  PROVE  Inv'
<1> USE ConstantsAssumption DEF Inv, TypeOK
<1>1. CtxTypeOK'
  <2>1. next[c] \in Tasks => running_cpu(dctx[c], tctx[next[c]]) \in CpuCtxType
    BY RunningCpu DEF CtxTypeOK
  <2>2. QED
    BY <2>1 DEF CtxTypeOK, Switch
<1>2. QueueTypeOK'
  <2>1. CASE next[c] \in Tasks
    <3>1. local[c] \in Seq(Tasks) /\ local[c] # <<>>
      BY <2>1 DEF QueueTypeOK, PcInv, Switch
    <3>2. Tail(local[c]) \in Seq(Tasks)
      BY <3>1
    <3>3. local' = [local EXCEPT ![c] = Tail(local[c])] /\ dsq' = dsq
      BY <2>1 DEF Switch
    <3>4. QED
      BY <3>2, <3>3 DEF QueueTypeOK
  <2>2. CASE next[c] \notin Tasks
    BY <2>2 DEF QueueTypeOK, Switch
  <2>3. QED
    BY <2>1, <2>2
<1>3. CpuTypeOK'
  BY DEF CpuTypeOK, Switch
<1>4. TaskTypeOK'
  BY DEF TaskTypeOK, EnqType, Switch
<1>5. PcInv'
  <2>1. \A d \in CPUs \ {c} : /\ sched'[d] = sched[d] /\ curr'[d] = curr[d]
                              /\ next'[d] = next[d] /\ local'[d] = local[d]
    BY DEF CpuTypeOK, QueueTypeOK, Switch
  <2>2. sched'[c] \in {"hook", "run"}
    BY DEF CpuTypeOK, Switch
  <2>3. enq' = enq
    BY DEF Switch
  <2>4. QED
    BY <2>1, <2>2, <2>3 DEF PcInv, HoldsRq
<1>6. OnlineInv'
  BY DEF OnlineInv, Switch
<1>7. QED
  BY <1>1, <1>2, <1>3, <1>4, <1>5, <1>6

\* Every step preserves the invariant.
LEMMA NextInv == Inv /\ [Next]_vars => Inv'
<1> SUFFICES ASSUME Inv, [Next]_vars PROVE Inv'
  OBVIOUS
<1>1. CASE UNCHANGED vars
  BY <1>1 DEF vars, kernel, Inv, TypeOK, CtxTypeOK, QueueTypeOK, CpuTypeOK, TaskTypeOK,
     PcInv, HoldsRq, OnlineInv
<1>2. ASSUME NEW t \in Tasks, TaskStep(t) PROVE Inv'
  <2>1. CASE Enqueue(t)
    BY <2>1, DirectInsertInv, EnqueuePlaceInv, EnqueueInsertInv, EnqueueObserveInv,
       EnqueueKickInv DEF Enqueue
  <2>2. CASE \E w \in Wakers, k \in OwnTiers[t] : WakeUp(t, w, k) \/ WakeUpInPlace(t, w, k)
    BY <2>2, WakeUpInv, WakeUpInPlaceInv
  <2>3. CASE \E c \in Online, k \in Tiers : ChangeAttr(t, c, k)
    BY <2>3, ChangeAttrInv
  <2>4. QED
    BY <1>2, <2>1, <2>2, <2>3 DEF TaskStep
<1>3. ASSUME NEW c \in Online, Course(c) PROVE Inv'
  BY <1>3, KickIdleInv, KickPreemptInv, SliceEndInv, PickNextInv, DispatchInv, PutPrevInv,
     SwitchInv, SchedSwitchInv, ReenqueueLocalInv DEF Course
<1>4. ASSUME NEW c \in Online, CpuStep(c) PROVE Inv'
  BY <1>3, <1>4, HigherWakesInv, HigherSleepsInv, SleepInv, ExitInv DEF CpuStep
<1>5. QED
  BY <1>1, <1>2, <1>4 DEF Next

\* The inductive invariant of the core holds in every state.
THEOREM SchedInvariant == Spec => []Inv
BY InitInv, NextInv, PTL DEF Spec

\* Every variable of the core keeps its type, for every number of cpus and tasks.
THEOREM SchedTypeOK == Spec => []TypeOK
<1>1. Inv => TypeOK
  BY DEF Inv
<1>2. QED
  BY <1>1, SchedInvariant, PTL

-----------------------------------------------------------------------------
(* The count of realtime cpus                                              *)

\* Outside of the sched_switch hook a mark belongs to an RT task: a switch away
\* from one is followed by the hook before anything else happens on the cpu.
RtInv ==
  /\ nr_rt_busy = Cardinality({c \in CPUs : dctx[c].rt_busy})
  /\ \A c \in CPUs : sched[c] # "hook" /\ dctx[c].rt_busy => cpu_taken_by_rt(c)

\* A step that leaves the marks, the running tasks and the hooks alone.
RtUnchanged ==
  /\ nr_rt_busy' = nr_rt_busy
  /\ \A c \in CPUs : /\ dctx'[c].rt_busy = dctx[c].rt_busy
                     /\ curr'[c] = curr[c]
                     /\ sched'[c] = "hook" <=> sched[c] = "hook"

\* Such a step preserves RtInv.
LEMMA RtFrame ==
  ASSUME RtInv, RtUnchanged
  PROVE  RtInv'
<1>1. {c \in CPUs : dctx'[c].rt_busy} = {c \in CPUs : dctx[c].rt_busy}
  BY DEF RtUnchanged
<1>2. QED
  BY <1>1 DEF RtInv, RtUnchanged, cpu_taken_by_rt, is_rt_task

\* No step of a task touches the marks.
LEMMA TaskStepRt ==
  ASSUME Inv, NEW t \in Tasks, TaskStep(t)
  PROVE  RtUnchanged
<1> USE DEF RtUnchanged, Inv, TypeOK
<1>1. CASE EnqueueKick(t)
  <2> DEFINE o == enq[t].cpu
  <2>1. o \in CPUs
    BY <1>1, ConstantsAssumption DEF PcInv, HoldsRq, EnqueueKick
  <2>2. /\ dctx' = [dctx EXCEPT ![o] = [@ EXCEPT !.preempt_pending = TRUE]]
        /\ UNCHANGED <<nr_rt_busy, curr, sched>>
    BY <1>1 DEF EnqueueKick
  <2> HIDE DEF o
  <2>3. dctx[o] \in CpuCtxType
    BY <2>1 DEF CtxTypeOK
  <2>4. [dctx[o] EXCEPT !.preempt_pending = TRUE].rt_busy = dctx[o].rt_busy
    BY <2>3, CpuCtxSteps
  <2>5. QED
    BY <2>1, <2>2, <2>4 DEF CtxTypeOK
<1>2. CASE ~ EnqueueKick(t)
  <2>1. UNCHANGED <<dctx, nr_rt_busy, curr, sched>>
    BY <1>2 DEF TaskStep, Enqueue, WakeUp, WakeUpInPlace, ChangeAttr, DirectInsert,
       EnqueuePlace, EnqueueInsert, EnqueueObserve
  <2>2. QED
    BY <2>1
<1>3. QED
  BY <1>1, <1>2

\* Of the steps of a cpu only the switch and its hook do.
LEMMA CpuStepRt ==
  ASSUME Inv, NEW c \in Online, CpuStep(c), ~ Switch(c), ~ SchedSwitch(c)
  PROVE  RtUnchanged
<1> USE ConstantsAssumption DEF RtUnchanged, Inv, TypeOK
<1>1. UNCHANGED <<nr_rt_busy, curr>>
  BY ZenonT(60) DEF CpuStep, Course, KickIdle, KickPreempt, SliceEnd, PickNext, Dispatch, PutPrev,
     ReenqueueLocal, HigherWakes, HigherSleeps, Sleep, Exit
<1>2. \/ sched' = sched
      \/ /\ sched[c] # "hook"
         /\ \E x \in {"run", "pick", "put", "switch"} : sched' = [sched EXCEPT ![c] = x]
  <2>1. RqFree(c) \/ Picking(c) \/ sched[c] = "put" => sched[c] # "hook"
    BY DEF RqFree, Picking
  <2>2. LooksForTask(c) => Picking(c)
    BY DEF LooksForTask
  <2>3. CASE Course(c)
    <3>1. CASE PickNext(c)
      BY <2>1, <2>2, <3>1 DEF PickNext
    <3>2. ASSUME NEW k, NEW spent, NEW starved, Dispatch(c, k, spent, starved)
          PROVE  /\ LooksForTask(c)
                 /\ \E x \in {"run", "put", "switch"} : sched' = [sched EXCEPT ![c] = x]
      <4>1. LooksForTask(c) /\ (IF PrevRuns(c) THEN "put" ELSE "switch") \in {"put", "switch"}
        BY <3>2 DEF Dispatch
      <4>2. QED
        BY <3>2, <4>1, ZenonT(60) DEF Dispatch
    <3>3. ASSUME NEW k, NEW left, NEW spent, PutPrev(c, k, left, spent)
          PROVE  sched[c] = "put" /\ sched' = [sched EXCEPT ![c] = "switch"]
      BY <3>3 DEF PutPrev
    <3>4. CASE KickIdle(c) \/ KickPreempt(c) \/ SliceEnd(c) \/ ReenqueueLocal(c)
      BY <3>4 DEF KickIdle, KickPreempt, SliceEnd, ReenqueueLocal
    <3>5. QED
      BY <2>1, <2>2, <2>3, <3>1, <3>2, <3>3, <3>4 DEF Course
  <2>4. CASE ~ Course(c)
    BY <2>1, <2>4 DEF CpuStep, HigherWakes, HigherSleeps, Sleep, Exit
  <2>5. QED
    BY <2>3, <2>4
<1>3. \/ dctx' = dctx
      \/ dctx' = [dctx EXCEPT ![c] = stopping_cpu(@)]
      \/ \E x \in CtxType : dctx' = [dctx EXCEPT ![c] = running_cpu(@, x)]
  <2>1. CASE \E k \in Classes(curr[c]), spent \in BOOLEAN, starved \in StarvedTiers \cup {EMPTY} :
                Dispatch(c, k, spent, starved)
    <3>1. PICK k \in Classes(curr[c]), spent \in BOOLEAN, starved \in StarvedTiers \cup {EMPTY} :
                 Dispatch(c, k, spent, starved)
      BY <2>1, SMTT(30)
    <3> DEFINE px == IF PrevRuns(c) THEN dispatch_prev(c, k, spent) ELSE init_task_ctx(NoTask)
               kept == IF spent THEN Unboosted(px) ELSE px
    <3>2. dctx' = dctx \/ (PrevRuns(c) /\ dctx' = [dctx EXCEPT ![c] = running_cpu(@, kept)])
      BY <3>1 DEF Dispatch
    <3>3. PrevRuns(c) => kept \in CtxType
      <4>1. PrevRuns(c) => tctx[curr[c]] \in CtxType /\ k \in Tiers
        BY DEF PrevRuns, Classes, CtxTypeOK
      <4>2. PrevRuns(c) => dispatch_prev(c, k, spent) \in CtxType
        BY <4>1, CtxSteps DEF dispatch_prev
      <4>3. QED
        BY <4>2, UnboostedCtx
    <3> HIDE DEF kept
    <3>4. QED
      BY <3>2, <3>3
  <2>2. CASE ~ \E k \in Classes(curr[c]), spent \in BOOLEAN, starved \in StarvedTiers \cup {EMPTY} :
                Dispatch(c, k, spent, starved)
    BY <2>2 DEF CpuStep, Course, KickIdle, KickPreempt, SliceEnd, PickNext, PutPrev,
       ReenqueueLocal, HigherWakes, HigherSleeps, Sleep, Exit
  <2>3. QED
    BY <2>1, <2>2
<1>4. \A d \in CPUs : dctx'[d].rt_busy = dctx[d].rt_busy
  <2>1. dctx[c] \in CpuCtxType
    BY DEF CtxTypeOK
  <2>2. stopping_cpu(dctx[c]).rt_busy = dctx[c].rt_busy
    BY <2>1, CpuCtxSteps
  <2>3. \A x \in CtxType : running_cpu(dctx[c], x).rt_busy = dctx[c].rt_busy
    BY <2>1, RunningCpu
  <2>4. QED
    BY <1>3, <2>2, <2>3 DEF CtxTypeOK
<1>5. \A d \in CPUs : sched'[d] = "hook" <=> sched[d] = "hook"
  BY <1>2 DEF CpuTypeOK
<1>6. QED
  BY <1>1, <1>4, <1>5

\* A switch with a mark to take back leads to the hook.
LEMMA SwitchRt ==
  ASSUME Inv, RtInv, NEW c \in Online, Switch(c)
  PROVE  RtInv'
<1> USE ConstantsAssumption DEF Inv, TypeOK
<1>1. \A d \in CPUs : dctx'[d].rt_busy = dctx[d].rt_busy
  <2>1. dctx[c] \in CpuCtxType
    BY DEF CtxTypeOK
  <2>2. next[c] \in Tasks => running_cpu(dctx[c], tctx[next[c]]).rt_busy = dctx[c].rt_busy
    BY <2>1, RunningCpu DEF CtxTypeOK
  <2>3. QED
    BY <2>2 DEF CtxTypeOK, Switch
<1>2. nr_rt_busy' = nr_rt_busy
  BY DEF Switch
<1>3. {d \in CPUs : dctx'[d].rt_busy} = {d \in CPUs : dctx[d].rt_busy}
  BY <1>1
<1>4. \A d \in CPUs \ {c} : sched'[d] = sched[d] /\ curr'[d] = curr[d]
  BY DEF CpuTypeOK, Switch
<1>5. dctx[c].rt_busy /\ sched'[c] # "hook" => curr'[c] = curr[c]
  BY DEF CpuTypeOK, Switch, HookActs
<1>6. sched[c] = "switch"
  BY DEF Switch
<1>7. QED
  BY <1>1, <1>2, <1>3, <1>4, <1>5, <1>6 DEF RtInv, cpu_taken_by_rt, is_rt_task

\* The hook counts a change of the mark, and only a change.
LEMMA SchedSwitchRt ==
  ASSUME Inv, RtInv, NEW c \in Online, SchedSwitch(c)
  PROVE  RtInv'
<1> USE ConstantsAssumption DEF Inv, TypeOK
<1> DEFINE rt == is_rt_task(curr[c])
           B == {d \in CPUs : dctx[d].rt_busy}
<1>1. rt \in BOOLEAN
  BY DEF is_rt_task
<1>2. /\ dctx' = [dctx EXCEPT ![c] = [@ EXCEPT !.rt_busy = rt]]
      /\ nr_rt_busy' = count_rt_busy(c, rt)
      /\ curr' = curr
      /\ sched' = [sched EXCEPT ![c] = "run"]
  BY DEF SchedSwitch
<1> HIDE DEF rt
<1>3. dctx[c] \in CpuCtxType
  BY DEF CtxTypeOK
<1>4. [dctx[c] EXCEPT !.rt_busy = rt].rt_busy = rt
  BY <1>1, <1>3, CpuCtxSteps
<1>5. (\A d \in CPUs \ {c} : dctx'[d] = dctx[d]) /\ dctx'[c].rt_busy = rt
  BY <1>2, <1>4 DEF CtxTypeOK
<1>6. {d \in CPUs : dctx'[d].rt_busy} = IF rt THEN B \cup {c} ELSE B \ {c}
  BY <1>5
<1>7. IsFiniteSet(B)
  BY FS_Subset
<1>8. Cardinality(IF rt THEN B \cup {c} ELSE B \ {c}) = count_rt_busy(c, rt)
  <2>1. c \in B <=> dctx[c].rt_busy
    OBVIOUS
  <2>2. nr_rt_busy = Cardinality(B) /\ Cardinality(B) \in Nat
    BY <1>7, FS_CardinalityType DEF RtInv
  <2> HIDE DEF B
  <2>3. CASE rt
    <3>1. Cardinality(B \cup {c}) = IF c \in B THEN Cardinality(B) ELSE Cardinality(B) + 1
      BY <1>7, FS_AddElement
    <3>2. (rt = dctx[c].rt_busy) <=> dctx[c].rt_busy
      BY <1>3, <2>3 DEF CpuCtxType
    <3>3. QED
      BY <2>1, <2>2, <2>3, <3>1, <3>2 DEF count_rt_busy
  <2>4. CASE ~ rt
    <3>1. Cardinality(B \ {c}) = IF c \in B THEN Cardinality(B) - 1 ELSE Cardinality(B)
      BY <1>7, FS_RemoveElement
    <3>2. (rt = dctx[c].rt_busy) <=> ~ dctx[c].rt_busy
      BY <1>1, <1>3, <2>4 DEF CpuCtxType
    <3>3. QED
      BY <2>1, <2>2, <2>4, <3>1, <3>2 DEF count_rt_busy
  <2>5. QED
    BY <2>3, <2>4
<1>9. \A d \in CPUs : sched'[d] # "hook" /\ dctx'[d].rt_busy => is_rt_task(curr'[d])
  <2>1. \A d \in CPUs \ {c} : sched'[d] = sched[d]
    BY <1>2 DEF CpuTypeOK
  <2>2. dctx'[c].rt_busy => is_rt_task(curr'[c])
    BY <1>2, <1>5 DEF rt
  <2>3. QED
    BY <1>2, <1>5, <2>1, <2>2 DEF RtInv, cpu_taken_by_rt
<1>10. QED
  BY <1>2, <1>6, <1>8, <1>9 DEF RtInv, cpu_taken_by_rt

\* The count is right in every state, and no mark outlives its RT task, also when
\* the scheduler is loaded while realtime tasks run (lunar_sched_switch).
THEOREM SchedRtBusyCounted == Spec => []RtBusyCounted
<1>1. Init => RtInv
  <2> SUFFICES ASSUME Init PROVE RtInv
    OBVIOUS
  <2>1. {c \in CPUs : dctx[c].rt_busy} = {}
    BY DEF Init
  <2>2. QED
    BY <2>1, FS_EmptySet DEF Init, RtInv
<1>2. Inv /\ RtInv /\ [Next]_vars => RtInv'
  <2> SUFFICES ASSUME Inv, RtInv, [Next]_vars PROVE RtInv'
    OBVIOUS
  <2>1. CASE UNCHANGED vars
    BY <2>1 DEF vars, kernel, RtInv, cpu_taken_by_rt
  <2>2. ASSUME NEW t \in Tasks, TaskStep(t) PROVE RtInv'
    BY <2>2, TaskStepRt, RtFrame
  <2>3. ASSUME NEW c \in Online, CpuStep(c) PROVE RtInv'
    BY <2>3, CpuStepRt, SwitchRt, SchedSwitchRt, RtFrame
  <2>4. QED
    BY <2>1, <2>2, <2>3 DEF Next
<1>3. RtInv => RtBusyCounted
  BY ConstantsAssumption DEF RtInv, RtBusyCounted
<1>4. QED
  BY <1>1, <1>2, <1>3, SchedInvariant, PTL DEF Spec

-----------------------------------------------------------------------------
(* Resumed slices                                                          *)

\* A step of a task keeps NoStaleResume.
LEMMA TaskStepResume ==
  ASSUME Inv, NoStaleResume, NEW t \in Tasks, TaskStep(t)
  PROVE  NoStaleResume'
<1> USE ConstantsAssumption DEF Inv, TypeOK
<1>1. CASE \E limited \in BOOLEAN : EnqueuePlace(t, limited)
  <2>1. PICK x : tctx' = [tctx EXCEPT ![t] = [x EXCEPT !.resume_slice = FALSE]] /\ x \in CtxType
    <3>1. PICK limited \in BOOLEAN : EnqueuePlace(t, limited)
      BY <1>1
    <3>2. PICK w \in BoostContexts(t) :
            tctx' = [tctx EXCEPT ![t] =
                       [apply_wake_boost(t, tctx[t], w) EXCEPT !.resume_slice = FALSE]]
      BY <3>1 DEF EnqueuePlace
    <3>3. w \in Tasks \cup {NoTask}
      BY <3>2 DEF BoostContexts, TaskTypeOK, EnqType
    <3>4. apply_wake_boost(t, tctx[t], w) \in CtxType
      BY <3>3, WakeBoost DEF CtxTypeOK
    <3>5. QED
      BY <3>2, <3>4
  <2>2. ~ [x EXCEPT !.resume_slice = FALSE].resume_slice
    BY <2>1 DEF CtxType
  <2>3. \A u \in Tasks \ {t} : enq'[u] = enq[u]
    BY <1>1, ZenonT(60) DEF EnqueuePlace, TaskTypeOK
  <2>4. QED
    BY <2>1, <2>2, <2>3 DEF NoStaleResume, CtxTypeOK
<1>2. CASE DirectInsert(t) \/ EnqueueInsert(t) \/ EnqueueObserve(t) \/ EnqueueKick(t)
  <2>1. enq[t].at # "place" /\ tctx' = tctx /\ \A u \in Tasks \ {t} : enq'[u] = enq[u]
    BY <1>2 DEF DirectInsert, EnqueueInsert, EnqueueObserve, EnqueueKick, TaskTypeOK
  <2>2. QED
    BY <2>1 DEF NoStaleResume
<1>3. ASSUME NEW w \in Wakers, NEW k \in OwnTiers[t], WakeUp(t, w, k) \/ WakeUpInPlace(t, w, k)
      PROVE  NoStaleResume'
  <2>1. enq[t].at = "none" /\ \A u \in Tasks \ {t} : enq'[u] = enq[u] /\ tctx'[u] = tctx[u]
    BY <1>3 DEF WakeUp, WakeUpInPlace, TaskTypeOK, CtxTypeOK
  <2>2. ~ tctx[t].resume_slice /\ tctx[t] \in CtxType
    BY <2>1 DEF NoStaleResume, CtxTypeOK
  <2>3. ~ tctx'[t].resume_slice
    <3>1. w \in Tasks \cup {NoTask} /\ k \in Tiers
      BY DEF Wakers
    <3> DEFINE x == apply_wake_boost(t, tctx[t], w)
    <3>2. x \in CtxType /\ ~ x.resume_slice
      BY <2>2, <3>1, WakeBoost
    <3>3. ~ Reclassified(x, k).resume_slice /\ ~ Reclassified(tctx[t], k).resume_slice
      BY <2>2, <3>1, <3>2, CtxSteps, ZenonT(60)
    <3> HIDE DEF x
    <3>4. \E y \in {x, tctx[t], Reclassified(x, k), Reclassified(tctx[t], k)} :
            tctx' = [tctx EXCEPT ![t] = y]
      BY <1>3 DEF WakeUp, WakeUpInPlace, x
    <3>5. QED
      BY <2>2, <3>2, <3>3, <3>4 DEF CtxTypeOK
  <2>4. QED
    BY <2>1, <2>3 DEF NoStaleResume
<1>4. ASSUME NEW c \in Online, NEW k \in Tiers, ChangeAttr(t, c, k)
      PROVE  NoStaleResume'
  <2>1. ~ quiescent_ctx(tctx[t]).resume_slice
    BY CtxSteps DEF CtxTypeOK
  <2>2. /\ tctx' = [tctx EXCEPT ![t] = quiescent_ctx(@)]
        /\ \A u \in Tasks \ {t} : enq'[u] = enq[u]
    BY <1>4 DEF ChangeAttr, TaskTypeOK
  <2>3. QED
    BY <2>1, <2>2 DEF NoStaleResume, CtxTypeOK
<1>5. QED
  BY <1>1, <1>2, <1>3, <1>4 DEF TaskStep, Enqueue

\* A step of a cpu keeps NoStaleResume: a slice is given back only to a task that
\* goes through ops.enqueue next.
LEMMA CpuStepResume ==
  ASSUME Inv, NoStaleResume, NEW c \in Online, CpuStep(c)
  PROVE  NoStaleResume'
<1> USE ConstantsAssumption DEF Inv, TypeOK
<1> DEFINE t == curr[c]
<1>1. ASSUME NEW k \in Classes(curr[c]), NEW left \in BOOLEAN, NEW spent \in BOOLEAN,
             PutPrev(c, k, left, spent)
      PROVE  NoStaleResume'
  <2> DEFINE y == stopping_ctx(tctx[t], TRUE, dctx[c].preempt_pending, ~ slice[t], left, k, spent)
  <2>1. t \in Tasks /\ k \in Tiers
    BY <1>1 DEF PcInv, PutPrev, Classes
  <2>2. dctx[c] \in CpuCtxType /\ tctx[t] \in CtxType
    BY <2>1 DEF CtxTypeOK
  <2>3. dctx[c].preempt_pending \in BOOLEAN /\ (~ slice[t]) \in BOOLEAN
    BY <2>2 DEF CpuCtxType
  <2>4. y.resume_slice => tctx[t].resume_slice \/ ~ slice[t]
    BY <2>1, <2>2, <2>3, StoppingCtx
  <2>5. tctx' = [tctx EXCEPT ![t] = y]
    BY <1>1 DEF PutPrev
  <2> HIDE DEF y
  <2>6. BeginEnqueue("place", FALSE, NoTask).at = "place"
    BY DEF BeginEnqueue, NoEnqueue
  <2>7. \/ slice[t] /\ enq' = enq
        \/ ~ slice[t] /\ enq' = [enq EXCEPT ![t] = BeginEnqueue("place", FALSE, NoTask)]
    BY <1>1 DEF PutPrev
  <2>8. y.resume_slice => enq'[t].at = "place"
    BY <2>1, <2>4, <2>6, <2>7 DEF NoStaleResume, TaskTypeOK
  <2>9. \A u \in Tasks \ {t} : enq'[u] = enq[u]
    BY <2>7 DEF TaskTypeOK
  <2>10. QED
    BY <2>1, <2>5, <2>8, <2>9 DEF NoStaleResume, CtxTypeOK
<1>2. ASSUME NEW k \in Classes(curr[c]), NEW spent \in BOOLEAN,
             NEW starved \in StarvedTiers \cup {EMPTY}, Dispatch(c, k, spent, starved)
      PROVE  NoStaleResume'
  <2> DEFINE px == IF PrevRuns(c) THEN dispatch_prev(c, k, spent) ELSE init_task_ctx(NoTask)
             kept == IF spent THEN Unboosted(px) ELSE px
  <2>1. PrevRuns(c) => t \in Tasks /\ tctx[t] \in CtxType /\ k \in Tiers
    BY DEF PrevRuns, Classes, CtxTypeOK
  <2>2. PrevRuns(c) => px \in CtxType /\ px.resume_slice = tctx[t].resume_slice
    BY <2>1, CtxSteps, UnboostedCtx, ZenonT(60) DEF dispatch_prev
  <2>3. PrevRuns(c) => kept.resume_slice = tctx[t].resume_slice
    BY <2>2, UnboostedCtx
  <2>4. enq' = enq
    BY <1>2 DEF Dispatch
  <2>5. \/ tctx' = tctx
        \/ PrevRuns(c) /\ tctx' = [tctx EXCEPT ![t] = px]
        \/ PrevRuns(c) /\ tctx' = [tctx EXCEPT ![t] = kept]
    BY <1>2 DEF Dispatch
  <2> HIDE DEF px, kept
  <2>6. QED
    BY <2>1, <2>2, <2>3, <2>4, <2>5 DEF NoStaleResume, CtxTypeOK
<1>3. ASSUME NEW k \in Classes(curr[c]), Sleep(c, k)
      PROVE  NoStaleResume'
  <2> DEFINE y == stopping_ctx(tctx[t], FALSE, dctx[c].preempt_pending, ~ slice[t], FALSE, k, FALSE)
  <2>1. t \in Tasks /\ k \in Tiers
    BY <1>3 DEF Sleep, Classes
  <2>2. dctx[c] \in CpuCtxType /\ tctx[t] \in CtxType
    BY <2>1 DEF CtxTypeOK
  <2>3. dctx[c].preempt_pending \in BOOLEAN /\ (~ slice[t]) \in BOOLEAN
    BY <2>2 DEF CpuCtxType
  <2>4. y \in CtxType
    BY <2>1, <2>2, <2>3, StoppingCtx
  <2>5. ~ quiescent_ctx(y).resume_slice
    BY <2>1, <2>4, CtxSteps
  <2>6. tctx' = [tctx EXCEPT ![t] = quiescent_ctx(y)] /\ enq' = enq
    BY <1>3 DEF Sleep
  <2> HIDE DEF y
  <2>7. QED
    BY <2>5, <2>6 DEF NoStaleResume, CtxTypeOK
<1>4. CASE Exit(c)
  <2>1. tctx' = [tctx EXCEPT ![t] = init_task_ctx(t)] /\ enq' = enq
    BY <1>4 DEF Exit
  <2>2. ~ init_task_ctx(t).resume_slice
    BY InitTaskCtx
  <2>3. QED
    BY <2>1, <2>2 DEF NoStaleResume, CtxTypeOK
<1>5. CASE ReenqueueLocal(c)
  <2>1. BeginEnqueue("place", FALSE, NoTask).at = "place"
    BY DEF BeginEnqueue, NoEnqueue
  <2>2. tctx' = tctx /\ \A u \in Tasks : enq'[u] = enq[u] \/ enq'[u].at = "place"
    BY <1>5, <2>1 DEF ReenqueueLocal
  <2>3. QED
    BY <2>2 DEF NoStaleResume
<1>6. CASE \/ KickIdle(c) \/ KickPreempt(c) \/ SliceEnd(c) \/ PickNext(c) \/ Switch(c)
           \/ SchedSwitch(c) \/ HigherSleeps(c) \/ \E h \in Higher[c] : HigherWakes(c, h)
  <2>1. UNCHANGED <<tctx, enq>>
    BY <1>6 DEF KickIdle, KickPreempt, SliceEnd, PickNext, Switch, SchedSwitch,
       HigherSleeps, HigherWakes
  <2>2. QED
    BY <2>1 DEF NoStaleResume
<1>7. QED
  BY <1>1, <1>2, <1>3, <1>4, <1>5, <1>6 DEF CpuStep, Course

\* The rest of a slice is always used up by the enqueue that follows the
\* preemption (lunar_stopping, lunar_enqueue).
THEOREM SchedNoStaleResume == Spec => []NoStaleResume
<1>1. Init => NoStaleResume
  BY InitTaskCtx DEF Init, NoStaleResume
<1>2. Inv /\ NoStaleResume /\ [Next]_vars => NoStaleResume'
  <2> SUFFICES ASSUME Inv, NoStaleResume, [Next]_vars PROVE NoStaleResume'
    OBVIOUS
  <2>1. CASE UNCHANGED vars
    BY <2>1 DEF vars, kernel, NoStaleResume
  <2>2. CASE Next
    BY <2>2, TaskStepResume, CpuStepResume DEF Next
  <2>3. QED
    BY <2>1, <2>2
<1>3. QED
  BY <1>1, <1>2, SchedInvariant, PTL DEF Spec

-----------------------------------------------------------------------------
(* Offline cpus                                                            *)

\* A step that changes the queues of online cpus only.
OfflineUnchanged ==
  \A d \in CPUs \ Online : local'[d] = local[d] /\ \A k \in Tiers : dsq'[d][k] = dsq[d][k]

\* Every step is of that kind.
LEMMA StepOffline ==
  ASSUME Inv, OfflineUnused, Next
  PROVE  OfflineUnchanged
<1> USE ConstantsAssumption DEF Inv, TypeOK, OfflineUnchanged
<1>1. ASSUME NEW t \in Tasks, EnqueueInsert(t) PROVE OfflineUnchanged
  <2>1. enq[t].cpu \in Online
    BY <1>1 DEF PcInv, HoldsRq, EnqueueInsert
  <2>2. QED
    BY <1>1, <2>1 DEF EnqueueInsert, QueueTypeOK
<1>2. ASSUME NEW t \in Tasks, DirectInsert(t) PROVE OfflineUnchanged
  <2>1. task_cpu[t] \in Online
    BY DEF OnlineInv
  <2>2. QED
    BY <1>2, <2>1 DEF DirectInsert, QueueTypeOK
<1>3. ASSUME NEW t \in Tasks, NEW c \in Online, NEW k \in Tiers, ChangeAttr(t, c, k)
      PROVE  OfflineUnchanged
  BY <1>3 DEF ChangeAttr, QueueTypeOK
<1>4. ASSUME NEW t \in Tasks, TaskStep(t), ~ EnqueueInsert(t), ~ DirectInsert(t),
             \A c \in Online, k \in Tiers : ~ ChangeAttr(t, c, k)
      PROVE  UNCHANGED <<dsq, local>>
  BY <1>4 DEF TaskStep, Enqueue, EnqueuePlace, EnqueueObserve, EnqueueKick, WakeUp, WakeUpInPlace
<1>5. ASSUME NEW c \in Online, NEW k \in Classes(curr[c]), NEW spent \in BOOLEAN,
             NEW starved \in StarvedTiers \cup {EMPTY}, Dispatch(c, k, spent, starved)
      PROVE  OfflineUnchanged
  <2> DEFINE px == IF PrevRuns(c) THEN dispatch_prev(c, k, spent) ELSE init_task_ctx(NoTask)
             prev_tier == IF PrevRuns(c) THEN effective_tier(px) ELSE EMPTY
             found == dispatch_dsq_per_cpu(c, prev_tier, starved)
  <2>1. prev_tier \in Tiers \cup {EMPTY}
    <3>1. PrevRuns(c) => tctx[curr[c]] \in CtxType /\ k \in Tiers
      BY DEF PrevRuns, Classes, CtxTypeOK
    <3>2. PrevRuns(c) => px \in CtxType
      BY <3>1, CtxSteps, UnboostedCtx DEF dispatch_prev
    <3>3. QED
      BY <3>2, EffectiveTier
  <2>2. \/ UNCHANGED <<dsq, local>>
        \/ \E r \in found : \E s, q : /\ dsq' = [dsq EXCEPT ![r.from][r.tier] = s]
                                      /\ local' = [local EXCEPT ![c] = q]
    <3>1. \/ UNCHANGED <<dsq, local>>
          \/ \E r \in found :
               LET i == FirstFor(r.from, r.tier, c)
               IN /\ dsq' = [dsq EXCEPT ![r.from][r.tier] = Without(@, i)]
                  /\ local' = [local EXCEPT ![c] = <<dsq[r.from][r.tier][i]>>]
      BY <1>5 DEF Dispatch
    <3> HIDE DEF px, prev_tier, found
    <3>2. QED
      BY <3>1
  <2> HIDE DEF px, prev_tier, found
  <2>3. \A r \in found : r.from \in Online /\ r.tier \in Tiers
    <3> SUFFICES ASSUME NEW r \in found PROVE r.from \in Online /\ r.tier \in Tiers
      OBVIOUS
    <3>1. r.tier \in Tiers /\ r.from \in CPUs /\ Takeable(r.from, r.tier, c)
      <4>1. c \in CPUs /\ starved \in Tiers \cup {EMPTY}
        OBVIOUS
      <4>2. r \in dispatch_dsq_per_cpu(c, prev_tier, starved)
        BY DEF found
      <4>3. QED
        BY <2>1, <4>1, <4>2, DispatchFinds
    <3>2. dsq[r.from][r.tier] # <<>>
      BY <3>1 DEF Takeable
    <3>3. QED
      BY <3>1, <3>2 DEF OfflineUnused
  <2>4. CASE UNCHANGED <<dsq, local>>
    BY <2>4
  <2>5. ASSUME NEW r \in found, NEW s, NEW q,
               dsq' = [dsq EXCEPT ![r.from][r.tier] = s], local' = [local EXCEPT ![c] = q]
        PROVE  OfflineUnchanged
    <3>1. r.from \in Online
      BY <2>3
    <3>2. QED
      BY <2>5, <3>1 DEF QueueTypeOK
  <2>6. QED
    BY <2>2, <2>4, <2>5
<1>6. ASSUME NEW c \in Online, CpuStep(c),
             ~ \E k \in Classes(curr[c]), spent \in BOOLEAN,
                  starved \in StarvedTiers \cup {EMPTY} : Dispatch(c, k, spent, starved)
      PROVE  dsq' = dsq /\ (local' = local \/ \E q : local' = [local EXCEPT ![c] = q])
  BY <1>6 DEF CpuStep, Course, KickIdle, KickPreempt, SliceEnd, PickNext, PutPrev, Switch,
     SchedSwitch, ReenqueueLocal, HigherWakes, HigherSleeps, Sleep, Exit
<1>7. ASSUME NEW c \in Online, CpuStep(c) PROVE OfflineUnchanged
  <2>1. CASE \E k \in Classes(curr[c]), spent \in BOOLEAN,
                starved \in StarvedTiers \cup {EMPTY} : Dispatch(c, k, spent, starved)
    BY <1>5, <2>1
  <2>2. CASE dsq' = dsq /\ (local' = local \/ \E q : local' = [local EXCEPT ![c] = q])
    BY <2>2 DEF QueueTypeOK
  <2>3. QED
    BY <1>6, <1>7, <2>1, <2>2
<1>8. ASSUME NEW t \in Tasks, TaskStep(t) PROVE OfflineUnchanged
  BY <1>1, <1>2, <1>3, <1>4, <1>8
<1>9. QED
  BY <1>7, <1>8 DEF Next

\* No task ever waits on an offline cpu (pick_enqueue_cpu, lunar_enqueue).
THEOREM SchedOfflineUnused == Spec => []OfflineUnused
<1>1. Init => OfflineUnused
  BY DEF Init, OfflineUnused
<1>2. Inv /\ OfflineUnused /\ [Next]_vars => OfflineUnused'
  <2> SUFFICES ASSUME Inv, OfflineUnused, [Next]_vars PROVE OfflineUnused'
    OBVIOUS
  <2>1. CASE UNCHANGED vars
    BY <2>1 DEF vars, kernel, OfflineUnused
  <2>2. CASE Next
    BY <2>2, StepOffline DEF OfflineUnused, OfflineUnchanged
  <2>3. QED
    BY <2>1, <2>2
<1>3. QED
  BY <1>1, <1>2, SchedInvariant, PTL DEF Spec


-----------------------------------------------------------------------------
(* Where a task is                                                         *)

\* From here on the numbers of the tiers do not matter.
HIDE DEF LC, INTERACTIVE, NORMAL, GREEDY, EMPTY, Tiers

\* A task is only ever on the way to a cpu it may run on.
AllowedAt(t) ==
  /\ task_cpu[t] \in Allowed[t]
  /\ HoldsRq(t) => enq[t].cpu \in Allowed[t]

\* An enqueue in progress and the state of its task agree, and from the placement
\* to the insertion the tier it is for is that of the task.
EnqAt(t) ==
  /\ state[t] = "enqueue" <=> enq[t].at # "none"
  /\ enq[t].at \in {"observe", "kick"} => ~ enq[t].head
  /\ HoldsRq(t) => enq[t].tier = effective_tier(tctx[t])

\* A task that goes back to the head of its queue is still on its cpu, which is
\* about to switch to another one.
ResumeAt(t) ==
  /\ enq[t].at = "insert" /\ enq[t].head => enq[t].cpu = task_cpu[t]
  /\ tctx[t].resume_slice \/ (enq[t].at = "insert" /\ enq[t].head) =>
       /\ curr[task_cpu[t]] = t
       /\ sched[task_cpu[t]] = "switch"
       /\ next[task_cpu[t]] # Idle

\* A task on a cpu belongs to it, and runs until the cpu stops it.
CurrAt(c) ==
  curr[c] \in Tasks =>
    /\ task_cpu[curr[c]] = c
    /\ state[curr[c]] = "running" <=> sched[c] \in {"run", "put", "hook"}

\* The task a cpu is about to switch to is the head of its local DSQ.  It puts a
\* task back only for another one, and for one of ours only at the end of a slice.
PickedAt(c) ==
  /\ sched[c] \in {"put", "switch"} /\ next[c] \in Tasks => next[c] = local[c][1]
  /\ sched[c] = "put" => next[c] # Idle /\ (next[c] \in Tasks => ~ slice[curr[c]])

\* The tasks in a queue wait there, may run on its cpu, and are of its tier.
QueueInv ==
  \A c \in CPUs, k \in Tiers : \A i \in 1 .. Len(dsq[c][k]) :
    /\ state[dsq[c][k][i]] = "queued"
    /\ effective_tier(tctx[dsq[c][k][i]]) = k
    /\ c \in Allowed[dsq[c][k][i]]

\* A task has one place in one queue.
QueueOnce ==
  \A c, d \in CPUs, k, l \in Tiers :
    \A i \in 1 .. Len(dsq[c][k]), j \in 1 .. Len(dsq[d][l]) :
      dsq[c][k][i] = dsq[d][l][j] => c = d /\ k = l /\ i = j

\* A task has one place in the local DSQ of its cpu.
LocalAt(c) ==
  \A i \in 1 .. Len(local[c]) :
    /\ state[local[c][i]] = "local"
    /\ task_cpu[local[c][i]] = c
    /\ \A j \in 1 .. Len(local[c]) : local[c][i] = local[c][j] => i = j

TasksInv == \A t \in Tasks : AllowedAt(t) /\ EnqAt(t) /\ ResumeAt(t)

CpusInv == \A c \in CPUs : CurrAt(c) /\ PickedAt(c) /\ LocalAt(c)

\* Every task has one place.
Places == TasksInv /\ CpusInv /\ QueueInv /\ QueueOnce

-----------------------------------------------------------------------------
(* Queues that grow and shrink                                             *)

\* What is left of a queue without its i-th task.
LEMMA WithoutAt ==
  ASSUME NEW S, NEW s \in Seq(S), NEW i \in 1 .. Len(s)
  PROVE  /\ Len(Without(s, i)) = Len(s) - 1
         /\ \A j \in 1 .. Len(s) - 1 : Without(s, i)[j] = s[IF j < i THEN j ELSE j + 1]
<1> DEFINE a == SubSeq(s, 1, i - 1)
           b == SubSeq(s, i + 1, Len(s))
<1>1. /\ a \in Seq(S) /\ Len(a) = i - 1
      /\ \A j \in 1 .. i - 1 : a[j] = s[j]
  BY SubSeqProperties
<1>2. /\ b \in Seq(S) /\ Len(b) = Len(s) - i
      /\ \A j \in 1 .. Len(s) - i : b[j] = s[i + j]
  BY SubSeqProperties
<1> HIDE DEF a, b
<1>3. /\ Len(a \o b) = Len(a) + Len(b)
      /\ \A j \in 1 .. Len(a) + Len(b) : (a \o b)[j] = IF j <= Len(a) THEN a[j] ELSE b[j - Len(a)]
  BY <1>1, <1>2, ConcatProperties
<1>4. \A j \in 1 .. Len(s) - 1 : (a \o b)[j] = s[IF j < i THEN j ELSE j + 1]
  <2> SUFFICES ASSUME NEW j \in 1 .. Len(s) - 1
               PROVE  (a \o b)[j] = s[IF j < i THEN j ELSE j + 1]
    OBVIOUS
  <2>1. CASE j < i
    BY <1>1, <1>2, <1>3, <2>1
  <2>2. CASE ~ (j < i)
    <3>1. (a \o b)[j] = b[j - (i - 1)] /\ j - (i - 1) \in 1 .. Len(s) - i
      BY <1>1, <1>2, <1>3, <2>2
    <3>2. i + (j - (i - 1)) = j + 1
      OBVIOUS
    <3>3. QED
      BY <1>2, <2>2, <3>1, <3>2
  <2>3. QED
    BY <2>1, <2>2
<1>5. Len(a \o b) = Len(s) - 1
  BY <1>1, <1>2, <1>3
<1>6. Without(s, i) = a \o b
  BY DEF Without, a, b
<1>7. QED
  BY <1>4, <1>5, <1>6

\* The queues after a task joins one of them.
Joins(t, c, k) ==
  \/ dsq' = [dsq EXCEPT ![c][k] = <<t>> \o @]
  \/ dsq' = [dsq EXCEPT ![c][k] = Append(@, t)]

\* The queues after a task leaves one of them.
Leaves(t, c, k) ==
  \E i \in 1 .. Len(dsq[c][k]) :
    dsq[c][k][i] = t /\ dsq' = [dsq EXCEPT ![c][k] = Without(@, i)]

\* A task that joins a queue was in none, and stands there once.
LEMMA JoinQueue ==
  ASSUME Inv, QueueInv, QueueOnce, NEW t \in Tasks, NEW c \in CPUs, NEW k \in Tiers,
         state[t] # "queued", Joins(t, c, k)
  PROVE  /\ QueueOnce'
         /\ \A d \in CPUs, l \in Tiers : \A i \in 1 .. Len(dsq'[d][l]) :
              \/ dsq'[d][l][i] = t /\ d = c /\ l = k
              \/ \E j \in 1 .. Len(dsq[d][l]) : dsq'[d][l][i] = dsq[d][l][j]
<1> DEFINE q == dsq[c][k]
           r == dsq'[c][k]
<1>1. q \in Seq(Tasks)
  BY QueueOf DEF Inv, TypeOK
<1>2. /\ \A d \in CPUs, l \in Tiers : d # c \/ l # k => dsq'[d][l] = dsq[d][l]
      /\ r = <<t>> \o q \/ r = Append(q, t)
  BY DEF Inv, TypeOK, QueueTypeOK, Joins
<1>3. \A d \in CPUs, l \in Tiers : \A i \in 1 .. Len(dsq[d][l]) : dsq[d][l][i] # t
  BY DEF QueueInv
<1>4. \A d \in CPUs, l \in Tiers : Len(dsq[d][l]) \in Nat
  BY QueueOf DEF Inv, TypeOK
<1>5. PICK p \in {0, 1} : 
        /\ Len(r) = Len(q) + 1
        /\ r[IF p = 1 THEN 1 ELSE Len(q) + 1] = t
        /\ \A i \in 1 .. Len(q) : r[i + p] = q[i]
  <2>1. CASE r = <<t>> \o q
    <3>1. Len(r) = Len(q) + 1 /\ r[1] = t /\ \A i \in 1 .. Len(q) : r[i + 1] = q[i]
      BY <1>1, <2>1
    <3>2. QED
      BY <3>1
  <2>2. CASE r = Append(q, t)
    <3>1. Len(r) = Len(q) + 1 /\ r[Len(q) + 1] = t /\ \A i \in 1 .. Len(q) : r[i + 0] = q[i]
      BY <1>1, <2>2
    <3>2. QED
      BY <3>1
  <2>3. QED
    BY <1>2, <2>1, <2>2
<1>6. \A i \in 1 .. Len(r) : 
        \/ i = (IF p = 1 THEN 1 ELSE Len(q) + 1)
        \/ i - p \in 1 .. Len(q) /\ r[i] = q[i - p]
  <2>1. Len(q) \in Nat
    BY <1>4
  <2>2. \A i \in 1 .. Len(r) : i = (IF p = 1 THEN 1 ELSE Len(q) + 1) \/ i - p \in 1 .. Len(q)
    BY <1>5, <2>1
  <2>3. \A i \in 1 .. Len(r) : i - p \in 1 .. Len(q) => r[i - p + p] = q[i - p] /\ i - p + p = i
    BY <1>5, <2>1
  <2>4. QED
    BY <2>2, <2>3
<1> HIDE DEF q, r
<1>7. \A i, j \in 1 .. Len(r) : r[i] = r[j] => i = j
  <2>1. \A i, j \in 1 .. Len(q) : q[i] = q[j] => i = j
    BY DEF QueueOnce, q
  <2>2. \A i \in 1 .. Len(q) : q[i] # t
    BY <1>3 DEF q
  <2>3. Len(q) \in Nat
    BY <1>4 DEF q
  <2>4. QED
    BY <1>5, <1>6, <2>1, <2>2, <2>3
<1>8. \A i \in 1 .. Len(r) : r[i] = t \/ \E j \in 1 .. Len(q) : r[i] = q[j]
  BY <1>5, <1>6
<1>9. \A d \in CPUs, l \in Tiers : \A i \in 1 .. Len(dsq'[d][l]) :
        \/ dsq'[d][l][i] = t /\ d = c /\ l = k
        \/ \E j \in 1 .. Len(dsq[d][l]) : dsq'[d][l][i] = dsq[d][l][j]
  BY <1>2, <1>8, SMTT(30) DEF q, r
<1>10. \A d \in CPUs, l \in Tiers : \A i \in 1 .. Len(dsq'[d][l]) :
         dsq'[d][l][i] = t => d = c /\ l = k
  <2> SUFFICES ASSUME NEW d \in CPUs, NEW l \in Tiers, NEW i \in 1 .. Len(dsq'[d][l]),
                      dsq'[d][l][i] = t, ~ (d = c /\ l = k)
               PROVE  FALSE
    OBVIOUS
  <2>1. dsq'[d][l] = dsq[d][l]
    BY <1>2
  <2>2. QED
    BY <1>3, <2>1
<1>11. QueueOnce'
  <2> SUFFICES ASSUME NEW d \in CPUs, NEW e \in CPUs, NEW l \in Tiers, NEW m \in Tiers,
                      NEW i \in 1 .. Len(dsq'[d][l]), NEW j \in 1 .. Len(dsq'[e][m]),
                      dsq'[d][l][i] = dsq'[e][m][j]
               PROVE  d = e /\ l = m /\ i = j
    BY DEF QueueOnce
  <2>1. d = e /\ l = m
    <3>1. CASE dsq'[d][l][i] = t
      BY <1>10, <3>1
    <3>2. CASE dsq'[d][l][i] # t
      <4>1. PICK x \in 1 .. Len(dsq[d][l]) : dsq'[d][l][i] = dsq[d][l][x]
        BY <1>9, <3>2
      <4>2. PICK y \in 1 .. Len(dsq[e][m]) : dsq'[e][m][j] = dsq[e][m][y]
        BY <1>9, <3>2
      <4>3. dsq[d][l][x] = dsq[e][m][y]
        BY <4>1, <4>2
      <4>4. QED
        BY <4>3 DEF QueueOnce
    <3>3. QED
      BY <3>1, <3>2
  <2>2. CASE d = c /\ l = k
    BY <1>7, <2>1, <2>2 DEF r
  <2>3. CASE d # c \/ l # k
    BY <1>2, <2>1, <2>3 DEF QueueOnce
  <2>4. QED
    BY <2>2, <2>3
<1>12. QED
  BY <1>9, <1>11

\* A task that leaves its queue is in none.
LEMMA LeaveQueue ==
  ASSUME Inv, QueueOnce, NEW t \in Tasks, NEW c \in CPUs, NEW k \in Tiers, Leaves(t, c, k)
  PROVE  /\ QueueOnce'
         /\ \A d \in CPUs, l \in Tiers : \A i \in 1 .. Len(dsq'[d][l]) :
              /\ dsq'[d][l][i] # t
              /\ \E j \in 1 .. Len(dsq[d][l]) : dsq'[d][l][i] = dsq[d][l][j]
<1> DEFINE q == dsq[c][k]
           r == dsq'[c][k]
<1>1. q \in Seq(Tasks) /\ Len(q) \in Nat
  BY QueueOf DEF Inv, TypeOK
<1>2. PICK p \in 1 .. Len(q) : q[p] = t /\ dsq' = [dsq EXCEPT ![c][k] = Without(q, p)]
  BY DEF Leaves
<1>3. /\ \A d \in CPUs, l \in Tiers : d # c \/ l # k => dsq'[d][l] = dsq[d][l]
      /\ r = Without(q, p)
  BY <1>2 DEF Inv, TypeOK, QueueTypeOK
<1> HIDE DEF q, r
<1>4. Len(r) = Len(q) - 1 /\ \A j \in 1 .. Len(q) - 1 : r[j] = q[IF j < p THEN j ELSE j + 1]
  BY <1>1, <1>3, WithoutAt
<1>5. \A i, j \in 1 .. Len(q) : q[i] = q[j] => i = j
  BY DEF QueueOnce, q
<1>6. \A i \in 1 .. Len(r) : (IF i < p THEN i ELSE i + 1) \in 1 .. Len(q) \ {p}
  BY <1>1, <1>4
<1>7. \A i \in 1 .. Len(r) : r[i] # t /\ \E j \in 1 .. Len(q) : r[i] = q[j]
  <2> SUFFICES ASSUME NEW i \in 1 .. Len(r) PROVE r[i] # t /\ \E j \in 1 .. Len(q) : r[i] = q[j]
    OBVIOUS
  <2>1. r[i] = q[IF i < p THEN i ELSE i + 1]
    BY <1>4
  <2>2. QED
    BY <1>2, <1>5, <1>6, <2>1
<1>8. \A i, j \in 1 .. Len(r) : r[i] = r[j] => i = j
  <2> SUFFICES ASSUME NEW i \in 1 .. Len(r), NEW j \in 1 .. Len(r), r[i] = r[j] PROVE i = j
    OBVIOUS
  <2>1. (IF i < p THEN i ELSE i + 1) = (IF j < p THEN j ELSE j + 1)
    BY <1>4, <1>5, <1>6
  <2>2. QED
    BY <1>1, <1>4, <2>1
<1>9. \A d \in CPUs, l \in Tiers : \A i \in 1 .. Len(dsq'[d][l]) :
        \E j \in 1 .. Len(dsq[d][l]) : dsq'[d][l][i] = dsq[d][l][j]
  <2> SUFFICES ASSUME NEW d \in CPUs, NEW l \in Tiers, NEW i \in 1 .. Len(dsq'[d][l])
               PROVE  \E j \in 1 .. Len(dsq[d][l]) : dsq'[d][l][i] = dsq[d][l][j]
    OBVIOUS
  <2>1. CASE d = c /\ l = k
    BY <1>7, <2>1 DEF q, r
  <2>2. CASE d # c \/ l # k
    BY <1>3, <2>2
  <2>3. QED
    BY <2>1, <2>2
<1>10. \A d \in CPUs, l \in Tiers : d # c \/ l # k =>
         \A i \in 1 .. Len(dsq[d][l]) : dsq[d][l][i] # t
  BY <1>2 DEF QueueOnce, q
<1>11. \A d \in CPUs, l \in Tiers : \A i \in 1 .. Len(dsq'[d][l]) : dsq'[d][l][i] # t
  BY <1>3, <1>7, <1>10 DEF q, r
<1>12. QueueOnce'
  <2> SUFFICES ASSUME NEW d \in CPUs, NEW e \in CPUs, NEW l \in Tiers, NEW m \in Tiers,
                      NEW i \in 1 .. Len(dsq'[d][l]), NEW j \in 1 .. Len(dsq'[e][m]),
                      dsq'[d][l][i] = dsq'[e][m][j]
               PROVE  d = e /\ l = m /\ i = j
    BY DEF QueueOnce
  <2>1. d = e /\ l = m
    <3>1. PICK x \in 1 .. Len(dsq[d][l]) : dsq'[d][l][i] = dsq[d][l][x]
      BY <1>9
    <3>2. PICK y \in 1 .. Len(dsq[e][m]) : dsq'[e][m][j] = dsq[e][m][y]
      BY <1>9
    <3>3. dsq[d][l][x] = dsq[e][m][y]
      BY <3>1, <3>2
    <3>4. QED
      BY <3>3 DEF QueueOnce
  <2>2. CASE d = c /\ l = k
    BY <1>8, <2>1, <2>2 DEF r
  <2>3. CASE d # c \/ l # k
    BY <1>3, <2>1, <2>3 DEF QueueOnce
  <2>4. QED
    BY <2>2, <2>3
<1>13. QED
  BY <1>9, <1>11, <1>12

-----------------------------------------------------------------------------
(* What a step leaves alone                                                *)

\* The part of the state that is about task t.
TaskSame(t) ==
  /\ state'[t] = state[t]
  /\ tctx'[t] = tctx[t]
  /\ task_cpu'[t] = task_cpu[t]
  /\ enq'[t] = enq[t]

\* The part of the state that is about cpu c.
CpuSame(c) ==
  /\ curr'[c] = curr[c]
  /\ next'[c] = next[c]
  /\ sched'[c] = sched[c]

\* The queues of the tasks that wait for a cpu.
LEMMA QueueFrame ==
  ASSUME Inv, QueueInv, QueueOnce, dsq' = dsq,
         \A u \in Tasks : state[u] = "queued" =>
           state'[u] = "queued" /\ effective_tier(tctx'[u]) = effective_tier(tctx[u])
  PROVE  QueueInv' /\ QueueOnce'
<1>1. \A c \in CPUs, k \in Tiers : \A i \in 1 .. Len(dsq[c][k]) : dsq[c][k][i] \in Tasks
  BY QueueOf DEF Inv, TypeOK
<1>2. QueueInv'
  BY <1>1 DEF QueueInv
<1>3. QueueOnce'
  BY DEF QueueOnce
<1>4. QED
  BY <1>2, <1>3

\* The tasks of a local DSQ.
LEMMA LocalFrame ==
  ASSUME Inv, NEW c \in CPUs, LocalAt(c), local'[c] = local[c],
         \A u \in Tasks : state[u] = "local" /\ task_cpu[u] = c =>
           state'[u] = "local" /\ task_cpu'[u] = c
  PROVE  LocalAt(c)'
<1>1. \A i \in 1 .. Len(local[c]) : local[c][i] \in Tasks
  BY DEF Inv, TypeOK, QueueTypeOK
<1>2. QED
  BY <1>1 DEF LocalAt

\* A task that a step leaves alone keeps its part of the invariant, unless its cpu
\* is on the point of switching away from it.
LEMMA TaskFrame ==
  ASSUME Inv, NEW t \in Tasks, AllowedAt(t), EnqAt(t), ResumeAt(t), TaskSame(t),
         sched[task_cpu[t]] = "switch" => CpuSame(task_cpu[t])
  PROVE  AllowedAt(t)' /\ EnqAt(t)' /\ ResumeAt(t)'
<1>1. AllowedAt(t)'
  BY DEF AllowedAt, HoldsRq, TaskSame
<1>2. EnqAt(t)'
  BY DEF EnqAt, HoldsRq, TaskSame
<1>3. ResumeAt(t)'
  BY DEF ResumeAt, TaskSame, CpuSame
<1>4. QED
  BY <1>1, <1>2, <1>3

\* A cpu that a step leaves alone keeps its part.
LEMMA CpuFrame ==
  ASSUME Inv, NEW c \in CPUs, CurrAt(c), PickedAt(c), CpuSame(c),
         sched[c] \in {"put", "switch"} => local'[c] = local[c],
         curr[c] \in Tasks => /\ task_cpu'[curr[c]] = task_cpu[curr[c]]
                              /\ state'[curr[c]] = "running" <=> state[curr[c]] = "running"
                              /\ sched[c] = "put" /\ slice'[curr[c]] => slice[curr[c]]
  PROVE  CurrAt(c)' /\ PickedAt(c)'
<1>1. CurrAt(c)'
  BY DEF CurrAt, CpuSame
<1>2. PickedAt(c)'
  BY DEF PickedAt, CpuSame, Inv, PcInv
<1>3. QED
  BY <1>1, <1>2

\* The two together, for a step of task t that leaves the cpus and the queues alone.
TaskOnly(t) ==
  /\ \A u \in Tasks \ {t} : TaskSame(u) /\ slice'[u] = slice[u]
  /\ UNCHANGED <<curr, next, sched>>
  /\ state[t] # "running" /\ state'[t] # "running"
  /\ task_cpu'[t] = task_cpu[t] \/ OffCpu(t)

\* Such a step keeps the places of the others, and with the task's own the parts.
LEMMA TaskOnlyFrame ==
  ASSUME Inv, Places, NEW t \in Tasks, TaskOnly(t),
         \A c \in CPUs : sched[c] \in {"put", "switch"} => local'[c] = local[c],
         (AllowedAt(t) /\ EnqAt(t) /\ ResumeAt(t))'
  PROVE  TasksInv' /\ \A c \in CPUs : (CurrAt(c) /\ PickedAt(c))'
<1>1. \A u \in Tasks \ {t} : (AllowedAt(u) /\ EnqAt(u) /\ ResumeAt(u))'
  BY TaskFrame DEF Places, TasksInv, TaskOnly, CpuSame
<1>2. ASSUME NEW c \in CPUs
      PROVE  CurrAt(c)' /\ PickedAt(c)'
  <2>1. CurrAt(c) /\ PickedAt(c)
    BY DEF Places, CpusInv
  <2>2. CpuSame(c)
    BY DEF TaskOnly, CpuSame
  <2>3. ASSUME curr[c] \in Tasks
        PROVE  /\ task_cpu'[curr[c]] = task_cpu[curr[c]]
               /\ state'[curr[c]] = "running" <=> state[curr[c]] = "running"
               /\ sched[c] = "put" /\ slice'[curr[c]] => slice[curr[c]]
    <3>1. CASE curr[c] # t
      BY <2>3, <3>1 DEF TaskOnly, TaskSame
    <3>2. CASE curr[c] = t
      <4>1. task_cpu[t] = c /\ c \in Online
        BY <2>1, <3>2 DEF CurrAt, Inv, OnlineInv
      <4>2. sched[c] # "put"
        BY <2>1, <3>2 DEF CurrAt, TaskOnly
      <4>3. QED
        BY <3>2, <4>1, <4>2 DEF TaskOnly, OffCpu
    <3>3. QED
      BY <3>1, <3>2
  <2>4. QED
    BY <2>1, <2>2, <2>3, CpuFrame
<1>3. QED
  BY <1>1, <1>2 DEF TasksInv

-----------------------------------------------------------------------------
(* Places, action by action                                                *)

\* A step of t that leaves the local DSQs alone keeps them in order.
LEMMA LocalsKept ==
  ASSUME Inv, Places, NEW t \in Tasks, TaskOnly(t), state[t] # "local", local' = local
  PROVE  \A c \in CPUs : LocalAt(c)'
<1>1. \A u \in Tasks : state[u] = "local" => state'[u] = "local" /\ task_cpu'[u] = task_cpu[u]
  BY DEF TaskOnly, TaskSame
<1>2. QED
  BY <1>1, LocalFrame DEF Places, CpusInv

\* A step of t that leaves the queues alone keeps them, too.
LEMMA QueuesKept ==
  ASSUME Inv, Places, NEW t \in Tasks, TaskOnly(t), dsq' = dsq,
         state[t] = "queued" => state'[t] = "queued" /\ tctx'[t] = tctx[t]
  PROVE  QueueInv' /\ QueueOnce'
<1>1. \A u \in Tasks : state[u] = "queued" =>
        state'[u] = "queued" /\ effective_tier(tctx'[u]) = effective_tier(tctx[u])
  BY DEF TaskOnly, TaskSame
<1>2. QED
  BY <1>1, QueueFrame DEF Places

\* A wakeup, with or without ops.select_cpu.
LEMMA WakeUpPlaces ==
  ASSUME Inv, NoStaleResume, Places, NEW t \in Tasks, NEW w \in Wakers, NEW k \in OwnTiers[t],
         WakeUp(t, w, k) \/ WakeUpInPlace(t, w, k)
  PROVE  Places'
<1> USE DEF Inv, TypeOK
<1>1. /\ state[t] \in {"blocked", "new"} /\ state' = [state EXCEPT ![t] = "enqueue"]
      /\ enq[t].at = "none" /\ OffCpu(t)
      /\ UNCHANGED <<dsq, local, curr, next, sched, slice>>
  BY DEF WakeUp, WakeUpInPlace
<1>2. \E at \in {"direct", "place"} : \E b : enq' = [enq EXCEPT ![t] = BeginEnqueue(at, b, w)]
  <2>1. CASE WakeUp(t, w, k)
    <3>1. PICK s : enq' = [enq EXCEPT ![t] =
                       BeginEnqueue(IF /\ s.is_idle
                                       /\ cpu_load_ahead(s.cpu, effective_tier(
                                            IF state[t] = "blocked"
                                            THEN apply_wake_boost(t, tctx[t], w) ELSE tctx[t])) = 0
                                    THEN "direct" ELSE "place", state[t] = "blocked", w)]
      BY <2>1 DEF WakeUp
    <3>2. QED
      BY <3>1
  <2>2. CASE WakeUpInPlace(t, w, k)
    BY <2>2 DEF WakeUpInPlace
  <2>3. QED
    BY <2>1, <2>2
<1>3. enq'[t].at \in {"direct", "place"} /\ ~ enq'[t].head
  BY <1>2 DEF BeginEnqueue, NoEnqueue, TaskTypeOK
<1>4. \E o \in Allowed[t] : task_cpu' = [task_cpu EXCEPT ![t] = o]
  <2>1. task_cpu[t] \in Allowed[t] /\ task_cpu = [task_cpu EXCEPT ![t] = task_cpu[t]]
    BY DEF Places, TasksInv, AllowedAt, TaskTypeOK
  <2>2. CASE WakeUp(t, w, k)
    <3>1. PICK s \in select_cpu_dfl(t) : task_cpu' = [task_cpu EXCEPT ![t] = s.cpu]
      BY <2>2 DEF WakeUp
    <3>2. s.cpu \in Allowed[t]
      BY <2>1 DEF select_cpu_dfl
    <3>3. QED
      BY <3>1, <3>2
  <2>3. CASE WakeUpInPlace(t, w, k)
    BY <2>1, <2>3 DEF WakeUpInPlace
  <2>4. QED
    BY <2>2, <2>3
<1>5. \E x : tctx' = [tctx EXCEPT ![t] = x]
  BY DEF WakeUp, WakeUpInPlace
<1>6. TaskOnly(t)
  BY <1>1, <1>2, <1>4, <1>5 DEF TaskOnly, TaskSame, TaskTypeOK, CtxTypeOK
<1>7. AllowedAt(t)' /\ EnqAt(t)'
  BY <1>1, <1>3, <1>4 DEF AllowedAt, HoldsRq, EnqAt, TaskTypeOK
<1>8. ResumeAt(t)'
  <2>1. ~ tctx[t].resume_slice /\ tctx[t] \in CtxType
    BY <1>1 DEF NoStaleResume, CtxTypeOK
  <2>2. w \in Tasks \cup {NoTask} /\ k \in Tiers
    BY ConstantsAssumption DEF Wakers
  <2> DEFINE x == apply_wake_boost(t, tctx[t], w)
  <2>3. x \in CtxType /\ ~ x.resume_slice
    BY <2>1, <2>2, WakeBoost
  <2>4. ~ Reclassified(x, k).resume_slice /\ ~ Reclassified(tctx[t], k).resume_slice
    BY <2>1, <2>2, <2>3, CtxSteps, ZenonT(60)
  <2> HIDE DEF x
  <2>5. \E y \in {x, tctx[t], Reclassified(x, k), Reclassified(tctx[t], k)} :
          tctx' = [tctx EXCEPT ![t] = y]
    BY DEF WakeUp, WakeUpInPlace, x
  <2>6. ~ tctx'[t].resume_slice
    BY <2>1, <2>3, <2>4, <2>5 DEF CtxTypeOK
  <2>7. QED
    BY <1>3, <2>6 DEF ResumeAt
<1>9. QED
  BY <1>1, <1>6, <1>7, <1>8, TaskOnlyFrame, LocalsKept, QueuesKept DEF Places, CpusInv

\* A task on a cpu that puts it back has no enqueue in progress, nor has one that
\* is in a local DSQ or asleep.
LEMMA NoEnqueueFor ==
  ASSUME Inv, NoStaleResume, Places, NEW t \in Tasks, state[t] \in {"new", "blocked", "local", "running"}
  PROVE  enq[t].at = "none" /\ ~ tctx[t].resume_slice
<1>1. EnqAt(t) /\ enq[t].at \in {"none", "direct", "place", "insert", "observe", "kick"}
  BY DEF Places, TasksInv, Inv, TypeOK, TaskTypeOK, EnqType
<1>2. enq[t].at = "none"
  BY <1>1 DEF EnqAt
<1>3. QED
  BY <1>2 DEF NoStaleResume

\* The direct dispatch: the task joins the local DSQ of its cpu.
LEMMA DirectInsertPlaces ==
  ASSUME Inv, NoStaleResume, Places, NEW t \in Tasks, DirectInsert(t)
  PROVE  Places'
<1> USE DEF Inv, TypeOK
<1> DEFINE c == task_cpu[t]
<1>1. c \in CPUs /\ local[c] \in Seq(Tasks)
  BY DEF TaskTypeOK, QueueTypeOK
<1>2. /\ enq[t].at = "direct" /\ sched[c] = "run"
      /\ local' = [local EXCEPT ![c] = Append(@, t)]
      /\ state' = [state EXCEPT ![t] = "local"]
      /\ slice' = [slice EXCEPT ![t] = TRUE]
      /\ enq' = [enq EXCEPT ![t] = NoEnqueue]
      /\ UNCHANGED <<tctx, dsq, curr, next, sched, task_cpu>>
  BY DEF DirectInsert, RqFree
<1> HIDE DEF c
<1>3. state[t] = "enqueue"
  BY <1>2 DEF Places, TasksInv, EnqAt
<1>4. TaskOnly(t)
  BY <1>2, <1>3 DEF TaskOnly, TaskSame, TaskTypeOK
<1>5. (AllowedAt(t) /\ EnqAt(t) /\ ResumeAt(t))'
  <2>1. task_cpu[t] \in Allowed[t] /\ ~ tctx[t].resume_slice
    BY <1>2 DEF Places, TasksInv, AllowedAt, NoStaleResume
  <2>2. enq'[t] = NoEnqueue /\ state'[t] = "local"
    BY <1>2 DEF TaskTypeOK
  <2>3. QED
    BY <1>2, <2>1, <2>2 DEF AllowedAt, HoldsRq, EnqAt, ResumeAt, NoEnqueue
<1>6. \A d \in CPUs : sched[d] \in {"put", "switch"} => local'[d] = local[d]
  BY <1>2 DEF QueueTypeOK
<1>7. ASSUME NEW d \in CPUs PROVE LocalAt(d)'
  <2>1. LocalAt(d)
    BY DEF Places, CpusInv
  <2>2. CASE d # c
    <3>1. local'[d] = local[d]
      BY <1>2, <2>2 DEF QueueTypeOK
    <3>2. \A u \in Tasks : state[u] = "local" => state'[u] = "local" /\ task_cpu'[u] = task_cpu[u]
      BY <1>2 DEF TaskTypeOK
    <3>3. QED
      BY <2>1, <3>1, <3>2, LocalFrame
  <2>3. CASE d = c
    <3> DEFINE q == local[c]
    <3>1. local'[d] = Append(q, t) /\ q \in Seq(Tasks)
      BY <1>1, <1>2, <2>3 DEF QueueTypeOK
    <3>2. \A i \in 1 .. Len(q) : /\ state[q[i]] = "local" /\ task_cpu[q[i]] = c /\ q[i] # t
                                 /\ \A j \in 1 .. Len(q) : q[i] = q[j] => i = j
      BY <1>3, <2>1, <2>3 DEF LocalAt
    <3> HIDE DEF q
    <3>3. \A i \in 1 .. Len(q) : q[i] \in Tasks /\ state'[q[i]] = "local" /\ task_cpu'[q[i]] = c
      BY <1>2, <3>1, <3>2 DEF TaskTypeOK
    <3>4. state'[t] = "local" /\ task_cpu'[t] = c
      BY <1>2 DEF TaskTypeOK, c
    <3>5. QED
      BY <2>3, <3>1, <3>2, <3>3, <3>4 DEF LocalAt
  <2>4. QED
    BY <2>2, <2>3
<1>8. QED
  BY <1>2, <1>3, <1>4, <1>5, <1>6, <1>7, TaskOnlyFrame, QueuesKept DEF Places, CpusInv

\* The look at the target and the preemption of its task: nothing moves.
LEMMA EnqueueEndPlaces ==
  ASSUME Inv, NoStaleResume, Places, NEW t \in Tasks, EnqueueObserve(t) \/ EnqueueKick(t)
  PROVE  Places'
<1> USE DEF Inv, TypeOK
<1>1. /\ enq[t].at \in {"observe", "kick"}
      /\ UNCHANGED <<tctx, dsq, local, curr, next, sched, state, task_cpu, slice>>
  BY DEF EnqueueObserve, EnqueueKick
<1>1a. PICK at \in {"kick", "insert"}, kick \in {enq[t].kick, "none", "idle", "preempt"} :
         enq' = [enq EXCEPT ![t] = [enq[t] EXCEPT !.at = at, !.kick = kick]]
  <2>1. CASE EnqueueObserve(t)
    BY <2>1, ObserveEnq
  <2>2. CASE EnqueueKick(t)
    BY <2>2 DEF EnqueueKick
  <2>3. QED
    BY <2>1, <2>2
<1>2. /\ state[t] = "enqueue" /\ ~ enq[t].head /\ enq[t].cpu \in Allowed[t]
      /\ task_cpu[t] \in Allowed[t] /\ enq[t].tier = effective_tier(tctx[t])
  BY <1>1 DEF Places, TasksInv, EnqAt, AllowedAt, HoldsRq
<1>3. TaskOnly(t)
  BY <1>1, <1>1a, <1>2 DEF TaskOnly, TaskSame, TaskTypeOK
<1>4. /\ enq'[t].at = at /\ enq'[t].head = enq[t].head
      /\ enq'[t].cpu = enq[t].cpu /\ enq'[t].tier = enq[t].tier
  <2> DEFINE e == [enq[t] EXCEPT !.at = at, !.kick = kick]
  <2>1. enq[t] \in EnqType
    BY DEF TaskTypeOK
  <2>2. e.at = at /\ e.head = enq[t].head /\ e.cpu = enq[t].cpu /\ e.tier = enq[t].tier
    BY <2>1 DEF EnqType
  <2>3. enq'[t] = e
    BY <1>1a DEF TaskTypeOK
  <2> HIDE DEF e
  <2>4. QED
    BY <2>2, <2>3
<1>5. ~ tctx[t].resume_slice
  BY <1>1 DEF NoStaleResume
<1>6. (AllowedAt(t) /\ EnqAt(t) /\ ResumeAt(t))'
  BY <1>1, <1>2, <1>4, <1>5 DEF AllowedAt, HoldsRq, EnqAt, ResumeAt, NoEnqueue
<1>7. QED
  BY <1>1, <1>2, <1>3, <1>6, TaskOnlyFrame, LocalsKept, QueuesKept DEF Places, CpusInv

\* The cpus a placement may choose are ones the task may run on.
LEMMA PickedAllowed ==
  ASSUME Inv, NEW t \in Tasks, NEW tier, NEW cpu \in Allowed[t], NEW limited,
         NEW r \in pick_enqueue_cpu(t, tier, cpu, limited)
  PROVE  r.cpu \in Allowed[t]
BY DEF pick_enqueue_cpu

\* The placement half of lunar_enqueue.
LEMMA EnqueuePlacePlaces ==
  ASSUME Inv, NoStaleResume, Places, NEW t \in Tasks, NEW limited \in BOOLEAN,
         EnqueuePlace(t, limited)
  PROVE  Places'
<1> USE DEF Inv, TypeOK
<1> DEFINE cpu == task_cpu[t]
<1>1. /\ enq[t].at = "place"
      /\ UNCHANGED <<dsq, local, curr, next, sched, state, task_cpu, slice>>
  BY DEF EnqueuePlace
<1>2. PICK w \in BoostContexts(t) :
        LET x == apply_wake_boost(t, tctx[t], w)
            tier == effective_tier(x)
            resumes == x.resume_slice /\ ~ cpu_taken_by_rt(cpu)
        IN /\ tctx' = [tctx EXCEPT ![t] = [x EXCEPT !.resume_slice = FALSE]]
           /\ \/ resumes /\ enq' = [enq EXCEPT ![t] = Placed(@, cpu, tier, TRUE)]
              \/ \E r \in pick_enqueue_cpu(t, tier, cpu, limited) :
                   enq' = [enq EXCEPT ![t] =
                     Placed(@, IF cpu_is_online(r.cpu) THEN r.cpu ELSE cpu, tier, FALSE)]
  BY DEF EnqueuePlace, enqueue_tier
<1> DEFINE x == apply_wake_boost(t, tctx[t], w)
           y == [x EXCEPT !.resume_slice = FALSE]
           tier == effective_tier(x)
<1>3. x \in CtxType /\ x.resume_slice = tctx[t].resume_slice
  <2>1. w \in Tasks \cup {NoTask} /\ tctx[t] \in CtxType
    BY <1>2 DEF BoostContexts, TaskTypeOK, EnqType, CtxTypeOK
  <2>2. QED
    BY <2>1, WakeBoost
<1>4. y \in CtxType /\ ~ y.resume_slice /\ effective_tier(y) = tier
  <2> HIDE DEF x
  <2>1. QED
    BY <1>3 DEF CtxType, effective_tier
<1>5. PICK o \in CPUs, h \in BOOLEAN :
        /\ tctx' = [tctx EXCEPT ![t] = y]
        /\ enq' = [enq EXCEPT ![t] = Placed(@, o, tier, h)]
        /\ o \in Allowed[t]
        /\ h => tctx[t].resume_slice /\ o = cpu
  <2>1. cpu \in Allowed[t] /\ Allowed[t] \subseteq CPUs
    BY ConstantsAssumption DEF Places, TasksInv, AllowedAt
  <2>2. \A r \in pick_enqueue_cpu(t, tier, cpu, limited) : r.cpu \in Allowed[t]
    BY <2>1, PickedAllowed
  <2>3. tctx' = [tctx EXCEPT ![t] = y]
    BY <1>2
  <2>4. \/ x.resume_slice /\ enq' = [enq EXCEPT ![t] = Placed(@, cpu, tier, TRUE)]
        \/ \E r \in pick_enqueue_cpu(t, tier, cpu, limited) :
             enq' = [enq EXCEPT ![t] =
               Placed(@, IF cpu_is_online(r.cpu) THEN r.cpu ELSE cpu, tier, FALSE)]
    BY <1>2
  <2> HIDE DEF x, y, tier, cpu
  <2>5. QED
    BY <1>3, <2>1, <2>2, <2>3, <2>4
<1> HIDE DEF x, y, tier
<1>6. state[t] = "enqueue"
  BY <1>1 DEF Places, TasksInv, EnqAt
<1>7. enq[t] \in EnqType
  BY DEF TaskTypeOK
<1>8. TaskOnly(t)
  BY <1>1, <1>5, <1>6 DEF TaskOnly, TaskSame, TaskTypeOK, CtxTypeOK
<1>9. tctx'[t] = y
  BY <1>5 DEF CtxTypeOK
<1>10. /\ enq'[t].at = (IF h THEN "insert" ELSE "observe")
       /\ enq'[t].cpu = o /\ enq'[t].tier = tier /\ enq'[t].head = h
  <2>1. enq'[t] = Placed(enq[t], o, tier, h)
    BY <1>5 DEF TaskTypeOK
  <2>2. QED
    BY <1>7, <2>1 DEF Placed, EnqType
<1>11. AllowedAt(t)' /\ EnqAt(t)'
  BY <1>1, <1>4, <1>5, <1>6, <1>9, <1>10 DEF AllowedAt, EnqAt, HoldsRq, Places, TasksInv
<1>12. ResumeAt(t)'
  <2>1. tctx[t].resume_slice =>
          curr[task_cpu[t]] = t /\ sched[task_cpu[t]] = "switch" /\ next[task_cpu[t]] # Idle
    BY DEF Places, TasksInv, ResumeAt
  <2>2. QED
    BY <1>1, <1>4, <1>5, <1>9, <1>10, <2>1 DEF ResumeAt
<1>13. QED
  BY <1>1, <1>6, <1>8, <1>11, <1>12, TaskOnlyFrame, LocalsKept, QueuesKept DEF Places, CpusInv

\* The insertion into the queue of the placement.
LEMMA EnqueueInsertPlaces ==
  ASSUME Inv, NoStaleResume, Places, NEW t \in Tasks, EnqueueInsert(t)
  PROVE  Places'
<1> USE DEF Inv, TypeOK
<1> DEFINE c == enq[t].cpu
           k == enq[t].tier
<1>1. /\ enq[t].at = "insert"
      /\ state' = [state EXCEPT ![t] = "queued"]
      /\ slice' = [slice EXCEPT ![t] = TRUE]
      /\ enq' = [enq EXCEPT ![t] = NoEnqueue]
      /\ UNCHANGED <<tctx, local, curr, next, sched, task_cpu>>
  BY DEF EnqueueInsert
<1>2. Joins(t, c, k)
  BY DEF EnqueueInsert, Joins
<1>3. c \in CPUs /\ k \in Tiers
  BY <1>1, ConstantsAssumption DEF PcInv, HoldsRq
<1>4. state[t] = "enqueue" /\ k = effective_tier(tctx[t]) /\ c \in Allowed[t]
  BY <1>1 DEF Places, TasksInv, EnqAt, AllowedAt, HoldsRq
<1> HIDE DEF c, k
<1>5. TaskOnly(t)
  BY <1>1, <1>4 DEF TaskOnly, TaskSame, TaskTypeOK
<1>6. (AllowedAt(t) /\ EnqAt(t) /\ ResumeAt(t))'
  <2>1. enq'[t] = NoEnqueue
    BY <1>1 DEF TaskTypeOK
  <2>2. task_cpu[t] \in Allowed[t] /\ ~ tctx[t].resume_slice /\ state'[t] = "queued"
    BY <1>1 DEF Places, TasksInv, AllowedAt, NoStaleResume, TaskTypeOK
  <2>3. QED
    BY <1>1, <2>1, <2>2 DEF AllowedAt, HoldsRq, EnqAt, ResumeAt, NoEnqueue
<1>7. QueueInv' /\ QueueOnce'
  <2>1. /\ QueueOnce'
        /\ \A d \in CPUs, l \in Tiers : \A i \in 1 .. Len(dsq'[d][l]) :
             \/ dsq'[d][l][i] = t /\ d = c /\ l = k
             \/ \E j \in 1 .. Len(dsq[d][l]) : dsq'[d][l][i] = dsq[d][l][j]
    BY <1>2, <1>3, <1>4, JoinQueue DEF Places
  <2>2. ASSUME NEW d \in CPUs, NEW l \in Tiers, NEW i \in 1 .. Len(dsq'[d][l])
        PROVE  /\ state'[dsq'[d][l][i]] = "queued"
               /\ effective_tier(tctx'[dsq'[d][l][i]]) = l
               /\ d \in Allowed[dsq'[d][l][i]]
    <3>1. CASE dsq'[d][l][i] = t /\ d = c /\ l = k
      BY <1>1, <1>4, <3>1 DEF TaskTypeOK
    <3>2. ASSUME NEW j \in 1 .. Len(dsq[d][l]), dsq'[d][l][i] = dsq[d][l][j]
          PROVE  /\ state'[dsq'[d][l][i]] = "queued"
                 /\ effective_tier(tctx'[dsq'[d][l][i]]) = l
                 /\ d \in Allowed[dsq'[d][l][i]]
      <4>1. dsq[d][l][j] \in Tasks
        BY QueueOf
      <4>2. state[dsq[d][l][j]] = "queued" /\ effective_tier(tctx[dsq[d][l][j]]) = l
            /\ d \in Allowed[dsq[d][l][j]]
        BY DEF Places, QueueInv
      <4>3. QED
        BY <1>1, <3>2, <4>1, <4>2 DEF TaskTypeOK
    <3>3. QED
      BY <2>1, <3>1, <3>2
  <2>3. QED
    BY <2>1, <2>2 DEF QueueInv
<1>8. QED
  BY <1>1, <1>4, <1>5, <1>6, <1>7, TaskOnlyFrame, LocalsKept DEF Places, CpusInv

\* The queues after t has left one of them, whatever else happens to t.
LEMMA LeaveQueueInv ==
  ASSUME Inv, Places, NEW t \in Tasks, NEW c \in CPUs, NEW k \in Tiers, Leaves(t, c, k),
         \A u \in Tasks \ {t} : state[u] = "queued" => state'[u] = "queued" /\ tctx'[u] = tctx[u]
  PROVE  QueueInv' /\ QueueOnce'
<1>1. /\ QueueOnce'
      /\ \A d \in CPUs, l \in Tiers : \A i \in 1 .. Len(dsq'[d][l]) :
           /\ dsq'[d][l][i] # t
           /\ \E j \in 1 .. Len(dsq[d][l]) : dsq'[d][l][i] = dsq[d][l][j]
  BY LeaveQueue DEF Places
<1>2. ASSUME NEW d \in CPUs, NEW l \in Tiers, NEW i \in 1 .. Len(dsq'[d][l])
      PROVE  /\ state'[dsq'[d][l][i]] = "queued"
             /\ effective_tier(tctx'[dsq'[d][l][i]]) = l
             /\ d \in Allowed[dsq'[d][l][i]]
  <2>1. PICK j \in 1 .. Len(dsq[d][l]) : dsq'[d][l][i] = dsq[d][l][j]
    BY <1>1
  <2>2. dsq[d][l][j] \in Tasks
    BY QueueOf DEF Inv, TypeOK
  <2>3. dsq'[d][l][i] # t
    BY <1>1
  <2>4. state[dsq[d][l][j]] = "queued" /\ effective_tier(tctx[dsq[d][l][j]]) = l
        /\ d \in Allowed[dsq[d][l][j]]
    BY DEF Places, QueueInv
  <2>5. QED
    BY <2>1, <2>2, <2>3, <2>4
<1>3. QED
  BY <1>1, <1>2 DEF QueueInv

\* A change of an attribute: out of the queue and into ops.enqueue again.
LEMMA ChangeAttrPlaces ==
  ASSUME Inv, NoStaleResume, Places, NEW t \in Tasks, NEW c \in Online, NEW k \in Tiers,
         ChangeAttr(t, c, k)
  PROVE  Places'
<1> USE ConstantsAssumption DEF Inv, TypeOK
<1>1. /\ state[t] = "queued" /\ enq[t].at = "none"
      /\ state' = [state EXCEPT ![t] = "enqueue"]
      /\ enq' = [enq EXCEPT ![t] = BeginEnqueue("place", FALSE, NoTask)]
      /\ tctx' = [tctx EXCEPT ![t] = quiescent_ctx(@)]
      /\ UNCHANGED <<local, curr, next, sched, task_cpu, slice>>
  BY DEF ChangeAttr
<1>2. Leaves(t, c, k) /\ c \in CPUs
  BY DEF ChangeAttr, Leaves
<1>3. TaskOnly(t)
  BY <1>1 DEF TaskOnly, TaskSame, TaskTypeOK, CtxTypeOK
<1>4. enq'[t].at = "place" /\ ~ tctx'[t].resume_slice /\ state'[t] = "enqueue"
  <2>1. ~ quiescent_ctx(tctx[t]).resume_slice
    <3>1. tctx[t] \in CtxType
      BY DEF CtxTypeOK
    <3>2. QED
      BY <3>1, CtxSteps
  <2>2. QED
    BY <1>1, <2>1 DEF BeginEnqueue, NoEnqueue, TaskTypeOK, CtxTypeOK
<1>5. (AllowedAt(t) /\ EnqAt(t) /\ ResumeAt(t))'
  <2>1. task_cpu'[t] \in Allowed[t]
    BY <1>1 DEF Places, TasksInv, AllowedAt
  <2>2. QED
    BY <1>4, <2>1 DEF AllowedAt, HoldsRq, EnqAt, ResumeAt
<1>6. QueueInv' /\ QueueOnce'
  <2>1. \A u \in Tasks \ {t} : state[u] = "queued" => state'[u] = "queued" /\ tctx'[u] = tctx[u]
    BY <1>3 DEF TaskOnly, TaskSame
  <2>2. QED
    BY <1>2, <2>1, LeaveQueueInv
<1>7. QED
  BY <1>1, <1>3, <1>5, <1>6, TaskOnlyFrame, LocalsKept DEF Places, CpusInv

\* A step of cpu c that leaves the other cpus and the tasks outside of S alone.
CpuOnly(c, S) ==
  /\ \A d \in CPUs \ {c} : CpuSame(d)
  /\ \A d \in CPUs \ {c} : sched[d] \in {"put", "switch"} => local'[d] = local[d]
  /\ \A u \in Tasks \ S : TaskSame(u) /\ (slice'[u] => slice[u])
  /\ \A u \in S, d \in CPUs \ {c} : curr[d] # u

\* Such a step keeps the places outside of c and S, and with those in it the parts.
LEMMA CpuOnlyFrame ==
  ASSUME Inv, Places, NEW c \in CPUs, NEW S, CpuOnly(c, S),
         \A u \in Tasks \ S : sched[c] = "switch" => task_cpu[u] # c \/ ResumeAt(u)',
         \A u \in S : (AllowedAt(u) /\ EnqAt(u) /\ ResumeAt(u))'
  PROVE  TasksInv' /\ \A d \in CPUs \ {c} : (CurrAt(d) /\ PickedAt(d))'
<1>1. ASSUME NEW u \in Tasks \ S PROVE (AllowedAt(u) /\ EnqAt(u) /\ ResumeAt(u))'
  <2>1. AllowedAt(u) /\ EnqAt(u) /\ ResumeAt(u) /\ TaskSame(u)
    BY DEF Places, TasksInv, CpuOnly
  <2>2. AllowedAt(u)' /\ EnqAt(u)'
    BY <2>1 DEF AllowedAt, HoldsRq, EnqAt, TaskSame
  <2>3. CASE task_cpu[u] # c
    <3>1. CpuSame(task_cpu[u])
      BY <2>3 DEF CpuOnly, Inv, TypeOK, TaskTypeOK
    <3>2. QED
      BY <2>1, <3>1, TaskFrame
  <2>4. CASE task_cpu[u] = c
    BY <2>1, <2>2, <2>4, TaskFrame
  <2>5. QED
    BY <2>3, <2>4
<1>2. ASSUME NEW d \in CPUs \ {c} PROVE CurrAt(d)' /\ PickedAt(d)'
  <2>1. CurrAt(d) /\ PickedAt(d) /\ CpuSame(d)
    BY DEF Places, CpusInv, CpuOnly
  <2>2. ASSUME curr[d] \in Tasks
        PROVE  TaskSame(curr[d]) /\ (slice'[curr[d]] => slice[curr[d]])
    BY <2>2 DEF CpuOnly
  <2>3. QED
    BY <2>1, <2>2, CpuFrame DEF CpuOnly, TaskSame
<1>3. QED
  BY <1>1, <1>2 DEF TasksInv

\* The task of a cpu is on no other one.
LEMMA CurrOnce ==
  ASSUME Places, NEW c \in CPUs, curr[c] \in Tasks, NEW d \in CPUs \ {c}
  PROVE  curr[d] # curr[c]
BY DEF Places, CpusInv, CurrAt

\* Kicks, ticks and the arrival of a realtime task move nobody.
LEMMA KickPlaces ==
  ASSUME Inv, Places, NEW c \in Online,
         \/ KickIdle(c) \/ KickPreempt(c) \/ SliceEnd(c) \/ \E h \in Higher[c] : HigherWakes(c, h)
  PROVE  Places'
<1> USE ConstantsAssumption DEF Inv, TypeOK
<1>1. /\ sched[c] = "run"
      /\ UNCHANGED <<tctx, dsq, local, curr, next, sched, state, task_cpu, enq>>
      /\ \A u \in Tasks : slice'[u] => slice[u]
  BY DEF KickIdle, KickPreempt, SliceEnd, HigherWakes, RqFree, TaskTypeOK
<1>2. CpuOnly(c, {})
  BY <1>1 DEF CpuOnly, CpuSame, TaskSame
<1>3. TasksInv' /\ \A d \in CPUs \ {c} : (CurrAt(d) /\ PickedAt(d))'
  BY <1>1, <1>2, CpuOnlyFrame
<1>4. CurrAt(c)' /\ PickedAt(c)'
  BY <1>1 DEF Places, CpusInv, CurrAt, PickedAt
<1>5. \A d \in CPUs : LocalAt(d)'
  BY <1>1, LocalFrame DEF Places, CpusInv
<1>6. QueueInv' /\ QueueOnce'
  BY <1>1, QueueFrame DEF Places
<1>7. QED
  BY <1>3, <1>4, <1>5, <1>6 DEF Places, CpusInv

\* The realtime task of a cpu sleeps, or the sched_switch hook runs.
LEMMA SchedOnlyPlaces ==
  ASSUME Inv, Places, NEW c \in Online, HigherSleeps(c) \/ SchedSwitch(c)
  PROVE  Places'
<1> USE ConstantsAssumption DEF Inv, TypeOK
<1>1. /\ \/ sched[c] = "hook" /\ sched' = [sched EXCEPT ![c] = "run"]
         \/ sched[c] = "run" /\ sched' = [sched EXCEPT ![c] = "pick"] /\ curr[c] \notin Tasks
      /\ UNCHANGED <<tctx, dsq, local, curr, next, state, task_cpu, enq, slice>>
  BY DEF HigherSleeps, SchedSwitch, RqFree
<1>2. CpuOnly(c, {})
  BY <1>1 DEF CpuOnly, CpuSame, TaskSame, CpuTypeOK
<1>3. TasksInv' /\ \A d \in CPUs \ {c} : (CurrAt(d) /\ PickedAt(d))'
  BY <1>1, <1>2, CpuOnlyFrame
<1>4. CurrAt(c)' /\ PickedAt(c)'
  BY <1>1 DEF Places, CpusInv, CurrAt, PickedAt, CpuTypeOK
<1>5. \A d \in CPUs : LocalAt(d)'
  BY <1>1, LocalFrame DEF Places, CpusInv
<1>6. QueueInv' /\ QueueOnce'
  BY <1>1, QueueFrame DEF Places
<1>7. QED
  BY <1>3, <1>4, <1>5, <1>6 DEF Places, CpusInv

\* The task of a cpu sleeps or exits.
LEMMA SleepPlaces ==
  ASSUME Inv, NoStaleResume, NoStaleResume', Places, NEW c \in Online,
         Exit(c) \/ \E k \in Classes(curr[c]) : Sleep(c, k)
  PROVE  Places'
<1> USE ConstantsAssumption DEF Inv, TypeOK
<1>0. PICK t : t = curr[c]
  OBVIOUS
<1>1. /\ t \in Tasks /\ sched[c] = "run"
      /\ \E b \in {"blocked", "new"} : state' = [state EXCEPT ![t] = b]
      /\ \E x : tctx' = [tctx EXCEPT ![t] = x]
      /\ slice' = [slice EXCEPT ![t] = FALSE]
      /\ sched' = [sched EXCEPT ![c] = "pick"]
      /\ UNCHANGED <<dsq, local, curr, next, task_cpu, enq>>
  BY <1>0 DEF Sleep, Exit, RqFree
<1>2. state[t] = "running" /\ task_cpu[t] = c
  BY <1>0, <1>1 DEF Places, CpusInv, CurrAt
<1>3. enq[t].at = "none"
  BY <1>1, <1>2, NoEnqueueFor
<1>4. \A d \in CPUs \ {c} : curr[d] # t
  BY <1>0, <1>1, CurrOnce
<1>5. state'[t] \in {"blocked", "new"} /\ sched'[c] = "pick"
  BY <1>1 DEF TaskTypeOK, CpuTypeOK
<1>6. \A u \in Tasks \ {t} : TaskSame(u) /\ slice'[u] = slice[u]
  BY <1>1 DEF TaskSame, TaskTypeOK, CtxTypeOK
<1>7. CpuOnly(c, {t})
  BY <1>1, <1>4, <1>6 DEF CpuOnly, CpuSame, CpuTypeOK
<1>8. (AllowedAt(t) /\ EnqAt(t) /\ ResumeAt(t))'
  <2>1. task_cpu[t] \in Allowed[t]
    BY <1>1 DEF Places, TasksInv, AllowedAt
  <2>2. enq'[t].at = "none" /\ task_cpu'[t] = task_cpu[t] /\ ~ tctx'[t].resume_slice
    BY <1>1, <1>3 DEF NoStaleResume
  <2>3. QED
    BY <1>5, <2>1, <2>2 DEF AllowedAt, HoldsRq, EnqAt, ResumeAt
<1>9. TasksInv' /\ \A d \in CPUs \ {c} : (CurrAt(d) /\ PickedAt(d))'
  BY <1>1, <1>7, <1>8, CpuOnlyFrame
<1>10. CurrAt(c)' /\ PickedAt(c)'
  BY <1>0, <1>1, <1>2, <1>5 DEF CurrAt, PickedAt
<1>11. \A d \in CPUs : LocalAt(d)'
  <2>1. \A u \in Tasks : state[u] = "local" => state'[u] = "local" /\ task_cpu'[u] = task_cpu[u]
    BY <1>2, <1>6 DEF TaskSame
  <2>2. QED
    BY <1>1, <2>1, LocalFrame DEF Places, CpusInv
<1>12. QueueInv' /\ QueueOnce'
  <2>1. \A u \in Tasks : state[u] = "queued" =>
          state'[u] = "queued" /\ effective_tier(tctx'[u]) = effective_tier(tctx[u])
    BY <1>2, <1>6 DEF TaskSame
  <2>2. QED
    BY <1>1, <2>1, QueueFrame DEF Places
<1>13. QED
  BY <1>9, <1>10, <1>11, <1>12 DEF Places, CpusInv

\* A cpu picks a realtime task, or the head of its local DSQ.
LEMMA PickNextPlaces ==
  ASSUME Inv, Places, NEW c \in Online, PickNext(c)
  PROVE  Places'
<1> USE ConstantsAssumption DEF Inv, TypeOK
<1>1. /\ sched' = [sched EXCEPT ![c] = IF PrevRuns(c) THEN "put" ELSE "switch"]
      /\ \E x : next' = [next EXCEPT ![c] = x]
      /\ UNCHANGED <<tctx, dsq, local, curr, state, task_cpu, enq, slice>>
  BY DEF PickNext
<1>2. sched[c] \in {"pick", "run"}
  BY DEF PickNext, LooksForTask, Picking, RqFree
<1>3. \/ next'[c] \in {Rt, PercpuRt}
      \/ /\ local[c] # <<>> /\ next'[c] = local[c][1] /\ next'[c] \in Tasks
         /\ PrevRuns(c) => ~ slice[curr[c]]
  <2>1. hi[c] # NoTask => hi[c] \in {Rt, PercpuRt}
    BY DEF CpuTypeOK
  <2>2. local[c] # <<>> => Head(local[c]) = local[c][1] /\ local[c][1] \in Tasks
    BY DEF QueueTypeOK
  <2>3. QED
    BY <2>1, <2>2 DEF PickNext, LooksForTask, CpuTypeOK
<1>4. CpuOnly(c, {})
  BY <1>1 DEF CpuOnly, CpuSame, TaskSame, CpuTypeOK
<1>5. TasksInv' /\ \A d \in CPUs \ {c} : (CurrAt(d) /\ PickedAt(d))'
  BY <1>2, <1>4, CpuOnlyFrame
<1>6. sched'[c] = IF PrevRuns(c) THEN "put" ELSE "switch"
  BY <1>1 DEF CpuTypeOK
<1>7. CurrAt(c)'
  BY <1>1, <1>6 DEF Places, CpusInv, CurrAt, PrevRuns
<1>8. PickedAt(c)'
  <2>1. Idle \notin {Rt, PercpuRt} /\ Idle \notin Tasks
    OBVIOUS
  <2>2. next'[c] # Idle
    BY <1>3, <2>1
  <2>3. next'[c] \in Tasks => next'[c] = local[c][1] /\ (PrevRuns(c) => ~ slice[curr[c]])
    BY <1>3
  <2>4. QED
    BY <1>1, <1>6, <2>2, <2>3 DEF PickedAt
<1>9. \A d \in CPUs : LocalAt(d)'
  BY <1>1, LocalFrame DEF Places, CpusInv
<1>10. QueueInv' /\ QueueOnce'
  BY <1>1, QueueFrame DEF Places
<1>11. QED
  BY <1>5, <1>7, <1>8, <1>9, <1>10 DEF Places, CpusInv

\* The tasks of a local DSQ go through ops.enqueue again.
LEMMA ReenqueueLocalPlaces ==
  ASSUME Inv, NoStaleResume, Places, NEW c \in Online, ReenqueueLocal(c)
  PROVE  Places'
<1> USE ConstantsAssumption DEF Inv, TypeOK
<1>1. PICK out : out = {local[c][i] : i \in 1 .. Len(local[c])}
  OBVIOUS
<1>2. /\ sched[c] = "run"
      /\ state' = [u \in Tasks |-> IF u \in out THEN "enqueue" ELSE state[u]]
      /\ enq' = [u \in Tasks |-> IF u \in out THEN BeginEnqueue("place", FALSE, NoTask) ELSE enq[u]]
      /\ local' = [local EXCEPT ![c] = <<>>]
      /\ UNCHANGED <<tctx, dsq, curr, next, sched, task_cpu, slice>>
  BY <1>1 DEF ReenqueueLocal, RqFree
<1>3. \A u \in out : u \in Tasks /\ state[u] = "local" /\ task_cpu[u] = c
  <2>1. \A i \in 1 .. Len(local[c]) : local[c][i] \in Tasks
    BY DEF QueueTypeOK
  <2>2. QED
    BY <1>1, <2>1 DEF Places, CpusInv, LocalAt
<1>4. \A u \in Tasks \ out : TaskSame(u)
  BY <1>2 DEF TaskSame
<1>5. \A u \in out, d \in CPUs \ {c} : curr[d] # u
  BY <1>3 DEF Places, CpusInv, CurrAt
<1>6. CpuOnly(c, out)
  BY <1>2, <1>4, <1>5 DEF CpuOnly, CpuSame, QueueTypeOK
<1>7. ASSUME NEW u \in out PROVE (AllowedAt(u) /\ EnqAt(u) /\ ResumeAt(u))'
  <2>1. enq'[u].at = "place" /\ state'[u] = "enqueue"
    BY <1>2, <1>3 DEF BeginEnqueue, NoEnqueue
  <2>2. ~ tctx'[u].resume_slice
    BY <1>2, <1>3, NoEnqueueFor
  <2>3. task_cpu'[u] \in Allowed[u]
    BY <1>2, <1>3 DEF Places, TasksInv, AllowedAt
  <2>4. QED
    BY <2>1, <2>2, <2>3 DEF AllowedAt, HoldsRq, EnqAt, ResumeAt
<1>8. TasksInv' /\ \A d \in CPUs \ {c} : (CurrAt(d) /\ PickedAt(d))'
  BY <1>2, <1>6, <1>7, CpuOnlyFrame
<1>9. CurrAt(c)' /\ PickedAt(c)'
  <2>1. CurrAt(c)
    BY DEF Places, CpusInv
  <2>2. curr[c] \in Tasks => curr[c] \notin out
    BY <1>2, <1>3, <2>1 DEF CurrAt
  <2>3. QED
    BY <1>2, <2>1, <2>2 DEF CurrAt, PickedAt
<1>10. ASSUME NEW d \in CPUs PROVE LocalAt(d)'
  <2>1. CASE d = c
    <3>1. local'[d] = <<>>
      BY <1>2, <2>1 DEF QueueTypeOK
    <3>2. QED
      BY <3>1 DEF LocalAt
  <2>2. CASE d # c
    <3>1. local'[d] = local[d]
      BY <1>2, <2>2 DEF QueueTypeOK
    <3>2. \A u \in Tasks : state[u] = "local" /\ task_cpu[u] = d => 
            state'[u] = "local" /\ task_cpu'[u] = d
      BY <1>3, <1>4, <2>2 DEF TaskSame
    <3>3. QED
      BY <3>1, <3>2, LocalFrame DEF Places, CpusInv
  <2>3. QED
    BY <2>1, <2>2
<1>11. QueueInv' /\ QueueOnce'
  <2>1. \A u \in Tasks : state[u] = "queued" =>
          state'[u] = "queued" /\ effective_tier(tctx'[u]) = effective_tier(tctx[u])
    BY <1>3, <1>4 DEF TaskSame
  <2>2. QED
    BY <1>2, <2>1, QueueFrame DEF Places
<1>12. QED
  BY <1>8, <1>9, <1>10, <1>11 DEF Places, CpusInv

\* The running task is put back: into the local DSQ or into ops.enqueue.
LEMMA PutPrevPlaces ==
  ASSUME Inv, NoStaleResume, NoStaleResume', Places, NEW c \in Online,
         NEW k, NEW left, NEW spent, PutPrev(c, k, left, spent)
  PROVE  Places'
<1> USE ConstantsAssumption DEF Inv, TypeOK
<1>0. PICK t : t = curr[c]
  OBVIOUS
<1>1. /\ t \in Tasks /\ sched[c] = "put"
      /\ \E x : tctx' = [tctx EXCEPT ![t] = x]
      /\ sched' = [sched EXCEPT ![c] = "switch"]
      /\ UNCHANGED <<dsq, curr, next, task_cpu, slice>>
  BY <1>0 DEF PutPrev, PcInv
<1>2. \/ /\ slice[t] /\ enq' = enq
         /\ state' = [state EXCEPT ![t] = "local"]
         /\ local' = [local EXCEPT ![c] = <<t>> \o @]
      \/ /\ ~ slice[t] /\ local' = local
         /\ state' = [state EXCEPT ![t] = "enqueue"]
         /\ enq' = [enq EXCEPT ![t] = BeginEnqueue("place", FALSE, NoTask)]
  BY <1>0 DEF PutPrev
<1>3. state[t] = "running" /\ task_cpu[t] = c
  BY <1>0, <1>1 DEF Places, CpusInv, CurrAt
<1>4. enq[t].at = "none"
  BY <1>1, <1>3, NoEnqueueFor
<1>5. next[c] # Idle /\ (next[c] \in Tasks => next[c] = local[c][1] /\ ~ slice[t])
  BY <1>0, <1>1 DEF Places, CpusInv, PickedAt
<1>6. sched'[c] = "switch"
  BY <1>1 DEF CpuTypeOK
<1>7. \A u \in Tasks \ {t} : TaskSame(u)
  BY <1>1, <1>2 DEF TaskSame, TaskTypeOK, CtxTypeOK
<1>8. \A d \in CPUs \ {c} : curr[d] # t
  BY <1>0, <1>1, CurrOnce
<1>9. CpuOnly(c, {t})
  <2>1. \A d \in CPUs \ {c} : local'[d] = local[d]
    BY <1>2 DEF QueueTypeOK
  <2>2. QED
    BY <1>1, <1>7, <1>8, <2>1 DEF CpuOnly, CpuSame, CpuTypeOK
<1>10. \/ enq'[t].at = "none" /\ state'[t] = "local"
       \/ enq'[t].at = "place" /\ state'[t] = "enqueue"
  <2>1. BeginEnqueue("place", FALSE, NoTask).at = "place"
    BY DEF BeginEnqueue, NoEnqueue
  <2>2. QED
    BY <1>1, <1>2, <1>4, <2>1 DEF TaskTypeOK
<1>11. (AllowedAt(t) /\ EnqAt(t) /\ ResumeAt(t))'
  <2>1. task_cpu'[t] \in Allowed[t]
    BY <1>1 DEF Places, TasksInv, AllowedAt
  <2>2. curr'[c] = t /\ next'[c] # Idle /\ task_cpu'[t] = c
    BY <1>0, <1>1, <1>3, <1>5
  <2>3. QED
    BY <1>6, <1>10, <2>1, <2>2 DEF AllowedAt, HoldsRq, EnqAt, ResumeAt
<1>12. TasksInv' /\ \A d \in CPUs \ {c} : (CurrAt(d) /\ PickedAt(d))'
  BY <1>1, <1>9, <1>11, CpuOnlyFrame
<1>13. CurrAt(c)' /\ PickedAt(c)'
  <2>1. CurrAt(c)'
    BY <1>0, <1>1, <1>3, <1>6, <1>10 DEF CurrAt
  <2>2. PickedAt(c)'
    BY <1>1, <1>2, <1>5, <1>6 DEF PickedAt
  <2>3. QED
    BY <2>1, <2>2
<1>14. ASSUME NEW d \in CPUs PROVE LocalAt(d)'
  <2>1. LocalAt(d)
    BY DEF Places, CpusInv
  <2>2. \A u \in Tasks : state[u] = "local" => state'[u] = "local" /\ task_cpu'[u] = task_cpu[u]
    BY <1>3, <1>7 DEF TaskSame
  <2>3. CASE local'[d] = local[d]
    BY <2>1, <2>2, <2>3, LocalFrame
  <2>4. CASE local'[d] # local[d]
    <3> DEFINE q == local[c]
    <3>1. d = c /\ local'[d] = <<t>> \o q /\ q \in Seq(Tasks) /\ state'[t] = "local"
      BY <1>1, <1>2, <2>4 DEF QueueTypeOK, TaskTypeOK
    <3>2. \A i \in 1 .. Len(q) : /\ state[q[i]] = "local" /\ task_cpu[q[i]] = c /\ q[i] # t
                                 /\ \A j \in 1 .. Len(q) : q[i] = q[j] => i = j
      BY <1>3, <2>1, <3>1 DEF LocalAt
    <3> HIDE DEF q
    <3>3. \A i \in 1 .. Len(q) : q[i] \in Tasks /\ state'[q[i]] = "local" /\ task_cpu'[q[i]] = c
      BY <2>2, <3>1, <3>2
    <3>4. PICK r : r = local'[d]
      OBVIOUS
    <3>5. /\ Len(q) \in Nat /\ Len(r) = Len(q) + 1 /\ r[1] = t
          /\ \A i \in 1 .. Len(r) : i = 1 \/ (i - 1 \in 1 .. Len(q) /\ r[i] = q[i - 1])
      BY <3>1, <3>4
    <3>6. ASSUME NEW i \in 1 .. Len(r)
          PROVE  state'[r[i]] = "local" /\ task_cpu'[r[i]] = c
      <4>1. CASE i = 1
        BY <1>1, <1>3, <3>1, <3>5, <4>1
      <4>2. CASE i # 1
        BY <3>3, <3>5, <4>2
      <4>3. QED
        BY <4>1, <4>2
    <3>7. ASSUME NEW i \in 1 .. Len(r), NEW j \in 1 .. Len(r), r[i] = r[j]
          PROVE  i = j
      <4>1. \A x \in 1 .. Len(r) : x # 1 => x - 1 \in 1 .. Len(q) /\ r[x] = q[x - 1] /\ r[x] # t
        BY <3>2, <3>5
      <4>2. CASE i = 1 \/ j = 1
        BY <3>5, <3>7, <4>1, <4>2
      <4>3. CASE i # 1 /\ j # 1
        <5>1. i - 1 = j - 1
          BY <3>2, <3>7, <4>1, <4>3
        <5>2. QED
          BY <3>5, <5>1
      <4>4. QED
        BY <4>2, <4>3
    <3>8. QED
      BY <3>1, <3>4, <3>6, <3>7 DEF LocalAt
  <2>5. QED
    BY <2>3, <2>4
<1>15. QueueInv' /\ QueueOnce'
  <2>1. \A u \in Tasks : state[u] = "queued" =>
          state'[u] = "queued" /\ effective_tier(tctx'[u]) = effective_tier(tctx[u])
    BY <1>3, <1>7 DEF TaskSame
  <2>2. QED
    BY <1>1, <2>1, QueueFrame DEF Places
<1>16. QED
  BY <1>12, <1>13, <1>14, <1>15 DEF Places, CpusInv

\* The switch: the task that was picked begins to run.
LEMMA SwitchPlaces ==
  ASSUME Inv, NoStaleResume, Places, NEW c \in Online, Switch(c)
  PROVE  Places'
<1> USE ConstantsAssumption DEF Inv, TypeOK
<1>0. PICK t : t = next[c]
  OBVIOUS
<1>1. /\ sched[c] = "switch"
      /\ curr[c] \in Tasks => enq[curr[c]].at = "none"
      /\ curr' = [curr EXCEPT ![c] = t]
      /\ \E x \in {"hook", "run"} : sched' = [sched EXCEPT ![c] = x]
      /\ next' = [next EXCEPT ![c] = Idle]
      /\ UNCHANGED <<tctx, dsq, task_cpu, slice, enq>>
  BY <1>0 DEF Switch
<1>2. \/ /\ t \in Tasks
         /\ local' = [local EXCEPT ![c] = Tail(@)]
         /\ state' = [state EXCEPT ![t] = "running"]
      \/ t \notin Tasks /\ UNCHANGED <<local, state>>
  BY <1>0 DEF Switch
<1>3. t \in Tasks => /\ local[c] # <<>> /\ t = local[c][1]
                     /\ state[t] = "local" /\ task_cpu[t] = c
  <2>1. t \in Tasks => local[c] # <<>> /\ t = local[c][1]
    BY <1>0, <1>1 DEF PcInv, Places, CpusInv, PickedAt
  <2>2. local[c] # <<>> => 1 \in 1 .. Len(local[c])
    BY DEF QueueTypeOK
  <2>3. QED
    BY <2>1, <2>2 DEF Places, CpusInv, LocalAt
<1>4. ASSUME NEW u \in Tasks, task_cpu[u] = c
      PROVE  ~ tctx[u].resume_slice /\ ~ (enq[u].at = "insert" /\ enq[u].head)
  <2>1. ResumeAt(u)
    BY DEF Places, TasksInv
  <2>2. QED
    BY <1>1, <1>4, <2>1 DEF ResumeAt, NoStaleResume
<1>5. \A u \in Tasks \ {t} : TaskSame(u)
  BY <1>1, <1>2 DEF TaskSame, TaskTypeOK
<1>6. sched'[c] \in {"hook", "run"} /\ curr'[c] = t
  BY <1>1 DEF CpuTypeOK
<1> DEFINE S == {t} \cap Tasks
<1>7. CpuOnly(c, S)
  <2>1. \A d \in CPUs \ {c} : local'[d] = local[d]
    BY <1>2 DEF QueueTypeOK
  <2>2. \A d \in CPUs \ {c} : t \in Tasks => curr[d] # t
    BY <1>3 DEF Places, CpusInv, CurrAt
  <2>3. \A d \in CPUs \ {c} : CpuSame(d)
    BY <1>1 DEF CpuSame, CpuTypeOK
  <2>4. QED
    BY <1>1, <1>5, <2>1, <2>2, <2>3 DEF CpuOnly
<1>8. \A u \in Tasks : task_cpu[u] = c => ResumeAt(u)'
  BY <1>1, <1>4 DEF ResumeAt
<1>9. t \in Tasks => (AllowedAt(t) /\ EnqAt(t))'
  <2> SUFFICES ASSUME t \in Tasks PROVE (AllowedAt(t) /\ EnqAt(t))'
    OBVIOUS
  <2>1. enq[t].at = "none"
    BY <1>3, NoEnqueueFor
  <2>2. state'[t] = "running" /\ enq'[t].at = "none"
    BY <1>1, <1>2, <2>1 DEF TaskTypeOK
  <2>3. task_cpu'[t] \in Allowed[t]
    BY <1>1 DEF Places, TasksInv, AllowedAt
  <2>4. QED
    BY <2>2, <2>3 DEF AllowedAt, HoldsRq, EnqAt
<1>10. TasksInv' /\ \A d \in CPUs \ {c} : (CurrAt(d) /\ PickedAt(d))'
  <2>1. \A u \in S : (AllowedAt(u) /\ EnqAt(u) /\ ResumeAt(u))'
    BY <1>3, <1>8, <1>9
  <2>2. \A u \in Tasks \ S : task_cpu[u] # c \/ ResumeAt(u)'
    BY <1>8
  <2> HIDE DEF S
  <2>3. QED
    BY <1>7, <2>1, <2>2, CpuOnlyFrame
<1>11. CurrAt(c)' /\ PickedAt(c)'
  <2>1. t \in Tasks => state'[t] = "running" /\ task_cpu'[t] = c
    BY <1>1, <1>2, <1>3 DEF TaskTypeOK
  <2>2. QED
    BY <1>6, <2>1 DEF CurrAt, PickedAt
<1>12. ASSUME NEW d \in CPUs PROVE LocalAt(d)'
  <2>1. LocalAt(d)
    BY DEF Places, CpusInv
  <2>2. CASE local'[d] = local[d]
    <3>1. \A u \in Tasks : state[u] = "local" /\ task_cpu[u] = d =>
            state'[u] = "local" /\ task_cpu'[u] = d
      <4>1. CASE t \in Tasks
        <5>1. d # c
          <6>1. local[c] # <<>> /\ local[c] \in Seq(Tasks)
            BY <1>3, <4>1 DEF QueueTypeOK
          <6>2. Len(Tail(local[c])) # Len(local[c])
            BY <6>1
          <6>3. local'[c] = Tail(local[c])
            BY <1>2, <4>1 DEF QueueTypeOK
          <6>4. QED
            BY <2>2, <6>2, <6>3
        <5>2. QED
          BY <1>3, <1>5, <4>1, <5>1 DEF TaskSame
      <4>2. CASE t \notin Tasks
        BY <1>5, <4>2 DEF TaskSame
      <4>3. QED
        BY <4>1, <4>2
    <3>2. QED
      BY <2>1, <2>2, <3>1, LocalFrame
  <2>3. CASE local'[d] # local[d]
    <3> DEFINE q == local[c]
    <3>1. d = c /\ t \in Tasks /\ local'[d] = Tail(q) /\ q \in Seq(Tasks) /\ q # <<>> /\ t = q[1]
      BY <1>2, <1>3, <2>3 DEF QueueTypeOK
    <3>2. \A i \in 1 .. Len(q) : /\ state[q[i]] = "local" /\ task_cpu[q[i]] = c
                                 /\ \A j \in 1 .. Len(q) : q[i] = q[j] => i = j
      BY <2>1, <3>1 DEF LocalAt
    <3> HIDE DEF q
    <3>3. PICK r : r = local'[d]
      OBVIOUS
    <3>4. /\ Len(q) \in Nat \ {0} /\ Len(r) = Len(q) - 1
          /\ \A i \in 1 .. Len(r) : i + 1 \in 1 .. Len(q) /\ i + 1 # 1 /\ r[i] = q[i + 1]
      BY <3>1, <3>3
    <3>5. ASSUME NEW i \in 1 .. Len(r)
          PROVE  state'[r[i]] = "local" /\ task_cpu'[r[i]] = c
      <4>1. q[i + 1] # t /\ q[i + 1] \in Tasks
        <5>1. 1 \in 1 .. Len(q) /\ i + 1 \in 1 .. Len(q) /\ i + 1 # 1
          BY <3>4
        <5>2. QED
          BY <3>1, <3>2, <5>1
      <4>2. QED
        BY <1>5, <3>2, <3>4, <4>1 DEF TaskSame
    <3>6. ASSUME NEW i \in 1 .. Len(r), NEW j \in 1 .. Len(r), r[i] = r[j]
          PROVE  i = j
      <4>1. i + 1 = j + 1
        BY <3>2, <3>4, <3>6
      <4>2. QED
        BY <3>4, <4>1
    <3>7. QED
      BY <3>1, <3>3, <3>5, <3>6, ZenonT(60) DEF LocalAt
  <2>4. QED
    BY <2>2, <2>3
<1>13. QueueInv' /\ QueueOnce'
  <2>1. \A u \in Tasks : state[u] = "queued" =>
          state'[u] = "queued" /\ effective_tier(tctx'[u]) = effective_tier(tctx[u])
    BY <1>3, <1>5 DEF TaskSame
  <2>2. QED
    BY <1>1, <2>1, QueueFrame DEF Places
<1>14. QED
  BY <1>10, <1>11, <1>12, <1>13 DEF Places, CpusInv

-----------------------------------------------------------------------------
(* What a dispatch does                                                    *)

\* lunar_dispatch of c takes task t out of a queue.
Takes(c, t) ==
  /\ enq[t].at = "none" /\ OffCpu(t) /\ c \in Allowed[t]
  /\ \E o \in CPUs, l \in Tiers : Leaves(t, o, l)
  /\ local' = [local EXCEPT ![c] = <<t>>]
  /\ task_cpu' = [task_cpu EXCEPT ![t] = c]
  /\ state' = [state EXCEPT ![t] = "local"]
  /\ next' = [next EXCEPT ![c] = t]
  /\ sched' = [sched EXCEPT ![c] = IF PrevRuns(c) THEN "put" ELSE "switch"]
  /\ tctx' = tctx \/ (PrevRuns(c) /\ \E x : tctx' = [tctx EXCEPT ![curr[c]] = x])
  /\ UNCHANGED <<dctx, slice>>

\* It finds nothing, and the running task goes on.
Keeps(c) ==
  /\ PrevRuns(c)
  /\ \E x \in CtxType : /\ tctx' = [tctx EXCEPT ![curr[c]] = x]
                        /\ dctx' = [dctx EXCEPT ![c] = running_cpu(@, x)]
  /\ slice' = [slice EXCEPT ![curr[c]] = TRUE]
  /\ sched' = [sched EXCEPT ![c] = "run"]
  /\ UNCHANGED <<dsq, local, task_cpu, state, next>>

\* It finds nothing, its own queues included, and the cpu goes idle.
GoesIdle(c) ==
  /\ ~ PrevRuns(c)
  /\ \A l \in Tiers : ~ Takeable(c, l, c)
  /\ next' = [next EXCEPT ![c] = Idle]
  /\ sched' = [sched EXCEPT ![c] = "switch"]
  /\ UNCHANGED <<tctx, dctx, slice, dsq, local, task_cpu, state>>

\* What the first successful attempt of a plan finds (dispatch_dsq_per_cpu).
Found(plan) ==
  LET succeed == {i \in DOMAIN plan : plan[i].from # {}}
      first == CHOOSE i \in succeed : \A j \in succeed : i <= j
  IN IF succeed = {} THEN {}
     ELSE {[tier |-> plan[first].tier, from |-> o] : o \in plan[first].from}

\* All attempts of a plan fail.
AllFail(plan) == \A i \in 1 .. Len(plan) : plan[i].from = {}

\* The task r comes from an attempt of the plan that all earlier ones of the plan
\* left it to.
FirstIn(r, plan) ==
  \E i \in 1 .. Len(plan) : /\ r.tier = plan[i].tier /\ r.from \in plan[i].from
                            /\ \A j \in 1 .. i - 1 : plan[j].from = {}

\* The first success comes after failures only.
LEMMA FoundFirst ==
  ASSUME NEW S, NEW p \in Seq(S), NEW r \in Found(p)
  PROVE  FirstIn(r, p)
<1> DEFINE succeed == {i \in DOMAIN p : p[i].from # {}}
           first == CHOOSE i \in succeed : \A j \in succeed : i <= j
<1>1. succeed # {} /\ \E o \in p[first].from : r = [tier |-> p[first].tier, from |-> o]
  BY DEF Found
<1>2. succeed \subseteq Nat /\ DOMAIN p = 1 .. Len(p) /\ Len(p) \in Nat
  OBVIOUS
<1>3. first \in succeed /\ \A j \in succeed : first <= j
  <2> HIDE DEF succeed
  <2>1. \E i \in succeed : \A j \in succeed : i <= j
    BY <1>1, <1>2, LeastOf
  <2>2. QED
    BY <2>1
<1> HIDE DEF first
<1>4. first \in 1 .. Len(p) /\ \A j \in 1 .. first - 1 : p[j].from = {}
  <2>1. first \in 1 .. Len(p)
    BY <1>2, <1>3
  <2>2. ASSUME NEW j \in 1 .. first - 1 PROVE p[j].from = {}
    <3>1. j \in 1 .. Len(p) /\ ~ (first <= j)
      BY <1>2, <2>1
    <3>2. QED
      BY <1>2, <1>3, <3>1
  <2>3. QED
    BY <2>1, <2>2
<1>5. QED
  BY <1>1, <1>4 DEF FirstIn

\* Nothing is found when everything fails, and only then.
LEMMA FoundNone ==
  ASSUME NEW S, NEW p \in Seq(S)
  PROVE  Found(p) = {} <=> AllFail(p)
<1> DEFINE succeed == {i \in DOMAIN p : p[i].from # {}}
           first == CHOOSE i \in succeed : \A j \in succeed : i <= j
<1>1. succeed \subseteq Nat /\ DOMAIN p = 1 .. Len(p)
  OBVIOUS
<1>2. CASE succeed = {}
  <2>1. Found(p) = {}
    BY <1>2 DEF Found
  <2>2. AllFail(p)
    BY <1>1, <1>2 DEF AllFail
  <2>3. QED
    BY <2>1, <2>2
<1>3. CASE succeed # {}
  <2>1. first \in succeed
    <3> HIDE DEF succeed
    <3>1. \E i \in succeed : \A j \in succeed : i <= j
      BY <1>1, <1>3, LeastOf
    <3>2. QED
      BY <3>1
  <2>2. Found(p) = {[tier |-> p[first].tier, from |-> o] : o \in p[first].from}
    BY <1>3 DEF Found
  <2> HIDE DEF first
  <2>3. p[first].from # {} /\ first \in 1 .. Len(p)
    BY <1>1, <2>1
  <2>4. QED
    BY <2>2, <2>3 DEF AllFail
<1>4. QED
  BY <1>2, <1>3

\* A plan in two parts: the second part counts when the first one fails.
LEMMA FoundConcat ==
  ASSUME NEW S, NEW a \in Seq(S), NEW b \in Seq(S)
  PROVE  /\ a \o b \in Seq(S)
         /\ AllFail(a \o b) <=> AllFail(a) /\ AllFail(b)
         /\ \A r : FirstIn(r, a \o b) => FirstIn(r, a) \/ (AllFail(a) /\ FirstIn(r, b))
<1> DEFINE p == a \o b
<1>1. /\ p \in Seq(S) /\ Len(p) = Len(a) + Len(b)
      /\ \A i \in 1 .. Len(a) + Len(b) : p[i] = IF i <= Len(a) THEN a[i] ELSE b[i - Len(a)]
  BY ConcatProperties
<1> HIDE DEF p
<1>2. Len(a) \in Nat /\ Len(b) \in Nat
  OBVIOUS
<1>3. \A i \in 1 .. Len(a) : i \in 1 .. Len(p) /\ p[i] = a[i]
  BY <1>1, <1>2
<1>4. \A i \in 1 .. Len(b) : i + Len(a) \in 1 .. Len(p) /\ p[i + Len(a)] = b[i]
  <2> SUFFICES ASSUME NEW i \in 1 .. Len(b)
               PROVE  i + Len(a) \in 1 .. Len(p) /\ p[i + Len(a)] = b[i]
    OBVIOUS
  <2>1. i + Len(a) \in 1 .. Len(a) + Len(b) /\ ~ (i + Len(a) <= Len(a)) /\ i + Len(a) - Len(a) = i
    BY <1>2
  <2>2. QED
    BY <1>1, <2>1
<1>5. \A i \in 1 .. Len(p) : i \notin 1 .. Len(a) => i - Len(a) \in 1 .. Len(b) /\ p[i] = b[i - Len(a)]
  BY <1>1, <1>2
<1>6. AllFail(p) <=> AllFail(a) /\ AllFail(b)
  <2>1. ASSUME AllFail(p) PROVE AllFail(a) /\ AllFail(b)
    BY <1>3, <1>4, <2>1 DEF AllFail
  <2>2. ASSUME AllFail(a), AllFail(b) PROVE AllFail(p)
    BY <1>3, <1>5, <2>2 DEF AllFail
  <2>3. QED
    BY <2>1, <2>2
<1>7. ASSUME NEW r, FirstIn(r, p)
      PROVE  FirstIn(r, a) \/ (AllFail(a) /\ FirstIn(r, b))
  <2>1. PICK i \in 1 .. Len(p) : /\ r.tier = p[i].tier /\ r.from \in p[i].from
                                 /\ \A j \in 1 .. i - 1 : p[j].from = {}
    BY <1>7 DEF FirstIn
  <2>2. CASE i \in 1 .. Len(a)
    <3>1. \A j \in 1 .. i - 1 : j \in 1 .. Len(a)
      BY <1>2, <2>2
    <3>2. QED
      BY <1>3, <2>1, <2>2, <3>1 DEF FirstIn
  <2>3. CASE i \notin 1 .. Len(a)
    <3>1. i - Len(a) \in 1 .. Len(b) /\ p[i] = b[i - Len(a)]
      BY <1>5, <2>3
    <3>2. AllFail(a)
      <4>1. \A j \in 1 .. Len(a) : j \in 1 .. i - 1
        BY <1>1, <1>2, <2>3
      <4>2. QED
        BY <1>3, <2>1, <4>1 DEF AllFail
    <3>3. ASSUME NEW j \in 1 .. (i - Len(a)) - 1 PROVE b[j].from = {}
      <4>1. j \in 1 .. Len(b) /\ j + Len(a) \in 1 .. i - 1
        BY <1>2, <3>1
      <4>2. QED
        BY <1>4, <2>1, <4>1
    <3>4. QED
      BY <2>1, <3>1, <3>2, <3>3 DEF FirstIn
  <2>4. QED
    BY <2>2, <2>3
<1>8. QED
  BY <1>1, <1>6, <1>7 DEF p

\* A dispatch that finds nothing has failed in all parts of its plan.
LEMMA PlanFails ==
  ASSUME NEW c \in CPUs, NEW prev_tier \in Tiers \cup {EMPTY}, NEW starved \in Tiers \cup {EMPTY},
         dispatch_dsq_per_cpu(c, prev_tier, starved) = {}
  PROVE  /\ AllFail(PlanFirst(c))
         /\ AllFail(PlanStrict(c, local_best(c, prev_tier)))
         /\ \A k \in {INTERACTIVE, NORMAL, GREEDY} : AllFail(PlanServe(c, prev_tier, k))
<1> DEFINE A == AttemptsFor(c)
           a1 == PlanFirst(c)
           a2 == PlanOver(c, starved)
           a3 == PlanStrict(c, local_best(c, prev_tier))
           a4 == PlanServe(c, prev_tier, INTERACTIVE)
           a5 == PlanServe(c, prev_tier, NORMAL)
           a6 == PlanServe(c, prev_tier, GREEDY)
           a7 == PlanSteal(c, prev_tier)
           plan == Attempts(c, prev_tier, starved)
<1>1. /\ a1 \in Seq(A) /\ a2 \in Seq(A) /\ a3 \in Seq(A) /\ a4 \in Seq(A)
      /\ a5 \in Seq(A) /\ a6 \in Seq(A) /\ a7 \in Seq(A)
      /\ plan = a1 \o a2 \o a3 \o a4 \o a5 \o a6 \o a7
  <2>1. {INTERACTIVE, NORMAL, GREEDY} \subseteq Tiers
    BY DEF Tiers, LC, INTERACTIVE, NORMAL, GREEDY
  <2>2. QED
    BY <2>1, AttemptsParts
<1>2. Found(plan) = {}
  BY DEF dispatch_dsq_per_cpu, Found
<1> HIDE DEF A, a1, a2, a3, a4, a5, a6, a7, plan
<1> DEFINE b2 == a1 \o a2
           b3 == b2 \o a3
           b4 == b3 \o a4
           b5 == b4 \o a5
           b6 == b5 \o a6
           b7 == b6 \o a7
<1>3. b2 \in Seq(A) /\ (AllFail(b2) => AllFail(a1))
  BY <1>1, FoundConcat
<1> HIDE DEF b2
<1>4. b3 \in Seq(A) /\ (AllFail(b3) => AllFail(b2) /\ AllFail(a3))
  BY <1>1, <1>3, FoundConcat
<1> HIDE DEF b3
<1>5. b4 \in Seq(A) /\ (AllFail(b4) => AllFail(b3) /\ AllFail(a4))
  BY <1>1, <1>4, FoundConcat
<1> HIDE DEF b4
<1>6. b5 \in Seq(A) /\ (AllFail(b5) => AllFail(b4) /\ AllFail(a5))
  BY <1>1, <1>5, FoundConcat
<1> HIDE DEF b5
<1>7. b6 \in Seq(A) /\ (AllFail(b6) => AllFail(b5) /\ AllFail(a6))
  BY <1>1, <1>6, FoundConcat
<1> HIDE DEF b6
<1>8. b7 \in Seq(A) /\ (AllFail(b7) => AllFail(b6))
  BY <1>1, <1>7, FoundConcat
<1>9. plan = b7
  BY <1>1 DEF b2, b3, b4, b5, b6
<1> HIDE DEF b7
<1>10. AllFail(b7)
  BY <1>2, <1>8, <1>9, FoundNone
<1>11. AllFail(a1) /\ AllFail(a3) /\ AllFail(a4) /\ AllFail(a5) /\ AllFail(a6)
  BY <1>3, <1>4, <1>5, <1>6, <1>7, <1>8, <1>10
<1>12. QED
  BY <1>11 DEF a1, a3, a4, a5, a6

\* So its own queues hold nothing for it that it looks at.
LEMMA OwnQueuesFail ==
  ASSUME NEW c \in CPUs, NEW prev_tier \in Tiers \cup {EMPTY}, NEW starved \in Tiers \cup {EMPTY},
         dispatch_dsq_per_cpu(c, prev_tier, starved) = {}, NEW k \in Tiers, k <= prev_tier
  PROVE  ~ Takeable(c, k, c)
<1>1. CASE k = LC
  <2>1. AllFail(PlanFirst(c))
    BY PlanFails
  <2>2. take_from_local_tier(LC, c).from = {}
    BY <2>1 DEF AllFail, PlanFirst
  <2>3. QED
    BY <1>1, <2>2 DEF take_from_local_tier
<1>2. CASE k # LC
  <2>1. k \in {INTERACTIVE, NORMAL, GREEDY} /\ looks_at(prev_tier, k)
    BY <1>2 DEF looks_at, Tiers, LC, INTERACTIVE, NORMAL, GREEDY, EMPTY
  <2>2. AllFail(PlanServe(c, prev_tier, k))
    BY <2>1, PlanFails
  <2>3. take_from_local_tier(k, c).from = {}
    BY <2>1, <2>2 DEF AllFail, PlanServe
  <2>4. QED
    BY <2>3 DEF take_from_local_tier
<1>3. QED
  BY <1>1, <1>2

\* A dispatch takes a task, lets the running one go on, or finds nothing.
LEMMA DispatchCases ==
  ASSUME Inv, NEW c \in Online, NEW k \in Classes(curr[c]), NEW spent \in BOOLEAN,
         NEW starved \in StarvedTiers \cup {EMPTY}, Dispatch(c, k, spent, starved)
  PROVE  /\ LooksForTask(c) /\ local[c] = <<>>
         /\ UNCHANGED <<curr, enq, idle, kicks>> /\ resched' = resched \ {c}
         /\ (\E t \in Tasks : Takes(c, t)) \/ Keeps(c) \/ GoesIdle(c)
<1> USE ConstantsAssumption DEF Inv, TypeOK
<1> DEFINE px == IF PrevRuns(c) THEN dispatch_prev(c, k, spent) ELSE init_task_ctx(NoTask)
           prev_tier == IF PrevRuns(c) THEN effective_tier(px) ELSE EMPTY
           found == dispatch_dsq_per_cpu(c, prev_tier, starved)
           kept == IF spent THEN Unboosted(px) ELSE px
<1>1. /\ LooksForTask(c) /\ local[c] = <<>>
      /\ UNCHANGED <<curr, enq, idle, kicks>> /\ resched' = resched \ {c}
  BY DEF Dispatch
<1>2. px \in CtxType /\ kept \in CtxType
  <2>1. PrevRuns(c) => tctx[curr[c]] \in CtxType /\ k \in Tiers
    BY DEF PrevRuns, Classes, CtxTypeOK
  <2>2. px \in CtxType
    BY <2>1, CtxSteps, UnboostedCtx, InitTaskCtx DEF dispatch_prev
  <2>3. QED
    BY <2>2, UnboostedCtx
<1>3. prev_tier \in Tiers \cup {EMPTY} /\ starved \in Tiers \cup {EMPTY} /\ c \in CPUs
  BY <1>2, EffectiveTier DEF Tiers, LC, INTERACTIVE, GREEDY
<1> DEFINE Moves(r) ==
             LET i == FirstFor(r.from, r.tier, c)
                 t == dsq[r.from][r.tier][i]
             IN /\ enq[t].at = "none"
                /\ OffCpu(t)
                /\ dsq' = [dsq EXCEPT ![r.from][r.tier] = Without(@, i)]
                /\ local' = [local EXCEPT ![c] = <<t>>]
                /\ task_cpu' = [task_cpu EXCEPT ![t] = c]
                /\ state' = [state EXCEPT ![t] = "local"]
                /\ next' = [next EXCEPT ![c] = t]
<1>4. \/ /\ \E r \in found : Moves(r)
         /\ tctx' = IF PrevRuns(c) THEN [tctx EXCEPT ![curr[c]] = px] ELSE tctx
         /\ sched' = [sched EXCEPT ![c] = IF PrevRuns(c) THEN "put" ELSE "switch"]
         /\ UNCHANGED <<dctx, slice>>
      \/ /\ PrevRuns(c)
         /\ tctx' = [tctx EXCEPT ![curr[c]] = kept]
         /\ dctx' = [dctx EXCEPT ![c] = running_cpu(@, kept)]
         /\ slice' = [slice EXCEPT ![curr[c]] = TRUE]
         /\ sched' = [sched EXCEPT ![c] = "run"]
         /\ UNCHANGED <<dsq, local, task_cpu, state, next>>
      \/ /\ found = {} /\ ~ PrevRuns(c)
         /\ next' = [next EXCEPT ![c] = Idle]
         /\ sched' = [sched EXCEPT ![c] = "switch"]
         /\ UNCHANGED <<tctx, dctx, slice, dsq, local, task_cpu, state>>
  BY DEF Dispatch
<1>5. ASSUME NEW r \in found, Moves(r),
             tctx' = IF PrevRuns(c) THEN [tctx EXCEPT ![curr[c]] = px] ELSE tctx,
             sched' = [sched EXCEPT ![c] = IF PrevRuns(c) THEN "put" ELSE "switch"],
             UNCHANGED <<dctx, slice>>
      PROVE  \E t \in Tasks : Takes(c, t)
  <2> HIDE DEF px, prev_tier
  <2>1. r.tier \in Tiers /\ r.from \in CPUs /\ Takeable(r.from, r.tier, c)
    BY <1>3, DispatchFinds
  <2> HIDE DEF found
  <2>2. PICK o, l, i : o = r.from /\ l = r.tier /\ i = FirstFor(o, l, c)
    OBVIOUS
  <2>3. PICK t : t = dsq[o][l][i]
    OBVIOUS
  <2>4. i \in 1 .. Len(dsq[o][l]) /\ t \in Tasks /\ c \in Allowed[t]
    BY <1>3, <2>1, <2>2, <2>3, FirstForExists, SMTT(30)
  <2>5. Leaves(t, o, l)
    BY <1>5, <2>2, <2>3, <2>4 DEF Leaves
  <2>6. /\ enq[t].at = "none" /\ OffCpu(t)
        /\ local' = [local EXCEPT ![c] = <<t>>]
        /\ task_cpu' = [task_cpu EXCEPT ![t] = c]
        /\ state' = [state EXCEPT ![t] = "local"]
        /\ next' = [next EXCEPT ![c] = t]
    BY <1>5, <2>2, <2>3
  <2> HIDE DEF Moves
  <2>7. tctx' = tctx \/ (PrevRuns(c) /\ \E x : tctx' = [tctx EXCEPT ![curr[c]] = x])
    BY <1>5
  <2>8. QED
    BY <1>5, <2>1, <2>2, <2>4, <2>5, <2>6, <2>7 DEF Takes
<1>6. found = {} /\ ~ PrevRuns(c) => \A l \in Tiers : ~ Takeable(c, l, c)
  <2> SUFFICES ASSUME found = {}, ~ PrevRuns(c), NEW l \in Tiers PROVE ~ Takeable(c, l, c)
    OBVIOUS
  <2>1. l <= prev_tier
    BY DEF Tiers, LC, GREEDY, EMPTY
  <2> HIDE DEF prev_tier
  <2>2. QED
    BY <1>3, <2>1, OwnQueuesFail
<1> HIDE DEF px, prev_tier, found, kept, Moves
<1>7. QED
  BY <1>1, <1>2, <1>4, <1>5, <1>6 DEF Keeps, GoesIdle

\* A dispatch.
LEMMA DispatchPlaces ==
  ASSUME Inv, NoStaleResume, NoStaleResume', Places, NEW c \in Online,
         NEW k \in Classes(curr[c]), NEW spent \in BOOLEAN,
         NEW starved \in StarvedTiers \cup {EMPTY}, Dispatch(c, k, spent, starved)
  PROVE  Places'
<1> USE ConstantsAssumption DEF Inv, TypeOK
<1>1. /\ LooksForTask(c) /\ local[c] = <<>> /\ UNCHANGED <<curr, enq>>
      /\ (\E t \in Tasks : Takes(c, t)) \/ Keeps(c) \/ GoesIdle(c)
  BY DispatchCases
<1>2. sched[c] \in {"pick", "run"} /\ (PrevRuns(c) => ~ slice[curr[c]])
  BY <1>1 DEF LooksForTask, Picking, RqFree
<1>3. PICK p : p = curr[c]
  OBVIOUS
<1>4. PrevRuns(c) => /\ p \in Tasks /\ state[p] = "running" /\ task_cpu[p] = c
                     /\ enq[p].at = "none"
                     /\ \A d \in CPUs \ {c} : curr[d] # p
  <2>1. PrevRuns(c) => p \in Tasks /\ state[p] = "running" /\ task_cpu[p] = c
    BY <1>3 DEF PrevRuns, Places, CpusInv, CurrAt
  <2>2. QED
    BY <1>3, <2>1, NoEnqueueFor, CurrOnce
<1>5. p \in Tasks => (PrevRuns(c) <=> state[p] = "running")
  BY <1>3 DEF PrevRuns
<1>6. p \in Tasks => task_cpu[p] = c
  BY <1>3 DEF Places, CpusInv, CurrAt
<1>7. ASSUME NEW t \in Tasks, Takes(c, t) PROVE Places'
  <2>1. PICK o \in CPUs, l \in Tiers : Leaves(t, o, l)
    BY <1>7 DEF Takes
  <2>2. state[t] = "queued"
    BY <2>1 DEF Leaves, Places, QueueInv
  <2>3. t # p
    <3>1. c \in Online /\ curr[c] # t
      BY <1>7 DEF Takes, OffCpu
    <3>2. QED
      BY <1>3, <3>1
  <2>4. \A u \in Tasks \ {t} : u # p \/ ~ PrevRuns(c) => TaskSame(u)
    BY <1>1, <1>3, <1>7 DEF Takes, TaskSame, TaskTypeOK, CtxTypeOK
  <2>5. /\ state'[t] = "local" /\ task_cpu'[t] = c /\ enq'[t].at = "none"
        /\ \A u \in Tasks \ {t} : state'[u] = state[u] /\ task_cpu'[u] = task_cpu[u]
    BY <1>1, <1>7 DEF Takes, TaskTypeOK
  <2>6. /\ sched'[c] = (IF PrevRuns(c) THEN "put" ELSE "switch") /\ next'[c] = t
        /\ slice' = slice /\ local'[c] = <<t>>
    BY <1>7 DEF Takes, CpuTypeOK, QueueTypeOK
  <2>7. \A d \in CPUs \ {c} : curr[d] # t
    <3>1. ASSUME NEW d \in CPUs, curr[d] = t PROVE d \in Online
      BY <3>1 DEF Places, CpusInv, CurrAt, OnlineInv
    <3>2. QED
      BY <1>7, <3>1 DEF Takes, OffCpu
  <2> DEFINE S == {t} \cup (IF PrevRuns(c) THEN {p} ELSE {})
  <2>8. CpuOnly(c, S)
    <3>1. \A d \in CPUs \ {c} : CpuSame(d) /\ local'[d] = local[d]
      BY <1>1, <1>7 DEF Takes, CpuSame, CpuTypeOK, QueueTypeOK
    <3>2. \A u \in Tasks \ S : TaskSame(u)
      BY <2>4
    <3>3. \A u \in S, d \in CPUs \ {c} : curr[d] # u
      BY <1>4, <2>7
    <3> HIDE DEF S
    <3>4. QED
      BY <2>6, <3>1, <3>2, <3>3 DEF CpuOnly
  <2>9. (AllowedAt(t) /\ EnqAt(t) /\ ResumeAt(t))'
    <3>1. ~ tctx'[t].resume_slice /\ c \in Allowed[t]
      BY <1>7, <2>5 DEF NoStaleResume, Takes
    <3>2. QED
      BY <2>5, <3>1 DEF AllowedAt, HoldsRq, EnqAt, ResumeAt
  <2>10. PrevRuns(c) => (AllowedAt(p) /\ EnqAt(p) /\ ResumeAt(p))'
    <3> SUFFICES ASSUME PrevRuns(c) PROVE (AllowedAt(p) /\ EnqAt(p) /\ ResumeAt(p))'
      OBVIOUS
    <3>1. /\ enq'[p].at = "none" /\ state'[p] = "running" /\ ~ tctx'[p].resume_slice
          /\ task_cpu'[p] = task_cpu[p]
      BY <1>1, <1>4, <2>3, <2>5 DEF NoStaleResume
    <3>2. task_cpu[p] \in Allowed[p]
      BY <1>4 DEF Places, TasksInv, AllowedAt
    <3>3. QED
      BY <3>1, <3>2 DEF AllowedAt, HoldsRq, EnqAt, ResumeAt
  <2>11. TasksInv' /\ \A d \in CPUs \ {c} : (CurrAt(d) /\ PickedAt(d))'
    <3>1. \A u \in S : (AllowedAt(u) /\ EnqAt(u) /\ ResumeAt(u))'
      BY <2>9, <2>10
    <3> HIDE DEF S
    <3>2. QED
      BY <1>2, <2>8, <3>1, CpuOnlyFrame
  <2>12. CurrAt(c)' /\ PickedAt(c)'
    <3>1. CurrAt(c)'
      BY <1>1, <1>3, <1>5, <1>6, <2>3, <2>5, <2>6 DEF CurrAt
    <3>2. PickedAt(c)'
      BY <1>1, <1>2, <2>6 DEF PickedAt
    <3>3. QED
      BY <3>1, <3>2
  <2>13. ASSUME NEW d \in CPUs PROVE LocalAt(d)'
    <3>1. CASE d = c
      BY <2>5, <2>6, <3>1 DEF LocalAt
    <3>2. CASE d # c
      <4>1. local'[d] = local[d]
        BY <1>7, <3>2 DEF Takes, QueueTypeOK
      <4>2. \A u \in Tasks : state[u] = "local" => state'[u] = "local" /\ task_cpu'[u] = task_cpu[u]
        BY <2>2, <2>5
      <4>3. QED
        BY <4>1, <4>2, LocalFrame DEF Places, CpusInv
    <3>3. QED
      BY <3>1, <3>2
  <2>14. QueueInv' /\ QueueOnce'
    <3>1. \A u \in Tasks \ {t} : state[u] = "queued" => state'[u] = "queued" /\ tctx'[u] = tctx[u]
      BY <1>4, <2>4 DEF TaskSame
    <3>2. QED
      BY <2>1, <3>1, LeaveQueueInv
  <2>15. QED
    BY <2>11, <2>12, <2>13, <2>14 DEF Places, CpusInv
<1>8. CASE Keeps(c)
  <2>1. p \in Tasks /\ state[p] = "running" /\ PrevRuns(c)
    BY <1>4, <1>8 DEF Keeps
  <2>2. /\ \A u \in Tasks \ {p} : TaskSame(u) /\ slice'[u] = slice[u]
        /\ UNCHANGED <<dsq, local, task_cpu, state, next>>
        /\ sched' = [sched EXCEPT ![c] = "run"]
    BY <1>1, <1>3, <1>8, ZenonT(60) DEF Keeps, TaskSame, TaskTypeOK, CtxTypeOK
  <2>3. CpuOnly(c, {p})
    BY <1>1, <1>4, <2>1, <2>2 DEF CpuOnly, CpuSame, CpuTypeOK
  <2>4. (AllowedAt(p) /\ EnqAt(p) /\ ResumeAt(p))'
    <3>1. ~ tctx'[p].resume_slice /\ enq'[p].at = "none" /\ task_cpu[p] \in Allowed[p]
      BY <1>1, <1>4, <2>1 DEF NoStaleResume, Places, TasksInv, AllowedAt
    <3>2. QED
      BY <2>1, <2>2, <3>1 DEF AllowedAt, HoldsRq, EnqAt, ResumeAt
  <2>5. TasksInv' /\ \A d \in CPUs \ {c} : (CurrAt(d) /\ PickedAt(d))'
    BY <1>2, <2>3, <2>4, CpuOnlyFrame
  <2>6. CurrAt(c)' /\ PickedAt(c)'
    <3>1. sched'[c] = "run" /\ curr'[c] = p
      BY <1>1, <1>3, <2>2 DEF CpuTypeOK
    <3>2. QED
      BY <1>4, <2>1, <2>2, <3>1 DEF CurrAt, PickedAt
  <2>7. \A d \in CPUs : LocalAt(d)'
    BY <2>2, LocalFrame DEF Places, CpusInv
  <2>8. QueueInv' /\ QueueOnce'
    <3>1. \A u \in Tasks : state[u] = "queued" =>
            state'[u] = "queued" /\ effective_tier(tctx'[u]) = effective_tier(tctx[u])
      BY <2>1, <2>2 DEF TaskSame
    <3>2. QED
      BY <2>2, <3>1, QueueFrame DEF Places
  <2>9. QED
    BY <2>5, <2>6, <2>7, <2>8 DEF Places, CpusInv
<1>9. CASE GoesIdle(c)
  <2>1. /\ UNCHANGED <<tctx, slice, dsq, local, task_cpu, state>>
        /\ sched' = [sched EXCEPT ![c] = "switch"] /\ next' = [next EXCEPT ![c] = Idle]
        /\ ~ PrevRuns(c)
    BY <1>9 DEF GoesIdle
  <2>2. CpuOnly(c, {})
    BY <1>1, <2>1 DEF CpuOnly, CpuSame, TaskSame, CpuTypeOK
  <2>3. TasksInv' /\ \A d \in CPUs \ {c} : (CurrAt(d) /\ PickedAt(d))'
    BY <1>2, <2>2, CpuOnlyFrame
  <2>4. CurrAt(c)' /\ PickedAt(c)'
    <3>1. sched'[c] = "switch" /\ next'[c] = Idle /\ curr'[c] = p
      BY <1>1, <1>3, <2>1 DEF CpuTypeOK
    <3>2. QED
      BY <1>5, <1>6, <2>1, <3>1 DEF CurrAt, PickedAt
  <2>5. \A d \in CPUs : LocalAt(d)'
    BY <2>1, LocalFrame DEF Places, CpusInv
  <2>6. QueueInv' /\ QueueOnce'
    BY <2>1, QueueFrame DEF Places
  <2>7. QED
    BY <2>3, <2>4, <2>5, <2>6 DEF Places, CpusInv
<1>10. QED
  BY <1>1, <1>7, <1>8, <1>9

\* When the scheduler is loaded, no task is anywhere.
LEMMA InitPlaces == Init => Places
<1> SUFFICES ASSUME Init PROVE Places
  OBVIOUS
<1> USE ConstantsAssumption
<1>1. \A t \in Tasks : AllowedAt(t) /\ EnqAt(t) /\ ResumeAt(t)
  <2> SUFFICES ASSUME NEW t \in Tasks PROVE AllowedAt(t) /\ EnqAt(t) /\ ResumeAt(t)
    OBVIOUS
  <2>1. enq[t].at = "none" /\ state[t] = "new" /\ task_cpu[t] \in Allowed[t]
    BY DEF Init, NoEnqueue
  <2>2. ~ tctx[t].resume_slice
    BY InitTaskCtx DEF Init
  <2>3. QED
    BY <2>1, <2>2 DEF AllowedAt, HoldsRq, EnqAt, ResumeAt
<1>2. \A c \in CPUs : CurrAt(c) /\ PickedAt(c) /\ LocalAt(c)
  <2> SUFFICES ASSUME NEW c \in CPUs PROVE CurrAt(c) /\ PickedAt(c) /\ LocalAt(c)
    OBVIOUS
  <2>1. curr[c] \notin Tasks /\ sched[c] = "run" /\ local[c] = <<>>
    BY DEF Init
  <2>2. QED
    BY <2>1 DEF CurrAt, PickedAt, LocalAt
<1>3. QueueInv /\ QueueOnce
  BY DEF Init, QueueInv, QueueOnce
<1>4. QED
  BY <1>1, <1>2, <1>3 DEF Places, TasksInv, CpusInv

\* Every step keeps every task in one place.
LEMMA NextPlaces ==
  Inv /\ NoStaleResume /\ NoStaleResume' /\ Places /\ [Next]_vars => Places'
<1> SUFFICES ASSUME Inv, NoStaleResume, NoStaleResume', Places, [Next]_vars PROVE Places'
  OBVIOUS
<1>1. CASE UNCHANGED vars
  BY <1>1 DEF vars, kernel, Places, TasksInv, CpusInv, AllowedAt, HoldsRq, EnqAt, ResumeAt, CurrAt,
     PickedAt, LocalAt, QueueInv, QueueOnce
<1>2. ASSUME NEW t \in Tasks, TaskStep(t) PROVE Places'
  BY <1>2, WakeUpPlaces, DirectInsertPlaces, EnqueuePlacePlaces, EnqueueInsertPlaces,
     EnqueueEndPlaces, ChangeAttrPlaces DEF TaskStep, Enqueue
<1>3. ASSUME NEW c \in Online, CpuStep(c) PROVE Places'
  BY <1>3, KickPlaces, SchedOnlyPlaces, SleepPlaces, PickNextPlaces, ReenqueueLocalPlaces,
     PutPrevPlaces, SwitchPlaces, DispatchPlaces DEF CpuStep, Course
<1>4. QED
  BY <1>1, <1>2, <1>3 DEF Next

\* Every task is in one place in every state.
THEOREM SchedPlaces == Spec => []Places
BY InitPlaces, NextPlaces, SchedInvariant, SchedNoStaleResume, PTL DEF Spec

\* A task waits in the queue of the tier it runs in (lunar_enqueue).
THEOREM SchedQueueMatchesTier == Spec => []QueueMatchesTier
<1>1. Places => QueueMatchesTier
  BY DEF Places, QueueInv, QueueMatchesTier
<1>2. QED
  BY <1>1, SchedPlaces, PTL

-----------------------------------------------------------------------------
(* What other cpus read of a cpu                                           *)

\* current_task_dsq_type is the tier of the running task outside of __schedule(),
\* and EMPTY while no task of ours is on the cpu or going to be.
TierAt(c) ==
  /\ sched[c] \in {"run", "hook"} =>
       dctx[c].current_task_dsq_type =
         IF curr[c] \in Tasks THEN effective_tier(tctx[curr[c]]) ELSE EMPTY
  /\ sched[c] \in {"pick", "switch"} => dctx[c].current_task_dsq_type = EMPTY

TierInv == \A c \in CPUs : TierAt(c)

\* A cpu whose task and type stay as they are.
LEMMA TierFrame ==
  ASSUME Inv, Places, NEW c \in CPUs, TierAt(c),
         curr'[c] = curr[c], sched'[c] = sched[c],
         dctx'[c].current_task_dsq_type = dctx[c].current_task_dsq_type,
         curr[c] \in Tasks /\ state[curr[c]] = "running" => tctx'[curr[c]] = tctx[curr[c]]
  PROVE  TierAt(c)'
BY DEF TierAt, Places, CpusInv, CurrAt

\* A step of a task leaves the running tasks and what others read of them alone.
LEMMA TaskStepTier ==
  ASSUME Inv, Places, NEW t \in Tasks, TaskStep(t)
  PROVE  /\ UNCHANGED <<curr, next, sched>>
         /\ \A c \in CPUs : dctx'[c].current_task_dsq_type = dctx[c].current_task_dsq_type
         /\ \A u \in Tasks : state[u] = "running" => tctx'[u] = tctx[u]
<1> USE ConstantsAssumption DEF Inv, TypeOK
<1>1. UNCHANGED <<curr, next, sched>>
  BY DEF TaskStep, Enqueue, WakeUp, WakeUpInPlace, ChangeAttr, DirectInsert, EnqueuePlace,
     EnqueueInsert, EnqueueObserve, EnqueueKick
<1>2. \A c \in CPUs : dctx'[c].current_task_dsq_type = dctx[c].current_task_dsq_type
  <2>1. CASE EnqueueKick(t)
    <3>1. dctx' = [dctx EXCEPT ![enq[t].cpu] = [@ EXCEPT !.preempt_pending = TRUE]]
      BY <2>1 DEF EnqueueKick
    <3>2. \A c \in CPUs : dctx[c] \in CpuCtxType
      BY DEF CtxTypeOK
    <3>3. \A d \in CpuCtxType :
            [d EXCEPT !.preempt_pending = TRUE].current_task_dsq_type = d.current_task_dsq_type
      BY DEF CpuCtxType
    <3>4. QED
      BY <3>1, <3>2, <3>3 DEF CtxTypeOK
  <2>2. CASE ~ EnqueueKick(t)
    BY <2>2 DEF TaskStep, Enqueue, WakeUp, WakeUpInPlace, ChangeAttr, DirectInsert, EnqueuePlace,
       EnqueueInsert, EnqueueObserve
  <2>3. QED
    BY <2>1, <2>2
<1>3. tctx' = tctx \/ (state[t] # "running" /\ \E x : tctx' = [tctx EXCEPT ![t] = x])
  <2>1. CASE \E limited \in BOOLEAN : EnqueuePlace(t, limited)
    <3>1. enq[t].at = "place" /\ \E x : tctx' = [tctx EXCEPT ![t] = x]
      BY <2>1 DEF EnqueuePlace
    <3>2. state[t] = "enqueue"
      BY <3>1 DEF Places, TasksInv, EnqAt
    <3>3. QED
      BY <3>1, <3>2
  <2>2. CASE ~ \E limited \in BOOLEAN : EnqueuePlace(t, limited)
    BY <2>2 DEF TaskStep, Enqueue, WakeUp, WakeUpInPlace, ChangeAttr, DirectInsert,
       EnqueueInsert, EnqueueObserve, EnqueueKick
  <2>3. QED
    BY <2>1, <2>2
<1>4. QED
  BY <1>1, <1>2, <1>3 DEF CtxTypeOK

\* What lunar_stopping and lunar_running leave in the context of a cpu.
LEMMA CpuTierSteps ==
  ASSUME NEW d \in CpuCtxType, NEW x, NEW b
  PROVE  /\ stopping_cpu(d).current_task_dsq_type = EMPTY
         /\ running_cpu(d, x).current_task_dsq_type = effective_tier(x)
         /\ [d EXCEPT !.rt_busy = b].current_task_dsq_type = d.current_task_dsq_type
BY DEF stopping_cpu, running_cpu, CpuCtxType

\* A cpu in the middle of __schedule() without a task of ours has type EMPTY.
LEMMA PickingEmpty ==
  ASSUME Inv, Places, TierInv, NEW c \in CPUs, sched[c] \in {"run", "pick"}, ~ PrevRuns(c)
  PROVE  dctx[c].current_task_dsq_type = EMPTY
BY DEF TierInv, TierAt, Places, CpusInv, CurrAt, PrevRuns

\* A step of cpu c leaves the types of the others alone, and keeps its own right.
LEMMA CpuStepTier ==
  ASSUME Inv, Inv', Places, TierInv, NEW c \in Online, CpuStep(c)
  PROVE  TierInv' /\ \A d \in CPUs \ {c} : CpuSame(d)
<1> USE ConstantsAssumption DEF Inv, TypeOK
<1>0. c \in CPUs /\ TierAt(c) /\ CurrAt(c) /\ PickedAt(c) /\ dctx[c] \in CpuCtxType
  BY DEF TierInv, Places, CpusInv, CtxTypeOK
\* What a step changes, in the terms of TierAt.
<1> DEFINE Ok == /\ TierAt(c)'
                 /\ \A d \in CPUs \ {c} : CpuSame(d) /\ dctx'[d] = dctx[d]
                 /\ tctx' = tctx \/ \E x : curr[c] \in Tasks /\ tctx' = [tctx EXCEPT ![curr[c]] = x]
<1>1. CASE \/ KickIdle(c) \/ KickPreempt(c) \/ SliceEnd(c) \/ ReenqueueLocal(c)
           \/ \E h \in Higher[c] : HigherWakes(c, h)
  <2>1. UNCHANGED <<curr, next, sched, dctx, tctx>>
    BY <1>1 DEF KickIdle, KickPreempt, SliceEnd, ReenqueueLocal, HigherWakes
  <2>2. Ok
    BY <1>0, <2>1 DEF CpuSame, TierAt
  <2>3. QED
    BY <2>1, <2>2 DEF TierInv, TierAt, CpuSame
<1>2. CASE HigherSleeps(c)
  <2>1. /\ UNCHANGED <<curr, next, dctx, tctx>> /\ sched' = [sched EXCEPT ![c] = "pick"]
        /\ sched[c] = "run" /\ curr[c] \notin Tasks
    BY <1>2 DEF HigherSleeps, RqFree
  <2>2. Ok
    BY <1>0, <2>1 DEF CpuSame, TierAt, CpuTypeOK
  <2>3. QED
    BY <2>1, <2>2 DEF TierInv, TierAt, CpuSame
<1>3. CASE SchedSwitch(c)
  <2>1. PICK b : /\ UNCHANGED <<curr, next, tctx>> /\ sched' = [sched EXCEPT ![c] = "run"]
                 /\ sched[c] = "hook" /\ dctx' = [dctx EXCEPT ![c] = [@ EXCEPT !.rt_busy = b]]
    BY <1>3 DEF SchedSwitch
  <2>2. /\ dctx'[c].current_task_dsq_type = dctx[c].current_task_dsq_type
        /\ \A d \in CPUs \ {c} : CpuSame(d) /\ dctx'[d] = dctx[d]
    BY <1>0, <2>1, CpuTierSteps DEF CtxTypeOK, CpuSame, CpuTypeOK
  <2>3. TierAt(c)'
    BY <1>0, <2>1, <2>2 DEF TierAt, CpuTypeOK
  <2>4. QED
    BY <2>1, <2>2, <2>3 DEF TierInv, TierAt, CpuSame
<1>4. CASE PickNext(c)
  <2>1. /\ UNCHANGED <<curr, dctx, tctx>> /\ sched[c] \in {"run", "pick"}
        /\ sched' = [sched EXCEPT ![c] = IF PrevRuns(c) THEN "put" ELSE "switch"]
        /\ \E x : next' = [next EXCEPT ![c] = x]
    BY <1>4 DEF PickNext, LooksForTask, Picking, RqFree
  <2>2. ~ PrevRuns(c) => dctx[c].current_task_dsq_type = EMPTY
    BY <1>0, <2>1, PickingEmpty
  <2>3. TierAt(c)'
    BY <2>1, <2>2 DEF TierAt, CpuTypeOK
  <2>4. \A d \in CPUs \ {c} : CpuSame(d)
    BY <2>1 DEF CpuSame, CpuTypeOK
  <2>5. QED
    BY <2>1, <2>3, <2>4 DEF TierInv, TierAt, CpuSame
<1>5. ASSUME NEW k \in Classes(curr[c]), NEW spent \in BOOLEAN,
             NEW starved \in StarvedTiers \cup {EMPTY}, Dispatch(c, k, spent, starved)
      PROVE  TierInv' /\ \A d \in CPUs \ {c} : CpuSame(d)
  <2>1. /\ LooksForTask(c) /\ local[c] = <<>> /\ UNCHANGED <<curr, enq>>
        /\ (\E t \in Tasks : Takes(c, t)) \/ Keeps(c) \/ GoesIdle(c)
    BY <1>5, DispatchCases
  <2>2. sched[c] \in {"run", "pick"}
    BY <2>1 DEF LooksForTask, Picking, RqFree
  <2>3. ~ PrevRuns(c) => dctx[c].current_task_dsq_type = EMPTY
    BY <1>0, <2>2, PickingEmpty
  <2>4. \A d \in CPUs \ {c} : CpuSame(d)
    BY <2>1 DEF Takes, Keeps, GoesIdle, CpuSame, CpuTypeOK
  <2>5. \A d \in CPUs \ {c} : dctx'[d] = dctx[d]
    BY <2>1 DEF Takes, Keeps, GoesIdle, CtxTypeOK
  <2>6. tctx' = tctx \/ (PrevRuns(c) /\ \E x : tctx' = [tctx EXCEPT ![curr[c]] = x])
    BY <2>1 DEF Takes, Keeps, GoesIdle
  <2>7. TierAt(c)'
    <3>1. CASE Keeps(c)
      <4>1. PICK x \in CtxType : /\ tctx' = [tctx EXCEPT ![curr[c]] = x]
                                 /\ dctx' = [dctx EXCEPT ![c] = running_cpu(@, x)]
        BY <3>1 DEF Keeps
      <4>2. curr[c] \in Tasks /\ sched'[c] = "run"
        BY <3>1 DEF Keeps, PrevRuns, CpuTypeOK
      <4>3. dctx'[c].current_task_dsq_type = effective_tier(x) /\ tctx'[curr[c]] = x
        BY <1>0, <4>1, <4>2, CpuTierSteps DEF CtxTypeOK
      <4>4. QED
        BY <2>1, <4>2, <4>3 DEF TierAt
    <3>2. CASE ~ Keeps(c)
      <4>1. dctx' = dctx /\ sched'[c] = IF PrevRuns(c) THEN "put" ELSE "switch"
        BY <2>1, <3>2 DEF Takes, GoesIdle, CpuTypeOK
      <4>2. QED
        BY <2>3, <4>1 DEF TierAt
    <3>3. QED
      BY <3>1, <3>2
  <2>8. \A d \in CPUs \ {c} : curr[c] \in Tasks => curr[d] # curr[c]
    BY <1>0, CurrOnce
  <2>9. \A d \in CPUs \ {c} : curr[d] \in Tasks => tctx'[curr[d]] = tctx[curr[d]]
    BY <2>6, <2>8 DEF CtxTypeOK, PrevRuns
  <2>10. \A d \in CPUs \ {c} : TierAt(d)'
    BY <2>4, <2>5, <2>9, TierFrame DEF TierInv, CpuSame
  <2>11. QED
    BY <2>4, <2>7, <2>10 DEF TierInv
<1>6. ASSUME NEW x, curr[c] \in Tasks, tctx' = [tctx EXCEPT ![curr[c]] = x], curr' = curr,
             next' = next, dctx' = [dctx EXCEPT ![c] = stopping_cpu(@)],
             NEW s \in {"pick", "switch"}, sched' = [sched EXCEPT ![c] = s]
      PROVE  TierInv' /\ \A d \in CPUs \ {c} : CpuSame(d)
  <2>1. \A d \in CPUs \ {c} : CpuSame(d) /\ dctx'[d] = dctx[d]
    BY <1>6 DEF CpuSame, CpuTypeOK, CtxTypeOK
  <2>2. \A d \in CPUs \ {c} : curr[d] # curr[c]
    BY <1>0, <1>6, CurrOnce
  <2>3. \A d \in CPUs \ {c} : curr[d] \in Tasks => tctx'[curr[d]] = tctx[curr[d]]
    BY <1>6, <2>2 DEF CtxTypeOK
  <2>4. \A d \in CPUs \ {c} : TierAt(d)'
    BY <2>1, <2>3, TierFrame DEF TierInv, CpuSame
  <2>5. sched'[c] = s /\ dctx'[c].current_task_dsq_type = EMPTY
    BY <1>0, <1>6, CpuTierSteps DEF CpuTypeOK, CtxTypeOK
  <2>6. TierAt(c)'
    BY <2>5 DEF TierAt
  <2>7. QED
    BY <2>1, <2>4, <2>6 DEF TierInv
<1>7. CASE \/ \E k \in Classes(curr[c]), left \in BOOLEAN, spent \in BOOLEAN :
                PutPrev(c, k, left, spent)
           \/ \E k \in Classes(curr[c]) : Sleep(c, k)
           \/ Exit(c)
  <2>1. /\ curr[c] \in Tasks /\ \E x : tctx' = [tctx EXCEPT ![curr[c]] = x]
        /\ curr' = curr /\ next' = next /\ dctx' = [dctx EXCEPT ![c] = stopping_cpu(@)]
        /\ \E s \in {"pick", "switch"} : sched' = [sched EXCEPT ![c] = s]
    BY <1>7 DEF PutPrev, Sleep, Exit, PcInv
  <2>2. QED
    BY <1>6, <2>1
<1>8. CASE Switch(c)
  <2>1. PICK t : t = next[c]
    OBVIOUS
  <2>2. /\ sched[c] = "switch" /\ curr' = [curr EXCEPT ![c] = t] /\ tctx' = tctx
        /\ \E x \in {"hook", "run"} : sched' = [sched EXCEPT ![c] = x]
        /\ next' = [next EXCEPT ![c] = Idle]
        /\ \/ t \in Tasks /\ dctx' = [dctx EXCEPT ![c] = running_cpu(@, tctx[t])]
           \/ t \notin Tasks /\ dctx' = dctx
    BY <1>8, <2>1 DEF Switch
  <2>3. \A d \in CPUs \ {c} : CpuSame(d) /\ dctx'[d] = dctx[d]
    BY <2>2 DEF CpuSame, CpuTypeOK, CtxTypeOK
  <2>4. dctx'[c].current_task_dsq_type = IF t \in Tasks THEN effective_tier(tctx[t]) ELSE EMPTY
    <3>1. dctx[c].current_task_dsq_type = EMPTY
      BY <1>0, <2>2 DEF TierAt
    <3>2. QED
      BY <1>0, <2>2, <3>1, CpuTierSteps DEF CtxTypeOK
  <2>5. TierAt(c)'
    <3>1. curr'[c] = t /\ sched'[c] \in {"hook", "run"}
      BY <2>2 DEF CpuTypeOK
    <3>2. QED
      BY <2>2, <2>4, <3>1 DEF TierAt
  <2>6. \A d \in CPUs \ {c} : TierAt(d)'
    BY <2>2, <2>3, TierFrame DEF TierInv, CpuSame
  <2>7. QED
    BY <2>3, <2>5, <2>6 DEF TierInv
<1>9. QED
  BY <1>1, <1>2, <1>3, <1>4, <1>5, <1>7, <1>8 DEF CpuStep, Course

\* Every step keeps what the cpus show each other right.
LEMMA NextTier == Inv /\ Inv' /\ Places /\ TierInv /\ [Next]_vars => TierInv'
<1> SUFFICES ASSUME Inv, Inv', Places, TierInv, [Next]_vars PROVE TierInv'
  OBVIOUS
<1>1. CASE UNCHANGED vars
  BY <1>1 DEF vars, kernel, TierInv, TierAt
<1>2. ASSUME NEW t \in Tasks, TaskStep(t) PROVE TierInv'
  BY <1>2, TaskStepTier, TierFrame DEF TierInv
<1>3. ASSUME NEW c \in Online, CpuStep(c) PROVE TierInv'
  BY <1>3, CpuStepTier
<1>4. QED
  BY <1>1, <1>2, <1>3 DEF Next

\* TierInv holds in every state.
LEMMA SchedTierInv == Spec => []TierInv
<1>1. Init => TierInv
  BY ConstantsAssumption DEF Init, TierInv, TierAt
<1>2. QED
  BY <1>1, NextTier, SchedInvariant, SchedPlaces, PTL DEF Spec

\* current_task_dsq_type is right whenever its cpu is outside of __schedule()
\* (lunar_running, lunar_stopping, lunar_dispatch).
THEOREM SchedCurrentTypeAccurate == Spec => []CurrentTypeAccurate
<1>1. TierInv => CurrentTypeAccurate
  BY ConstantsAssumption DEF TierInv, TierAt, CurrentTypeAccurate
<1>2. QED
  BY <1>1, SchedTierInv, PTL

-----------------------------------------------------------------------------
(* Run queue locks                                                         *)

\* A task that is put back is still on its cpu, which switches to another task,
\* and an enqueue that holds a run queue lock keeps that cpu out of __schedule().
LockAt(t) ==
  /\ enq[t].at # "none" /\ curr[task_cpu[t]] = t =>
       sched[task_cpu[t]] = "switch" /\ next[task_cpu[t]] # Idle
  /\ HoldsRq(t) => sched[task_cpu[t]] = "run" \/ curr[task_cpu[t]] = t

LockInv == \A t \in Tasks : LockAt(t)

\* A cpu whose run queue lock is held by an enqueue does not go on.
LEMMA LockedStill ==
  ASSUME NEW t \in Tasks, LockAt(t), HoldsRq(t), NEW c, c = task_cpu[t], CpuStep(c)
  PROVE  FALSE
<1>1. ~ RqFree(c) /\ enq[t].at # "none"
  BY DEF RqFree, Enqueueing, HoldsRq
<1>2. sched[c] = "run" \/ (sched[c] = "switch" /\ curr[c] = t)
  BY <1>1 DEF LockAt
<1>3. ~ Picking(c)
  BY <1>1, <1>2 DEF Picking
<1>4. ~ (Course(c))
  BY <1>1, <1>2, <1>3 DEF Course, KickIdle, KickPreempt, SliceEnd, PickNext, LooksForTask, Dispatch,
     PutPrev, Switch, SchedSwitch, ReenqueueLocal
<1>5. QED
  BY <1>1, <1>4 DEF CpuStep, HigherWakes, HigherSleeps, Sleep, Exit

\* The steps of a task.
LEMMA TaskStepLock ==
  ASSUME Inv, Places, LockInv, NEW t \in Tasks, TaskStep(t), NEW u \in Tasks
  PROVE  LockAt(u)'
<1> USE ConstantsAssumption DEF Inv, TypeOK
<1>1. UNCHANGED <<curr, next, sched>>
  BY TaskStepTier
<1>2. u # t => enq'[u] = enq[u] /\ task_cpu'[u] = task_cpu[u]
  BY DEF TaskStep, Enqueue, WakeUp, WakeUpInPlace, ChangeAttr, DirectInsert, EnqueuePlace,
     EnqueueInsert, EnqueueObserve, EnqueueKick, TaskTypeOK
<1>3. LockAt(u) /\ LockAt(t)
  BY DEF LockInv
<1>4. CASE u # t
  BY <1>1, <1>2, <1>3, <1>4 DEF LockAt, HoldsRq
<1>5. ASSUME NEW w \in Wakers, NEW k \in OwnTiers[t], WakeUp(t, w, k) \/ WakeUpInPlace(t, w, k)
      PROVE  LockAt(t)'
  <2>1. OffCpu(t) /\ enq' = [enq EXCEPT ![t] = enq'[t]] /\ enq'[t].at \in {"direct", "place"}
    <3>1. CASE WakeUpInPlace(t, w, k)
      BY <3>1 DEF WakeUpInPlace, BeginEnqueue, NoEnqueue, TaskTypeOK
    <3>2. CASE WakeUp(t, w, k)
      <4>1. PICK s : enq' = [enq EXCEPT ![t] =
                       BeginEnqueue(IF /\ s.is_idle
                                       /\ cpu_load_ahead(s.cpu, effective_tier(
                                            IF state[t] = "blocked"
                                            THEN apply_wake_boost(t, tctx[t], w) ELSE tctx[t])) = 0
                                    THEN "direct" ELSE "place", state[t] = "blocked", w)]
        BY <3>2 DEF WakeUp
      <4>2. \E at \in {"direct", "place"} : \E b : enq' = [enq EXCEPT ![t] = BeginEnqueue(at, b, w)]
        BY <4>1
      <4>3. QED
        BY <3>2, <4>2 DEF WakeUp, BeginEnqueue, NoEnqueue, TaskTypeOK
    <3>3. QED
      BY <1>5, <3>1, <3>2
  <2>2. task_cpu'[t] \in Online
    <3>1. Inv'
      BY <1>5, WakeUpInv, WakeUpInPlaceInv
    <3>2. QED
      BY <3>1 DEF OnlineInv
  <2>3. QED
    BY <1>1, <2>1, <2>2 DEF LockAt, HoldsRq, OffCpu
<1>6. ASSUME DirectInsert(t) \/ EnqueueInsert(t) PROVE LockAt(t)'
  <2>1. enq'[t].at = "none"
    BY <1>6 DEF DirectInsert, EnqueueInsert, NoEnqueue, TaskTypeOK
  <2>2. QED
    BY <2>1 DEF LockAt, HoldsRq
<1>7. ASSUME NEW limited \in BOOLEAN, EnqueuePlace(t, limited) PROVE LockAt(t)'
  BY <1>1, <1>3, <1>7 DEF EnqueuePlace, LockAt
<1>8. ASSUME EnqueueObserve(t) \/ EnqueueKick(t) PROVE LockAt(t)'
  <2>1. HoldsRq(t) /\ enq[t].at # "none" /\ task_cpu' = task_cpu
    BY <1>8 DEF EnqueueObserve, EnqueueKick, HoldsRq
  <2>2. QED
    BY <1>1, <1>3, <2>1 DEF LockAt
<1>9. ASSUME NEW o \in Online, NEW k \in Tiers, ChangeAttr(t, o, k) PROVE LockAt(t)'
  <2>1. /\ state[t] = "queued" /\ sched[task_cpu[t]] = "run" /\ task_cpu' = task_cpu
        /\ enq'[t].at = "place"
    BY <1>9 DEF ChangeAttr, RqFree, BeginEnqueue, NoEnqueue, TaskTypeOK
  <2>2. curr[task_cpu[t]] # t
    BY <2>1 DEF Places, CpusInv, CurrAt, TaskTypeOK
  <2>3. QED
    BY <1>1, <2>1, <2>2 DEF LockAt, HoldsRq
<1>10. QED
  BY <1>4, <1>5, <1>6, <1>7, <1>8, <1>9 DEF TaskStep, Enqueue

\* A step of cpu c leaves alone what tells the other cpus, and fills no queue.
CpuStepKeeps(c) ==
  /\ resched \subseteq resched' \cup {c}
  /\ \A d, kind : d # c /\ <<d, kind>> \in kicks => <<d, kind>> \in kicks'
  /\ \A u \in Tasks : enq[u].at # "none" => enq'[u] = enq[u] /\ task_cpu'[u] = task_cpu[u]
  /\ \A u \in Tasks : state'[u] = "queued" => task_cpu'[u] = task_cpu[u]
  /\ \A d \in CPUs \ {c} : local'[d] = local[d]
  /\ dsq' = dsq \/ \E t \in Tasks, o \in CPUs, l \in Tiers : Leaves(t, o, l)
  /\ \A d \in idle : d = c \/ d \in idle' \/ <<d, "idle">> \in kicks'

\* Every step of a cpu is of that kind.
LEMMA CpuStepsKeep ==
  ASSUME Inv, Places, NEW c \in Online, CpuStep(c)
  PROVE  CpuStepKeeps(c)
<1> USE ConstantsAssumption DEF Inv, TypeOK, CpuStepKeeps
<1>1. CASE \/ KickIdle(c) \/ KickPreempt(c) \/ SliceEnd(c) \/ HigherSleeps(c)
           \/ \E h \in Higher[c] : HigherWakes(c, h)
  BY <1>1 DEF KickIdle, KickPreempt, SliceEnd, HigherWakes, HigherSleeps
<1>2. CASE PickNext(c) \/ Exit(c) \/ \E k \in Classes(curr[c]) : Sleep(c, k)
  BY <1>2 DEF PickNext, Exit, Sleep
<1>3. CASE SchedSwitch(c)
  BY <1>3 DEF SchedSwitch
<1>4. CASE Switch(c)
  BY <1>4 DEF Switch, QueueTypeOK
<1>5. ASSUME NEW u \in Tasks, state[u] \in {"running", "local"} PROVE enq[u].at = "none"
  BY <1>5 DEF Places, TasksInv, EnqAt, TaskTypeOK, EnqType
<1>6. CASE ReenqueueLocal(c)
  <2>1. /\ UNCHANGED <<dsq, resched, kicks, idle, task_cpu>> /\ local' = [local EXCEPT ![c] = <<>>]
        /\ \A u \in Tasks : u \notin {local[c][i] : i \in 1 .. Len(local[c])} => enq'[u] = enq[u]
    BY <1>6 DEF ReenqueueLocal
  <2>2. \A i \in 1 .. Len(local[c]) : state[local[c][i]] = "local"
    BY DEF Places, CpusInv, LocalAt
  <2>3. \A d \in CPUs \ {c} : local'[d] = local[d]
    BY <2>1 DEF QueueTypeOK
  <2>4. ASSUME NEW u \in Tasks, enq[u].at # "none" PROVE enq'[u] = enq[u]
    BY <1>5, <2>1, <2>2, <2>4
  <2>5. QED
    BY <2>1, <2>3, <2>4
<1>7. ASSUME NEW k, NEW left, NEW spent, PutPrev(c, k, left, spent) PROVE CpuStepKeeps(c)
  <2>1. PICK t : t = curr[c]
    OBVIOUS
  <2>2. /\ sched[c] = "put" /\ UNCHANGED <<dsq, resched, kicks, idle, task_cpu>>
        /\ enq' = enq \/ \E x : enq' = [enq EXCEPT ![t] = x]
        /\ local' = local \/ \E x : local' = [local EXCEPT ![c] = x]
    BY <1>7, <2>1 DEF PutPrev
  <2>3. t \in Tasks /\ state[t] = "running"
    BY <2>1, <2>2 DEF PcInv, Places, CpusInv, CurrAt
  <2>4. QED
    BY <1>5, <2>2, <2>3 DEF QueueTypeOK, TaskTypeOK
<1>8. ASSUME NEW k \in Classes(curr[c]), NEW spent \in BOOLEAN,
             NEW starved \in StarvedTiers \cup {EMPTY}, Dispatch(c, k, spent, starved)
      PROVE  CpuStepKeeps(c)
  <2>1. /\ UNCHANGED <<enq, idle, kicks>> /\ resched' = resched \ {c}
        /\ (\E t \in Tasks : Takes(c, t)) \/ Keeps(c) \/ GoesIdle(c)
    BY <1>8, DispatchCases
  <2>2. CASE Keeps(c) \/ GoesIdle(c)
    BY <2>1, <2>2 DEF Keeps, GoesIdle
  <2>3. ASSUME NEW t \in Tasks, Takes(c, t) PROVE CpuStepKeeps(c)
    BY <2>1, <2>3 DEF Takes, QueueTypeOK, TaskTypeOK
  <2>4. QED
    BY <2>1, <2>2, <2>3
<1>9. QED
  BY <1>1, <1>2, <1>3, <1>4, <1>6, <1>7, <1>8 DEF CpuStep, Course

\* The steps of a cpu.
LEMMA CpuStepLock ==
  ASSUME Inv, Places, LockInv, NEW c \in Online, CpuStep(c),
         \A d \in CPUs \ {c} : CpuSame(d), NEW u \in Tasks
  PROVE  LockAt(u)'
<1> USE ConstantsAssumption DEF Inv, TypeOK
<1>1. CpuStepKeeps(c) /\ LockAt(u)
  BY CpuStepsKeep DEF LockInv
<1>2. task_cpu[u] \in CPUs
  BY DEF TaskTypeOK
<1>3. CASE enq[u].at # "none" /\ task_cpu[u] # c
  <2>1. enq'[u] = enq[u] /\ task_cpu'[u] = task_cpu[u] /\ CpuSame(task_cpu[u])
    BY <1>1, <1>2, <1>3 DEF CpuStepKeeps
  <2>2. QED
    BY <1>1, <2>1 DEF LockAt, HoldsRq, CpuSame
<1>4. CASE enq[u].at # "none" /\ task_cpu[u] = c
  <2>1. enq'[u] = enq[u] /\ task_cpu'[u] = task_cpu[u]
    BY <1>1, <1>4 DEF CpuStepKeeps
  <2>2. ~ HoldsRq(u)
    BY <1>1, <1>4, LockedStill
  <2>3. ~ HoldsRq(u)'
    BY <2>1, <2>2 DEF HoldsRq
  <2>4. curr'[c] # u
    <3>1. CASE curr[c] = u
      <4>1. sched[c] = "switch"
        BY <1>1, <1>4, <3>1 DEF LockAt
      <4>2. FALSE
        BY <1>4, <3>1, <4>1 DEF CpuStep, Course, KickIdle, KickPreempt, SliceEnd, PickNext,
           LooksForTask, Picking, Dispatch, PutPrev, Switch, SchedSwitch, ReenqueueLocal,
           RqFree, HigherWakes, HigherSleeps, Sleep, Exit
      <4>3. QED
        BY <4>2
    <3>2. CASE curr[c] # u /\ Switch(c)
      <4>1. curr'[c] = next[c] /\ sched[c] = "switch"
        BY <3>2 DEF Switch, CpuTypeOK
      <4>2. next[c] = u => local[c] # <<>> /\ u = local[c][1]
        BY <4>1 DEF PcInv, Places, CpusInv, PickedAt
      <4>3. local[c] # <<>> => state[local[c][1]] = "local"
        <5>1. local[c] \in Seq(Tasks)
          BY DEF QueueTypeOK
        <5>2. local[c] # <<>> => 1 \in 1 .. Len(local[c])
          BY <5>1
        <5>3. QED
          BY <5>2 DEF Places, CpusInv, LocalAt
      <4>4. state[u] = "enqueue"
        BY <1>4 DEF Places, TasksInv, EnqAt
      <4>5. QED
        BY <4>1, <4>2, <4>3, <4>4
    <3>3. CASE curr[c] # u /\ ~ Switch(c)
      <4>1. curr' = curr
        BY <3>3 DEF CpuStep, Course, KickIdle, KickPreempt, SliceEnd, PickNext, Dispatch, PutPrev,
           SchedSwitch, ReenqueueLocal, HigherWakes, HigherSleeps, Sleep, Exit
      <4>2. QED
        BY <3>3, <4>1
    <3>4. QED
      BY <3>1, <3>2, <3>3
  <2>5. QED
    BY <1>4, <2>1, <2>3, <2>4 DEF LockAt
<1>5. CASE enq[u].at = "none" /\ enq'[u] = enq[u]
  BY <1>5 DEF LockAt, HoldsRq
<1>6. CASE enq[u].at = "none" /\ ReenqueueLocal(c) /\ u \in {local[c][i] : i \in 1 .. Len(local[c])}
  <2>1. state[u] = "local" /\ task_cpu[u] = c
    BY <1>6 DEF Places, CpusInv, LocalAt
  <2>2. /\ sched[c] = "run" /\ UNCHANGED <<curr, task_cpu>>
        /\ enq'[u].at = "place"
    BY <1>6 DEF ReenqueueLocal, RqFree, BeginEnqueue, NoEnqueue
  <2>3. curr[c] # u
    BY <2>1, <2>2 DEF Places, CpusInv, CurrAt
  <2>4. QED
    BY <2>1, <2>2, <2>3 DEF LockAt, HoldsRq
<1>7. ASSUME NEW k, NEW left, NEW spent, PutPrev(c, k, left, spent), u = curr[c], enq'[u] # enq[u]
      PROVE  LockAt(u)'
  <2>0. enq' = enq \/ enq' = [enq EXCEPT ![u] = BeginEnqueue("place", FALSE, NoTask)]
    BY <1>7 DEF PutPrev
  <2>1. /\ sched[c] = "put" /\ sched'[c] = "switch" /\ UNCHANGED <<next, task_cpu>>
        /\ enq'[u].at = "place"
    <3>1. sched[c] = "put" /\ sched'[c] = "switch" /\ UNCHANGED <<next, task_cpu>>
      BY <1>7 DEF PutPrev, CpuTypeOK
    <3>2. enq'[u] = BeginEnqueue("place", FALSE, NoTask)
      BY <1>7, <2>0 DEF TaskTypeOK
    <3>3. QED
      BY <3>1, <3>2 DEF BeginEnqueue, NoEnqueue
  <2>2. task_cpu[u] = c /\ next[c] # Idle
    BY <1>7, <2>1 DEF Places, CpusInv, CurrAt, PickedAt
  <2>3. QED
    BY <2>1, <2>2 DEF LockAt, HoldsRq
<1>8. \/ enq'[u] = enq[u]
      \/ ReenqueueLocal(c) /\ u \in {local[c][i] : i \in 1 .. Len(local[c])}
      \/ \E k, left, spent : PutPrev(c, k, left, spent) /\ u = curr[c]
  <2>1. CASE ReenqueueLocal(c)
    BY <2>1 DEF ReenqueueLocal
  <2>2. ASSUME NEW k, NEW left, NEW spent, PutPrev(c, k, left, spent)
        PROVE  enq'[u] = enq[u] \/ u = curr[c]
    BY <2>2 DEF PutPrev, TaskTypeOK
  <2>3. ASSUME NEW k, NEW spent, NEW starved, Dispatch(c, k, spent, starved)
        PROVE  enq' = enq
    BY <2>3 DEF Dispatch
  <2>4. CASE \/ KickIdle(c) \/ KickPreempt(c) \/ SliceEnd(c) \/ PickNext(c) \/ Switch(c)
             \/ SchedSwitch(c) \/ HigherSleeps(c) \/ Exit(c)
             \/ (\E h \in Higher[c] : HigherWakes(c, h)) \/ (\E k \in Classes(curr[c]) : Sleep(c, k))
    BY <2>4 DEF KickIdle, KickPreempt, SliceEnd, PickNext, Switch, SchedSwitch, HigherWakes,
       HigherSleeps, Sleep, Exit
  <2>5. QED
    BY <2>1, <2>2, <2>3, <2>4 DEF CpuStep, Course
<1>9. QED
  BY <1>3, <1>4, <1>5, <1>6, <1>7, <1>8

\* Run queue locks are respected in every state.
THEOREM SchedLockInv == Spec => []LockInv
<1>1. Init => LockInv
  BY ConstantsAssumption DEF Init, LockInv, LockAt, HoldsRq, NoEnqueue
<1>2. Inv /\ Inv' /\ Places /\ TierInv /\ LockInv /\ [Next]_vars => LockInv'
  <2> SUFFICES ASSUME Inv, Inv', Places, TierInv, LockInv, [Next]_vars, NEW u \in Tasks PROVE LockAt(u)'
    BY DEF LockInv
  <2>1. CASE UNCHANGED vars
    BY <2>1 DEF vars, kernel, LockInv, LockAt, HoldsRq
  <2>2. ASSUME NEW t \in Tasks, TaskStep(t) PROVE LockAt(u)'
    BY <2>2, TaskStepLock
  <2>3. ASSUME NEW c \in Online, CpuStep(c) PROVE LockAt(u)'
    BY <2>3, CpuStepLock, CpuStepTier
  <2>4. QED
    BY <2>1, <2>2, <2>3 DEF Next
<1>3. QED
  BY <1>1, <1>2, SchedInvariant, SchedPlaces, SchedTierInv, PTL DEF Spec

-----------------------------------------------------------------------------
(* Wakeups                                                                 *)

\* c is idle, or about to be.
Idles(c) ==
  \/ sched[c] = "switch" /\ next[c] = Idle
  \/ sched[c] \in {"run", "hook"} /\ curr[c] = Idle

\* No task of the run queue of c waits for it there.
Nothing(c) == local[c] = <<>> /\ \A u \in Tasks : InQueue(u, c) => task_cpu[u] # c

\* A cpu that is idle, or about to be, while a task of its own waits is told.
WakeAt(c) == Idles(c) => Alerted(c) \/ Nothing(c)

\* An enqueue of a task to its own cpu that kicks nobody has a cpu that is not idle.
QuietAt(t) ==
  enq[t].at = "insert" /\ enq[t].kick = "none" /\ enq[t].cpu = task_cpu[t] =>
    ~ Idles(task_cpu[t])

\* A placement on its way may come to c.
PlaceFor(c) == \E t \in Tasks : enq[t].at = "place" /\ task_cpu[t] = c

\* An idle cpu without its idle bit is told, or a placement looks at it.
IdleAt(c) ==
  sched[c] \in {"run", "hook"} /\ curr[c] = Idle /\ c \notin idle => Alerted(c) \/ PlaceFor(c)

\* A placement finds an idle cpu loaded with stranded tasks, and goes elsewhere.
Excused(c) == sched[c] = "run" /\ \E u \in Tasks : InQueue(u, c) /\ Stranded(u)

\* What a step owes to cpu c.
Kept(c) == WakeAt(c)' /\ (IdleAt(c) => IdleAt(c)' \/ Excused(c))

WakeInv ==
  /\ \A c \in Online : WakeAt(c) /\ (sched[c] = "hook" => IdleAt(c))
  /\ \A t \in Tasks : QuietAt(t)

\* The enqueue of t will make c look at its queues.
TaskAlerts(t, c) ==
  \/ /\ enq[t].cpu = c
     /\ enq[t].at \in {"observe", "kick"} \/ (enq[t].at = "insert" /\ enq[t].kick # "none")
  \/ enq[t].at = "direct" /\ task_cpu[t] = c

\* What tells cpu c is still there.
AlertsKept(c) ==
  /\ c \in resched => c \in resched'
  /\ \A kind \in {"idle", "preempt"} : <<c, kind>> \in kicks => <<c, kind>> \in kicks'
  /\ \A u \in Tasks : TaskAlerts(u, c) => TaskAlerts(u, c)'

\* A cpu that will look at its queues still does.
LEMMA AlertedKept ==
  ASSUME NEW c, AlertsKept(c), Alerted(c)
  PROVE  Alerted(c)'
<1>1. Alerted(c) <=> \/ c \in resched
                     \/ \E kind \in {"idle", "preempt"} : <<c, kind>> \in kicks
                     \/ \E u \in Tasks : TaskAlerts(u, c)
  BY DEF Alerted, TaskAlerts
<1>2. Alerted(c)' <=> \/ c \in resched'
                      \/ \E kind \in {"idle", "preempt"} : <<c, kind>> \in kicks'
                      \/ \E u \in Tasks : TaskAlerts(u, c)'
  BY DEF Alerted, TaskAlerts
<1>3. QED
  BY <1>1, <1>2 DEF AlertsKept

\* A cpu that keeps what tells it and is given nothing keeps its part.
LEMMA WakeFrame ==
  ASSUME NEW c \in Online, WakeAt(c), CpuSame(c),
         Alerted(c) => Alerted(c)',
         Alerted(c)' \/ (Nothing(c) => Nothing(c)'),
         Alerted(c)' \/ ((c \in idle => c \in idle') /\ (PlaceFor(c) => PlaceFor(c)'))
  PROVE  Kept(c)
<1>1. Idles(c)' <=> Idles(c)
  BY DEF CpuSame, Idles
<1>2. WakeAt(c)'
  BY <1>1 DEF WakeAt
<1>3. IdleAt(c) => IdleAt(c)'
  BY DEF IdleAt, CpuSame
<1>4. QED
  BY <1>2, <1>3 DEF Kept

\* An idle cpu shows that it runs nothing.
LEMMA IdlesEmpty ==
  ASSUME TierInv, NEW c \in Online, Idles(c)
  PROVE  dctx[c].current_task_dsq_type = EMPTY
BY ConstantsAssumption DEF TierInv, TierAt, Idles

\* The steps of a task that change its enqueue only, and its cpu if it waits in no
\* queue.
LEMMA EnqueueOnlyWake ==
  ASSUME Inv, WakeInv, NEW t \in Tasks, UNCHANGED <<curr, next, sched, local, dsq>>,
         NEW c \in Online,
         \A u \in Tasks \ {t} : enq'[u] = enq[u] /\ task_cpu'[u] = task_cpu[u],
         task_cpu'[t] = task_cpu[t] \/ ~ InQueue(t, c),
         resched \subseteq resched', kicks \subseteq kicks',
         c \in idle => c \in idle' \/ Alerted(c)' \/ PlaceFor(c)',
         Idles(c) /\ TaskAlerts(t, c) => Alerted(c)',
         Idles(c) /\ enq[t].at = "place" /\ task_cpu[t] = c =>
           Alerted(c)' \/ PlaceFor(c)' \/ Excused(c)
  PROVE  Kept(c)
<1>1. WakeAt(c)
  BY DEF WakeInv
<1>2. Idles(c) /\ Alerted(c) => Alerted(c)'
  <2>1. CASE TaskAlerts(t, c)
    BY <2>1
  <2>2. CASE ~ TaskAlerts(t, c)
    <3>1. AlertsKept(c)
      BY <2>2 DEF AlertsKept, TaskAlerts
    <3>2. QED
      BY <3>1, AlertedKept
  <2>3. QED
    BY <2>1, <2>2
<1>3. Idles(c) /\ PlaceFor(c) => PlaceFor(c)' \/ Alerted(c)' \/ Excused(c)
  BY DEF PlaceFor
<1>4. Nothing(c) => Nothing(c)'
  <2>1. \A u \in Tasks : InQueue(u, c)' <=> InQueue(u, c)
    BY DEF InQueue
  <2>2. QED
    BY <2>1 DEF Nothing
<1>5. WakeAt(c)'
  BY <1>1, <1>2, <1>4 DEF WakeAt, Idles
<1>6. IdleAt(c) => IdleAt(c)' \/ Excused(c)
  BY <1>2, <1>3 DEF IdleAt, Idles
<1>7. QED
  BY <1>5, <1>6 DEF Kept

\* A wakeup that claims an idle cpu goes there.
LEMMA WakeUpWake ==
  ASSUME Inv, Places, WakeInv, NEW t \in Tasks, NEW w, NEW k,
         WakeUp(t, w, k) \/ WakeUpInPlace(t, w, k), NEW c \in Online
  PROVE  Kept(c)
<1> USE ConstantsAssumption DEF Inv, TypeOK
<1>1. enq[t].at = "none" /\ UNCHANGED <<curr, next, sched, local, dsq, resched, kicks>>
  BY DEF WakeUp, WakeUpInPlace
<1>2. \E at \in {"direct", "place"} : \E b : enq' = [enq EXCEPT ![t] = BeginEnqueue(at, b, w)]
  <2>1. CASE WakeUp(t, w, k)
    <3>1. PICK s : enq' = [enq EXCEPT ![t] =
                       BeginEnqueue(IF /\ s.is_idle
                                       /\ cpu_load_ahead(s.cpu, effective_tier(
                                            IF state[t] = "blocked"
                                            THEN apply_wake_boost(t, tctx[t], w) ELSE tctx[t])) = 0
                                    THEN "direct" ELSE "place", state[t] = "blocked", w)]
      BY <2>1 DEF WakeUp
    <3>2. QED
      BY <3>1
  <2>2. CASE WakeUpInPlace(t, w, k)
    BY <2>2 DEF WakeUpInPlace
  <2>3. QED
    BY <2>1, <2>2
<1>3. enq'[t].at \in {"direct", "place"} /\ \A u \in Tasks \ {t} : enq'[u] = enq[u]
  BY <1>2 DEF BeginEnqueue, NoEnqueue, TaskTypeOK
<1>4. \A u \in Tasks \ {t} : task_cpu'[u] = task_cpu[u]
  BY DEF WakeUp, WakeUpInPlace, TaskTypeOK
<1>5. c \in idle => c \in idle' \/ task_cpu'[t] = c
  BY DEF WakeUp, WakeUpInPlace, TaskTypeOK
<1>6. task_cpu'[t] = c => Alerted(c)' \/ PlaceFor(c)'
  BY <1>3 DEF Alerted, PlaceFor
<1>7. ~ TaskAlerts(t, c)
  BY <1>1 DEF TaskAlerts
<1>8. ~ InQueue(t, c)
  <2>1. state[t] # "queued"
    BY DEF WakeUp, WakeUpInPlace
  <2>2. QED
    BY <2>1 DEF InQueue, Places, QueueInv
<1>9. QED
  BY <1>1, <1>3, <1>4, <1>5, <1>6, <1>7, <1>8, EnqueueOnlyWake

\* A direct dispatch wakes its cpu.
LEMMA DirectInsertWake ==
  ASSUME Inv, WakeInv, NEW t \in Tasks, DirectInsert(t), NEW c \in Online
  PROVE  Kept(c)
<1> USE DEF Inv, TypeOK
<1> DEFINE o == task_cpu[t]
<1>1. /\ enq[t].at = "direct" /\ sched[o] = "run"
      /\ local' = [local EXCEPT ![o] = Append(@, t)]
      /\ resched' = IF curr[o] = Idle THEN resched \cup {o} ELSE resched
      /\ enq' = [enq EXCEPT ![t] = NoEnqueue]
      /\ UNCHANGED <<dsq, curr, next, sched, kicks, idle, task_cpu>>
  BY DEF DirectInsert, RqFree
<1> HIDE DEF o
<1>2. WakeAt(c)
  BY DEF WakeInv
<1>3. \A u \in Tasks \ {t} : enq'[u] = enq[u]
  BY <1>1 DEF TaskTypeOK
<1>4. CASE c = o
  <2>1. Idles(c)' => Alerted(c)'
    BY <1>1, <1>4 DEF Idles, Alerted
  <2>2. QED
    BY <2>1 DEF Kept, WakeAt, IdleAt, Idles
<1>5. CASE c # o
  <2>1. AlertsKept(c)
    BY <1>1, <1>3, <1>5 DEF AlertsKept, TaskAlerts, o
  <2>2. PlaceFor(c) => PlaceFor(c)'
    BY <1>1, <1>3 DEF PlaceFor
  <2>3. local'[c] = local[c] /\ CpuSame(c)
    BY <1>1, <1>5 DEF QueueTypeOK, CpuSame
  <2>4. Nothing(c) => Nothing(c)'
    BY <1>1, <2>3 DEF Nothing, InQueue
  <2>5. QED
    BY <1>1, <1>2, <2>1, <2>2, <2>3, <2>4, AlertedKept, WakeFrame
<1>6. QED
  BY <1>4, <1>5

\* An idle cpu without an RT task on it has load ahead only when somebody waits.
LEMMA IdleLoad ==
  ASSUME Inv, TierInv, NEW c \in Online, Idles(c), curr[c] # Rt, local[c] = <<>>,
         NEW tier \in Tiers, cpu_load_ahead(c, tier) # 0
  PROVE  \E u \in Tasks : InQueue(u, c)
<1> SUFFICES ASSUME \A u \in Tasks : ~ InQueue(u, c) PROVE FALSE
  OBVIOUS
<1>1. dctx[c].current_task_dsq_type = EMPTY
  BY IdlesEmpty
<1>2. ~ (EMPTY <= tier) /\ ~ cpu_taken_by_rt(c)
  BY ConstantsAssumption DEF cpu_taken_by_rt, is_rt_task, Tiers, LC, GREEDY, EMPTY
<1>3. Len(local[c]) = 0 /\ \A k \in Tiers : Len(dsq[c][k]) = 0
  <2>1. ASSUME NEW k \in Tiers PROVE Len(dsq[c][k]) = 0
    <3>1. c \in CPUs
      BY ConstantsAssumption
    <3>2. dsq[c][k] \in Seq(Tasks)
      BY <3>1, QueueOf DEF Inv, TypeOK
    <3>3. Len(dsq[c][k]) # 0 => 1 \in 1 .. Len(dsq[c][k]) /\ dsq[c][k][1] \in Tasks
      BY <3>2
    <3>4. QED
      BY <3>3 DEF InQueue
  <2>2. QED
    BY <2>1
<1>4. {LC, INTERACTIVE, NORMAL, GREEDY} \subseteq Tiers
  BY DEF Tiers, LC, INTERACTIVE, NORMAL, GREEDY
<1>5. /\ Len(dsq[c][LC]) = 0 /\ Len(dsq[c][INTERACTIVE]) = 0
      /\ Len(dsq[c][NORMAL]) = 0 /\ Len(dsq[c][GREEDY]) = 0
  BY <1>3, <1>4
<1>6. (IF dctx[c].current_task_dsq_type <= tier THEN 1
       ELSE IF cpu_taken_by_rt(c) THEN RT_CPU_LOAD ELSE 0) = 0
  BY <1>1, <1>2
<1>7. cpu_load_ahead(c, tier) = 0 + 0 + 0 + (IF tier >= INTERACTIVE THEN 0 ELSE 0)
        + (IF tier >= NORMAL THEN 0 ELSE 0) + (IF tier >= GREEDY THEN 0 ELSE 0)
  BY <1>3, <1>5, <1>6, Zenon DEF cpu_load_ahead
<1>8. cpu_load_ahead(c, tier) = 0
  BY <1>7
<1>9. QED
  BY <1>8

\* pick_enqueue_cpu claims the cpu it returns only, and a cpu without load keeps
\* its task.
LEMMA PickedCpu ==
  ASSUME NEW t, NEW tier, NEW cpu, NEW limited, NEW r \in pick_enqueue_cpu(t, tier, cpu, limited)
  PROVE  /\ r.claimed \subseteq {r.cpu}
         /\ r.claimed # {} => r.cpu \in idle \cup {cpu}
         /\ cpu_load_ahead(cpu, tier) = 0 => r.cpu = cpu
BY DEF pick_enqueue_cpu

\* A placement that goes elsewhere leaves a cpu without load, or one that is told,
\* or one that tasks are stranded on.
LEMMA EnqueuePlaceWake ==
  ASSUME Inv, Places, TierInv, LockInv, WakeInv, NEW t \in Tasks, NEW limited \in BOOLEAN,
         EnqueuePlace(t, limited), NEW c \in Online
  PROVE  Kept(c)
<1> USE ConstantsAssumption DEF Inv, TypeOK
<1>1. PICK cpu : cpu = task_cpu[t]
  OBVIOUS
<1>2. /\ enq[t].at = "place" /\ (sched[cpu] = "run" \/ curr[cpu] = t)
      /\ UNCHANGED <<curr, next, sched, local, dsq, resched, kicks, task_cpu>>
  BY <1>1 DEF EnqueuePlace
<1>3. cpu \in Online /\ idle \subseteq Online
  BY <1>1 DEF OnlineInv
<1>4. PICK tier, tgt, head :
        /\ tier \in Tiers /\ enq' = [enq EXCEPT ![t] = Placed(@, tgt, tier, head)]
        /\ \/ tgt = cpu /\ head /\ tctx[t].resume_slice /\ idle' = idle
           \/ ~ head /\ \E r \in pick_enqueue_cpu(t, tier, cpu, limited) :
                /\ tgt = IF cpu_is_online(r.cpu) THEN r.cpu ELSE cpu
                /\ idle' = idle \ r.claimed
  <2>1. PICK w, x :
          /\ w \in BoostContexts(t)
          /\ x = apply_wake_boost(t, tctx[t], w)
          /\ \/ enq' = [enq EXCEPT ![t] = Placed(@, cpu, effective_tier(x), TRUE)]
                /\ idle' = idle /\ x.resume_slice
             \/ \E r \in pick_enqueue_cpu(t, effective_tier(x), cpu, limited) :
                  /\ enq' = [enq EXCEPT ![t] =
                       Placed(@, IF cpu_is_online(r.cpu) THEN r.cpu ELSE cpu, effective_tier(x), FALSE)]
                  /\ idle' = idle \ r.claimed
    BY <1>1 DEF EnqueuePlace, enqueue_tier
  <2>2. w \in Tasks \cup {NoTask} /\ tctx[t] \in CtxType
    BY <2>1 DEF BoostContexts, TaskTypeOK, EnqType, CtxTypeOK
  <2>3. x \in CtxType
    BY <2>1, <2>2, WakeBoost DEF CtxTypeOK
  <2>4. effective_tier(x) \in Tiers
    BY <2>3, EffectiveTier
  <2>5. x.resume_slice = tctx[t].resume_slice
    BY <2>1, <2>2 DEF apply_wake_boost, CtxType
  <2>6. QED
    BY <2>1, <2>4, <2>5
<1>5. /\ enq'[t].cpu = tgt /\ enq'[t].at = (IF head THEN "insert" ELSE "observe")
      /\ \A u \in Tasks \ {t} : enq'[u] = enq[u]
  BY <1>4 DEF Placed, TaskTypeOK, EnqType
<1>6. Idles(tgt) => Alerted(tgt)'
  <2>1. CASE head
    <3>1. ResumeAt(t)
      BY DEF Places, TasksInv
    <3>2. sched[tgt] = "switch" /\ next[tgt] # Idle
      BY <1>1, <1>4, <2>1, <3>1 DEF ResumeAt
    <3>3. QED
      BY <3>2 DEF Idles
  <2>2. CASE ~ head
    BY <1>5, <2>2 DEF Alerted
  <2>3. QED
    BY <2>1, <2>2
<1>7. c \in idle => c \in idle' \/ (c = tgt /\ ~ head)
  BY <1>3, <1>4, PickedCpu DEF cpu_is_online
<1>8. ~ TaskAlerts(t, c)
  BY <1>2 DEF TaskAlerts
<1>9. ASSUME Idles(c), cpu = c, c # tgt PROVE Alerted(c)' \/ Excused(c)
  <2>1. cpu_load_ahead(cpu, tier) # 0
    BY <1>3, <1>4, <1>9, PickedCpu DEF cpu_is_online
  <2>2. curr[c] # Rt /\ curr[c] # t
    <3>1. curr[c] # Rt
      BY <1>2, <1>9 DEF Idles
    <3>2. LockAt(t)
      BY DEF LockInv
    <3>3. curr[c] # t
      BY <1>1, <1>2, <1>9, <3>2 DEF LockAt, Idles
    <3>4. QED
      BY <3>1, <3>3
  <2>3. sched[c] = "run" /\ curr[c] = Idle
    BY <1>2, <1>9, <2>2 DEF Idles
  <2>4. ASSUME ~ Alerted(c) PROVE Excused(c)
    <3>1. Nothing(c)
      BY <1>9, <2>4 DEF WakeInv, WakeAt
    <3>2. PICK u \in Tasks : InQueue(u, c)
      BY <1>4, <1>9, <2>1, <2>2, <3>1, IdleLoad DEF Nothing
    <3>3. task_cpu[u] # c /\ Sits(c)
      BY <2>3, <2>4, <3>1, <3>2 DEF Nothing, Sits
    <3>4. QED
      BY <2>3, <3>2, <3>3 DEF Excused, Stranded
  <2>5. AlertsKept(c)
    BY <1>2, <1>5, <1>8 DEF AlertsKept, TaskAlerts
  <2>6. QED
    BY <2>4, <2>5, AlertedKept
<1>10. ~ head => Alerted(tgt)'
  BY <1>5 DEF Alerted
<1>11. c \in idle => c \in idle' \/ Alerted(c)'
  BY <1>7, <1>10
<1>12. Idles(c) /\ enq[t].at = "place" /\ task_cpu[t] = c => Alerted(c)' \/ PlaceFor(c)' \/ Excused(c)
  BY <1>1, <1>6, <1>9
<1>13. QED
  BY <1>1, <1>2, <1>5, <1>8, <1>11, <1>12, EnqueueOnlyWake

\* What a look at a cpu leads to: a kick of one that shows nothing, unless that one
\* can be locked and runs something.
LEMMA ObserveKicks ==
  ASSUME Inv, TierInv, NEW t \in Tasks, EnqueueObserve(t) \/ EnqueueKick(t), NEW c \in Online,
         enq[t].cpu = c
  PROVE  /\ enq'[t].cpu = c
         /\ \/ enq'[t].at = "kick"
            \/ enq'[t].at = "insert" /\ (Idles(c) => enq'[t].kick # "none")
<1> USE DEF Inv, TypeOK
<1>1. PICK e : e = enq[t]
  OBVIOUS
<1>2. enq[t] \in EnqType /\ enq \in [Tasks -> EnqType]
  BY DEF TaskTypeOK
<1>3. CASE EnqueueKick(t)
  <2>1. enq'[t] = [e EXCEPT !.at = "insert", !.kick = "preempt"]
    BY <1>1, <1>2, <1>3 DEF EnqueueKick
  <2>2. QED
    BY <1>1, <1>2, <2>1 DEF EnqType
<1>4. CASE EnqueueObserve(t)
  <2>1. PICK b \in BOOLEAN : enq' = [enq EXCEPT ![t] =
           IF dctx[c].current_task_dsq_type = EMPTY
           THEN [e EXCEPT !.at = "insert", !.kick = kick_idle(c)]
           ELSE [e EXCEPT !.at = IF b THEN "kick" ELSE "insert"]]
    BY <1>1, <1>4 DEF EnqueueObserve
  <2>2. enq'[t] = IF dctx[c].current_task_dsq_type = EMPTY
                  THEN [e EXCEPT !.at = "insert", !.kick = kick_idle(c)]
                  ELSE [e EXCEPT !.at = IF b THEN "kick" ELSE "insert"]
    BY <1>2, <2>1
  <2>3. Idles(c) => kick_idle(c) = "idle"
    BY DEF Idles, kick_idle, RqFree
  <2>4. Idles(c) => dctx[c].current_task_dsq_type = EMPTY
    BY IdlesEmpty
  <2>5. CASE dctx[c].current_task_dsq_type = EMPTY
    BY <1>1, <1>2, <2>2, <2>3, <2>5 DEF EnqType
  <2>6. CASE dctx[c].current_task_dsq_type # EMPTY
    BY <1>1, <1>2, <2>2, <2>4, <2>6 DEF EnqType
  <2>7. QED
    BY <2>5, <2>6
<1>5. QED
  BY <1>3, <1>4

\* A look at a cpu that runs nothing wakes it.
LEMMA EnqueueObserveWake ==
  ASSUME Inv, TierInv, WakeInv, NEW t \in Tasks, EnqueueObserve(t) \/ EnqueueKick(t),
         NEW c \in Online
  PROVE  Kept(c)
<1> USE DEF Inv, TypeOK
<1>1. /\ enq[t].at \in {"observe", "kick"}
      /\ UNCHANGED <<curr, next, sched, local, dsq, resched, kicks, idle, task_cpu>>
      /\ \E x : enq' = [enq EXCEPT ![t] = x]
  BY DEF EnqueueObserve, EnqueueKick
<1>2. \A u \in Tasks \ {t} : enq'[u] = enq[u]
  BY <1>1 DEF TaskTypeOK
<1>3. Idles(c) /\ TaskAlerts(t, c) => Alerted(c)'
  <2> SUFFICES ASSUME Idles(c), TaskAlerts(t, c) PROVE Alerted(c)'
    OBVIOUS
  <2>1. enq[t].cpu = c
    BY <1>1 DEF TaskAlerts
  <2>2. /\ enq'[t].cpu = c
        /\ enq'[t].at = "kick" \/ (enq'[t].at = "insert" /\ enq'[t].kick # "none")
    BY <2>1, ObserveKicks
  <2>3. QED
    BY <2>2 DEF Alerted
<1>4. QED
  BY <1>1, <1>2, <1>3, EnqueueOnlyWake

\* An insertion comes with a kick, or into a queue of another cpu, or its cpu is
\* not idle.
LEMMA EnqueueInsertWake ==
  ASSUME Inv, Places, WakeInv, NEW t \in Tasks, EnqueueInsert(t), NEW c \in Online
  PROVE  Kept(c)
<1> USE ConstantsAssumption DEF Inv, TypeOK
<1>1. PICK e : e = enq[t]
  OBVIOUS
<1>2. /\ e.at = "insert" /\ Joins(t, e.cpu, e.tier)
      /\ kicks' = IF e.kick = "none" THEN kicks ELSE kicks \cup {<<e.cpu, e.kick>>}
      /\ enq' = [enq EXCEPT ![t] = NoEnqueue]
      /\ UNCHANGED <<local, curr, next, sched, resched, idle, task_cpu>>
  BY <1>1 DEF EnqueueInsert, kick_target, Joins
<1>3. \A u \in Tasks \ {t} : enq'[u] = enq[u]
  BY <1>2 DEF TaskTypeOK
<1>4. WakeAt(c) /\ CpuSame(c) /\ QuietAt(t)
  BY <1>2 DEF WakeInv, CpuSame
<1>5. PlaceFor(c) => PlaceFor(c)'
  BY <1>1, <1>2, <1>3 DEF PlaceFor
<1>6. \A u \in Tasks : InQueue(u, c)' => InQueue(u, c) \/ (u = t /\ c = e.cpu)
  <2>1. e.cpu \in CPUs /\ e.tier \in Tiers /\ state[t] # "queued" /\ c \in CPUs
    BY <1>1, <1>2 DEF PcInv, HoldsRq, Places, TasksInv, EnqAt
  <2>2. \A l \in Tiers : \A i \in 1 .. Len(dsq'[c][l]) :
          \/ dsq'[c][l][i] = t /\ c = e.cpu
          \/ \E j \in 1 .. Len(dsq[c][l]) : dsq'[c][l][i] = dsq[c][l][j]
    BY <1>2, <2>1, JoinQueue DEF Places
  <2>3. QED
    BY <2>2 DEF InQueue
<1>7. CASE c # e.cpu \/ (e.kick = "none" /\ task_cpu[t] # c)
  <2>1. AlertsKept(c)
    BY <1>1, <1>2, <1>3, <1>7 DEF AlertsKept, TaskAlerts
  <2>2. Nothing(c) => Nothing(c)'
    BY <1>2, <1>6, <1>7 DEF Nothing
  <2>3. QED
    BY <1>2, <1>4, <1>5, <2>1, <2>2, AlertedKept, WakeFrame
<1>8. CASE c = e.cpu /\ e.kick # "none"
  <2>1. e.kick \in {"idle", "preempt"} /\ <<c, e.kick>> \in kicks'
    BY <1>1, <1>2, <1>8 DEF TaskTypeOK, EnqType
  <2>2. Alerted(c)'
    BY <2>1 DEF Alerted
  <2>3. QED
    BY <2>2 DEF Kept, WakeAt, IdleAt
<1>9. CASE c = e.cpu /\ e.kick = "none" /\ task_cpu[t] = c
  <2>1. ~ Idles(c)
    BY <1>1, <1>2, <1>4, <1>9 DEF QuietAt
  <2>2. ~ Idles(c)'
    BY <1>2, <2>1 DEF Idles
  <2>3. QED
    BY <2>2 DEF Kept, WakeAt, IdleAt, Idles
<1>10. QED
  BY <1>7, <1>8, <1>9

\* A queue a task leaves is not filled by that.
LEMMA LeavesNothing ==
  ASSUME Inv, Places, NEW t \in Tasks, NEW o \in CPUs, NEW k \in Tiers, Leaves(t, o, k),
         NEW c \in CPUs, local'[c] = local[c], Nothing(c),
         \A u \in Tasks : InQueue(u, c)' => task_cpu'[u] = task_cpu[u]
  PROVE  Nothing(c)'
<1>1. \A l \in Tiers : \A i \in 1 .. Len(dsq'[c][l]) :
        \E j \in 1 .. Len(dsq[c][l]) : dsq'[c][l][i] = dsq[c][l][j]
  BY LeaveQueue DEF Places
<1>2. \A u \in Tasks : InQueue(u, c)' => InQueue(u, c)
  BY <1>1 DEF InQueue
<1>3. QED
  BY <1>2 DEF Nothing

\* A change of an attribute starts a placement.
LEMMA ChangeAttrWake ==
  ASSUME Inv, Places, WakeInv, NEW t \in Tasks, NEW o \in Online, NEW k \in Tiers,
         ChangeAttr(t, o, k), NEW c \in Online
  PROVE  Kept(c)
<1> USE ConstantsAssumption DEF Inv, TypeOK
<1>1. /\ enq[t].at = "none" /\ Leaves(t, o, k)
      /\ \E x : enq' = [enq EXCEPT ![t] = x]
      /\ UNCHANGED <<local, curr, next, sched, resched, kicks, idle, task_cpu>>
  BY DEF ChangeAttr, Leaves
<1>2. \A u \in Tasks \ {t} : enq'[u] = enq[u]
  BY <1>1 DEF TaskTypeOK
<1>3. Nothing(c) => Nothing(c)'
  BY <1>1, LeavesNothing
<1>4. AlertsKept(c) /\ (PlaceFor(c) => PlaceFor(c)')
  BY <1>1, <1>2 DEF AlertsKept, TaskAlerts, PlaceFor
<1>5. WakeAt(c) /\ CpuSame(c)
  BY <1>1 DEF WakeInv, CpuSame
<1>6. QED
  BY <1>1, <1>3, <1>4, <1>5, AlertedKept, WakeFrame

\* The steps of tasks lose no wakeup.
LEMMA TaskStepWake ==
  ASSUME Inv, Places, TierInv, LockInv, WakeInv, NEW t \in Tasks, TaskStep(t), NEW c \in Online
  PROVE  Kept(c)
BY WakeUpWake, DirectInsertWake, EnqueuePlaceWake, EnqueueObserveWake, EnqueueInsertWake,
   ChangeAttrWake DEF TaskStep, Enqueue

\* An enqueue to the task's own cpu that kicks nobody has seen it busy.
LEMMA TaskStepQuiet ==
  ASSUME Inv, Places, TierInv, WakeInv, NEW t \in Tasks, TaskStep(t), NEW u \in Tasks
  PROVE  QuietAt(u)'
<1> USE ConstantsAssumption DEF Inv, TypeOK
<1>1. UNCHANGED <<curr, next, sched>>
  BY TaskStepTier
<1>2. QuietAt(u) /\ QuietAt(t)
  BY DEF WakeInv
<1>3. CASE u # t
  <2>1. enq'[u] = enq[u] /\ task_cpu'[u] = task_cpu[u]
    BY <1>3 DEF TaskStep, Enqueue, WakeUp, WakeUpInPlace, ChangeAttr, DirectInsert, EnqueuePlace,
       EnqueueInsert, EnqueueObserve, EnqueueKick, TaskTypeOK
  <2>2. QED
    BY <1>1, <1>2, <2>1 DEF QuietAt, Idles
<1>4. ASSUME enq'[t].at # "insert" PROVE QuietAt(t)'
  BY <1>4 DEF QuietAt
<1>5. ASSUME NEW w, NEW k, WakeUp(t, w, k) PROVE QuietAt(t)'
  <2>1. PICK s : enq' = [enq EXCEPT ![t] =
                   BeginEnqueue(IF /\ s.is_idle
                                   /\ cpu_load_ahead(s.cpu, effective_tier(
                                        IF state[t] = "blocked"
                                        THEN apply_wake_boost(t, tctx[t], w) ELSE tctx[t])) = 0
                                THEN "direct" ELSE "place", state[t] = "blocked", w)]
    BY <1>5 DEF WakeUp
  <2>2. \E at \in {"direct", "place"} : \E b : enq' = [enq EXCEPT ![t] = BeginEnqueue(at, b, w)]
    BY <2>1
  <2>3. QED
    BY <1>4, <2>2 DEF BeginEnqueue, NoEnqueue, TaskTypeOK
<1>6. ASSUME \/ DirectInsert(t) \/ EnqueueInsert(t)
             \/ (\E w \in Wakers, k \in OwnTiers[t] : WakeUpInPlace(t, w, k))
             \/ (\E o \in Online, k \in Tiers : ChangeAttr(t, o, k))
      PROVE  QuietAt(t)'
  <2>1. CASE DirectInsert(t) \/ EnqueueInsert(t)
    BY <1>4, <2>1 DEF DirectInsert, EnqueueInsert, NoEnqueue, TaskTypeOK
  <2>2. ASSUME NEW w, NEW k, WakeUpInPlace(t, w, k) PROVE QuietAt(t)'
    BY <1>4, <2>2 DEF WakeUpInPlace, BeginEnqueue, NoEnqueue, TaskTypeOK
  <2>3. ASSUME NEW o, NEW k, ChangeAttr(t, o, k) PROVE QuietAt(t)'
    BY <1>4, <2>3 DEF ChangeAttr, BeginEnqueue, NoEnqueue, TaskTypeOK
  <2>4. QED
    BY <1>6, <2>1, <2>2, <2>3
<1>7. ASSUME EnqueueObserve(t) \/ EnqueueKick(t) PROVE QuietAt(t)'
  <2>1. PICK c \in Online : c = enq[t].cpu
    BY <1>7 DEF EnqueueObserve, EnqueueKick, PcInv, HoldsRq
  <2>2. /\ enq'[t].cpu = c
        /\ enq'[t].at = "kick" \/ (enq'[t].at = "insert" /\ (Idles(c) => enq'[t].kick # "none"))
    BY <1>7, <2>1, ObserveKicks
  <2>3. Idles(c)' <=> Idles(c)
    BY <1>1 DEF Idles
  <2>4. task_cpu' = task_cpu
    BY <1>7 DEF EnqueueObserve, EnqueueKick
  <2>5. QED
    BY <1>4, <2>2, <2>3, <2>4 DEF QuietAt, Idles
<1>8. ASSUME NEW limited \in BOOLEAN, EnqueuePlace(t, limited) PROVE QuietAt(t)'
  <2>1. CASE tctx[t].resume_slice
    <3>1. ResumeAt(t) /\ task_cpu' = task_cpu
      BY <1>8 DEF Places, TasksInv, EnqueuePlace
    <3>2. ~ Idles(task_cpu[t])'
      BY <1>1, <2>1, <3>1 DEF ResumeAt, Idles
    <3>3. QED
      BY <3>2 DEF QuietAt
  <2>2. CASE ~ tctx[t].resume_slice
    <3>1. \A w \in BoostContexts(t) : apply_wake_boost(t, tctx[t], w).resume_slice = tctx[t].resume_slice
      BY DEF apply_wake_boost, CtxTypeOK, CtxType
    <3>2. PICK cpu, tier : enq' = [enq EXCEPT ![t] = Placed(@, cpu, tier, FALSE)]
      BY <1>8, <2>2, <3>1 DEF EnqueuePlace
    <3>3. enq'[t].at = "observe"
      BY <3>2 DEF Placed, TaskTypeOK, EnqType
    <3>4. QED
      BY <1>4, <3>3
  <2>3. QED
    BY <2>1, <2>2
<1>9. QED
  BY <1>3, <1>5, <1>6, <1>7, <1>8 DEF TaskStep, Enqueue

\* A cpu that goes on leaves the enqueues that kick nobody alone.
LEMMA CpuStepQuiet ==
  ASSUME Inv, Places, LockInv, WakeInv, NEW c \in Online, CpuStep(c),
         \A d \in CPUs \ {c} : CpuSame(d), NEW u \in Tasks
  PROVE  QuietAt(u)'
<1> USE ConstantsAssumption DEF Inv, TypeOK
<1>1. CpuStepKeeps(c) /\ LockAt(u) /\ QuietAt(u) /\ task_cpu[u] \in CPUs
  BY CpuStepsKeep DEF LockInv, WakeInv, TaskTypeOK
<1>2. CASE enq[u].at # "none"
  <2>1. enq'[u] = enq[u] /\ task_cpu'[u] = task_cpu[u]
    BY <1>1, <1>2 DEF CpuStepKeeps
  <2>2. CASE task_cpu[u] # c
    <3>1. CpuSame(task_cpu[u])
      BY <1>1, <2>2
    <3>2. QED
      BY <1>1, <2>1, <3>1 DEF QuietAt, CpuSame, Idles
  <2>3. CASE task_cpu[u] = c
    <3>1. ~ HoldsRq(u)
      BY <1>1, <2>3, LockedStill
    <3>2. QED
      BY <2>1, <3>1 DEF HoldsRq, QuietAt
  <2>4. QED
    BY <2>2, <2>3
<1>3. CASE enq[u].at = "none"
  <2>1. enq'[u] = enq[u] \/ enq'[u].at = "place"
    <3>1. CASE ReenqueueLocal(c)
      BY <3>1 DEF ReenqueueLocal, BeginEnqueue, NoEnqueue
    <3>2. ASSUME NEW k, NEW left, NEW spent, PutPrev(c, k, left, spent)
          PROVE  enq'[u] = enq[u] \/ enq'[u].at = "place"
      <4>1. enq' = enq \/ enq' = [enq EXCEPT ![curr[c]] = BeginEnqueue("place", FALSE, NoTask)]
        BY <3>2 DEF PutPrev
      <4>2. enq'[u] = enq[u] \/ enq'[u] = BeginEnqueue("place", FALSE, NoTask)
        BY <4>1 DEF TaskTypeOK
      <4>3. QED
        BY <4>2 DEF BeginEnqueue, NoEnqueue
    <3>3. ASSUME NEW k, NEW spent, NEW starved, Dispatch(c, k, spent, starved)
          PROVE  enq' = enq
      BY <3>3 DEF Dispatch
    <3>4. CASE \/ KickIdle(c) \/ KickPreempt(c) \/ SliceEnd(c) \/ PickNext(c) \/ Switch(c)
               \/ SchedSwitch(c) \/ HigherSleeps(c) \/ Exit(c)
               \/ (\E h \in Higher[c] : HigherWakes(c, h)) \/ (\E k \in Classes(curr[c]) : Sleep(c, k))
      BY <3>4 DEF KickIdle, KickPreempt, SliceEnd, PickNext, Switch, SchedSwitch, HigherWakes,
         HigherSleeps, Sleep, Exit
    <3>5. QED
      BY <3>1, <3>2, <3>3, <3>4 DEF CpuStep, Course
  <2>2. QED
    BY <1>3, <2>1 DEF QuietAt
<1>4. QED
  BY <1>2, <1>3

\* The other cpus.
LEMMA OthersWake ==
  ASSUME Inv, Places, Places', WakeInv, NEW c \in Online, CpuStepKeeps(c), NEW d \in Online, d # c,
         CpuSame(d)
  PROVE  Kept(d)
<1> USE ConstantsAssumption DEF Inv, TypeOK
<1>1. AlertsKept(d)
  BY DEF AlertsKept, CpuStepKeeps, TaskAlerts
<1>2. Nothing(d) => Nothing(d)'
  <2>1. d \in CPUs /\ local'[d] = local[d]
    BY DEF CpuStepKeeps
  <2>2. \A u \in Tasks : InQueue(u, d)' => task_cpu'[u] = task_cpu[u]
    <3>1. \A u \in Tasks : InQueue(u, d)' => state'[u] = "queued"
      BY <2>1 DEF InQueue, Places, QueueInv
    <3>2. QED
      BY <3>1 DEF CpuStepKeeps
  <2>3. CASE dsq' = dsq
    <3>1. \A u \in Tasks : InQueue(u, d)' <=> InQueue(u, d)
      BY <2>3 DEF InQueue
    <3>2. QED
      BY <2>1, <2>2, <3>1 DEF Nothing
  <2>4. ASSUME NEW t \in Tasks, NEW o \in CPUs, NEW l \in Tiers, Leaves(t, o, l)
        PROVE  Nothing(d) => Nothing(d)'
    BY <2>1, <2>2, <2>4, LeavesNothing
  <2>5. QED
    BY <2>3, <2>4 DEF CpuStepKeeps
<1>3. Alerted(d)' \/ (d \in idle => d \in idle')
  BY DEF CpuStepKeeps, Alerted
<1>4. PlaceFor(d) => PlaceFor(d)'
  BY DEF CpuStepKeeps, PlaceFor
<1>5. WakeAt(d)
  BY DEF WakeInv
<1>6. QED
  BY <1>1, <1>2, <1>3, <1>4, <1>5, AlertedKept, WakeFrame

\* The cpu itself: it goes idle only when nothing waits for it.
LEMMA OwnWake ==
  ASSUME Inv, Inv', Places, WakeInv, NEW c \in Online, CpuStep(c)
  PROVE  Kept(c)
<1> USE ConstantsAssumption DEF Inv, TypeOK
<1>0. c \in CPUs /\ PickedAt(c) /\ CurrAt(c) /\ WakeAt(c)
  BY DEF Places, CpusInv, WakeInv
<1>1. ASSUME ~ Idles(c)' \/ c \in resched' PROVE Kept(c)
  BY <1>1 DEF Kept, WakeAt, IdleAt, Idles, Alerted
<1>2. CASE KickIdle(c) \/ KickPreempt(c) \/ SliceEnd(c) \/ \E h \in Higher[c] : HigherWakes(c, h)
  <2>1. ~ Idles(c)' \/ c \in resched'
    BY <1>2 DEF KickIdle, KickPreempt, SliceEnd, HigherWakes, RqFree, Idles
  <2>2. QED
    BY <1>1, <2>1
<1>3. CASE HigherSleeps(c) \/ Exit(c) \/ \E k \in Classes(curr[c]) : Sleep(c, k)
  <2>1. sched'[c] = "pick"
    BY <1>3 DEF HigherSleeps, Exit, Sleep, CpuTypeOK
  <2>2. QED
    BY <1>1, <2>1 DEF Idles
<1>4. CASE PickNext(c)
  <2>1. sched'[c] \in {"put", "switch"}
    BY <1>4 DEF PickNext, CpuTypeOK
  <2>2. next'[c] # Idle
    <3>1. CASE hi[c] # NoTask /\ next' = [next EXCEPT ![c] = hi[c]]
      BY <3>1 DEF CpuTypeOK
    <3>2. CASE local[c] # <<>> /\ next' = [next EXCEPT ![c] = Head(local[c])]
      <4>1. Head(local[c]) \in Tasks
        BY <3>2 DEF QueueTypeOK
      <4>2. QED
        BY <3>2, <4>1 DEF CpuTypeOK
    <3>3. QED
      BY <1>4, <3>1, <3>2 DEF PickNext
  <2>3. QED
    BY <1>1, <2>1, <2>2 DEF Idles
<1>5. ASSUME NEW k, NEW left, NEW spent, PutPrev(c, k, left, spent)
      PROVE  Kept(c)
  <2>1. sched[c] = "put" /\ sched'[c] = "switch" /\ next' = next
    BY <1>5 DEF PutPrev, CpuTypeOK
  <2>2. QED
    BY <1>0, <1>1, <2>1 DEF Idles, PickedAt
<1>6. ASSUME NEW k \in Classes(curr[c]), NEW spent \in BOOLEAN,
             NEW starved \in StarvedTiers \cup {EMPTY}, Dispatch(c, k, spent, starved)
      PROVE  Kept(c)
  <2>1. /\ local[c] = <<>> /\ curr' = curr
        /\ (\E t \in Tasks : Takes(c, t)) \/ Keeps(c) \/ GoesIdle(c)
    BY <1>6, DispatchCases
  <2>2. CASE Keeps(c)
    <3>1. sched'[c] = "run" /\ curr'[c] \in Tasks
      BY <2>1, <2>2 DEF Keeps, PrevRuns, CpuTypeOK
    <3>2. QED
      BY <1>1, <3>1 DEF Idles
  <2>3. ASSUME NEW t \in Tasks, Takes(c, t) PROVE Kept(c)
    <3>1. sched'[c] \in {"put", "switch"} /\ next'[c] = t
      BY <2>3 DEF Takes, CpuTypeOK
    <3>2. QED
      BY <1>1, <3>1 DEF Idles
  <2>4. CASE GoesIdle(c)
    <3>1. \A l \in Tiers : dsq[c][l] = <<>>
      <4> SUFFICES ASSUME NEW l \in Tiers, dsq[c][l] # <<>> PROVE FALSE
        OBVIOUS
      <4>1. dsq[c][l] \in Seq(Tasks)
        BY <1>0, QueueOf
      <4>2. 1 \in 1 .. Len(dsq[c][l])
        BY <4>1
      <4>3. c \in Allowed[dsq[c][l][1]]
        BY <1>0, <4>2 DEF Places, QueueInv
      <4>4. QED
        BY <2>4, <4>2, <4>3 DEF GoesIdle, Takeable
    <3>2. Nothing(c)' /\ sched'[c] = "switch"
      BY <2>1, <2>4, <3>1 DEF GoesIdle, Nothing, InQueue, CpuTypeOK
    <3>3. QED
      BY <3>2 DEF Kept, WakeAt, IdleAt
  <2>5. QED
    BY <2>1, <2>2, <2>3, <2>4
<1>7. CASE Switch(c)
  <2>1. PICK t : t = next[c]
    OBVIOUS
  <2>2. /\ sched[c] = "switch" /\ curr'[c] = t /\ sched'[c] \in {"hook", "run"}
        /\ UNCHANGED <<dsq, resched, kicks, enq, task_cpu>>
    BY <1>7, <2>1 DEF Switch, CpuTypeOK
  <2>3. CASE t # Idle
    BY <1>1, <2>2, <2>3 DEF Idles
  <2>4. CASE t = Idle
    <3>1. c \in idle' /\ local' = local
      BY <1>7, <2>1, <2>4 DEF Switch
    <3>2. Alerted(c) \/ Nothing(c)
      BY <1>0, <2>1, <2>2, <2>4 DEF WakeAt, Idles
    <3>3. Alerted(c)' \/ Nothing(c)'
      BY <2>2, <3>1, <3>2 DEF Alerted, Nothing, InQueue
    <3>4. QED
      BY <3>1, <3>3 DEF Kept, WakeAt, IdleAt
  <2>5. QED
    BY <2>3, <2>4
<1>8. CASE SchedSwitch(c)
  <2>1. /\ sched[c] = "hook" /\ sched'[c] = "run" /\ UNCHANGED <<curr, dsq, local, resched, enq, task_cpu>>
        /\ kicks \subseteq kicks' /\ (curr[c] = Idle => idle' = idle)
    BY <1>8 DEF SchedSwitch, CpuTypeOK, is_rt_task
  <2>2. AlertsKept(c)
    BY <2>1 DEF AlertsKept, TaskAlerts
  <2>3. WakeAt(c)'
    BY <1>0, <2>1, <2>2, AlertedKept DEF WakeAt, Idles, Nothing, InQueue
  <2>4. IdleAt(c) => IdleAt(c)'
    BY <1>0, <2>1, <2>2, AlertedKept DEF IdleAt, PlaceFor
  <2>5. QED
    BY <2>3, <2>4 DEF Kept
<1>9. CASE ReenqueueLocal(c)
  <2>1. CpuStepKeeps(c)
    BY CpuStepsKeep
  <2>2. /\ UNCHANGED <<curr, next, sched, dsq, resched, kicks, idle, task_cpu>> /\ local'[c] = <<>>
    BY <1>9 DEF ReenqueueLocal, QueueTypeOK
  <2>3. AlertsKept(c) /\ (PlaceFor(c) => PlaceFor(c)')
    BY <2>1, <2>2 DEF AlertsKept, CpuStepKeeps, TaskAlerts, PlaceFor
  <2>4. CpuSame(c) /\ (Nothing(c) => Nothing(c)')
    BY <2>2 DEF CpuSame, Nothing, InQueue
  <2>5. QED
    BY <1>0, <2>2, <2>3, <2>4, AlertedKept, WakeFrame
<1>10. QED
  BY <1>2, <1>3, <1>4, <1>5, <1>6, <1>7, <1>8, <1>9 DEF CpuStep, Course

\* A cpu reaches its sched_switch hook only through a switch.
LEMMA HookFrom ==
  ASSUME Inv, NEW c \in Online, CpuStep(c), sched'[c] = "hook"
  PROVE  sched[c] \in {"switch", "hook"}
<1> USE ConstantsAssumption DEF Inv, TypeOK
<1>1. c \in CPUs /\ sched \in [CPUs -> {"run", "pick", "put", "switch", "hook"}]
  BY DEF CpuTypeOK
<1>2. CASE \/ KickIdle(c) \/ KickPreempt(c) \/ SliceEnd(c) \/ ReenqueueLocal(c)
           \/ \E h \in Higher[c] : HigherWakes(c, h)
  BY <1>2 DEF KickIdle, KickPreempt, SliceEnd, HigherWakes, ReenqueueLocal
<1>3. CASE HigherSleeps(c) \/ Exit(c) \/ \E k \in Classes(curr[c]) : Sleep(c, k)
  BY <1>1, <1>3 DEF HigherSleeps, Exit, Sleep
<1>4. CASE PickNext(c)
  BY <1>1, <1>4 DEF PickNext
<1>5. ASSUME NEW k, NEW spent, NEW starved, Dispatch(c, k, spent, starved) PROVE FALSE
  BY <1>1, <1>5 DEF Dispatch
<1>6. ASSUME NEW k, NEW left, NEW spent, PutPrev(c, k, left, spent) PROVE FALSE
  BY <1>1, <1>6 DEF PutPrev
<1>7. CASE Switch(c) \/ SchedSwitch(c)
  BY <1>7 DEF Switch, SchedSwitch
<1>8. QED
  BY <1>2, <1>3, <1>4, <1>5, <1>6, <1>7 DEF CpuStep, Course

\* What a step keeps of every cpu.
LEMMA NextKept ==
  ASSUME Inv, Inv', Places, Places', TierInv, LockInv, WakeInv, [Next]_vars, NEW c \in Online
  PROVE  Kept(c) /\ (sched'[c] = "hook" => sched[c] \in {"switch", "hook"})
<1>1. CASE UNCHANGED vars
  <2>1. (WakeAt(c)' <=> WakeAt(c)) /\ (IdleAt(c)' <=> IdleAt(c))
    BY <1>1 DEF vars, kernel, WakeAt, IdleAt, Idles, Nothing, InQueue, Alerted, PlaceFor
  <2>2. QED
    BY <1>1, <2>1 DEF vars, kernel, Kept, WakeInv
<1>2. ASSUME NEW t \in Tasks, TaskStep(t)
      PROVE  Kept(c) /\ (sched'[c] = "hook" => sched[c] \in {"switch", "hook"})
  BY <1>2, TaskStepWake, TaskStepTier
<1>3. ASSUME NEW d \in Online, CpuStep(d)
      PROVE  Kept(c) /\ (sched'[c] = "hook" => sched[c] \in {"switch", "hook"})
  <2>1. CpuStepKeeps(d) /\ \A o \in CPUs \ {d} : CpuSame(o)
    BY <1>3, CpuStepsKeep, CpuStepTier
  <2>2. CASE c # d
    BY <2>1, <2>2, ConstantsAssumption, OthersWake DEF CpuSame
  <2>3. CASE c = d
    BY <1>3, <2>3, OwnWake, HookFrom
  <2>4. QED
    BY <2>2, <2>3
<1>4. QED
  BY <1>1, <1>2, <1>3 DEF Next

\* What a step keeps of every enqueue that kicks nobody.
LEMMA NextQuiet ==
  ASSUME Inv, Inv', Places, TierInv, LockInv, WakeInv, [Next]_vars, NEW u \in Tasks
  PROVE  QuietAt(u)'
<1>1. CASE UNCHANGED vars
  BY <1>1 DEF vars, kernel, WakeInv, QuietAt, Idles
<1>2. ASSUME NEW t \in Tasks, TaskStep(t) PROVE QuietAt(u)'
  BY <1>2, TaskStepQuiet
<1>3. ASSUME NEW c \in Online, CpuStep(c) PROVE QuietAt(u)'
  BY <1>3, CpuStepQuiet, CpuStepTier
<1>4. QED
  BY <1>1, <1>2, <1>3 DEF Next

\* No step loses a wakeup.
LEMMA NextWake ==
  Inv /\ Inv' /\ Places /\ Places' /\ TierInv /\ LockInv /\ WakeInv /\ [Next]_vars => WakeInv'
<1> SUFFICES ASSUME Inv, Inv', Places, Places', TierInv, LockInv, WakeInv, [Next]_vars PROVE WakeInv'
  OBVIOUS
<1>1. ASSUME NEW c \in Online PROVE WakeAt(c)' /\ (sched'[c] = "hook" => IdleAt(c)')
  <2>1. Kept(c) /\ (sched'[c] = "hook" => sched[c] \in {"switch", "hook"})
    BY <1>1, NextKept
  <2>2. sched[c] \in {"switch", "hook"} => IdleAt(c) /\ ~ Excused(c)
    BY DEF WakeInv, IdleAt, Excused
  <2>3. QED
    BY <2>1, <2>2 DEF Kept
<1>2. \A u \in Tasks : QuietAt(u)'
  BY NextQuiet
<1>3. QED
  BY <1>1, <1>2 DEF WakeInv

\* WakeInv holds in every state.
THEOREM SchedWakeInv == Spec => []WakeInv
<1>1. Init => WakeInv
  <2> SUFFICES ASSUME Init PROVE WakeInv
    OBVIOUS
  <2>1. \A t \in Tasks : QuietAt(t)
    BY DEF Init, QuietAt, NoEnqueue
  <2>2. \A c \in Online : WakeAt(c) /\ sched[c] # "hook"
    BY ConstantsAssumption DEF Init, WakeAt, Nothing, InQueue
  <2>3. QED
    BY <2>1, <2>2 DEF WakeInv
<1>2. QED
  BY <1>1, NextWake, SchedInvariant, SchedPlaces, SchedTierInv, SchedLockInv, PTL DEF Spec

\* No wakeup is lost on the cpu the task comes from: a cpu that sits idle has
\* nothing in its local DSQ, and in its queues only tasks that were put there from
\* another cpu (lunar_enqueue, lunar_stopping, lunar_dispatch).
THEOREM SchedNoLostWakeup == Spec => []NoLostWakeup
<1>1. WakeInv => NoLostWakeup
  <2> SUFFICES ASSUME WakeInv, NEW c \in Online, Sits(c)
               PROVE  local[c] = <<>> /\ \A t \in Tasks : InQueue(t, c) => Stranded(t)
    BY DEF NoLostWakeup
  <2>1. Nothing(c)
    BY DEF WakeInv, WakeAt, Idles, Sits
  <2>2. QED
    BY <2>1 DEF Nothing, Stranded
<1>2. QED
  BY <1>1, SchedWakeInv, PTL

\* No idle cpu is lost but to a task stranded on it: an idle cpu whose idle bit was
\* claimed is rescheduled or given a task (lunar_select_cpu, pick_enqueue_cpu,
\* kick_idle_for_waiting).
THEOREM SchedNoLostIdleCpu == Spec => NoLostIdleCpu
<1>1. Inv /\ Inv' /\ Places /\ Places' /\ TierInv /\ LockInv /\ WakeInv /\ [Next]_vars =>
        [\A c \in Online : IdleKnown(c) /\ ~ IdleKnown(c)' =>
           \E t \in Tasks : InQueue(t, c) /\ Stranded(t)]_vars
  <2> SUFFICES ASSUME Inv, Inv', Places, Places', TierInv, LockInv, WakeInv, [Next]_vars,
                      NEW c \in Online, IdleKnown(c), ~ IdleKnown(c)'
               PROVE  \E t \in Tasks : InQueue(t, c) /\ Stranded(t)
    OBVIOUS
  <2>1. Kept(c)
    BY NextKept
  <2>2. ~ IdleAt(c)'
    BY DEF IdleKnown, IdleAt, PlaceFor
  <2>3. IdleAt(c)
    <3>1. CASE sched[c] = "run"
      BY <3>1 DEF IdleKnown, IdleAt, PlaceFor
    <3>2. CASE sched[c] # "run"
      BY <3>2 DEF IdleAt, WakeInv
    <3>3. QED
      BY <3>1, <3>2
  <2>4. QED
    BY <2>1, <2>2, <2>3 DEF Kept, Excused
<1>2. QED
  BY <1>1, SchedInvariant, SchedPlaces, SchedTierInv, SchedLockInv, SchedWakeInv, PTL
     DEF Spec, NoLostIdleCpu

-----------------------------------------------------------------------------
(* Strict tiers                                                            *)

\* A task that waits in a queue of c may run there.
LEMMA WaitsTakeable ==
  ASSUME Inv, QueueInv, NEW c \in CPUs, NEW k \in Tiers, dsq[c][k] # <<>>
  PROVE  Takeable(c, k, c)
<1>1. dsq[c][k] \in Seq(Tasks)
  BY QueueOf DEF Inv, TypeOK
<1>2. 1 \in 1 .. Len(dsq[c][k])
  BY <1>1
<1>3. QED
  BY <1>2 DEF QueueInv, Takeable

\* A queue without tasks has none to take.
LEMMA EmptyNotTakeable ==
  ASSUME NEW c, NEW k, NEW d, dsq[c][k] = <<>>
  PROVE  ~ Takeable(c, k, d)
BY DEF Takeable

\* local_best is the tier of prev, or that of a queue of the cpu, and the queues
\* of better tiers are empty but for LC.
LEMMA LocalBest ==
  ASSUME NEW c \in CPUs, NEW prev_tier \in Tiers \cup {EMPTY},
         NEW best, best = local_best(c, prev_tier)
  PROVE  /\ best \in Tiers \cup {EMPTY} /\ best <= prev_tier
         /\ \/ best = prev_tier
            \/ best \in {INTERACTIVE, NORMAL, GREEDY} /\ dsq[c][best] # <<>>
         /\ \A j \in {INTERACTIVE, NORMAL, GREEDY} : j < best => dsq[c][j] = <<>>
BY DEF local_best, Tiers, LC, INTERACTIVE, NORMAL, GREEDY, EMPTY

\* What is left of a plan without an override, part by part.
LEMMA PlanFinds ==
  ASSUME NEW c \in CPUs, NEW prev_tier \in Tiers \cup {EMPTY},
         NEW r \in dispatch_dsq_per_cpu(c, prev_tier, EMPTY)
  PROVE  \/ FirstIn(r, PlanFirst(c))
         \/ /\ AllFail(PlanFirst(c))
            /\ FirstIn(r, PlanStrict(c, local_best(c, prev_tier)))
         \/ /\ AllFail(PlanFirst(c)) /\ AllFail(PlanStrict(c, local_best(c, prev_tier)))
            /\ \/ \E k \in {INTERACTIVE, NORMAL, GREEDY} :
                    /\ FirstIn(r, PlanServe(c, prev_tier, k))
                    /\ \A j \in {INTERACTIVE, NORMAL, GREEDY} :
                         j < k => AllFail(PlanServe(c, prev_tier, j))
               \/ /\ \A j \in {INTERACTIVE, NORMAL, GREEDY} : AllFail(PlanServe(c, prev_tier, j))
                  /\ FirstIn(r, PlanSteal(c, prev_tier))
<1> DEFINE A == AttemptsFor(c)
           a1 == PlanFirst(c)
           a2 == PlanOver(c, EMPTY)
           a3 == PlanStrict(c, local_best(c, prev_tier))
           a4 == PlanServe(c, prev_tier, INTERACTIVE)
           a5 == PlanServe(c, prev_tier, NORMAL)
           a6 == PlanServe(c, prev_tier, GREEDY)
           a7 == PlanSteal(c, prev_tier)
           plan == Attempts(c, prev_tier, EMPTY)
<1>1. /\ a1 \in Seq(A) /\ a2 \in Seq(A) /\ a3 \in Seq(A) /\ a4 \in Seq(A)
      /\ a5 \in Seq(A) /\ a6 \in Seq(A) /\ a7 \in Seq(A)
      /\ plan = a1 \o a2 \o a3 \o a4 \o a5 \o a6 \o a7
  <2>1. {INTERACTIVE, NORMAL, GREEDY} \subseteq Tiers
    BY DEF Tiers, LC, INTERACTIVE, NORMAL, GREEDY
  <2>2. QED
    BY <2>1, AttemptsParts
<1>2. r \in Found(plan)
  BY DEF dispatch_dsq_per_cpu, Found
<1>3. ~ FirstIn(r, a2)
  BY DEF PlanOver, FirstIn
<1> HIDE DEF A, a1, a2, a3, a4, a5, a6, a7, plan
<1> DEFINE b2 == a1 \o a2
           b3 == b2 \o a3
           b4 == b3 \o a4
           b5 == b4 \o a5
           b6 == b5 \o a6
           b7 == b6 \o a7
<1>4. /\ b2 \in Seq(A) /\ (AllFail(b2) => AllFail(a1))
      /\ FirstIn(r, b2) => FirstIn(r, a1)
  BY <1>1, <1>3, FoundConcat
<1> HIDE DEF b2
<1>5. /\ b3 \in Seq(A) /\ (AllFail(b3) => AllFail(b2) /\ AllFail(a3))
      /\ FirstIn(r, b3) => FirstIn(r, b2) \/ (AllFail(b2) /\ FirstIn(r, a3))
  BY <1>1, <1>4, FoundConcat
<1> HIDE DEF b3
<1>6. /\ b4 \in Seq(A) /\ (AllFail(b4) => AllFail(b3) /\ AllFail(a4))
      /\ FirstIn(r, b4) => FirstIn(r, b3) \/ (AllFail(b3) /\ FirstIn(r, a4))
  BY <1>1, <1>5, FoundConcat
<1> HIDE DEF b4
<1>7. /\ b5 \in Seq(A) /\ (AllFail(b5) => AllFail(b4) /\ AllFail(a5))
      /\ FirstIn(r, b5) => FirstIn(r, b4) \/ (AllFail(b4) /\ FirstIn(r, a5))
  BY <1>1, <1>6, FoundConcat
<1> HIDE DEF b5
<1>8. /\ b6 \in Seq(A) /\ (AllFail(b6) => AllFail(b5) /\ AllFail(a6))
      /\ FirstIn(r, b6) => FirstIn(r, b5) \/ (AllFail(b5) /\ FirstIn(r, a6))
  BY <1>1, <1>7, FoundConcat
<1> HIDE DEF b6
<1>9. /\ b7 \in Seq(A)
      /\ FirstIn(r, b7) => FirstIn(r, b6) \/ (AllFail(b6) /\ FirstIn(r, a7))
  BY <1>1, <1>8, FoundConcat
<1>10. plan = b7
  BY <1>1 DEF b2, b3, b4, b5, b6
<1> HIDE DEF b7
<1>11. FirstIn(r, b7)
  BY <1>2, <1>9, <1>10, FoundFirst
<1>12. \/ FirstIn(r, a1)
       \/ AllFail(a1) /\ FirstIn(r, a3)
       \/ AllFail(a1) /\ AllFail(a3) /\ FirstIn(r, a4)
       \/ AllFail(a1) /\ AllFail(a3) /\ AllFail(a4) /\ FirstIn(r, a5)
       \/ AllFail(a1) /\ AllFail(a3) /\ AllFail(a4) /\ AllFail(a5) /\ FirstIn(r, a6)
       \/ AllFail(a1) /\ AllFail(a3) /\ AllFail(a4) /\ AllFail(a5) /\ AllFail(a6) /\ FirstIn(r, a7)
  BY <1>4, <1>5, <1>6, <1>7, <1>8, <1>9, <1>11
<1>13. /\ ~ (INTERACTIVE < INTERACTIVE) /\ ~ (NORMAL < INTERACTIVE) /\ ~ (GREEDY < INTERACTIVE)
       /\ ~ (NORMAL < NORMAL) /\ ~ (GREEDY < NORMAL) /\ ~ (GREEDY < GREEDY)
  BY DEF INTERACTIVE, NORMAL, GREEDY
<1>14. QED
  BY <1>12, <1>13 DEF a1, a3, a4, a5, a6, a7

\* A failed look at the LC tier, at the better tiers of the LLC, or at a tier.
LEMMA FailedLooks ==
  ASSUME NEW c \in CPUs, NEW prev_tier \in Tiers \cup {EMPTY}
  PROVE  /\ AllFail(PlanFirst(c)) => ~ Takeable(c, LC, c)
         /\ \A k \in Tiers : AllFail(PlanServe(c, prev_tier, k)) /\ k <= prev_tier =>
              ~ Takeable(c, k, c)
         /\ \A best \in Tiers : AllFail(PlanStrict(c, best)) =>
              \A j \in Tiers, o \in Peers(c) : j < best => ~ Takeable(o, j, c)
<1>1. ASSUME AllFail(PlanFirst(c)) PROVE ~ Takeable(c, LC, c)
  <2>1. take_from_local_tier(LC, c).from = {}
    BY <1>1 DEF AllFail, PlanFirst
  <2>2. QED
    BY <2>1 DEF take_from_local_tier
<1>2. ASSUME NEW k \in Tiers, AllFail(PlanServe(c, prev_tier, k)), k <= prev_tier
      PROVE  ~ Takeable(c, k, c)
  <2>1. looks_at(prev_tier, k)
    BY <1>2 DEF looks_at, Tiers, LC, GREEDY, EMPTY
  <2>2. take_from_local_tier(k, c).from = {}
    BY <1>2, <2>1 DEF AllFail, PlanServe
  <2>3. QED
    BY <2>2 DEF take_from_local_tier
<1>3. ASSUME NEW best \in Tiers, AllFail(PlanStrict(c, best)), NEW j \in Tiers,
             NEW o \in Peers(c), j < best
      PROVE  ~ Takeable(o, j, c)
  <2>1. best # EMPTY /\ best - 1 \in Nat /\ j \in 1 .. best - 1
    BY <1>3 DEF Tiers, LC, GREEDY, EMPTY
  <2> DEFINE s == [k \in 1 .. best - 1 |-> take_from_other_tier(k, c, TRUE)]
  <2>2. PlanStrict(c, best) = s /\ Len(s) = best - 1 /\ s[j] = take_from_other_tier(j, c, TRUE)
    BY <2>1 DEF PlanStrict
  <2>3. take_from_other_tier(j, c, TRUE).from = {}
    BY <1>3, <2>1, <2>2 DEF AllFail
  <2>4. QED
    BY <2>3 DEF take_from_other_tier, Peers
<1>4. QED
  BY <1>1, <1>2, <1>3

\* No task of a better tier waits when a cpu that has something to run takes one.
LEMMA TakesBest ==
  ASSUME Inv, QueueInv, NEW c \in CPUs, NEW prev_tier \in Tiers \cup {EMPTY},
         prev_tier # EMPTY \/ \E k \in Tiers : dsq[c][k] # <<>>,
         NEW r \in dispatch_dsq_per_cpu(c, prev_tier, EMPTY)
  PROVE  ~ BetterWaits(c, r.tier)
<1> DEFINE Own == {INTERACTIVE, NORMAL, GREEDY}
<1>1. PICK best : best = local_best(c, prev_tier)
  OBVIOUS
<1>2. /\ best \in Tiers \cup {EMPTY} /\ best <= prev_tier
      /\ best = prev_tier \/ (best \in Own /\ dsq[c][best] # <<>>)
      /\ \A j \in Own : j < best => dsq[c][j] = <<>>
  BY <1>1, LocalBest
<1>3. Own \subseteq Tiers /\ \A j \in Tiers : j = LC \/ j \in Own
  BY DEF Tiers, LC, INTERACTIVE, NORMAL, GREEDY
<1>4. CASE FirstIn(r, PlanFirst(c))
  <2>1. r.tier = LC
    BY <1>4 DEF FirstIn, PlanFirst, try_acquire_from_rt_cpu, take_from_local_tier
  <2>2. QED
    BY <2>1 DEF BetterWaits, Tiers, LC, GREEDY
<1>5. ASSUME AllFail(PlanFirst(c)), NEW j \in Tiers, j < best PROVE ~ Takeable(c, j, c)
  <2>1. CASE j = LC
    BY <1>5, <2>1, FailedLooks
  <2>2. CASE j \in Own
    BY <1>2, <1>5, <2>2, EmptyNotTakeable
  <2>3. QED
    BY <1>3, <2>1, <2>2
<1>6. CASE AllFail(PlanFirst(c)) /\ FirstIn(r, PlanStrict(c, best))
  <2>1. best # EMPTY
    BY <1>6 DEF FirstIn, PlanStrict
  <2>2. best \in Tiers /\ best - 1 \in Nat
    BY <1>2, <2>1 DEF Tiers, LC, GREEDY
  <2> DEFINE s == [k \in 1 .. best - 1 |-> take_from_other_tier(k, c, TRUE)]
  <2>3. PlanStrict(c, best) = s /\ Len(s) = best - 1
    BY <2>1, <2>2 DEF PlanStrict
  <2>4. PICK i \in 1 .. best - 1 : r.tier = s[i].tier /\ \A j \in 1 .. i - 1 : s[j].from = {}
    BY <1>6, <2>3 DEF FirstIn
  <2>5. r.tier = i
    BY <2>4 DEF take_from_other_tier
  <2>6. ASSUME NEW j \in Tiers, j < i PROVE \A o \in {c} \cup Peers(c) : ~ Takeable(o, j, c)
    <3>1. j \in 1 .. i - 1 /\ j \in 1 .. best - 1 /\ j < best
      BY <2>2, <2>4, <2>6 DEF Tiers, LC, GREEDY
    <3>2. take_from_other_tier(j, c, TRUE).from = {}
      BY <2>4, <3>1
    <3>3. \A o \in Peers(c) : ~ Takeable(o, j, c)
      BY <3>2 DEF take_from_other_tier, Peers
    <3>4. QED
      BY <1>5, <1>6, <3>1, <3>3
  <2>7. QED
    BY <2>5, <2>6 DEF BetterWaits
<1>7. CASE AllFail(PlanFirst(c)) /\ AllFail(PlanStrict(c, best))
  <2>1. best \in Tiers
    <3> SUFFICES ASSUME best = EMPTY PROVE FALSE
      BY <1>2
    <3>1. prev_tier = EMPTY /\ \A j \in Own : dsq[c][j] = <<>>
      BY <1>2 DEF Tiers, LC, INTERACTIVE, NORMAL, GREEDY, EMPTY
    <3>2. dsq[c][LC] # <<>> /\ LC \in Tiers
      BY <1>3, <3>1 DEF Tiers, LC, GREEDY
    <3>3. QED
      BY <1>7, <3>2, WaitsTakeable, FailedLooks
  <2>2. ASSUME NEW j \in Tiers, j < best PROVE \A o \in {c} \cup Peers(c) : ~ Takeable(o, j, c)
    BY <1>5, <1>7, <2>1, <2>2, FailedLooks
  <2>3. ASSUME NEW k \in Own, AllFail(PlanServe(c, prev_tier, k))
        PROVE  best # k \/ best = prev_tier
    BY <1>2, <1>3, <2>3, WaitsTakeable, FailedLooks
  <2>4. ASSUME NEW k \in Own, FirstIn(r, PlanServe(c, prev_tier, k)),
               \A j \in Own : j < k => AllFail(PlanServe(c, prev_tier, j))
        PROVE  ~ BetterWaits(c, r.tier)
    <3>1. looks_at(prev_tier, k)
      BY <2>4 DEF FirstIn, PlanServe
    <3>2. r.tier = k
      BY <2>4, <3>1 DEF FirstIn, PlanServe, try_acquire_from_rt_cpu, take_from_local_tier
    <3>3. k <= best
      <4> SUFFICES ASSUME best < k PROVE FALSE
        BY <1>3, <2>1 DEF Tiers, LC, GREEDY
      <4>1. best # prev_tier
        BY <3>1 DEF looks_at
      <4>2. QED
        BY <1>2, <2>3, <2>4, <4>1
    <3>4. \A j \in Tiers : j < k => j < best
      BY <1>3, <2>1, <3>3 DEF Tiers, LC, GREEDY
    <3>5. QED
      BY <2>2, <3>2, <3>4 DEF BetterWaits
  <2>5. ASSUME FirstIn(r, PlanSteal(c, prev_tier)), \A j \in Own : AllFail(PlanServe(c, prev_tier, j))
        PROVE  FALSE
    <3>1. ~ (prev_tier <= GREEDY)
      BY <2>5 DEF FirstIn, PlanSteal
    <3>2. best # prev_tier
      BY <2>1, <3>1 DEF Tiers, LC, GREEDY
    <3>3. QED
      BY <1>2, <2>3, <2>5, <3>2
  <2>6. \/ \E k \in Own : /\ FirstIn(r, PlanServe(c, prev_tier, k))
                          /\ \A j \in Own : j < k => AllFail(PlanServe(c, prev_tier, j))
        \/ /\ \A j \in Own : AllFail(PlanServe(c, prev_tier, j))
           /\ FirstIn(r, PlanSteal(c, prev_tier))
        \/ FirstIn(r, PlanFirst(c))
        \/ FirstIn(r, PlanStrict(c, best))
    BY <1>1, PlanFinds
  <2>7. QED
    BY <1>4, <1>6, <1>7, <2>4, <2>5, <2>6
<1>8. QED
  BY <1>1, <1>4, <1>6, <1>7, PlanFinds

\* No task of a better tier waits when the running one goes on.
LEMMA KeepsBest ==
  ASSUME Inv, QueueInv, NEW c \in CPUs, NEW prev_tier \in Tiers, NEW starved \in Tiers \cup {EMPTY},
         dispatch_dsq_per_cpu(c, prev_tier, starved) = {}
  PROVE  ~ BetterWaits(c, prev_tier)
<1>1. PICK best : best = local_best(c, prev_tier)
  OBVIOUS
<1>2. /\ best \in Tiers \cup {EMPTY} /\ best <= prev_tier
      /\ best = prev_tier \/ (best \in {INTERACTIVE, NORMAL, GREEDY} /\ dsq[c][best] # <<>>)
  BY <1>1, LocalBest
<1>3. best = prev_tier
  <2> SUFFICES ASSUME best # prev_tier PROVE FALSE
    OBVIOUS
  <2>1. best \in Tiers
    BY <1>2 DEF Tiers, LC, INTERACTIVE, NORMAL, GREEDY
  <2>2. QED
    BY <1>2, <2>1, WaitsTakeable, OwnQueuesFail
<1>4. ASSUME NEW j \in Tiers, j < prev_tier PROVE \A o \in {c} \cup Peers(c) : ~ Takeable(o, j, c)
  <2>1. j <= prev_tier
    BY <1>4 DEF Tiers, LC, GREEDY
  <2>2. ~ Takeable(c, j, c)
    BY <2>1, OwnQueuesFail
  <2>3. AllFail(PlanStrict(c, prev_tier))
    BY <1>1, <1>3, PlanFails
  <2>4. QED
    BY <1>4, <2>2, <2>3, FailedLooks
<1>5. QED
  BY <1>4 DEF BetterWaits

-----------------------------------------------------------------------------
(* The steps                                                               *)

\* What StrictTiers says of one cpu.
StrictAt(c) ==
  /\ TakesTask(c) /\ HasWork(c) => ~ BetterWaits(c, effective_tier(tctx[next'[c]]))
  /\ KeepsPrev(c) /\ tctx'[curr[c]].boost_dsq_type = tctx[curr[c]].boost_dsq_type
       => ~ BetterWaits(c, effective_tier(tctx'[curr[c]]))

\* A dispatch by c.
LEMMA DispatchStrict ==
  ASSUME Inv, Places, NEW c \in Online, NEW k \in Classes(curr[c]), NEW spent \in BOOLEAN,
         Dispatch(c, k, spent, EMPTY)
  PROVE  StrictAt(c)
<1> USE ConstantsAssumption DEF Inv, TypeOK
<1> DEFINE px == IF PrevRuns(c) THEN dispatch_prev(c, k, spent) ELSE init_task_ctx(NoTask)
           prev_tier == IF PrevRuns(c) THEN effective_tier(px) ELSE EMPTY
           found == dispatch_dsq_per_cpu(c, prev_tier, EMPTY)
           kept == IF spent THEN Unboosted(px) ELSE px
<1>1. PrevRuns(c) => curr[c] \in Tasks /\ tctx[curr[c]] \in CtxType /\ k \in Tiers
  BY DEF PrevRuns, Classes, CtxTypeOK
<1>2. px \in CtxType
  BY <1>1, CtxSteps, UnboostedCtx, InitTaskCtx DEF dispatch_prev
<1>3. /\ prev_tier \in Tiers \cup {EMPTY} /\ c \in CPUs
      /\ PrevRuns(c) => prev_tier \in Tiers
  BY <1>2, EffectiveTier
<1>4. EMPTY \in Tiers \cup {EMPTY} /\ EMPTY \notin Tiers
  BY DEF Tiers, LC, GREEDY, EMPTY
<1>5. \/ \E r \in found : next' = [next EXCEPT ![c] = dsq[r.from][r.tier][FirstFor(r.from, r.tier, c)]]
      \/ next' = next
      \/ next' = [next EXCEPT ![c] = Idle]
  BY DEF Dispatch
<1>6. ASSUME TakesTask(c), HasWork(c) PROVE ~ BetterWaits(c, effective_tier(tctx[next'[c]]))
  <2>1. prev_tier # EMPTY \/ \E l \in Tiers : dsq[c][l] # <<>>
    BY <1>3, <1>4, <1>6 DEF HasWork
  <2> HIDE DEF px, prev_tier, found
  <2>2. PICK r \in found :
          next' = [next EXCEPT ![c] = dsq[r.from][r.tier][FirstFor(r.from, r.tier, c)]]
    BY <1>5, <1>6 DEF TakesTask, CpuTypeOK
  <2>3. r.tier \in Tiers /\ r.from \in CPUs /\ Takeable(r.from, r.tier, c)
    BY <1>3, <1>4, <2>2, DispatchFinds DEF found
  <2>4. FirstFor(r.from, r.tier, c) \in 1 .. Len(dsq[r.from][r.tier])
    BY <1>3, <2>3, FirstForExists
  <2>5. effective_tier(tctx[next'[c]]) = r.tier
    BY <1>3, <2>2, <2>3, <2>4 DEF Places, QueueInv, CpuTypeOK
  <2>6. ~ BetterWaits(c, r.tier)
    BY <1>3, <2>1, <2>2, TakesBest DEF found, Places
  <2>7. QED
    BY <2>5, <2>6
<1>7. ASSUME KeepsPrev(c), tctx'[curr[c]].boost_dsq_type = tctx[curr[c]].boost_dsq_type
      PROVE  ~ BetterWaits(c, effective_tier(tctx'[curr[c]]))
  <2>1. PrevRuns(c) /\ slice' # slice
    BY <1>7 DEF KeepsPrev, PrevRuns
  <2>2. found = {} /\ tctx' = [tctx EXCEPT ![curr[c]] = kept]
    BY <2>1 DEF Dispatch
  <2>3. PICK x : x = tctx[curr[c]]
    OBVIOUS
  <2>4. x \in CtxType /\ k \in Tiers /\ tctx'[curr[c]] = kept
    BY <1>1, <2>1, <2>2, <2>3 DEF CtxTypeOK
  <2>5. px = Reclassified(IF ~ dctx[c].preempt_pending /\ spent THEN Unboosted(x) ELSE x, k)
    BY <2>1, <2>3 DEF dispatch_prev
  <2>6. kept.boost_dsq_type = x.boost_dsq_type
    BY <1>7, <2>3, <2>4
  <2>7. effective_tier(kept) = effective_tier(px)
    BY <2>4, <2>5, <2>6 DEF Reclassified, Unboosted, CtxType, effective_tier
  <2>8. prev_tier = effective_tier(px) /\ prev_tier \in Tiers
    BY <1>3, <2>1
  <2> HIDE DEF px, prev_tier, kept
  <2>9. ~ BetterWaits(c, prev_tier)
    BY <1>3, <1>4, <2>2, <2>8, KeepsBest DEF Places
  <2>10. QED
    BY <2>4, <2>7, <2>8, <2>9
<1>8. QED
  BY <1>6, <1>7 DEF StrictAt

\* Every other step neither takes a task from a queue for c nor keeps one.
LEMMA OtherStrict ==
  ASSUME Inv, Places, NEW c \in Online, [Next]_vars,
         ~ \E k \in Classes(curr[c]), spent \in BOOLEAN, starved \in StarvedTiers \cup {EMPTY} :
             Dispatch(c, k, spent, starved)
  PROVE  ~ TakesTask(c) /\ ~ KeepsPrev(c)
<1> USE ConstantsAssumption DEF Inv, TypeOK
<1>1. CASE UNCHANGED vars
  BY <1>1 DEF vars, kernel, TakesTask, KeepsPrev
<1>2. ASSUME NEW t \in Tasks, TaskStep(t) PROVE ~ TakesTask(c) /\ ~ KeepsPrev(c)
  <2>1. next' = next
    BY <1>2 DEF TaskStep, Enqueue, WakeUp, WakeUpInPlace, ChangeAttr, DirectInsert, EnqueuePlace,
       EnqueueInsert, EnqueueObserve, EnqueueKick
  <2>2. slice' = slice \/ (/\ enq[t].at \in {"direct", "insert"}
                           /\ slice' = [slice EXCEPT ![t] = TRUE])
    BY <1>2 DEF TaskStep, Enqueue, WakeUp, WakeUpInPlace, ChangeAttr, DirectInsert, EnqueuePlace,
       EnqueueInsert, EnqueueObserve, EnqueueKick
  <2>3. enq[t].at \in {"direct", "insert"} => state[t] = "enqueue"
    BY DEF Places, TasksInv, EnqAt
  <2>4. QED
    BY <2>1, <2>2, <2>3 DEF TakesTask, KeepsPrev, TaskTypeOK
<1>3. ASSUME NEW d \in Online, NEW k \in Classes(curr[d]), NEW spent \in BOOLEAN,
             NEW starved \in StarvedTiers \cup {EMPTY}, Dispatch(d, k, spent, starved)
      PROVE  ~ TakesTask(c) /\ ~ KeepsPrev(c)
  <2>1. c # d
    BY <1>3
  <2>2. (\E t \in Tasks : Takes(d, t)) \/ Keeps(d) \/ GoesIdle(d)
    BY <1>3, DispatchCases
  <2>3. next'[c] = next[c]
    BY <2>1, <2>2 DEF Takes, Keeps, GoesIdle, CpuTypeOK
  <2>4. slice' = slice \/ (curr[d] \in Tasks /\ slice' = [slice EXCEPT ![curr[d]] = TRUE])
    BY <2>2 DEF Takes, Keeps, GoesIdle, PrevRuns
  <2>5. curr[d] \in Tasks => curr[d] # curr[c]
    BY <2>1, CurrOnce
  <2>6. QED
    BY <2>3, <2>4, <2>5 DEF TakesTask, KeepsPrev, TaskTypeOK
<1>4. ASSUME NEW d \in Online, CpuStep(d),
             ~ \E k \in Classes(curr[d]), spent \in BOOLEAN, starved \in StarvedTiers \cup {EMPTY} :
                 Dispatch(d, k, spent, starved)
      PROVE  ~ TakesTask(c) /\ ~ KeepsPrev(c)
  <2>1. \A u \in Tasks : slice'[u] => slice[u]
    BY <1>4 DEF CpuStep, Course, KickIdle, KickPreempt, SliceEnd, PickNext, PutPrev, Switch,
       SchedSwitch, ReenqueueLocal, HigherWakes, HigherSleeps, Sleep, Exit, TaskTypeOK
  <2>2. \/ next' = next
        \/ next' = [next EXCEPT ![d] = Idle]
        \/ next' = [next EXCEPT ![d] = hi[d]]
        \/ local[d] # <<>> /\ \E x : next' = [next EXCEPT ![d] = x]
    BY <1>4 DEF CpuStep, Course, KickIdle, KickPreempt, SliceEnd, PickNext, PutPrev, Switch,
       SchedSwitch, ReenqueueLocal, HigherWakes, HigherSleeps, Sleep, Exit
  <2>3. ~ TakesTask(c)
    BY <2>2 DEF TakesTask, CpuTypeOK
  <2>4. ~ KeepsPrev(c)
    BY <2>1 DEF KeepsPrev
  <2>5. QED
    BY <2>3, <2>4
<1>5. QED
  BY <1>1, <1>2, <1>3, <1>4 DEF Next

\* Tiers are strict: without a starvation override, a cpu that has something to
\* run of its own takes no task, and keeps none, while a task of a better tier
\* waits on a cpu of its LLC (lunar_dispatch, dispatch_dsq_per_cpu).
THEOREM SchedStrictTiers ==
  ASSUME StarvedTiers = {}
  PROVE  Spec => StrictTiers
<1>1. Inv /\ Places /\ [Next]_vars =>
        [\A c \in Online :
          /\ TakesTask(c) /\ HasWork(c) => ~ BetterWaits(c, effective_tier(tctx[next'[c]]))
          /\ KeepsPrev(c) /\ tctx'[curr[c]].boost_dsq_type = tctx[curr[c]].boost_dsq_type
               => ~ BetterWaits(c, effective_tier(tctx'[curr[c]]))]_vars
  <2> SUFFICES ASSUME Inv, Places, [Next]_vars, NEW c \in Online PROVE StrictAt(c)
    BY DEF StrictAt
  <2>1. CASE \E k \in Classes(curr[c]), spent \in BOOLEAN, starved \in StarvedTiers \cup {EMPTY} :
               Dispatch(c, k, spent, starved)
    BY <2>1, DispatchStrict
  <2>2. CASE ~ \E k \in Classes(curr[c]), spent \in BOOLEAN, starved \in StarvedTiers \cup {EMPTY} :
               Dispatch(c, k, spent, starved)
    BY <2>2, OtherStrict DEF StrictAt
  <2>3. QED
    BY <2>1, <2>2
<1>2. QED
  BY <1>1, SchedInvariant, SchedPlaces, PTL DEF Spec, StrictTiers

=============================================================================
