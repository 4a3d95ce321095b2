----------------------------- MODULE LunarSched -----------------------------
(***************************************************************************)
(* The scheduling core of scx_lunar: the sched_ext callbacks of            *)
(* source/lunar.bpf.c and the placement and dispatch code they call, run   *)
(* by the kernel on several cpus at once.                                  *)
(*                                                                         *)
(* Every cpu walks through __schedule() with the program counter sched[c]: *)
(*                                                                         *)
(*   run -> pick -> switch -> hook -> run                                  *)
(*                                                                         *)
(* and every wakeup or requeue of a task walks through enq[t]:             *)
(*                                                                         *)
(*   place -> observe -> kick -> insert -> none                            *)
(*                                                                         *)
(* The insertion comes last: scx_bpf_dsq_insert() called from ops.enqueue  *)
(* only notes the queue in the task, and the kernel puts it there after    *)
(* the callback has returned (direct_dispatch).                            *)
(*                                                                         *)
(* A callback is one step where the kernel holds the lock of everything it *)
(* touches, and is split where it reads the state of another cpu without   *)
(* a lock.  Time is left out: a slice is over or not, a budget is used up  *)
(* or not, a rate limit applies or not, each a choice of the step that     *)
(* reads the clock.  The tier a task is given by its behaviour             *)
(* (update_task_dsq_type) is any member of OwnTiers, modelled by itself in *)
(* LunarTask.                                                              *)
(***************************************************************************)
EXTENDS Integers, Sequences, FiniteSets

CONSTANTS
  CPUs,          \* possible cpus: each has a queue per tier
  Online,        \* the cpus that are online (cpu_online)
  LLC,           \* the last level cache of a cpu (cpu_to_llc)
  Tasks,         \* sched_ext tasks
  Allowed,       \* the affinity of a task (p->cpus_ptr)
  Kthreads,      \* the tasks that are kernel threads (PF_KTHREAD)
  Mortal,        \* the tasks that may exit
  Retuned,       \* the tasks with attributes that change while they wait
  OwnTiers,      \* the tiers update_task_dsq_type() may give a task
  StarvedTiers,  \* tiers that may be found starved at a dispatch
  Higher,        \* the kinds of realtime tasks, Rt or PercpuRt, that come to a cpu
  Idle,          \* the idle task of a cpu
  Rt,            \* a task with a realtime or deadline policy
  PercpuRt,      \* a per-cpu kernel thread with a realtime policy
  NoTask         \* no waker: a wakeup from an interrupt

LC          == 1
INTERACTIVE == 2
NORMAL      == 3
GREEDY      == 4
EMPTY       == 5
Tiers       == LC .. GREEDY

RT_CPU_LOAD     == 2
BALANCE_SAMPLES == 2

ASSUME ConstantsAssumption ==
  /\ Online \subseteq CPUs
  /\ IsFiniteSet(CPUs)
  /\ Allowed \in [Tasks -> SUBSET CPUs]
  /\ \A t \in Tasks : Allowed[t] \cap Online # {}
  /\ Kthreads \cup Mortal \cup Retuned \subseteq Tasks
  /\ OwnTiers \in [Tasks -> (SUBSET Tiers) \ {{}}]
  /\ StarvedTiers \subseteq INTERACTIVE .. GREEDY
  /\ Higher \in [CPUs -> SUBSET {Rt, PercpuRt}]
  /\ Rt # PercpuRt /\ Idle # Rt /\ Idle # PercpuRt
  /\ {Idle, Rt, PercpuRt, NoTask} \cap Tasks = {}

VARIABLES
  \* struct task_ctx and struct dispatch_ctx, without their clocks
  tctx,        \* task -> its tier, its boost and whether it resumes a slice
  dctx,        \* cpu -> tier of the running task, preempt_pending, rt_busy
  nr_rt_busy,  \* number of cpus an RT task runs on
  \* the kernel's side
  dsq,         \* cpu -> tier -> the queue of waiting tasks
  local,       \* cpu -> its local DSQ: the tasks that run next
  curr,        \* cpu -> the task that is on it (rq->curr)
  next,        \* cpu -> the task it is about to switch to
  hi,          \* cpu -> the realtime task waiting for it, or NoTask
  sched,       \* cpu -> where it is in __schedule()
  resched,     \* cpus with TIF_NEED_RESCHED
  reenq,       \* cpus whose local DSQ is to be enqueued again
  kicks,       \* kicks that are on their way: <<cpu, kind>>
  idle,        \* the kernel's idle mask
  state,       \* task -> where it is
  task_cpu,    \* task -> the cpu whose run queue it belongs to
  slice,       \* task -> whether it has time left (p->scx.slice)
  enq          \* task -> its enqueue in progress

kernel == <<dsq, local, curr, next, hi, sched, resched, reenq, kicks, idle,
            state, task_cpu, slice, enq>>
vars == <<tctx, dctx, nr_rt_busy, kernel>>

-----------------------------------------------------------------------------
(* Tiers and boosts                                                        *)

\* The tier a task runs in: its own, or the better one of a wake boost.
effective_tier(x) ==
  IF x.boost_dsq_type < x.current_dsq_type
  THEN x.boost_dsq_type ELSE x.current_dsq_type

Unboosted(x) == [x EXCEPT !.boost_dsq_type = EMPTY]

\* x after update_task_dsq_type() found that the task belongs to tier k.
Reclassified(x, k) == [x EXCEPT !.current_dsq_type = k]

\* x, the context of task t, after a wakeup by task w (NoTask: an interrupt).
apply_wake_boost(t, x, w) ==
  IF /\ w # NoTask
     /\ w # t
     /\ w \notin Kthreads
     /\ effective_tier(tctx[w]) < x.current_dsq_type
     /\ effective_tier(tctx[w]) < x.boost_dsq_type
  THEN [x EXCEPT !.boost_dsq_type = effective_tier(tctx[w])]
  ELSE x

\* Variant: boost_dsq_type is left zeroed.
init_task_ctx_NoBoostInit(t) ==
  [current_dsq_type |-> IF t \in Kthreads THEN INTERACTIVE ELSE GREEDY,
   boost_dsq_type   |-> 0,
   resume_slice     |-> FALSE]

\* The part of lunar_init_task that sets the tier.
init_task_ctx(t) ==
  [current_dsq_type |-> IF t \in Kthreads THEN INTERACTIVE ELSE GREEDY,
   boost_dsq_type   |-> EMPTY,
   resume_slice     |-> FALSE]

-----------------------------------------------------------------------------
(* Helpers on cpus and queues                                              *)

\* Per-cpu kernel threads with a realtime policy do not count (is_rt_task).
is_rt_task(x) == x = Rt

\* Variant: cpu_online is not consulted.
cpu_is_online_Always(c) == TRUE

cpu_is_online(c) == c \in Online

cpu_taken_by_rt(c) == is_rt_task(curr[c])

Pinned(t) == Cardinality(Allowed[t]) = 1

\* The cpus of c's cache that it may take tasks from.
Peers(c) == {o \in CPUs \ {c} : cpu_is_online(o) /\ LLC[o] = LLC[c]}

\* Number of tasks ahead of one of this tier on cpu c.
cpu_load_ahead(c, tier) ==
  (IF dctx[c].current_task_dsq_type <= tier THEN 1
   ELSE IF cpu_taken_by_rt(c) THEN RT_CPU_LOAD ELSE 0)
  + Len(local[c])
  + Len(dsq[c][LC])
  + (IF tier >= INTERACTIVE THEN Len(dsq[c][INTERACTIVE]) ELSE 0)
  + (IF tier >= NORMAL THEN Len(dsq[c][NORMAL]) ELSE 0)
  + (IF tier >= GREEDY THEN Len(dsq[c][GREEDY]) ELSE 0)

Without(s, i) == SubSeq(s, 1, i - 1) \o SubSeq(s, i + 1, Len(s))

-----------------------------------------------------------------------------
(* Run queue locks.  An enqueue holds the lock of the task's cpu from its  *)
(* placement to the insertion, __schedule() that of its own cpu throughout.*)

HoldsRq(t) == enq[t].at \in {"observe", "kick", "insert"}

Enqueueing(c) == \E t \in Tasks : HoldsRq(t) /\ task_cpu[t] = c

RqFree(c) == sched[c] = "run" /\ ~ Enqueueing(c)

\* A task cannot be descheduled in the middle of a wakeup it performs.
Waking(c) == \E t \in Tasks : enq[t].at # "none" /\ enq[t].waker = curr[c]

NoEnqueue == [at |-> "none", cpu |-> NoTask, tier |-> EMPTY, wakeup |-> FALSE,
              head |-> FALSE, kick |-> "none", waker |-> NoTask]

BeginEnqueue(at, wakeup, waker) ==
  [NoEnqueue EXCEPT !.at = at, !.wakeup = wakeup, !.waker = waker]

-----------------------------------------------------------------------------
(* Wakeups: ops.select_cpu and ops.runnable                                *)

\* The kernel's default choice of a cpu: any idle one it claims, or none.
select_cpu_dfl(t) ==
  IF idle \cap Allowed[t] # {}
  THEN {[cpu |-> c, is_idle |-> TRUE] : c \in idle \cap Allowed[t]}
  ELSE {[cpu |-> task_cpu[t], is_idle |-> FALSE]}

\* Who may be running the wakeup: an interrupt, or a task on its cpu.
Wakers == {NoTask} \cup
  {w \in Tasks : \E c \in Online :
     curr[c] = w /\ sched[c] = "run" /\ ~ Waking(c) /\ ~ Enqueueing(c)}

\* t is off its cpu: a wakeup waits until the switch away from it is done.
OffCpu(t) == \A c \in Online : curr[c] # t

\* lunar_select_cpu, then lunar_runnable, of a task that sleeps (a wakeup) or
\* is new (a fork, which boosts nobody).  lunar_runnable reclassifies a task
\* that has slept.
WakeUp(t, w, k) ==
  /\ state[t] \in {"blocked", "new"}
  /\ enq[t].at = "none"
  /\ OffCpu(t)
  /\ ~ Pinned(t)
  /\ LET wakeup == state[t] = "blocked"
         x == IF wakeup THEN apply_wake_boost(t, tctx[t], w) ELSE tctx[t]
     IN \E s \in select_cpu_dfl(t) :
          LET direct == /\ s.is_idle
                        /\ cpu_load_ahead(s.cpu, effective_tier(x)) = 0
          IN /\ idle' = idle \ {s.cpu}
             /\ task_cpu' = [task_cpu EXCEPT ![t] = s.cpu]
             /\ tctx' = [tctx EXCEPT ![t] =
                           IF wakeup THEN Reclassified(x, k) ELSE x]
             /\ enq' = [enq EXCEPT ![t] =
                          BeginEnqueue(IF direct THEN "direct" ELSE "place",
                                       wakeup, w)]
  /\ state' = [state EXCEPT ![t] = "enqueue"]
  /\ UNCHANGED <<dctx, nr_rt_busy, dsq, local, curr, next, hi, sched, resched,
                 reenq, kicks, slice>>

\* A wakeup without ops.select_cpu: that of a pinned task, or one that was
\* queued to the task's cpu and arrives there in an interrupt.
WakeUpInPlace(t, w, k) ==
  /\ state[t] \in {"blocked", "new"}
  /\ enq[t].at = "none"
  /\ OffCpu(t)
  /\ Pinned(t) \/ (w = NoTask /\ state[t] = "blocked")
  /\ tctx' = [tctx EXCEPT ![t] =
                IF state[t] = "blocked" THEN Reclassified(@, k) ELSE @]
  /\ enq' = [enq EXCEPT ![t] = BeginEnqueue("place", state[t] = "blocked", w)]
  /\ state' = [state EXCEPT ![t] = "enqueue"]
  /\ UNCHANGED <<dctx, nr_rt_busy, dsq, local, curr, next, hi, sched, resched,
                 reenq, kicks, idle, task_cpu, slice>>

\* The direct dispatch select_cpu asked for: the kernel appends the task to
\* the local DSQ of the chosen cpu, and wakes that cpu if it is idle.
DirectInsert(t) ==
  LET c == task_cpu[t] IN
  /\ enq[t].at = "direct"
  /\ RqFree(c)
  /\ local' = [local EXCEPT ![c] = Append(@, t)]
  /\ slice' = [slice EXCEPT ![t] = TRUE]
  /\ state' = [state EXCEPT ![t] = "local"]
  /\ resched' = IF curr[c] = Idle THEN resched \cup {c} ELSE resched
  /\ enq' = [enq EXCEPT ![t] = NoEnqueue]
  /\ UNCHANGED <<tctx, dctx, nr_rt_busy, dsq, curr, next, hi, sched, reenq,
                 kicks, idle, task_cpu>>

-----------------------------------------------------------------------------
(* ops.enqueue                                                             *)

\* The cpus pick_enqueue_cpu() may return for a task of this tier, each with
\* the idle bits it clears.  limited: the task was moved a short while ago.
pick_enqueue_cpu(t, tier, cpu, limited) ==
  LET best_load == cpu_load_ahead(cpu, tier)
      latency_tier == tier <= INTERACTIVE
      others == Peers(cpu) \cap Allowed[t]
      samples == IF latency_tier \/ Cardinality(others) <= BALANCE_SAMPLES
                 THEN {others}
                 ELSE {s \in SUBSET others : Cardinality(s) = BALANCE_SAMPLES}
      Least(s) == {o \in s : \A q \in s : cpu_load_ahead(o, tier)
                                            <= cpu_load_ahead(q, tier)}
      Better(s) == {o \in Least(s) : cpu_load_ahead(o, tier) < best_load}
      Pick(s) == IF Better(s) = {} THEN {cpu} ELSE Better(s)
  IN IF best_load = 0
     THEN {[cpu |-> cpu, claimed |-> {cpu}]}
     ELSE IF Pinned(t)
     THEN {[cpu |-> cpu, claimed |-> {}]}
     ELSE IF idle \cap Allowed[t] # {}
     THEN {[cpu |-> c, claimed |-> {c}] : c \in idle \cap Allowed[t]}
     ELSE IF ~ latency_tier /\ limited /\ ~ cpu_taken_by_rt(cpu)
     THEN {[cpu |-> cpu, claimed |-> {}]}
     ELSE {[cpu |-> c, claimed |-> {}] : c \in UNION {Pick(s) : s \in samples}}

\* Variant: the tier is read before the boost is applied.
enqueue_tier_Early(t, x) == effective_tier(tctx[t])

\* The tier t is queued in, x being its context after the wake boost.
enqueue_tier(t, x) == effective_tier(x)

\* Who a wakeup boosts for in ops.enqueue: the waker, or nobody when the
\* wakeup was queued to the target cpu and arrives there in an interrupt.
BoostContexts(t) == IF enq[t].wakeup THEN {enq[t].waker, NoTask} ELSE {NoTask}

\* The enqueue e goes on with this cpu and tier: at the head of the queue at once,
\* otherwise with the look at the cpu.
Placed(e, cpu, tier, head) ==
  [e EXCEPT !.at = IF head THEN "insert" ELSE "observe",
            !.cpu = cpu, !.tier = tier, !.head = head]

\* The placement half of lunar_enqueue.  A preempted task keeps its cpu and
\* goes to the head of its queue, unless that cpu is taken by an RT task.
EnqueuePlace(t, limited) ==
  LET cpu == task_cpu[t] IN
  /\ enq[t].at = "place"
  /\ ~ Enqueueing(cpu)
  /\ sched[cpu] = "run" \/ curr[cpu] = t
  /\ \E w \in BoostContexts(t) :
       LET x == apply_wake_boost(t, tctx[t], w)
           tier == enqueue_tier(t, x)
           resumes == x.resume_slice /\ ~ cpu_taken_by_rt(cpu)
       IN /\ tctx' = [tctx EXCEPT ![t] = [x EXCEPT !.resume_slice = FALSE]]
          /\ \/ /\ resumes
                /\ enq' = [enq EXCEPT ![t] = Placed(@, cpu, tier, TRUE)]
                /\ idle' = idle
             \/ /\ ~ resumes
                /\ \E r \in pick_enqueue_cpu(t, tier, cpu, limited) :
                     /\ enq' = [enq EXCEPT ![t] =
                          Placed(@, IF cpu_is_online(r.cpu) THEN r.cpu ELSE cpu, tier, FALSE)]
                     /\ idle' = idle \ r.claimed
  /\ UNCHANGED <<dctx, nr_rt_busy, dsq, local, curr, next, hi, sched, resched,
                 reenq, kicks, state, task_cpu, slice>>

\* The cpu lunar_enqueue wakes: the one it placed the task on.
kick_target(t) == enq[t].cpu

\* SCX_KICK_IDLE is dropped for a cpu that can be locked and is not idle.
kick_idle(c) == IF RqFree(c) /\ curr[c] # Idle THEN "none" ELSE "idle"

\* The end of lunar_enqueue: it reads what the target cpu runs, without a
\* lock, and wakes the cpu if that is nothing.  A waking LC task preempts.
EnqueueObserve(t) ==
  LET e == enq[t]
      running == dctx[e.cpu].current_task_dsq_type
      preempts == e.tier = LC /\ e.wakeup /\ running > e.tier
  IN
  /\ e.at = "observe"
  /\ enq' = [enq EXCEPT ![t] =
       IF running = EMPTY THEN [e EXCEPT !.at = "insert", !.kick = kick_idle(e.cpu)]
       ELSE [e EXCEPT !.at = IF preempts THEN "kick" ELSE "insert"]]
  /\ UNCHANGED <<tctx, dctx, nr_rt_busy, dsq, local, curr, next, hi, sched,
                 resched, reenq, kicks, idle, state, task_cpu, slice>>

EnqueueKick(t) ==
  LET e == enq[t] IN
  /\ e.at = "kick"
  /\ dctx' = [dctx EXCEPT ![e.cpu] = [@ EXCEPT !.preempt_pending = TRUE]]
  /\ enq' = [enq EXCEPT ![t] = [e EXCEPT !.at = "insert", !.kick = "preempt"]]
  /\ UNCHANGED <<tctx, nr_rt_busy, dsq, local, curr, next, hi, sched, resched,
                 reenq, kicks, idle, state, task_cpu, slice>>

\* The insertion, after lunar_enqueue has returned.  The kick goes out when the
\* lock is given back: it is sent from an interrupt.  A task put back at the head
\* kicks nobody, its cpu is in __schedule().
EnqueueInsert(t) ==
  LET e == enq[t] IN
  /\ e.at = "insert"
  /\ dsq' = [dsq EXCEPT ![e.cpu][e.tier] =
               IF e.head THEN <<t>> \o @ ELSE Append(@, t)]
  /\ slice' = [slice EXCEPT ![t] = TRUE]
  /\ state' = [state EXCEPT ![t] = "queued"]
  /\ kicks' = IF e.kick = "none" THEN kicks ELSE kicks \cup {<<kick_target(t), e.kick>>}
  /\ enq' = [enq EXCEPT ![t] = NoEnqueue]
  /\ UNCHANGED <<tctx, dctx, nr_rt_busy, local, curr, next, hi, sched, resched,
                 reenq, idle, task_cpu>>

-----------------------------------------------------------------------------
(* Kicks, ticks and realtime tasks: what makes a cpu reschedule            *)

\* A kick arrives.  SCX_KICK_IDLE reschedules a cpu that is idle,
\* SCX_KICK_PREEMPT takes the slice of the running sched_ext task.
KickIdle(c) ==
  /\ <<c, "idle">> \in kicks
  /\ RqFree(c)
  /\ kicks' = kicks \ {<<c, "idle">>}
  /\ resched' = IF curr[c] = Idle THEN resched \cup {c} ELSE resched
  /\ UNCHANGED <<tctx, dctx, nr_rt_busy, dsq, local, curr, next, hi, sched,
                 reenq, idle, state, task_cpu, slice, enq>>

KickPreempt(c) ==
  /\ <<c, "preempt">> \in kicks
  /\ RqFree(c)
  /\ kicks' = kicks \ {<<c, "preempt">>}
  /\ slice' = [t \in Tasks |-> IF t = curr[c] THEN FALSE ELSE slice[t]]
  /\ resched' = resched \cup {c}
  /\ UNCHANGED <<tctx, dctx, nr_rt_busy, dsq, local, curr, next, hi, sched,
                 reenq, idle, state, task_cpu, enq>>

\* The tick that ends the slice of the running task.
SliceEnd(c) ==
  /\ RqFree(c)
  /\ curr[c] \in Tasks
  /\ slice[curr[c]]
  /\ slice' = [slice EXCEPT ![curr[c]] = FALSE]
  /\ resched' = resched \cup {c}
  /\ UNCHANGED <<tctx, dctx, nr_rt_busy, dsq, local, curr, next, hi, sched,
                 reenq, kicks, idle, state, task_cpu, enq>>

HigherWakes(c, h) ==
  /\ RqFree(c)
  /\ hi[c] = NoTask
  /\ curr[c] \notin {Rt, PercpuRt}
  /\ hi' = [hi EXCEPT ![c] = h]
  /\ resched' = resched \cup {c}
  /\ UNCHANGED <<tctx, dctx, nr_rt_busy, dsq, local, curr, next, sched, reenq,
                 kicks, idle, state, task_cpu, slice, enq>>

\* The realtime task on c sleeps: __schedule() begins.
HigherSleeps(c) ==
  /\ RqFree(c)
  /\ curr[c] \in {Rt, PercpuRt}
  /\ hi' = [hi EXCEPT ![c] = NoTask]
  /\ sched' = [sched EXCEPT ![c] = "pick"]
  /\ resched' = resched \ {c}
  /\ UNCHANGED <<tctx, dctx, nr_rt_busy, dsq, local, curr, next, reenq, kicks,
                 idle, state, task_cpu, slice, enq>>

-----------------------------------------------------------------------------
(* ops.stopping and ops.quiescent                                          *)

\* Variant: a slice that is not 0 is given back as well.
stopping_ctx_AnySlice(x, runnable, pending, zero, left, k, spent) ==
  LET y == Reclassified(x, k)
      z == IF pending /\ runnable /\ left
           THEN [y EXCEPT !.resume_slice = TRUE] ELSE y
  IN IF ~ z.resume_slice /\ (~ runnable \/ spent) THEN Unboosted(z) ELSE z

\* x after lunar_stopping.  pending: preempt_pending of the cpu; zero: the
\* slice is 0; left: enough of the granted slice is left; spent: the boost
\* has used up its budget.
stopping_ctx(x, runnable, pending, zero, left, k, spent) ==
  LET y == Reclassified(x, k)
      z == IF pending /\ runnable /\ zero /\ left
           THEN [y EXCEPT !.resume_slice = TRUE] ELSE y
  IN IF ~ z.resume_slice /\ (~ runnable \/ spent) THEN Unboosted(z) ELSE z

quiescent_ctx(x) == [Unboosted(x) EXCEPT !.resume_slice = FALSE]

\* Variant: current_task_dsq_type is not reset.
stopping_cpu_NoReset(d) == [d EXCEPT !.preempt_pending = FALSE]

stopping_cpu(d) ==
  [d EXCEPT !.preempt_pending = FALSE, !.current_task_dsq_type = EMPTY]

\* The cpu a task with context x begins to run on (lunar_running), or goes on.
running_cpu(d, x) ==
  [d EXCEPT !.preempt_pending = FALSE, !.current_task_dsq_type = effective_tier(x)]

\* The running task of c goes to sleep (lunar_stopping, lunar_quiescent).
Sleep(c, k) ==
  LET t == curr[c] IN
  /\ RqFree(c)
  /\ ~ Waking(c)
  /\ t \in Tasks
  /\ tctx' = [tctx EXCEPT ![t] =
       quiescent_ctx(stopping_ctx(@, FALSE, dctx[c].preempt_pending,
                                  ~ slice[t], FALSE, k, FALSE))]
  /\ dctx' = [dctx EXCEPT ![c] = stopping_cpu(@)]
  /\ state' = [state EXCEPT ![t] = "blocked"]
  /\ slice' = [slice EXCEPT ![t] = FALSE]
  /\ sched' = [sched EXCEPT ![c] = "pick"]
  /\ resched' = resched \ {c}
  /\ UNCHANGED <<nr_rt_busy, dsq, local, curr, next, hi, reenq, kicks, idle,
                 task_cpu, enq>>

\* It exits instead; its place is free for a new task (lunar_exit_task does
\* nothing, lunar_init_task sets up the context of the next one).
Exit(c) ==
  LET t == curr[c] IN
  /\ RqFree(c)
  /\ ~ Waking(c)
  /\ t \in Mortal
  /\ tctx' = [tctx EXCEPT ![t] = init_task_ctx(t)]
  /\ dctx' = [dctx EXCEPT ![c] = stopping_cpu(@)]
  /\ state' = [state EXCEPT ![t] = "new"]
  /\ slice' = [slice EXCEPT ![t] = FALSE]
  /\ sched' = [sched EXCEPT ![c] = "pick"]
  /\ resched' = resched \ {c}
  /\ UNCHANGED <<nr_rt_busy, dsq, local, curr, next, hi, reenq, kicks, idle,
                 task_cpu, enq>>

-----------------------------------------------------------------------------
(* ops.dispatch                                                            *)

Takeable(o, k, c) == \E i \in 1 .. Len(dsq[o][k]) : c \in Allowed[dsq[o][k][i]]

\* The places an attempt to take a task of tier k for cpu c may find one.
take_from_local_tier(k, c) ==
  [tier |-> k, from |-> {o \in {c} : Takeable(o, k, c)}]

take_from_other_tier(k, c, thisLLC) ==
  [tier |-> k,
   from |-> {o \in CPUs \ {c} : /\ cpu_is_online(o)
                                /\ (LLC[o] = LLC[c]) = thisLLC
                                /\ Takeable(o, k, c)}]

try_acquire_from_rt_cpu(k, c) ==
  [tier |-> k,
   from |-> IF nr_rt_busy = 0 THEN {}
            ELSE {o \in Peers(c) : /\ dctx[o].rt_busy
                                   /\ cpu_taken_by_rt(o)
                                   /\ Takeable(o, k, c)}]

\* Variant: only the running task counts.
local_best_PrevOnly(c, prev_tier) == IF prev_tier <= GREEDY THEN prev_tier ELSE EMPTY

\* The best tier c could run next without looking at other cpus.
local_best(c, prev_tier) ==
  LET own == IF prev_tier <= GREEDY THEN prev_tier ELSE EMPTY IN
  IF own > INTERACTIVE /\ dsq[c][INTERACTIVE] # <<>> THEN INTERACTIVE
  ELSE IF own > NORMAL /\ dsq[c][NORMAL] # <<>> THEN NORMAL
  ELSE IF own > GREEDY /\ dsq[c][GREEDY] # <<>> THEN GREEDY
  ELSE own

\* Variant: the last tier is left out.
looks_at_NotLast(prev_tier, k) == ~ (prev_tier < k) /\ k < GREEDY

\* Variant: a running task does not make room for one of its own tier.
looks_at_Better(prev_tier, k) == prev_tier > k

\* Whether a cpu with a running task of prev_tier looks at its queue of tier k.
looks_at(prev_tier, k) == ~ (prev_tier < k)

\* dispatch_dsq_per_cpu: the attempts it makes, in order.  starved is the tier
\* of a starvation override, EMPTY for none.  A tier worse than that of prev is
\* not looked at, and only a cpu with nothing to run steals from others.
Attempts(c, prev_tier, starved) ==
  LET best == local_best(c, prev_tier)
      Serve(k) == IF ~ looks_at(prev_tier, k) THEN <<>>
                  ELSE <<try_acquire_from_rt_cpu(k, c), take_from_local_tier(k, c)>>
      Steal(thisLLC) == [k \in Tiers |-> take_from_other_tier(k, c, thisLLC)]
  IN <<try_acquire_from_rt_cpu(LC, c), take_from_local_tier(LC, c)>>
     \o (IF starved = EMPTY THEN <<>> ELSE <<take_from_local_tier(starved, c)>>)
     \o (IF best = EMPTY THEN <<>>
         ELSE [k \in 1 .. best - 1 |-> take_from_other_tier(k, c, TRUE)])
     \o Serve(INTERACTIVE) \o Serve(NORMAL) \o Serve(GREEDY)
     \o (IF prev_tier <= GREEDY THEN <<>> ELSE Steal(TRUE) \o Steal(FALSE))

\* The tier and the cpu the first successful attempt takes a task from; no
\* element when all fail.
dispatch_dsq_per_cpu(c, prev_tier, starved) ==
  LET plan == Attempts(c, prev_tier, starved)
      succeed == {i \in DOMAIN plan : plan[i].from # {}}
      first == CHOOSE i \in succeed : \A j \in succeed : i <= j
  IN IF succeed = {} THEN {}
     ELSE {[tier |-> plan[first].tier, from |-> o] : o \in plan[first].from}

\* The running task of c, when it stays runnable.
PrevRuns(c) == curr[c] \in Tasks /\ state[curr[c]] = "running"

\* The task a kernel move_to_local takes: the first that may run on c.
FirstFor(o, k, c) ==
  CHOOSE i \in 1 .. Len(dsq[o][k]) :
    /\ c \in Allowed[dsq[o][k][i]]
    /\ \A j \in 1 .. i - 1 : c \notin Allowed[dsq[o][k][j]]

\* c picks its next task: the running one has just left it, or is asked to
\* make room (TIF_NEED_RESCHED).
Picking(c) ==
  \/ sched[c] = "pick"
  \/ c \in resched /\ RqFree(c) /\ ~ Waking(c)

\* No realtime task is there to be picked, so sched_ext is asked for a task.  A
\* running task with time left would simply go on, but only a realtime task makes
\* such a task reschedule.
LooksForTask(c) ==
  /\ Picking(c)
  /\ hi[c] = NoTask
  /\ ~ (PrevRuns(c) /\ slice[curr[c]])

\* prev as lunar_dispatch accounts for it: its boost ends with its budget,
\* unless it is being preempted, and it is classified again.
dispatch_prev(c, k, spent) ==
  LET x == tctx[curr[c]]
  IN Reclassified(IF ~ dctx[c].preempt_pending /\ spent THEN Unboosted(x) ELSE x, k)

\* lunar_dispatch, called because c has nothing in its local DSQ.  A task is
\* moved only when its own run queue can be locked.
Dispatch(c, k, spent, starved) ==
  LET prev == curr[c]
      px == IF PrevRuns(c) THEN dispatch_prev(c, k, spent) ELSE init_task_ctx(NoTask)
      prev_tier == IF PrevRuns(c) THEN effective_tier(px) ELSE EMPTY
      found == dispatch_dsq_per_cpu(c, prev_tier, starved)
      kept == IF spent THEN Unboosted(px) ELSE px
  IN
  /\ LooksForTask(c)
  /\ local[c] = <<>>
  /\ \/ \E r \in found :
          LET i == FirstFor(r.from, r.tier, c)
              t == dsq[r.from][r.tier][i]
          IN /\ enq[t].at = "none"
             /\ OffCpu(t)
             /\ dsq' = [dsq EXCEPT ![r.from][r.tier] = Without(@, i)]
             /\ local' = [local EXCEPT ![c] = <<t>>]
             /\ task_cpu' = [task_cpu EXCEPT ![t] = c]
             /\ state' = [state EXCEPT ![t] = "local"]
             /\ next' = [next EXCEPT ![c] = t]
             /\ tctx' = IF PrevRuns(c) THEN [tctx EXCEPT ![prev] = px] ELSE tctx
             /\ sched' = [sched EXCEPT ![c] = IF PrevRuns(c) THEN "put" ELSE "switch"]
             /\ UNCHANGED <<dctx, slice>>
     \/ /\ found = {} /\ PrevRuns(c)
        /\ tctx' = [tctx EXCEPT ![prev] = kept]
        /\ dctx' = [dctx EXCEPT ![c] = running_cpu(@, kept)]
        /\ slice' = [slice EXCEPT ![prev] = TRUE]
        /\ sched' = [sched EXCEPT ![c] = "run"]
        /\ UNCHANGED <<dsq, local, task_cpu, state, next>>
     \/ /\ found = {} /\ ~ PrevRuns(c)
        /\ next' = [next EXCEPT ![c] = Idle]
        /\ sched' = [sched EXCEPT ![c] = "switch"]
        /\ UNCHANGED <<tctx, dctx, slice, dsq, local, task_cpu, state>>
  /\ resched' = resched \ {c}
  /\ UNCHANGED <<nr_rt_busy, curr, hi, reenq, kicks, idle, enq>>

-----------------------------------------------------------------------------
(* The rest of __schedule()                                                *)

\* The next task: the realtime task, or the head of the local DSQ.
PickNext(c) ==
  /\ \/ Picking(c) /\ hi[c] # NoTask /\ next' = [next EXCEPT ![c] = hi[c]]
     \/ /\ LooksForTask(c) /\ local[c] # <<>>
        /\ next' = [next EXCEPT ![c] = Head(local[c])]
  /\ sched' = [sched EXCEPT ![c] = IF PrevRuns(c) THEN "put" ELSE "switch"]
  /\ resched' = resched \ {c}
  /\ UNCHANGED <<tctx, dctx, nr_rt_busy, dsq, local, curr, hi, reenq, kicks,
                 idle, state, task_cpu, slice, enq>>

\* put_prev_task_scx: lunar_stopping, then the task goes to the head of the
\* local DSQ if it has time left (a realtime task preempts it), and through
\* ops.enqueue otherwise.
PutPrev(c, k, left, spent) ==
  LET t == curr[c] IN
  /\ sched[c] = "put"
  /\ tctx' = [tctx EXCEPT ![t] =
       stopping_ctx(@, TRUE, dctx[c].preempt_pending, ~ slice[t], left, k, spent)]
  /\ dctx' = [dctx EXCEPT ![c] = stopping_cpu(@)]
  /\ \/ /\ slice[t]
        /\ local' = [local EXCEPT ![c] = <<t>> \o @]
        /\ state' = [state EXCEPT ![t] = "local"]
        /\ enq' = enq
     \/ /\ ~ slice[t]
        /\ state' = [state EXCEPT ![t] = "enqueue"]
        /\ enq' = [enq EXCEPT ![t] = BeginEnqueue("place", FALSE, NoTask)]
        /\ local' = local
  /\ sched' = [sched EXCEPT ![c] = "switch"]
  /\ UNCHANGED <<nr_rt_busy, dsq, curr, next, hi, resched, reenq, kicks, idle,
                 task_cpu, slice>>

\* Variant: counts every switch.
count_rt_busy_Always(c, rt) == IF rt THEN nr_rt_busy + 1 ELSE nr_rt_busy - 1

count_rt_busy(c, rt) ==
  IF rt = dctx[c].rt_busy THEN nr_rt_busy
  ELSE IF rt THEN nr_rt_busy + 1 ELSE nr_rt_busy - 1

\* The sched_switch hook has something to do for a switch of c to x.
HookActs(c, x) ==
  is_rt_task(x) \/ dctx[c].rt_busy \/ count_rt_busy(c, is_rt_task(x)) # nr_rt_busy

\* The switch to the next task, with lunar_running if it is one of ours.  The
\* sched_switch hook follows, as a step of its own if it does anything.
Switch(c) ==
  LET t == next[c] IN
  /\ sched[c] = "switch"
  /\ curr[c] \in Tasks => enq[curr[c]].at = "none"
  /\ curr' = [curr EXCEPT ![c] = t]
  /\ idle' = IF t = Idle THEN idle \cup {c} ELSE idle \ {c}
  /\ sched' = [sched EXCEPT ![c] =
       IF t # curr[c] /\ HookActs(c, t) THEN "hook" ELSE "run"]
  /\ \/ /\ t \in Tasks
        /\ local' = [local EXCEPT ![c] = Tail(@)]
        /\ state' = [state EXCEPT ![t] = "running"]
        /\ dctx' = [dctx EXCEPT ![c] = running_cpu(@, tctx[t])]
     \/ t \notin Tasks /\ UNCHANGED <<local, state, dctx>>
  /\ next' = [next EXCEPT ![c] = Idle]
  /\ UNCHANGED <<tctx, nr_rt_busy, dsq, hi, resched, reenq, kicks, task_cpu,
                 slice, enq>>

\* kick_idle_for_waiting: the idle cpu it wakes, as the set of possible ones.
\* Of every tier it looks at the head only.
kick_idle_for_waiting(c) ==
  LET movable == {k \in Tiers : dsq[c][k] # <<>> /\ ~ Pinned(Head(dsq[c][k]))}
      first == CHOOSE k \in movable : \A j \in movable : k <= j
  IN IF movable = {} THEN {} ELSE idle \cap Allowed[Head(dsq[c][first])]

\* lunar_sched_switch.
SchedSwitch(c) ==
  LET rt == is_rt_task(curr[c])
      woken == IF rt THEN kick_idle_for_waiting(c) ELSE {}
  IN
  /\ sched[c] = "hook"
  /\ dctx' = [dctx EXCEPT ![c] = [@ EXCEPT !.rt_busy = rt]]
  /\ nr_rt_busy' = count_rt_busy(c, rt)
  /\ reenq' = IF rt /\ local[c] # <<>> THEN reenq \cup {c} ELSE reenq
  /\ \/ woken = {} /\ UNCHANGED <<idle, kicks>>
     \/ \E i \in woken : idle' = idle \ {i} /\ kicks' = kicks \cup {<<i, "idle">>}
  /\ sched' = [sched EXCEPT ![c] = "run"]
  /\ UNCHANGED <<tctx, dsq, local, curr, next, hi, resched, state, task_cpu,
                 slice, enq>>

-----------------------------------------------------------------------------
(* Requeues                                                                *)

\* scx_bpf_reenqueue_local: the kernel takes the tasks out of the local DSQ
\* and passes each through ops.enqueue again.
ReenqueueLocal(c) ==
  LET out == {local[c][i] : i \in 1 .. Len(local[c])} IN
  /\ c \in reenq
  /\ RqFree(c)
  /\ state' = [t \in Tasks |-> IF t \in out THEN "enqueue" ELSE state[t]]
  /\ enq' = [t \in Tasks |-> IF t \in out THEN BeginEnqueue("place", FALSE, NoTask)
                             ELSE enq[t]]
  /\ local' = [local EXCEPT ![c] = <<>>]
  /\ reenq' = reenq \ {c}
  /\ UNCHANGED <<tctx, dctx, nr_rt_busy, dsq, curr, next, hi, sched, resched,
                 kicks, idle, task_cpu, slice>>

\* A change of an attribute takes a waiting task out of its queue
\* (lunar_quiescent) and enqueues it again (lunar_runnable, lunar_enqueue).
ChangeAttr(t, c, k) ==
  /\ t \in Retuned
  /\ state[t] = "queued"
  /\ enq[t].at = "none"
  /\ RqFree(task_cpu[t])
  /\ \E i \in 1 .. Len(dsq[c][k]) :
       dsq[c][k][i] = t /\ dsq' = [dsq EXCEPT ![c][k] = Without(@, i)]
  /\ tctx' = [tctx EXCEPT ![t] = quiescent_ctx(@)]
  /\ state' = [state EXCEPT ![t] = "enqueue"]
  /\ enq' = [enq EXCEPT ![t] = BeginEnqueue("place", FALSE, NoTask)]
  /\ UNCHANGED <<dctx, nr_rt_busy, local, curr, next, hi, sched, resched, reenq,
                 kicks, idle, task_cpu, slice>>

-----------------------------------------------------------------------------

\* lunar_init and lunar_init_task.  The scheduler may be loaded while realtime
\* tasks run, which the sched_switch hook has not seen.
Init ==
  /\ tctx = [t \in Tasks |-> init_task_ctx(t)]
  /\ dctx = [c \in CPUs |-> [current_task_dsq_type |-> EMPTY,
                             preempt_pending |-> FALSE, rt_busy |-> FALSE]]
  /\ nr_rt_busy = 0
  /\ dsq = [c \in CPUs |-> [k \in Tiers |-> <<>>]]
  /\ local = [c \in CPUs |-> <<>>]
  /\ curr \in {f \in [CPUs -> {Idle, Rt, PercpuRt}] : \A c \in CPUs :
                f[c] \in {Idle} \cup (IF c \in Online THEN Higher[c] ELSE {})}
  /\ next = [c \in CPUs |-> Idle]
  /\ hi = [c \in CPUs |-> NoTask]
  /\ sched = [c \in CPUs |-> "run"]
  /\ resched = {}
  /\ reenq = {}
  /\ kicks = {}
  /\ idle = {c \in Online : curr[c] = Idle}
  /\ state = [t \in Tasks |-> "new"]
  /\ task_cpu \in {f \in [Tasks -> CPUs] : \A t \in Tasks : f[t] \in Allowed[t] \cap Online}
  /\ slice = [t \in Tasks |-> FALSE]
  /\ enq = [t \in Tasks |-> NoEnqueue]

\* The tiers the task on a cpu may be given; one that is not ours has none.
Classes(x) == IF x \in Tasks THEN OwnTiers[x] ELSE {EMPTY}

Enqueue(t) ==
  \/ DirectInsert(t)
  \/ \E limited \in BOOLEAN : EnqueuePlace(t, limited)
  \/ EnqueueObserve(t)
  \/ EnqueueKick(t)
  \/ EnqueueInsert(t)

TaskStep(t) ==
  \/ \E w \in Wakers, k \in OwnTiers[t] : WakeUp(t, w, k) \/ WakeUpInPlace(t, w, k)
  \/ Enqueue(t)
  \/ \E c \in Online, k \in Tiers : ChangeAttr(t, c, k)

\* What happens on a cpu without anybody deciding to: interrupts, ticks, and the
\* course of __schedule().
Course(c) ==
  \/ KickIdle(c) \/ KickPreempt(c) \/ SliceEnd(c)
  \/ PickNext(c)
  \/ \E k \in Classes(curr[c]), spent \in BOOLEAN, starved \in StarvedTiers \cup {EMPTY} :
       Dispatch(c, k, spent, starved)
  \/ \E k \in Classes(curr[c]), left \in BOOLEAN, spent \in BOOLEAN :
       PutPrev(c, k, left, spent)
  \/ Switch(c)
  \/ SchedSwitch(c)
  \/ ReenqueueLocal(c)

CpuStep(c) ==
  \/ Course(c)
  \/ \E h \in Higher[c] : HigherWakes(c, h)
  \/ HigherSleeps(c)
  \/ \E k \in Classes(curr[c]) : Sleep(c, k)
  \/ Exit(c)

Next == (\E t \in Tasks : TaskStep(t)) \/ (\E c \in Online : CpuStep(c))

Spec == Init /\ [][Next]_vars

\* An enqueue that has begun ends, and a cpu goes on.  Both may have to wait for
\* a run queue lock again and again, which the kernel hands out in turn: strong
\* fairness.
Fairness ==
  /\ \A t \in Tasks : SF_vars(Enqueue(t))
  /\ \A c \in Online : SF_vars(Course(c))

LiveSpec == Spec /\ Fairness

-----------------------------------------------------------------------------
(* Properties                                                              *)

CtxType == [current_dsq_type : Tiers, boost_dsq_type : Tiers \cup {EMPTY},
            resume_slice : BOOLEAN]

CpuCtxType == [current_task_dsq_type : Tiers \cup {EMPTY}, preempt_pending : BOOLEAN,
               rt_busy : BOOLEAN]

EnqType == [at : {"none", "direct", "place", "observe", "kick", "insert"},
            cpu : CPUs \cup {NoTask}, tier : Tiers \cup {EMPTY}, wakeup : BOOLEAN,
            head : BOOLEAN, kick : {"none", "idle", "preempt"}, waker : Tasks \cup {NoTask}]

CtxTypeOK ==
  /\ tctx \in [Tasks -> CtxType]
  /\ dctx \in [CPUs -> CpuCtxType]
  /\ nr_rt_busy \in Int

QueueTypeOK ==
  /\ dsq \in [CPUs -> [Tiers -> Seq(Tasks)]]
  /\ local \in [CPUs -> Seq(Tasks)]

CpuTypeOK ==
  /\ curr \in [CPUs -> Tasks \cup {Idle, Rt, PercpuRt}]
  /\ next \in [CPUs -> Tasks \cup {Idle, Rt, PercpuRt}]
  /\ hi \in [CPUs -> {NoTask, Rt, PercpuRt}]
  /\ sched \in [CPUs -> {"run", "pick", "put", "switch", "hook"}]
  /\ resched \subseteq CPUs
  /\ reenq \subseteq CPUs
  /\ kicks \subseteq CPUs \X {"idle", "preempt"}
  /\ idle \subseteq CPUs

TaskTypeOK ==
  /\ state \in [Tasks -> {"new", "blocked", "enqueue", "queued", "local", "running"}]
  /\ task_cpu \in [Tasks -> CPUs]
  /\ slice \in [Tasks -> BOOLEAN]
  /\ enq \in [Tasks -> EnqType]

\* Every variable has its type: contexts, queues, cpus, tasks.
TypeOK == CtxTypeOK /\ QueueTypeOK /\ CpuTypeOK /\ TaskTypeOK

\* A task waits in the queue of the tier it runs in: neither a boost nor a new
\* classification leaves it behind in another queue (lunar_enqueue).
QueueMatchesTier ==
  \A c \in CPUs, k \in Tiers : \A i \in 1 .. Len(dsq[c][k]) :
    effective_tier(tctx[dsq[c][k][i]]) = k

\* What other cpus read of a cpu, current_task_dsq_type, is the tier of the task
\* on it whenever that cpu is outside of __schedule().
CurrentTypeAccurate ==
  \A c \in Online : sched[c] = "run" =>
    dctx[c].current_task_dsq_type =
      IF curr[c] \in Tasks THEN effective_tier(tctx[curr[c]]) ELSE EMPTY

\* Something is on its way that makes cpu c look at its queues.
Alerted(c) ==
  \/ c \in resched
  \/ \E kind \in {"idle", "preempt"} : <<c, kind>> \in kicks
  \/ \E t \in Tasks : /\ enq[t].cpu = c
                      /\ enq[t].at \in {"observe", "kick"} \/ (enq[t].at = "insert" /\ enq[t].kick # "none")
  \/ \E t \in Tasks : enq[t].at = "direct" /\ task_cpu[t] = c

\* c sits idle, and nothing is on its way that would change that.
Sits(c) == sched[c] = "run" /\ curr[c] = Idle /\ ~ Alerted(c)

InQueue(t, c) == \E k \in Tiers : \E i \in 1 .. Len(dsq[c][k]) : dsq[c][k][i] = t

\* t waits for a cpu that sits idle, and was put there from another cpu.
Stranded(t) == \E c \in Online : Sits(c) /\ InQueue(t, c) /\ task_cpu[t] # c

\* No wakeup is lost on the cpu the task comes from: a cpu that sits idle has
\* nothing in its local DSQ, and no task in its queues that belongs to its own run
\* queue (lunar_enqueue under the lock of that run queue, the reset before the
\* look at the queues in lunar_stopping).
NoLostWakeup ==
  \A c \in Online : Sits(c) =>
    /\ local[c] = <<>>
    /\ \A t \in Tasks : InQueue(t, c) => Stranded(t)

\* The kernel knows that c is idle, or c is about to be rescheduled or to be given
\* a task, after which the kernel knows.
IdleKnown(c) ==
  sched[c] = "run" /\ curr[c] = Idle =>
    \/ c \in idle
    \/ Alerted(c)
    \/ \E t \in Tasks : enq[t].at = "place" /\ task_cpu[t] = c

\* An idle cpu whose idle bit was claimed gets it back: the claim is dropped only
\* while a task is stranded on that cpu (lunar_select_cpu, pick_enqueue_cpu).
NoLostIdleCpu ==
  [][\A c \in Online : IdleKnown(c) /\ ~ IdleKnown(c)' =>
       \E t \in Tasks : InQueue(t, c) /\ Stranded(t)]_vars

\* The rest of a slice is used up by the enqueue right after the preemption; it
\* never sits on a task that waits, runs or sleeps (lunar_stopping).
NoStaleResume ==
  \A t \in Tasks : tctx[t].resume_slice => enq[t].at = "place"

\* nr_rt_busy counts the cpus marked rt_busy, and no mark outlives its RT task,
\* also when the hook was attached while realtime tasks were running: otherwise
\* dispatch would skip or take over tasks wrongly for good (lunar_sched_switch).
RtBusyCounted ==
  /\ nr_rt_busy = Cardinality({c \in CPUs : dctx[c].rt_busy})
  /\ \A c \in Online : sched[c] = "run" /\ dctx[c].rt_busy => cpu_taken_by_rt(c)

\* No task is placed on an offline cpu, although its queues look empty.
OfflineUnused ==
  \A c \in CPUs \ Online : local[c] = <<>> /\ \A k \in Tiers : dsq[c][k] = <<>>

\* The step is a lunar_dispatch of c that moves a task to its local DSQ.
TakesTask(c) == local[c] = <<>> /\ next[c] = Idle /\ next'[c] \in Tasks

\* The step is a lunar_dispatch of c that lets the running task go on.
KeepsPrev(c) ==
  /\ curr[c] \in Tasks /\ state[curr[c]] = "running" /\ sched'[c] = "run"
  /\ ~ slice[curr[c]] /\ slice'[curr[c]]

HasWork(c) == PrevRuns(c) \/ \E k \in Tiers : dsq[c][k] # <<>>

\* A task of a tier better than k waits for c, on c or on a cpu of its LLC.
BetterWaits(c, k) ==
  \E o \in {c} \cup Peers(c), j \in Tiers : j < k /\ Takeable(o, j, c)

\* Tiers are strict: without a starvation override, a cpu that has something to
\* run of its own takes no task, and keeps none, while a task of a better tier
\* waits on a cpu of its LLC (dispatch_dsq_per_cpu).
StrictTiers ==
  [][\A c \in Online :
       /\ TakesTask(c) /\ HasWork(c) => ~ BetterWaits(c, effective_tier(tctx[next'[c]]))
       /\ KeepsPrev(c) /\ tctx'[curr[c]].boost_dsq_type = tctx[curr[c]].boost_dsq_type
            => ~ BetterWaits(c, effective_tier(tctx'[curr[c]]))]_vars

\* Every task that is waiting runs in the end, when all of them are in one tier
\* and no realtime task comes, or it is stranded: there is no other way to lose a
\* kick, no requeue goes on forever, and no queue is passed over.
EveryTaskRuns ==
  \A t \in Tasks : state[t] \in {"enqueue", "queued", "local"} ~>
                     state[t] = "running" \/ Stranded(t)


\* "Tiers are strict across cpus too ... A cpu with nothing of its own skips
\* this, it steals tier by tier below anyway": so a cpu with nothing of its own
\* takes the best tier that waits in its LLC, too (dispatch_dsq_per_cpu).
StrictWhenIdle ==
  [][\A c \in Online :
       TakesTask(c) => ~ BetterWaits(c, effective_tier(tctx[next'[c]]))]_vars

\* "The tasks already picked to run next on that core then go back through
\* placement": no task stays in the local DSQ of a cpu that runs an RT task
\* (lunar_sched_switch).
LocalNotBehindRt ==
  \A c \in Online :
    sched[c] = "run" /\ cpu_taken_by_rt(c) /\ local[c] # <<>> => c \in reenq

\* c runs, or is switching to, a task of a tier worse than LC.
LowerRuns(c) ==
  LET t == IF sched[c] \in {"switch", "put"} THEN next[c] ELSE curr[c]
  IN t \in Tasks /\ effective_tier(tctx[t]) > LC

\* "A waking LC task preempts a running task of a lower tier": its enqueue does
\* not end without a preemption kick when the target runs one (lunar_enqueue).
WakingLCPreempts ==
  [][\A t \in Tasks :
       enq[t].at = "observe" /\ enq[t].tier = LC /\ enq[t].wakeup /\ enq'[t].at = "insert"
         => ~ LowerRuns(enq[t].cpu)]_vars

\* The waiting tasks of c that may run elsewhere, as <<tier, position>>.
Movable(c) ==
  {m \in Tiers \X (1 .. Cardinality(Tasks)) :
     m[2] <= Len(dsq[c][m[1]]) /\ ~ Pinned(dsq[c][m[1]][m[2]])}

FirstMovable(c) ==
  LET m == CHOOSE m \in Movable(c) : \A n \in Movable(c) :
             m[1] < n[1] \/ (m[1] = n[1] /\ m[2] <= n[2])
  IN dsq[c][m[1]][m[2]]

\* "Wake an idle cpu for the first task waiting in the queues of @cpu that may
\* run elsewhere" (kick_idle_for_waiting, when an RT task takes the cpu).
WakesForFirstMovable ==
  [][\A c \in Online :
       sched[c] = "hook" /\ sched'[c] = "run" /\ cpu_taken_by_rt(c) /\ Movable(c) # {}
         => (idle \cap Allowed[FirstMovable(c)] # {} => idle' # idle)]_vars

=============================================================================
