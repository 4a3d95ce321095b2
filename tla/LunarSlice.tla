----------------------------- MODULE LunarSlice -----------------------------
(***************************************************************************)
(* The clocks of scx_lunar on one cpu: slices and what is left of them     *)
(* after a preemption, the budget of a wake boost, and the starvation      *)
(* override with its budget and its cooldown.  LunarSched has the same     *)
(* callbacks without time and with many cpus.                              *)
(*                                                                         *)
(* Time advances in ticks.  A time stamp is kept as its age, "now" minus   *)
(* the stamp, which is all the code ever uses of it.  Time passes only     *)
(* while a task runs and nothing is due: a kick, a reschedule and a pass   *)
(* through __schedule() take no time.                                      *)
(***************************************************************************)
EXTENDS Integers, Sequences, FiniteSets, FiniteSetsExt

CONSTANTS
  Tasks,
  OwnTiers,      \* the tiers update_task_dsq_type() may give a task
  WakerTiers,    \* the tiers of the tasks that wake a task
  Realtime,      \* whether realtime tasks take the cpu
  Stealing,      \* whether other cpus take tasks from the queues
  SLICE,         \* SLICE_NS, in ticks
  RESUME_SLICE_MIN,
  WAKE_BOOST_BUDGET,
  STARVE_BUDGET, \* of the tiers INTERACTIVE, NORMAL and GREEDY
  STARVE_OVERRIDE_COOLDOWN,
  MaxAge,        \* bound on how long a queue waits
  Idle, Rt

LC          == 1
INTERACTIVE == 2
NORMAL      == 3
GREEDY      == 4
EMPTY       == 5
Tiers       == LC .. GREEDY
Timed       == INTERACTIVE .. GREEDY

STARVE_OVERRIDE_BUDGET == SLICE

ASSUME SliceAssumption ==
  /\ SLICE \in Nat \ {0} /\ RESUME_SLICE_MIN \in Nat
  /\ WAKE_BOOST_BUDGET \in Nat \ {0}
  /\ STARVE_OVERRIDE_COOLDOWN \in Nat /\ MaxAge \in Nat
  /\ STARVE_BUDGET \in [Timed -> Nat]
  /\ OwnTiers \in [Tasks -> (SUBSET Tiers) \ {{}}]
  /\ WakerTiers \in [Tasks -> SUBSET Tiers]
  /\ Idle \notin Tasks /\ Rt \notin Tasks /\ Idle # Rt

VARIABLES
  tctx,     \* struct task_ctx: tiers, boost, slices; ran is now - started_at
  dctx,     \* struct dispatch_ctx; head is the age of tier_head_ts
  dsq,      \* tier -> the queue of waiting tasks
  local,    \* the local DSQ
  curr,     \* the task on the cpu
  next,     \* the task dispatch has moved to the cpu
  at,       \* where the cpu is in __schedule()
  resched,  \* TIF_NEED_RESCHED
  kick,     \* a preemption kick is on its way
  slice,    \* task -> p->scx.slice
  state,    \* task -> where it is
  hist      \* history: what was really used, see InitHistory

vars == <<tctx, dctx, dsq, local, curr, next, at, resched, kick, slice, state, hist>>

-----------------------------------------------------------------------------
(* struct task_ctx                                                         *)

effective_tier(x) == Min({x.current_dsq_type, x.boost_dsq_type})

Unboosted(x) == [x EXCEPT !.boost_dsq_type = EMPTY]

Reclassified(x, k) == [x EXCEPT !.current_dsq_type = k]

BoostSpent(x) == x.boost_used >= WAKE_BOOST_BUDGET

\* Variant: only the time of whole slices is charged.
charge_wake_boost_Whole(x) ==
  IF x.boost_dsq_type # EMPTY /\ x.ran = SLICE
  THEN [x EXCEPT !.boost_used = Min({@ + x.ran, WAKE_BOOST_BUDGET})] ELSE x

\* The time x has run counts for its boost; beyond the budget it need not be
\* told apart.
charge_wake_boost(x) ==
  IF x.boost_dsq_type # EMPTY
  THEN [x EXCEPT !.boost_used = Min({@ + x.ran, WAKE_BOOST_BUDGET})] ELSE x

\* x after a wakeup by a task of tier w, EMPTY for one that boosts nobody.
apply_wake_boost(x, w) ==
  IF w < x.current_dsq_type /\ w < x.boost_dsq_type
  THEN [x EXCEPT !.boost_dsq_type = w, !.boost_used = 0] ELSE x

init_task_ctx(t) ==
  [current_dsq_type |-> Max(OwnTiers[t]), boost_dsq_type |-> EMPTY, boost_used |-> 0,
   ran |-> 0, granted_slice |-> 0, resume_slice |-> 0]

-----------------------------------------------------------------------------
(* struct dispatch_ctx and the starvation override                         *)

\* Variant: the budget is never used up.
charge_override_Never(d, tier, used) == d

\* Variant: a stretch longer than what is left is subtracted all the same.
charge_override_Underflow(d, tier, used) ==
  IF tier # d.override_tier THEN d
  ELSE [d EXCEPT !.override_left = @ - used,
                 !.override_tier = IF d.override_left > used THEN @ ELSE EMPTY]

\* override_tier is read only while there is something left.
charge_override(d, tier, used) ==
  IF tier # d.override_tier THEN d
  ELSE [d EXCEPT !.override_left = Max({0, @ - used}),
                 !.override_tier = IF d.override_left > used THEN @ ELSE EMPTY]

stamp_tier_head_ts(d, k) == IF k \in Timed THEN [d EXCEPT !.head[k] = 0] ELSE d

tier_overrun(d, k) == IF dsq[k] = <<>> THEN 0 ELSE d.head[k] - STARVE_BUDGET[k]

\* Variant: GREEDY is never looked at.
most_starved_tier_NoGreedy(d) ==
  LET over == {k \in Timed \ {GREEDY} : tier_overrun(d, k) > 0} IN
  IF d.last_override < STARVE_OVERRIDE_COOLDOWN \/ over = {} THEN EMPTY ELSE Min(over)

\* The tier that is furthest over its budget, the better one of equals; none
\* within the cooldown of the last override.
most_starved_tier(d) ==
  LET over == {k \in Timed : tier_overrun(d, k) > 0}
      worst == Max({tier_overrun(d, k) : k \in over})
  IN IF d.last_override < STARVE_OVERRIDE_COOLDOWN \/ over = {} THEN EMPTY
     ELSE Min({k \in over : tier_overrun(d, k) = worst})

\* dispatch_dsq_per_cpu on this cpu alone: the tier a task is taken from
\* (EMPTY: none), whether the override goes on or a new one begins.
dispatch_dsq_per_cpu(d, prev_tier) ==
  LET goes_on == d.override_left > 0 /\ dsq[d.override_tier] # <<>>
      starved == most_starved_tier(d)
      waiting == {k \in Timed : dsq[k] # <<>> /\ k <= prev_tier}
      Take(k, how) == [tier |-> k, how |-> how]
  IN IF dsq[LC] # <<>> THEN Take(LC, "order")
     ELSE IF goes_on THEN Take(d.override_tier, "goes_on")
     ELSE IF starved # EMPTY THEN Take(starved, "starved")
     ELSE IF waiting # {} THEN Take(Min(waiting), "order")
     ELSE Take(EMPTY, "order")

\* The cpu after it took a task that way.
override_cpu(d, r) ==
  IF r.tier = LC \/ r.how = "goes_on" THEN d
  ELSE IF r.how = "starved"
  THEN [d EXCEPT !.last_override = 0, !.override_tier = r.tier,
                 !.override_left = STARVE_OVERRIDE_BUDGET]
  ELSE [d EXCEPT !.override_left = 0, !.override_tier = EMPTY]

-----------------------------------------------------------------------------
(* History                                                                 *)

InitHistory ==
  [unserved |-> [k \in Timed |-> 0],      \* time a waiting tier was not served
   from     |-> EMPTY,                    \* the tier the cpu last took a task of
   over     |-> 0,                        \* cpu time of the last override
   tier     |-> EMPTY,                    \* the tier it is for
   via      |-> {},                       \* tasks taken by it
   boosted  |-> [t \in Tasks |-> 0],      \* cpu time since the boost
   jumped   |-> [t \in Tasks |-> FALSE],  \* preempted since the boost
   spent    |-> [t \in Tasks |-> 0]]      \* cpu time since a slice was granted

\* A task of tier k was taken, or came to an empty queue.
Served(h, k) == IF k \in Timed THEN [h EXCEPT !.unserved[k] = 0] ELSE h

\* t sleeps: a new wakeup starts from nothing.
Gone(h, t) == [h EXCEPT !.via = @ \ {t}, !.boosted[t] = 0, !.jumped[t] = FALSE,
                        !.spent[t] = 0]

NewSlice(h, t) == [h EXCEPT !.spent[t] = 0]

-----------------------------------------------------------------------------
(* The end of a stretch of running                                         *)

stopping_cpu(d, x) ==
  [charge_override(d, effective_tier(x), x.ran) EXCEPT
     !.preempt_pending = FALSE, !.running = EMPTY]

\* x after lunar_stopping; zero: its slice is 0.
stopping_ctx(x, runnable, pending, zero, k) ==
  LET y == Reclassified(charge_wake_boost(x), k)
      left == pending /\ runnable /\ zero /\ y.granted_slice > y.ran + RESUME_SLICE_MIN
      z == IF left THEN [y EXCEPT !.resume_slice = y.granted_slice - y.ran] ELSE y
  IN IF z.resume_slice = 0 /\ (~ runnable \/ BoostSpent(z)) THEN Unboosted(z) ELSE z

\* A task that does not run has no use for started_at and granted_slice, which
\* lunar_running sets, nor one without a boost for boost_used.
Off(x) == [x EXCEPT !.ran = 0, !.granted_slice = 0,
                    !.boost_used = IF x.boost_dsq_type = EMPTY THEN 0 ELSE @]

quiescent_ctx(x) == Off([Unboosted(x) EXCEPT !.resume_slice = 0])

\* lunar_running.
running_cpu(d, x) == [d EXCEPT !.preempt_pending = FALSE, !.running = effective_tier(x)]
running_ctx(x, left) == [x EXCEPT !.ran = 0, !.granted_slice = left]

-----------------------------------------------------------------------------
(* ops.select_cpu and ops.enqueue                                          *)

\* The queues, the cpu and the history after an enqueue of t with context x.
\* A task with a slice to resume goes to the head of its queue.
Enqueue(t, x, d, h) ==
  LET k == effective_tier(x)
      resumes == x.resume_slice > 0
  IN
  /\ dsq' = [dsq EXCEPT ![k] = IF resumes THEN <<t>> \o @ ELSE Append(@, t)]
  /\ slice' = [slice EXCEPT ![t] = IF resumes THEN x.resume_slice ELSE SLICE]
  /\ dctx' = IF dsq[k] = <<>> THEN stamp_tier_head_ts(d, k) ELSE d
  /\ state' = [state EXCEPT ![t] = "queued"]
  /\ hist' = LET g == IF dsq[k] = <<>> THEN Served(h, k) ELSE h
                 v == [g EXCEPT !.via = @ \ {t}]
             IN IF resumes THEN [v EXCEPT !.jumped[t] = TRUE] ELSE NewSlice(v, t)

\* lunar_select_cpu, lunar_runnable and lunar_enqueue of a waking task: right to
\* the cpu if it is idle, into its queue otherwise.
WakeUp(t, w, k) ==
  LET x == Reclassified(apply_wake_boost(tctx[t], w), k)
      tier == effective_tier(x)
      preempts == tier = LC /\ dctx.running # EMPTY /\ dctx.running > tier
  IN
  /\ state[t] = "blocked"
  /\ tctx' = [tctx EXCEPT ![t] = x]
  /\ \/ /\ curr = Idle /\ at = "run" /\ ~ resched
        /\ local' = <<t>>
        /\ slice' = [slice EXCEPT ![t] = SLICE]
        /\ state' = [state EXCEPT ![t] = "local"]
        /\ hist' = [hist EXCEPT !.from = tier]
        /\ resched' = TRUE
        /\ UNCHANGED <<dctx, dsq, kick>>
     \/ /\ ~ (curr = Idle /\ at = "run" /\ ~ resched)
        /\ Enqueue(t, x, IF preempts THEN [dctx EXCEPT !.preempt_pending = TRUE] ELSE dctx, hist)
        /\ kick' = (kick \/ preempts)
        /\ UNCHANGED <<local, resched>>
  /\ UNCHANGED <<curr, next, at>>

\* Another cpu takes the first task of tier k and runs it until it sleeps.
OtherCpuTakes(k) ==
  LET t == Head(dsq[k]) IN
  /\ Stealing
  /\ dsq[k] # <<>>
  /\ dsq' = [dsq EXCEPT ![k] = Tail(@)]
  /\ dctx' = stamp_tier_head_ts(dctx, k)
  /\ state' = [state EXCEPT ![t] = "blocked"]
  /\ tctx' = [tctx EXCEPT ![t] = quiescent_ctx(@)]
  /\ slice' = [slice EXCEPT ![t] = 0]
  /\ hist' = Gone(Served(hist, k), t)
  /\ UNCHANGED <<local, curr, next, at, resched, kick>>

-----------------------------------------------------------------------------
(* The cpu                                                                 *)

\* A tick; it takes its part of the slice of the running task.
Tick ==
  LET t == curr
      charged == curr \in Tasks
      waiting == {k \in Timed : dsq[k] # <<>>}
      ours == charged /\ hist.from > LC /\ effective_tier(tctx[t]) = hist.from
  IN
  /\ at = "run" /\ ~ resched /\ ~ kick /\ local = <<>>
  /\ \A k \in waiting : dctx.head[k] < MaxAge
  /\ dctx' = [dctx EXCEPT
       !.head = [k \in Timed |-> IF k \in waiting THEN @[k] + 1 ELSE @[k]],
       !.last_override = Min({@ + 1, STARVE_OVERRIDE_COOLDOWN})]
  /\ tctx' = IF charged THEN [tctx EXCEPT ![t].ran = @ + 1] ELSE tctx
  /\ slice' = IF charged THEN [slice EXCEPT ![t] = @ - 1] ELSE slice
  /\ resched' = (charged /\ slice[t] = 1)
  /\ hist' = [hist EXCEPT
       !.unserved = [k \in Timed |-> IF ours /\ k \in waiting THEN @[k] + 1 ELSE @[k]],
       !.over = IF t \in hist.via /\ effective_tier(tctx[t]) = hist.tier
                THEN @ + 1 ELSE @,
       !.boosted = [u \in Tasks |-> IF u = t /\ tctx[u].boost_dsq_type # EMPTY
                                    THEN Min({@[u] + 1, WAKE_BOOST_BUDGET + SLICE}) ELSE @[u]],
       !.spent = [u \in Tasks |-> IF u = t THEN Min({@[u] + 1, SLICE}) ELSE @[u]]]
  /\ UNCHANGED <<dsq, local, curr, next, at, kick, state>>

\* SCX_KICK_PREEMPT arrives.
KickPreempt ==
  /\ kick /\ at = "run"
  /\ kick' = FALSE
  /\ resched' = TRUE
  /\ slice' = IF curr \in Tasks THEN [slice EXCEPT ![curr] = 0] ELSE slice
  /\ UNCHANGED <<tctx, dctx, dsq, local, curr, next, at, state, hist>>

\* The running task sleeps: lunar_stopping, lunar_quiescent.
Sleep(k) ==
  /\ at = "run" /\ curr \in Tasks
  /\ tctx' = [tctx EXCEPT ![curr] = quiescent_ctx(
                stopping_ctx(@, FALSE, dctx.preempt_pending, slice[curr] = 0, k))]
  /\ dctx' = stopping_cpu(dctx, tctx[curr])
  /\ state' = [state EXCEPT ![curr] = "blocked"]
  /\ curr' = Idle
  /\ at' = "pick"
  /\ resched' = FALSE
  /\ slice' = [slice EXCEPT ![curr] = 0]
  /\ hist' = Gone(hist, curr)
  /\ UNCHANGED <<dsq, local, next, kick>>

PrevRuns == curr \in Tasks

Picking == at = "pick" \/ (at = "run" /\ resched)

\* lunar_running of task t, with the context x and the cpu d.
Run(t, x, d) ==
  /\ curr' = t
  /\ tctx' = [tctx EXCEPT ![t] = running_ctx(x, slice[t])]
  /\ dctx' = running_cpu(d, x)

\* The local DSQ is not empty: its first task is next, without ops.dispatch.
PickLocal ==
  /\ Picking /\ ~ PrevRuns /\ curr # Rt /\ local # <<>>
  /\ Run(Head(local), tctx[Head(local)], dctx)
  /\ local' = Tail(local)
  /\ state' = [state EXCEPT ![Head(local)] = "running"]
  /\ at' = "run" /\ resched' = FALSE
  /\ UNCHANGED <<dsq, next, kick, slice, hist>>

\* prev as lunar_dispatch accounts for it: the time it ran is charged, and
\* started_at becomes now.
dispatch_prev(x, pending, k) ==
  LET y == charge_wake_boost(x)
      z == IF ~ pending /\ BoostSpent(y) THEN Unboosted(y) ELSE y
  IN [Reclassified(z, k) EXCEPT !.ran = 0]

\* lunar_dispatch.  The task it takes is switched to at once, or after prev is
\* put back; without one, prev goes on with a new slice.
Dispatch(k) ==
  LET px == IF PrevRuns THEN dispatch_prev(tctx[curr], dctx.preempt_pending, k)
            ELSE init_task_ctx(curr)
      prev_tier == IF PrevRuns THEN effective_tier(px) ELSE EMPTY
      d == IF PrevRuns THEN charge_override(dctx, effective_tier(tctx[curr]), tctx[curr].ran)
           ELSE dctx
      r == dispatch_dsq_per_cpu(d, prev_tier)
      kept == IF BoostSpent(px) THEN Unboosted(px) ELSE px
      taken == override_cpu(stamp_tier_head_ts(d, r.tier), r)
      none == override_cpu(d, r)
      g == IF r.tier = EMPTY THEN hist
           ELSE [Served(hist, r.tier) EXCEPT
                   !.from = r.tier,
                   !.via = IF r.tier = LC THEN @ ELSE IF r.how = "order" THEN {}
                           ELSE @ \cup {Head(dsq[r.tier])},
                   !.tier = IF r.tier = LC \/ r.how = "goes_on" THEN @
                            ELSE IF r.how = "starved" THEN r.tier ELSE EMPTY,
                   !.over = IF r.tier = LC \/ r.how = "goes_on" THEN @ ELSE 0]
  IN
  /\ Picking /\ local = <<>> /\ curr # Rt
  /\ PrevRuns => slice[curr] = 0
  /\ \/ /\ r.tier # EMPTY
        /\ dsq' = [dsq EXCEPT ![r.tier] = Tail(@)]
        /\ hist' = g
        /\ \/ /\ PrevRuns
              /\ next' = Head(dsq[r.tier])
              /\ at' = "put"
              /\ tctx' = [tctx EXCEPT ![curr] = px]
              /\ dctx' = taken
              /\ UNCHANGED <<curr, state>>
           \/ /\ ~ PrevRuns
              /\ Run(Head(dsq[r.tier]), tctx[Head(dsq[r.tier])], taken)
              /\ state' = [state EXCEPT ![Head(dsq[r.tier])] = "running"]
              /\ at' = "run"
              /\ next' = next
        /\ slice' = slice
     \/ /\ r.tier = EMPTY /\ PrevRuns
        /\ tctx' = [tctx EXCEPT ![curr] = [kept EXCEPT !.granted_slice = SLICE]]
        /\ slice' = [slice EXCEPT ![curr] = SLICE]
        /\ dctx' = running_cpu(none, kept)
        /\ hist' = [NewSlice(hist, curr) EXCEPT
                     !.from = effective_tier(kept), !.via = {}, !.over = 0, !.tier = EMPTY]
        /\ at' = "run"
        /\ UNCHANGED <<dsq, curr, next, state>>
     \/ /\ r.tier = EMPTY /\ ~ PrevRuns
        /\ dctx' = none
        /\ curr' = Idle
        /\ at' = "run"
        /\ UNCHANGED <<tctx, dsq, next, slice, state, hist>>
  /\ resched' = FALSE
  /\ UNCHANGED <<local, kick>>

\* put_prev_task_scx of a task without time left: lunar_stopping and
\* lunar_enqueue; then the switch to the task that was taken.
PutPrev(k) ==
  LET x == stopping_ctx(tctx[curr], TRUE, dctx.preempt_pending, TRUE, k)
      d == stopping_cpu(dctx, tctx[curr])
  IN
  /\ at = "put"
  /\ Enqueue(curr, x, d, hist)
  /\ at' = "switch"
  /\ tctx' = [tctx EXCEPT ![curr] = Off([x EXCEPT !.resume_slice = 0])]
  /\ UNCHANGED <<local, curr, next, resched, kick>>

Switch ==
  /\ at = "switch"
  /\ Run(next, tctx[next], dctx)
  /\ state' = [state EXCEPT ![next] = "running"]
  /\ next' = Idle
  /\ at' = "run"
  /\ UNCHANGED <<dsq, local, resched, kick, slice, hist>>

\* A realtime task takes the cpu.  A task with time left goes to the head of the
\* local DSQ, any other through ops.enqueue.
RtTakes(k) ==
  /\ Realtime
  /\ at = "run" /\ curr # Rt
  /\ curr' = Rt
  /\ resched' = FALSE
  /\ \/ /\ PrevRuns
        /\ LET x == stopping_ctx(tctx[curr], TRUE, dctx.preempt_pending, slice[curr] = 0, k)
               d == stopping_cpu(dctx, tctx[curr])
           IN \/ /\ slice[curr] > 0
                 /\ local' = <<curr>> \o local
                 /\ state' = [state EXCEPT ![curr] = "local"]
                 /\ tctx' = [tctx EXCEPT ![curr] = Off(x)]
                 /\ dctx' = d
                 /\ UNCHANGED <<dsq, slice, hist>>
              \/ /\ slice[curr] = 0
                 /\ Enqueue(curr, x, d, hist)
                 /\ tctx' = [tctx EXCEPT ![curr] = Off([x EXCEPT !.resume_slice = 0])]
                 /\ local' = local
     \/ /\ ~ PrevRuns
        /\ UNCHANGED <<tctx, dctx, dsq, local, slice, state, hist>>
  /\ UNCHANGED <<next, at, kick>>

\* lunar_sched_switch: what was in the local DSQ goes through ops.enqueue again.
ReenqueueLocal ==
  LET t == Head(local) IN
  /\ curr = Rt /\ local # <<>>
  /\ Enqueue(t, [tctx[t] EXCEPT !.resume_slice = 0], dctx, hist)
  /\ local' = Tail(local)
  /\ UNCHANGED <<tctx, curr, next, at, resched, kick>>

RtSleeps ==
  /\ curr = Rt /\ at = "run"
  /\ curr' = Idle /\ at' = "pick" /\ resched' = FALSE
  /\ UNCHANGED <<tctx, dctx, dsq, local, next, kick, slice, state, hist>>

-----------------------------------------------------------------------------

Init ==
  /\ tctx = [t \in Tasks |-> init_task_ctx(t)]
  /\ dctx = [running |-> EMPTY, head |-> [k \in Timed |-> 0], last_override |-> 0,
             override_tier |-> EMPTY, override_left |-> 0, preempt_pending |-> FALSE]
  /\ dsq = [k \in Tiers |-> <<>>]
  /\ local = <<>>
  /\ curr = Idle /\ next = Idle /\ at = "run"
  /\ resched = FALSE /\ kick = FALSE
  /\ slice = [t \in Tasks |-> 0]
  /\ state = [t \in Tasks |-> "blocked"]
  /\ hist = InitHistory

\* The tiers the running task may be given.
Classes == IF curr \in Tasks THEN OwnTiers[curr] ELSE {EMPTY}

Next ==
  \/ \E t \in Tasks : \E w \in WakerTiers[t] \cup {EMPTY}, k \in OwnTiers[t] : WakeUp(t, w, k)
  \/ \E k \in Tiers : OtherCpuTakes(k)
  \/ Tick \/ KickPreempt \/ PickLocal \/ Switch \/ ReenqueueLocal \/ RtSleeps
  \/ \E k \in Classes : Sleep(k)
  \/ \E k \in Classes : Dispatch(k)
  \/ \E k \in Classes : PutPrev(k)
  \/ \E k \in Classes : RtTakes(k)

Spec == Init /\ [][Next]_vars

-----------------------------------------------------------------------------
(* Properties                                                              *)

\* Every variable has its type.
TypeOK ==
  /\ tctx \in [Tasks -> [current_dsq_type : Tiers, boost_dsq_type : Tiers \cup {EMPTY},
                         boost_used : 0 .. WAKE_BOOST_BUDGET, ran : 0 .. SLICE,
                         granted_slice : 0 .. SLICE, resume_slice : 0 .. SLICE]]
  /\ dctx \in [running : Tiers \cup {EMPTY}, head : [Timed -> 0 .. MaxAge],
               last_override : 0 .. STARVE_OVERRIDE_COOLDOWN,
               override_tier : Timed \cup {EMPTY},
               override_left : 0 .. STARVE_OVERRIDE_BUDGET, preempt_pending : BOOLEAN]
  /\ slice \in [Tasks -> 0 .. SLICE]

\* What one override may take: its budget, or the time until the next may begin,
\* and the rest of the slice that runs then.
Turn == Max({STARVE_OVERRIDE_BUDGET, STARVE_OVERRIDE_COOLDOWN}) + SLICE - 1

\* A waiting tier is served: it is not passed over for longer than its budget and
\* a turn for every timed tier, the one that is under way when the budget ends
\* and one for each of the others if they are further over theirs; an override
\* stamps its tier, which cannot come before it again.  Time of LC tasks, which
\* run first without a limit, and of realtime tasks does not count, nor that of a
\* task that a realtime task interrupted and that goes on in another tier: no
\* budget is charged for it.
StarvationBounded ==
  \A k \in Timed : hist.unserved[k] <= STARVE_BUDGET[k] + Cardinality(Timed) * Turn

\* "CPU time a starved tier gets per override: its tasks run one after another
\* until it is used up": an override lasts for its budget and the end of the last
\* slice it began, however often its tasks sleep or are preempted meanwhile.
OverrideBounded == hist.over < STARVE_OVERRIDE_BUDGET + SLICE

\* A boost ends with the slice in which its budget is used up, unless the task
\* was preempted and given a slice to resume.
BoostBounded ==
  \A t \in Tasks : hist.boosted[t] >= WAKE_BOOST_BUDGET + SLICE => hist.jumped[t]

\* "The preempted task goes back to the head of its queue with the rest of its
\* slice": what it has used and what it is given back are a slice at most.
RestOfSlice ==
  \A t \in Tasks : state[t] = "queued" => hist.spent[t] + slice[t] <= SLICE

\* "For at most WAKE_BOOST_BUDGET_NS of cpu time": a boosted task that has used
\* its budget is not run in the boosted tier again.
BoostWithinBudget ==
  \A t \in Tasks : hist.boosted[t] > WAKE_BOOST_BUDGET =>
    tctx[t].boost_dsq_type = EMPTY

===============================================================================
