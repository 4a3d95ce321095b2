---------------------------- MODULE ArenaSpinLock ----------------------------
(***************************************************************************)
(* The queued spinlock of include/bpf_arena_spin_lock.h: a lock word with  *)
(* a locked byte, a pending byte and the tail of a queue of per-cpu nodes. *)
(* Several contexts (a task, an interrupt, an NMI) of several cpus take    *)
(* it.  One action is one access to shared memory, and the accesses are    *)
(* taken to be sequentially consistent: neither the store buffers of x86   *)
(* nor the weaker orders the barriers of include/bpf_atomic.h are for are  *)
(* modelled.  Every wait loop may be broken off by the BPF runtime         *)
(* (cond_break_label), which makes the attempt fail.                       *)
(* The compare-and-exchange loops are not broken off: the code calls that  *)
(* "unexpected".                                                           *)
(***************************************************************************)
EXTENDS Integers, Sequences, FiniteSets

CONSTANTS
  Contexts,      \* what may take the lock
  CpuOf,         \* the cpu a context runs on, a number
  Level,         \* 0 for a task; a higher level interrupts the lower ones
  NR_CPUS,       \* CONFIG_NR_CPUS
  _Q_MAX_CPUS,
  TailCpus,      \* 2 ^ _Q_TAIL_CPU_BITS: the values of the tail's field for a cpu
  _Q_MAX_NODES,  \* queue nodes of a cpu
  MaxBreaks      \* bound on the waits the runtime breaks off

Cpus == {CpuOf[p] : p \in Contexts}

ASSUME SpinAssumption ==
  /\ NR_CPUS \in Nat
  /\ TailCpus \in Nat /\ NR_CPUS < TailCpus
  /\ CpuOf \in [Contexts -> 0 .. NR_CPUS - 1]
  /\ Level \in [Contexts -> Nat]
  /\ MaxBreaks \in Nat
  /\ _Q_MAX_NODES \in 1 .. 4
  /\ \A p, q \in Contexts : p # q => CpuOf[p] # CpuOf[q] \/ Level[p] # Level[q]

VARIABLES
  lock,     \* struct __qspinlock: locked, pending, tail
  node,     \* qnodes: cpu -> index -> next, locked
  count,    \* cpu -> number of its nodes in use
  preempt,  \* cpu -> how often preemption is disabled
  pc,       \* context -> where it is in arena_spin_lock
  loc,      \* context -> its local variables: val, idx, prev, next
  line,     \* history: who waits, in the order of pending and xchg_tail
  broken    \* history: number of waiting attempts that were broken off

vars == <<lock, node, count, preempt, pc, loc, line, broken>>

NULL == <<>>

\* struct __qspinlock as the three fields of its word.
Word(l, p, t) == [locked |-> l, pending |-> p, tail |-> t]

\* struct arena_mcs_spinlock without count, which only node 0 of a cpu uses.
FreshNode == [next |-> NULL, locked |-> 0]

\* The tail in units of _Q_TAIL_IDX: two bits of index below the cpu + 1, of which
\* the lock word has room for _Q_TAIL_CPU_BITS bits.
encode_tail(cpu, idx) == ((cpu + 1) * 4 + idx) % (4 * TailCpus)

decode_tail(tail) == <<tail \div 4 - 1, tail % 4>>

Unlocked == Word(0, 0, 0)

NoLocals == [val |-> Unlocked, idx |-> 0, prev |-> NULL, next |-> NULL]

\* val & ~_Q_LOCKED_MASK: somebody is pending or queued.
Contended(w) == w.pending = 1 \/ w.tail # 0

Me(p) == <<CpuOf[p], loc[p].idx>>

MyTail(p) == encode_tail(CpuOf[p], loc[p].idx)

\* An interrupt runs to its end before what it interrupted goes on.
Runs(p) == \A q \in Contexts :
  CpuOf[q] = CpuOf[p] /\ Level[q] > Level[p] => pc[q] = "idle"

At(p, label) == pc[p] = label /\ Runs(p)

\* atomic_try_cmpxchg_acquire and _relaxed on the lock word, when it succeeds.
try_cmpxchg(old, new) == lock = old /\ lock' = new

\* cond_break_label: the runtime may end a wait that has lasted too long.
cond_break_label(p, labels) == broken < MaxBreaks /\ pc[p] \in labels /\ Runs(p)

\* smp_cond_load_acquire_label and the like: p is past its wait once cond holds.
smp_cond_load(p, label, cond) == At(p, label) /\ cond

Goto(p, label) == pc' = [pc EXCEPT ![p] = label]

\* The context has the lock: arena_spin_lock returned, or is about to.
Owns(p) == pc[p] \in {"next", "hand", "held"}

\* What the lock promises, of its owners and the line.
Fifo == INSTANCE FifoLock WITH
          owners <- {p \in Contexts : Owns(p)}, stuck <- broken > 0

\* The call of context p is over; its local variables are gone.
Return(p, label) == Goto(p, label) /\ loc' = [loc EXCEPT ![p] = NoLocals]

PreemptEnable(p) == preempt' = [preempt EXCEPT ![CpuOf[p]] = @ - 1]

\* node0->count--
ReleaseNode(p) == count' = [count EXCEPT ![CpuOf[p]] = @ - 1]

-----------------------------------------------------------------------------

\* arena_spin_lock: the fast path, or the slow path with the value it saw.
arena_spin_lock(p) ==
  /\ NR_CPUS <= _Q_MAX_CPUS
  /\ At(p, "idle")
  /\ preempt' = [preempt EXCEPT ![CpuOf[p]] = @ + 1]
  /\ \/ try_cmpxchg(Unlocked, Word(1, 0, 0)) /\ Goto(p, "held")
     \/ /\ lock # Unlocked
        /\ Goto(p, IF lock = Word(0, 1, 0) THEN "spin"
                   ELSE IF Contended(lock) THEN "queue" ELSE "pending")
        /\ lock' = lock
  /\ UNCHANGED <<node, count, loc, line, broken>>

\* Wait, _Q_PENDING_LOOPS times at most, for a hand-over in progress.
SpinPending(p) ==
  /\ At(p, "spin")
  /\ Goto(p, IF Contended(lock) THEN "queue" ELSE "pending")
  /\ UNCHANGED <<lock, node, count, preempt, loc, line, broken>>

\* arena_fetch_set_pending_acquire.
FetchSetPending(p) ==
  /\ At(p, "pending")
  /\ lock' = [lock EXCEPT !.pending = 1]
  /\ \/ /\ Contended(lock)
        /\ Goto(p, IF lock.pending = 1 THEN "queue" ELSE "undo")
        /\ line' = line
     \/ /\ ~ Contended(lock)
        /\ Goto(p, IF lock.locked = 1 THEN "owner" ELSE "take")
        /\ line' = Append(line, p)
  /\ UNCHANGED <<node, count, preempt, loc, broken>>

\* Variant: the pending bit is left set.
clear_pending_Forgot(w) == w

clear_pending(w) == [w EXCEPT !.pending = 0]

\* The pending bit is ours to undo.
UndoPending(p) ==
  /\ At(p, "undo")
  /\ lock' = clear_pending(lock)
  /\ Goto(p, "queue")
  /\ UNCHANGED <<node, count, preempt, loc, line, broken>>

\* Pending: wait for the owner to go away.
WaitOwner(p) ==
  /\ smp_cond_load(p, "owner", lock.locked = 0)
  /\ Goto(p, "take")
  /\ UNCHANGED <<lock, node, count, preempt, loc, line, broken>>

\* clear_pending_set_locked.
TakeOver(p) ==
  /\ At(p, "take")
  /\ lock' = [lock EXCEPT !.locked = 1, !.pending = 0]
  /\ line' = Fifo!Leave(p)
  /\ Return(p, "held")
  /\ UNCHANGED <<node, count, preempt, broken>>

\* Variant: the bound is off by one.
HasNode_Off(idx) == idx <= _Q_MAX_NODES

HasNode(idx) == idx < _Q_MAX_NODES

\* A queue node of this cpu is taken and initialised, or there is none left
\* (-EBUSY).
TakeNode(p) ==
  LET cpu == CpuOf[p]
      idx == count[cpu]
  IN
  /\ At(p, "queue")
  /\ \/ /\ HasNode(idx)
        /\ count' = [count EXCEPT ![cpu] = @ + 1]
        /\ node' = [node EXCEPT ![cpu][idx] = FreshNode]
        /\ loc' = [loc EXCEPT ![p].idx = idx]
        /\ Goto(p, "trylock")
        /\ preempt' = preempt
     \/ /\ ~ HasNode(idx)
        /\ PreemptEnable(p)
        /\ Return(p, "idle")
        /\ UNCHANGED <<count, node>>
  /\ UNCHANGED <<lock, line, broken>>

\* arena_spin_trylock, once more.
TryLock(p) ==
  /\ At(p, "trylock")
  /\ \/ try_cmpxchg(Unlocked, Word(1, 0, 0)) /\ ReleaseNode(p) /\ Return(p, "held")
     \/ lock # Unlocked /\ Goto(p, "publish") /\ UNCHANGED <<lock, count, loc>>
  /\ UNCHANGED <<node, preempt, line, broken>>

\* The new lock word of xchg_tail.
xchg_tail(w, tail) == Word(w.locked, w.pending, tail)

PublishTail(p) ==
  /\ At(p, "publish")
  /\ lock' = xchg_tail(lock, MyTail(p))
  /\ line' = Append(line, p)
  /\ loc' = [loc EXCEPT ![p].next = NULL,
                        ![p].prev = IF lock.tail # 0 THEN decode_tail(lock.tail) ELSE NULL]
  /\ Goto(p, IF lock.tail # 0 THEN "link" ELSE "head")
  /\ UNCHANGED <<node, count, preempt, broken>>

\* WRITE_ONCE(prev->next, node).
LinkPrev(p) ==
  LET prev == loc[p].prev IN
  /\ At(p, "link")
  /\ node' = [node EXCEPT ![prev[1]][prev[2]].next = Me(p)]
  /\ Goto(p, "mcs")
  /\ loc' = [loc EXCEPT ![p].prev = NULL]
  /\ UNCHANGED <<lock, count, preempt, line, broken>>

\* arch_mcs_spin_lock_contended_label: until the one ahead hands over.
WaitMcs(p) ==
  LET n == node[CpuOf[p]][loc[p].idx] IN
  /\ smp_cond_load(p, "mcs", n.locked = 1)
  /\ loc' = [loc EXCEPT ![p].next = n.next]
  /\ Goto(p, "head")
  /\ UNCHANGED <<lock, node, count, preempt, line, broken>>

\* Variant: the head of the queue does not wait for the pending one.
QueueHeadMayGo_Locked(w) == w.locked = 0

\* !(VAL & _Q_LOCKED_PENDING_MASK)
QueueHeadMayGo(w) == w.locked = 0 /\ w.pending = 0

\* At the head of the queue: wait for the owner and the pending one.
WaitHead(p) ==
  /\ smp_cond_load(p, "head", QueueHeadMayGo(lock))
  /\ loc' = [loc EXCEPT ![p].val = lock]
  /\ Goto(p, IF lock.tail = MyTail(p) THEN "claim" ELSE "set")
  /\ UNCHANGED <<lock, node, count, preempt, line, broken>>

\* The last of the queue takes the lock and clears the tail at once, unless
\* the word has changed.
Claim(p) ==
  /\ At(p, "claim")
  /\ \/ /\ try_cmpxchg(loc[p].val, Word(1, 0, 0))
        /\ line' = Fifo!Leave(p)
        /\ ReleaseNode(p)
        /\ Return(p, "held")
     \/ lock # loc[p].val /\ Goto(p, "set") /\ UNCHANGED <<lock, line, count, loc>>
  /\ UNCHANGED <<node, preempt, broken>>

\* set_locked.
SetLocked(p) ==
  /\ At(p, "set")
  /\ lock' = [lock EXCEPT !.locked = 1]
  /\ line' = Fifo!Leave(p)
  /\ Goto(p, IF loc[p].next = NULL THEN "next" ELSE "hand")
  /\ loc' = [loc EXCEPT ![p].val = Unlocked]
  /\ UNCHANGED <<node, count, preempt, broken>>

WaitNext(p) ==
  LET n == node[CpuOf[p]][loc[p].idx] IN
  /\ smp_cond_load(p, "next", n.next # NULL)
  /\ loc' = [loc EXCEPT ![p].next = n.next]
  /\ Goto(p, "hand")
  /\ UNCHANGED <<lock, node, count, preempt, line, broken>>

\* arch_mcs_spin_unlock_contended, then the node is released.
HandOver(p) ==
  LET n == loc[p].next IN
  /\ At(p, "hand")
  /\ node' = [node EXCEPT ![n[1]][n[2]].locked = 1]
  /\ ReleaseNode(p)
  /\ Return(p, "held")
  /\ UNCHANGED <<lock, preempt, line, broken>>

\* Variant: the node stays counted when a wait is broken off.
ErrCount_Leak(p) == count[CpuOf[p]]

\* node0->count after release_node_err or release_err.
ErrCount(p) ==
  IF pc[p] \in {"mcs", "head", "next"} THEN count[CpuOf[p]] - 1 ELSE count[CpuOf[p]]

\* The runtime breaks off a wait loop: -ETIMEDOUT, and preemption is enabled
\* again.  Nothing that others have seen of the attempt is taken back.
Break(p) ==
  /\ cond_break_label(p, {"spin", "owner", "mcs", "head", "next"})
  /\ count' = [count EXCEPT ![CpuOf[p]] = ErrCount(p)]
  /\ PreemptEnable(p)
  /\ line' = Fifo!Leave(p)
  /\ broken' = IF pc[p] = "spin" THEN broken ELSE broken + 1
  /\ Return(p, "idle")
  /\ UNCHANGED <<lock, node>>

arena_spin_unlock(p) ==
  /\ At(p, "held")
  /\ lock' = [lock EXCEPT !.locked = 0]
  /\ PreemptEnable(p)
  /\ Return(p, "idle")
  /\ UNCHANGED <<node, count, line, broken>>

-----------------------------------------------------------------------------

Init ==
  /\ lock = Unlocked
  /\ node = [c \in Cpus |-> [i \in 0 .. _Q_MAX_NODES - 1 |-> FreshNode]]
  /\ count = [c \in Cpus |-> 0]
  /\ preempt = [c \in Cpus |-> 0]
  /\ pc = [p \in Contexts |-> "idle"]
  /\ loc = [p \in Contexts |-> NoLocals]
  /\ line = <<>>
  /\ broken = 0

\* What a context does by itself once it has begun.
Step(p) ==
  \/ SpinPending(p) \/ FetchSetPending(p) \/ UndoPending(p)
  \/ WaitOwner(p) \/ TakeOver(p)
  \/ TakeNode(p) \/ TryLock(p) \/ PublishTail(p)
  \/ LinkPrev(p) \/ WaitMcs(p) \/ WaitHead(p) \/ Claim(p)
  \/ SetLocked(p) \/ WaitNext(p) \/ HandOver(p)
  \/ arena_spin_unlock(p)

Next == \E p \in Contexts : arena_spin_lock(p) \/ Step(p) \/ Break(p)

Spec == Init /\ [][Next]_vars

-----------------------------------------------------------------------------
(* Properties                                                              *)

NodeType == [next : {NULL} \cup (Cpus \X (0 .. _Q_MAX_NODES - 1)), locked : {0, 1}]

\* Every variable has its type.
TypeOK ==
  /\ lock \in [locked : {0, 1}, pending : {0, 1}, tail : Nat]
  /\ node \in [Cpus -> [0 .. _Q_MAX_NODES - 1 -> NodeType]]
  /\ count \in [Cpus -> 0 .. _Q_MAX_NODES]
  /\ preempt \in [Cpus -> Nat]
  /\ pc \in [Contexts -> {"idle", "spin", "pending", "undo", "owner", "take",
                          "queue", "trylock", "publish", "link", "mcs", "head",
                          "claim", "set", "next", "hand", "held"}]
  /\ broken \in 0 .. MaxBreaks

\* The lock is a fifo lock: at most one owner, also after waits were broken off;
\* and as long as none was, the pending one goes first and then the queue in
\* the order of xchg_tail, with no barging past them (the whole of
\* arena_spin_lock_slowpath).
ImplementsFifoLock == Fifo!Spec

OnCpu(c) == {p \in Contexts : CpuOf[p] = c}

\* Every path out of the slow path, the failed ones included, gives back what it
\* took: a cpu counts the queue nodes of the contexts that are in the queue, and
\* has preemption disabled once for each context that is at the lock.
Balanced ==
  \A c \in Cpus :
    /\ count[c] = Cardinality({p \in OnCpu(c) : pc[p] \in
         {"trylock", "publish", "link", "mcs", "head", "claim", "set", "next", "hand"}})
    /\ preempt[c] = Cardinality({p \in OnCpu(c) : pc[p] # "idle"})

\* An interrupt came while what it interrupted was at the lock.
Nested == \E p, q \in Contexts :
  CpuOf[p] = CpuOf[q] /\ Level[p] < Level[q] /\ pc[p] # "idle" /\ pc[q] # "idle"

\* No hand-over is lost between the pending bit, the tail and the queue: unless
\* a wait was broken off or an interrupt waits for what it interrupted, somebody
\* at the lock can go on.  Every step brings its context closer to the end of
\* the call, and the line is served in order, so everybody gets the lock.
NobodyWedged ==
  broken = 0 /\ ~ Nested /\ (\E p \in Contexts : pc[p] # "idle")
    => \E p \in Contexts : ENABLED Step(p)

===============================================================================
