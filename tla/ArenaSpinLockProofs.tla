------------------------- MODULE ArenaSpinLockProofs -------------------------
(***************************************************************************)
(* The queued spinlock, for as many cpus as the lock word's tail has room  *)
(* for (SpinAssumption), any number of contexts and any number of waits    *)
(* that are broken off: its types, what it gives back, and that it is a    *)
(* fifo lock.                                                              *)
(***************************************************************************)
EXTENDS ArenaSpinLock, FiniteSetTheorems, TLAPS

-----------------------------------------------------------------------------
(* The invariant                                                           *)

Indices == 0 .. _Q_MAX_NODES - 1

\* The queue nodes, by cpu and index.
Nodes == Cpus \X Indices

Tails == {encode_tail(n[1], n[2]) : n \in Nodes}

LockType == [locked : {0, 1}, pending : {0, 1}, tail : {0} \cup Tails]

LocType == [val : LockType, idx : Indices, prev : {NULL} \cup Nodes, next : {NULL} \cup Nodes]

\* A context that has taken a queue node.
WithNode == {"trylock", "publish", "link", "mcs", "head", "claim", "set", "next", "hand"}

Labels == {"idle", "spin", "pending", "undo", "owner", "take", "queue", "held"} \cup WithNode

\* What the local variables l of p are at a label.
LocFits(p, label, l) ==
  /\ label = "link" => l.prev # NULL
  /\ label = "hand" => l.next # NULL
  /\ label = "claim" => /\ l.val.locked = 0 /\ l.val.pending = 0
                        /\ l.val.tail = encode_tail(CpuOf[p], l.idx)

TypeInv ==
  /\ lock \in LockType
  /\ node \in [Cpus -> [Indices -> NodeType]]
  /\ count \in [Cpus -> 0 .. _Q_MAX_NODES]
  /\ preempt \in [Cpus -> Int]
  /\ pc \in [Contexts -> Labels]
  /\ loc \in [Contexts -> LocType]
  /\ \A p \in Contexts : LocFits(p, pc[p], loc[p])
  /\ broken \in 0 .. MaxBreaks

\* The contexts of a cpu have its lower nodes, in the order of their levels.
NodeInv ==
  \A p \in Contexts : pc[p] \in WithNode =>
    /\ loc[p].idx < count[CpuOf[p]]
    /\ \A q \in Contexts :
         pc[q] \in WithNode /\ CpuOf[q] = CpuOf[p] /\ Level[p] < Level[q] =>
           loc[p].idx < loc[q].idx

\* p is at the head of the queue, was just made its head, or has the lock and is
\* to make the next one its head.
Token(p) ==
  \/ pc[p] \in {"head", "claim", "set", "next", "hand"}
  \/ pc[p] \in {"trylock", "publish", "link", "mcs"} /\ node[CpuOf[p]][loc[p].idx].locked = 1

\* The queue has one head at most, also after waits were broken off.
TokenInv ==
  /\ \A p, q \in Contexts : Token(p) /\ Token(q) => p = q
  /\ \A p \in Contexts : Token(p) => lock.tail # 0

\* p has set the pending bit.
Pends(p) == pc[p] \in {"undo", "owner", "take"}

\* One owner, one context that has set the pending bit; and who is about to take
\* the lock has it for itself.
OwnInv ==
  /\ \A p, q \in Contexts : Owns(p) /\ Owns(q) => p = q
  /\ \A p \in Contexts : Owns(p) => lock.locked = 1
  /\ \A p, q \in Contexts : Pends(p) /\ Pends(q) => p = q
  /\ \A p \in Contexts : Pends(p) => lock.pending = 1
  /\ \A p \in Contexts : pc[p] \in {"take", "claim", "set"} => lock.locked = 0
  /\ \A p \in Contexts : pc[p] \in {"claim", "set", "next", "hand"} =>
       \A q \in Contexts : pc[q] \notin {"owner", "take"}

\* The line has everybody who waits, once.
WaitLabels == {"owner", "take", "link", "mcs", "head", "claim", "set"}

Waits(p) == pc[p] \in WaitLabels

LineInv ==
  /\ line \in Seq(Contexts)
  /\ \A i, j \in 1 .. Len(line) : line[i] = line[j] => i = j
  /\ \A i \in 1 .. Len(line) : Waits(line[i])
  /\ \A p \in Contexts : Waits(p) => \E i \in 1 .. Len(line) : line[i] = p

\* The queue node of p.
NodeOf(p) == node[CpuOf[p]][loc[p].idx]

\* A context from its xchg_tail on until it has handed over.
Queued == {"link", "mcs", "head", "claim", "set", "next", "hand"}

\* The context p comes right after q in the queue.
Follows(p, q) ==
  /\ pc[p] \in {"link", "mcs"} /\ NodeOf(p).locked = 0
  /\ pc[p] = "link" => loc[p].prev = Me(q) /\ NodeOf(q).next = NULL /\ loc[q].next = NULL
  /\ pc[p] = "mcs" => NodeOf(q).next = Me(p) /\ loc[q].next \in {NULL, Me(p)}

\* The queue q, in the order of xchg_tail: its nodes are linked in this order, the
\* first of them is its head and the last one is the tail.
IsQueue(q) ==
  /\ \A i, j \in 1 .. Len(q) : q[i] = q[j] => i = j
  /\ \A p \in Contexts : pc[p] \in Queued <=> \E i \in 1 .. Len(q) : q[i] = p
  /\ \A i \in 2 .. Len(q) : Follows(q[i], q[i - 1])
  /\ q = <<>> => lock.tail = 0
  /\ q # <<>> =>
       /\ Token(q[1]) /\ pc[q[1]] # "link"
       /\ lock.tail = MyTail(q[Len(q)])
       /\ NodeOf(q[Len(q)]).next = NULL /\ loc[q[Len(q)]].next = NULL

\* The first of the queue has the lock, and is no longer in the line.
FirstOwns(q) == q # <<>> /\ pc[q[1]] \in {"next", "hand"}

SomePends == \E p \in Contexts : pc[p] \in {"owner", "take"}

\* The line is the one who waits for the owner with the pending bit set, if any,
\* and then the queue.
InOrder(q) ==
  LET a == IF SomePends THEN 1 ELSE 0
      b == IF FirstOwns(q) THEN 1 ELSE 0
  IN
  /\ Len(line) = a + Len(q) - b
  /\ \A i \in 1 .. Len(q) - b : line[a + i] = q[b + i]

\* A node that was taken and is not yet in the queue.
FreshInv ==
  \A p \in Contexts : pc[p] \in {"trylock", "publish"} =>
    NodeOf(p) = FreshNode

\* As long as no wait was broken off.
QueueInv ==
  broken = 0 => FreshInv /\ \E q \in Seq(Contexts) : IsQueue(q) /\ InOrder(q)

-----------------------------------------------------------------------------
(* Types and nodes                                                         *)

\* The cpus of the contexts.
LEMMA CpuFacts ==
  /\ NR_CPUS \in Nat /\ MaxBreaks \in Nat /\ _Q_MAX_NODES \in 1 .. 4
  /\ TailCpus \in Nat /\ \A c \in Cpus : c + 1 < TailCpus
  /\ \A p \in Contexts : CpuOf[p] \in Cpus /\ Level[p] \in Nat
  /\ Cpus \subseteq Nat
  /\ \A p, q \in Contexts : p # q => CpuOf[p] # CpuOf[q] \/ Level[p] # Level[q]
BY SpinAssumption DEF Cpus

\* A number below the modulus is its own remainder.
LEMMA SmallRemainder ==
  ASSUME NEW m \in Nat, NEW a \in Nat, a < m
  PROVE  a % m = a
OBVIOUS

\* The lock word has room for the tail of every cpu.
LEMMA TailFits ==
  ASSUME NEW c \in Cpus, NEW i \in 0 .. 3
  PROVE  encode_tail(c, i) = (c + 1) * 4 + i
<1>1. PICK m \in Nat : m = 4 * TailCpus
  BY CpuFacts
<1>2. PICK a \in Nat : a = (c + 1) * 4 + i
  BY CpuFacts
<1>3. a < m
  BY <1>1, <1>2, CpuFacts
<1>4. a % m = a
  BY <1>3, SmallRemainder
<1>5. QED
  BY <1>1, <1>2, <1>4, Zenon DEF encode_tail

\* No node is NULL, and a tail tells the node it was made from.
LEMMA NodeFacts ==
  /\ NULL \notin Nodes
  /\ \A n \in Nodes : n[1] \in Nat /\ n[2] \in 0 .. 3 /\ n = <<n[1], n[2]>>
  /\ \A n \in Nodes : encode_tail(n[1], n[2]) \in Nat \ {0}
  /\ \A n \in Nodes : decode_tail(encode_tail(n[1], n[2])) = n
<1>1. \A n \in Nodes : n[1] \in Nat /\ n[2] \in 0 .. 3 /\ n = <<n[1], n[2]>>
  <2>1. \A n \in Nodes : n[1] \in Cpus /\ n[2] \in Indices /\ n = <<n[1], n[2]>>
    BY DEF Nodes
  <2>2. Indices \subseteq 0 .. 3
    BY CpuFacts DEF Indices
  <2>3. QED
    BY <2>1, <2>2, CpuFacts
<1>2. NULL \notin Nodes
  BY DEF Nodes, NULL
<1>3. \A c \in Nat, i \in 0 .. 3 :
        /\ (c + 1) * 4 + i \in Nat \ {0}
        /\ ((c + 1) * 4 + i) \div 4 - 1 = c /\ ((c + 1) * 4 + i) % 4 = i
  OBVIOUS
<1>4. ASSUME NEW n \in Nodes
      PROVE  encode_tail(n[1], n[2]) \in Nat \ {0} /\ decode_tail(encode_tail(n[1], n[2])) = n
  <2>0. n[1] \in Cpus /\ n[2] \in 0 .. 3
    BY <1>1 DEF Nodes
  <2>1. encode_tail(n[1], n[2]) = (n[1] + 1) * 4 + n[2]
    BY <2>0, TailFits
  <2>2. PICK c \in Nat, i \in 0 .. 3 : n[1] = c /\ n[2] = i
    BY <1>1
  <2>3. PICK x : x = (c + 1) * 4 + i
    OBVIOUS
  <2>4. x \in Nat \ {0} /\ x \div 4 - 1 = c /\ x % 4 = i
    BY <1>3, <2>3
  <2>5. encode_tail(n[1], n[2]) = x
    BY <2>1, <2>2, <2>3
  <2>6. decode_tail(x) = <<c, i>>
    BY <2>4 DEF decode_tail
  <2>7. n = <<c, i>>
    BY <1>1, <2>2
  <2>8. QED
    BY <2>4, <2>5, <2>6, <2>7
<1>5. QED
  BY <1>1, <1>2, <1>4

\* The steps of a context.
Steps(p) == arena_spin_lock(p) \/ Step(p) \/ Break(p)

\* A step of p leaves the others where they are.
LEMMA OthersStay ==
  ASSUME TypeInv, NEW p \in Contexts, Steps(p)
  PROVE  /\ Runs(p)
         /\ \A q \in Contexts \ {p} : pc'[q] = pc[q] /\ loc'[q] = loc[q]
<1> USE DEF TypeInv, Goto, Return, At, smp_cond_load, cond_break_label
<1>1. CASE arena_spin_lock(p) \/ SpinPending(p) \/ FetchSetPending(p) \/ UndoPending(p)
  BY <1>1 DEF arena_spin_lock, SpinPending, FetchSetPending, UndoPending
<1>2. CASE WaitOwner(p) \/ TakeOver(p) \/ TakeNode(p) \/ TryLock(p)
  BY <1>2 DEF WaitOwner, TakeOver, TakeNode, TryLock
<1>3. CASE PublishTail(p) \/ LinkPrev(p) \/ WaitMcs(p) \/ WaitHead(p)
  BY <1>3 DEF PublishTail, LinkPrev, WaitMcs, WaitHead
<1>4. CASE Claim(p) \/ SetLocked(p) \/ WaitNext(p) \/ HandOver(p)
  BY <1>4 DEF Claim, SetLocked, WaitNext, HandOver
<1>5. CASE Break(p) \/ arena_spin_unlock(p)
  BY <1>5 DEF Break, arena_spin_unlock
<1>6. QED
  BY <1>1, <1>2, <1>3, <1>4, <1>5 DEF Steps, Step

\* The lock word and the local variables, part by part.
LEMMA Records ==
  /\ Unlocked \in LockType /\ Word(1, 0, 0) \in LockType /\ NoLocals \in LocType
  /\ FreshNode \in NodeType /\ FreshNode.locked = 0 /\ FreshNode.next = NULL
  /\ \A w \in LockType :
       /\ [w EXCEPT !.locked = 0] \in LockType /\ [w EXCEPT !.locked = 1] \in LockType
       /\ [w EXCEPT !.pending = 0] \in LockType /\ [w EXCEPT !.pending = 1] \in LockType
       /\ [w EXCEPT !.locked = 1, !.pending = 0] \in LockType
       /\ \A t \in Tails : Word(w.locked, w.pending, t) \in LockType
<1>1. 0 \in Indices
  BY CpuFacts DEF Indices
<1>2. QED
  BY <1>1 DEF LockType, LocType, Unlocked, Word, NoLocals, FreshNode, NodeType, NULL

\* A context has a tail of its own.
LEMMA MyNode ==
  ASSUME TypeInv, NEW p \in Contexts
  PROVE  /\ loc[p] \in LocType /\ loc[p].idx \in Indices /\ CpuOf[p] \in Cpus
         /\ Me(p) \in Nodes /\ MyTail(p) \in Tails
<1>1. loc[p] \in LocType /\ loc[p].idx \in Indices /\ CpuOf[p] \in Cpus
  BY CpuFacts DEF TypeInv, LocType
<1>2. Me(p) \in Nodes
  BY <1>1 DEF Me, Nodes
<1>3. Me(p)[1] = CpuOf[p] /\ Me(p)[2] = loc[p].idx
  BY DEF Me
<1>4. MyTail(p) \in Tails
  BY <1>2, <1>3 DEF MyTail, Tails
<1>5. QED
  BY <1>1, <1>2, <1>4

\* p goes on with the local variables l.
LEMMA LocStep ==
  ASSUME TypeInv, NEW p \in Contexts, NEW label \in Labels, NEW l \in LocType,
         LocFits(p, label, l), pc' = [pc EXCEPT ![p] = label], loc' = [loc EXCEPT ![p] = l]
  PROVE  /\ pc' \in [Contexts -> Labels] /\ loc' \in [Contexts -> LocType]
         /\ \A q \in Contexts : LocFits(q, pc'[q], loc'[q])
<1>1. /\ pc' \in [Contexts -> Labels] /\ loc' \in [Contexts -> LocType]
      /\ pc'[p] = label /\ loc'[p] = l
      /\ \A q \in Contexts \ {p} : pc'[q] = pc[q] /\ loc'[q] = loc[q]
  BY DEF TypeInv
<1>2. ASSUME NEW q \in Contexts PROVE LocFits(q, pc'[q], loc'[q])
  <2>1. CASE q = p
    BY <1>1, <2>1
  <2>2. CASE q # p
    <3>1. pc'[q] = pc[q] /\ loc'[q] = loc[q]
      BY <1>1, <2>2
    <3>2. LocFits(q, pc[q], loc[q])
      BY DEF TypeInv
    <3>3. QED
      BY <3>1, <3>2
  <2>3. QED
    BY <2>1, <2>2
<1>3. QED
  BY <1>1, <1>2

\* p goes on with its local variables unchanged, to a label that asks nothing.
LEMMA LocSame ==
  ASSUME TypeInv, NEW p \in Contexts, NEW label \in Labels \ {"link", "hand", "claim"},
         pc' = [pc EXCEPT ![p] = label], loc' = loc
  PROVE  /\ pc' \in [Contexts -> Labels] /\ loc' \in [Contexts -> LocType]
         /\ \A q \in Contexts : LocFits(q, pc'[q], loc'[q])
<1>1. LocFits(p, label, loc[p])
  BY DEF LocFits
<1>2. loc' = [loc EXCEPT ![p] = loc[p]] /\ loc[p] \in LocType
  BY DEF TypeInv
<1>3. QED
  BY <1>1, <1>2, LocStep

\* The call of p is over.
LEMMA LocReturn ==
  ASSUME TypeInv, NEW p \in Contexts, NEW label \in {"idle", "held"}, Return(p, label)
  PROVE  /\ pc' \in [Contexts -> Labels] /\ loc' \in [Contexts -> LocType]
         /\ \A q \in Contexts : LocFits(q, pc'[q], loc'[q])
<1>1. LocFits(p, label, NoLocals) /\ label \in Labels
  BY DEF LocFits, Labels
<1>2. QED
  BY <1>1, LocStep, Records DEF Return, Goto

\* A context with a node has one that is counted.
LEMMA NodeCounted ==
  ASSUME TypeInv, NodeInv, NEW p \in Contexts, pc[p] \in WithNode
  PROVE  count[CpuOf[p]] \in 1 .. _Q_MAX_NODES /\ count[CpuOf[p]] - 1 \in 0 .. _Q_MAX_NODES
<1>1. loc[p].idx \in Nat
  BY MyNode DEF Indices
<1>2. loc[p].idx < count[CpuOf[p]] /\ count[CpuOf[p]] \in 0 .. _Q_MAX_NODES
  BY CpuFacts DEF NodeInv, TypeInv
<1>3. QED
  BY <1>1, <1>2, CpuFacts

\* The types after the steps up to the queue.
LEMMA TypeFirst ==
  ASSUME TypeInv, NodeInv, NEW p \in Contexts,
         arena_spin_lock(p) \/ SpinPending(p) \/ FetchSetPending(p) \/ UndoPending(p)
           \/ WaitOwner(p) \/ TakeOver(p) \/ arena_spin_unlock(p)
  PROVE  TypeInv'
<1>1. CpuOf[p] \in Cpus /\ lock \in LockType
  BY CpuFacts DEF TypeInv
<1>2. lock' \in LockType
  BY <1>1, Records DEF arena_spin_lock, SpinPending, FetchSetPending, UndoPending,
       WaitOwner, TakeOver, arena_spin_unlock, try_cmpxchg, clear_pending
<1>3. preempt' \in [Cpus -> Int]
  BY <1>1 DEF TypeInv, arena_spin_lock, SpinPending, FetchSetPending, UndoPending,
       WaitOwner, TakeOver, arena_spin_unlock, PreemptEnable
<1>4. node' = node /\ count' = count /\ broken' = broken
  BY DEF arena_spin_lock, SpinPending, FetchSetPending, UndoPending, WaitOwner, TakeOver,
       arena_spin_unlock
<1>5. CASE loc' = loc /\ \E label \in {"held", "spin", "queue", "pending", "undo", "owner", "take"} :
                          pc' = [pc EXCEPT ![p] = label]
  <2>1. PICK label \in Labels \ {"link", "hand", "claim"} : pc' = [pc EXCEPT ![p] = label]
    BY <1>5 DEF Labels
  <2>2. QED
    BY <1>2, <1>3, <1>4, <1>5, <2>1, LocSame DEF TypeInv
<1>6. CASE Return(p, "held") \/ Return(p, "idle")
  BY <1>2, <1>3, <1>4, <1>6, LocReturn DEF TypeInv
<1>7. QED
  <2>1. CASE TakeOver(p) \/ arena_spin_unlock(p)
    BY <1>6, <2>1 DEF TakeOver, arena_spin_unlock
  <2>2. CASE arena_spin_lock(p) \/ SpinPending(p) \/ FetchSetPending(p) \/ UndoPending(p)
               \/ WaitOwner(p)
    BY <1>5, <2>2 DEF arena_spin_lock, SpinPending, FetchSetPending, UndoPending, WaitOwner, Goto
  <2>3. QED
    BY <2>1, <2>2

\* A node, part by part.
LEMMA NodeParts ==
  ASSUME TypeInv, NEW c \in Cpus, NEW i \in Indices
  PROVE  /\ node[c][i] \in NodeType
         /\ node[c][i].next \in {NULL} \cup Nodes /\ node[c][i].locked \in {0, 1}
<1>1. node[c][i] \in NodeType
  BY DEF TypeInv
<1>2. NodeType = [next : {NULL} \cup Nodes, locked : {0, 1}]
  BY DEF NodeType, Nodes, Indices
<1>3. QED
  BY <1>1, <1>2

\* One part of the local variables changes.
LEMMA LocParts ==
  ASSUME NEW l \in LocType
  PROVE  /\ l.val \in LockType /\ l.idx \in Indices
         /\ l.prev \in {NULL} \cup Nodes /\ l.next \in {NULL} \cup Nodes
         /\ \A v \in LockType : [l EXCEPT !.val = v] \in LocType
         /\ \A i \in Indices : [l EXCEPT !.idx = i] \in LocType
         /\ \A n \in {NULL} \cup Nodes :
              [l EXCEPT !.prev = n] \in LocType /\ [l EXCEPT !.next = n] \in LocType
BY DEF LocType

\* The types after a step that leaves all nodes and counts alone.
LEMMA TypeQuiet ==
  ASSUME TypeInv, NodeInv, NEW p \in Contexts,
         PublishTail(p) \/ WaitMcs(p) \/ WaitHead(p) \/ SetLocked(p) \/ WaitNext(p)
  PROVE  TypeInv'
<1>1. /\ CpuOf[p] \in Cpus /\ lock \in LockType /\ loc[p] \in LocType /\ loc[p].idx \in Indices
      /\ MyTail(p) \in Tails
  BY MyNode DEF TypeInv
<1>2. lock' \in LockType
  BY <1>1, Records DEF PublishTail, WaitMcs, WaitHead, SetLocked, WaitNext, xchg_tail
<1>3. UNCHANGED <<node, count, preempt, broken>>
  BY DEF PublishTail, WaitMcs, WaitHead, SetLocked, WaitNext
<1>4. node[CpuOf[p]][loc[p].idx].next \in {NULL} \cup Nodes
  BY <1>1, NodeParts
<1>5. SUFFICES ASSUME TRUE
               PROVE  \E label \in Labels, l \in LocType :
                        /\ LocFits(p, label, l)
                        /\ pc' = [pc EXCEPT ![p] = label] /\ loc' = [loc EXCEPT ![p] = l]
  BY <1>2, <1>3, LocStep DEF TypeInv
<1>6. CASE PublishTail(p)
  <2>1. PICK n \in {NULL} \cup Nodes :
          /\ n = IF lock.tail # 0 THEN decode_tail(lock.tail) ELSE NULL
          /\ lock.tail # 0 => n # NULL
    <3>1. lock.tail = 0 \/ \E m \in Nodes : lock.tail = encode_tail(m[1], m[2])
      BY <1>1 DEF LockType, Tails
    <3>2. lock.tail # 0 => decode_tail(lock.tail) \in Nodes
      BY <3>1, NodeFacts
    <3>3. QED
      BY <3>2, NodeFacts
  <2>2. loc' = [loc EXCEPT ![p] = [[loc[p] EXCEPT !.next = NULL] EXCEPT !.prev = n]]
    BY <1>6, <2>1 DEF PublishTail, TypeInv
  <2>3. [loc[p] EXCEPT !.next = NULL] \in LocType
    BY <1>1, LocParts
  <2>4. [[loc[p] EXCEPT !.next = NULL] EXCEPT !.prev = n] \in LocType
    BY <2>3, LocParts
  <2>5. [[loc[p] EXCEPT !.next = NULL] EXCEPT !.prev = n].prev = n
    BY <2>3 DEF LocType
  <2>6. QED
    BY <1>6, <2>1, <2>2, <2>4, <2>5 DEF PublishTail, Goto, LocFits, Labels, WithNode
<1>7. CASE WaitMcs(p)
  <2>1. [loc[p] EXCEPT !.next = node[CpuOf[p]][loc[p].idx].next] \in LocType
    BY <1>1, <1>4, LocParts
  <2>2. LocFits(p, "head", [loc[p] EXCEPT !.next = node[CpuOf[p]][loc[p].idx].next])
    BY DEF LocFits
  <2>3. QED
    BY <1>7, <2>1, <2>2 DEF WaitMcs, Goto, Labels, WithNode, TypeInv
<1>8. CASE WaitHead(p)
  <2>1. [loc[p] EXCEPT !.val = lock] \in LocType
    BY <1>1, LocParts
  <2>2. [loc[p] EXCEPT !.val = lock].val = lock /\ [loc[p] EXCEPT !.val = lock].idx = loc[p].idx
    BY <1>1 DEF LocType
  <2>3. LocFits(p, IF lock.tail = MyTail(p) THEN "claim" ELSE "set", [loc[p] EXCEPT !.val = lock])
    BY <1>8, <2>2 DEF LocFits, WaitHead, smp_cond_load, QueueHeadMayGo, MyTail
  <2>4. QED
    BY <1>8, <2>1, <2>3 DEF WaitHead, Goto, Labels, WithNode, TypeInv
<1>9. CASE SetLocked(p)
  <2>1. [loc[p] EXCEPT !.val = Unlocked] \in LocType
    BY <1>1, LocParts, Records
  <2>2. [loc[p] EXCEPT !.val = Unlocked].next = loc[p].next
    BY <1>1 DEF LocType
  <2>3. LocFits(p, IF loc[p].next = NULL THEN "next" ELSE "hand", [loc[p] EXCEPT !.val = Unlocked])
    BY <2>2, SMTT(30) DEF LocFits
  <2>4. QED
    BY <1>9, <2>1, <2>3 DEF SetLocked, Goto, Labels, WithNode, TypeInv
<1>10. CASE WaitNext(p)
  <2>1. /\ [loc[p] EXCEPT !.next = node[CpuOf[p]][loc[p].idx].next] \in LocType
        /\ [loc[p] EXCEPT !.next = node[CpuOf[p]][loc[p].idx].next].next
             = node[CpuOf[p]][loc[p].idx].next
    BY <1>1, <1>4, LocParts DEF LocType
  <2>2. LocFits(p, "hand", [loc[p] EXCEPT !.next = node[CpuOf[p]][loc[p].idx].next])
    BY <1>10, <2>1 DEF LocFits, WaitNext, smp_cond_load
  <2>3. QED
    BY <1>10, <2>1, <2>2 DEF WaitNext, Goto, Labels, WithNode, TypeInv
<1>11. QED
  BY <1>6, <1>7, <1>8, <1>9, <1>10

\* One node changes.
LEMMA NodeChange ==
  ASSUME TypeInv, NEW c \in Cpus, NEW i \in Indices, NEW x \in NodeType,
         node' = [node EXCEPT ![c][i] = x]
  PROVE  /\ node' \in [Cpus -> [Indices -> NodeType]] /\ node'[c][i] = x
         /\ \A d \in Cpus, j \in Indices : d # c \/ j # i => node'[d][j] = node[d][j]
BY DEF TypeInv

\* A node changes in one part.
LEMMA NodePart ==
  ASSUME TypeInv, NEW c \in Cpus, NEW i \in Indices
  PROVE  /\ \A n \in {NULL} \cup Nodes :
              /\ [node[c][i] EXCEPT !.next = n] \in NodeType
              /\ [node[c][i] EXCEPT !.next = n].next = n
              /\ [node[c][i] EXCEPT !.next = n].locked = node[c][i].locked
              /\ [node EXCEPT ![c][i].next = n]
                   = [node EXCEPT ![c][i] = [node[c][i] EXCEPT !.next = n]]
         /\ [node[c][i] EXCEPT !.locked = 1] \in NodeType
         /\ [node[c][i] EXCEPT !.locked = 1].next = node[c][i].next
         /\ [node[c][i] EXCEPT !.locked = 1].locked = 1
         /\ [node EXCEPT ![c][i].locked = 1]
              = [node EXCEPT ![c][i] = [node[c][i] EXCEPT !.locked = 1]]
<1>1. node[c][i] \in NodeType
  BY NodeParts
<1>2. NodeType = [next : {NULL} \cup Nodes, locked : {0, 1}]
  BY DEF NodeType, Nodes, Indices
<1>3. \A v : [node EXCEPT ![c][i].next = v] = [node EXCEPT ![c][i] = [node[c][i] EXCEPT !.next = v]]
  BY Zenon
<1>4. [node EXCEPT ![c][i].locked = 1] = [node EXCEPT ![c][i] = [node[c][i] EXCEPT !.locked = 1]]
  BY Zenon
<1>5. QED
  BY <1>1, <1>2, <1>3, <1>4

\* Who p links itself to.
LEMMA LinkStep ==
  ASSUME TypeInv, NEW p \in Contexts, LinkPrev(p)
  PROVE  LET n == loc[p].prev IN
         /\ n \in Nodes /\ n = <<n[1], n[2]>> /\ n[1] \in Cpus /\ n[2] \in Indices
         /\ node' \in [Cpus -> [Indices -> NodeType]]
         /\ node'[n[1]][n[2]].next = Me(p)
         /\ \A d \in Cpus, j \in Indices : node'[d][j].locked = node[d][j].locked
         /\ \A d \in Cpus, j \in Indices : <<d, j>> # n => node'[d][j] = node[d][j]
         /\ loc' = [loc EXCEPT ![p] = [loc[p] EXCEPT !.prev = NULL]]
<1> DEFINE n == loc[p].prev
<1>1. pc[p] = "link" /\ loc[p] \in LocType /\ n # NULL
  BY MyNode DEF LinkPrev, At, TypeInv, LocFits
<1>2. n \in Nodes
  BY <1>1, LocParts
<1>3. n[1] \in Cpus /\ n[2] \in Indices /\ n = <<n[1], n[2]>>
  BY <1>2, NodeFacts DEF Nodes
<1>4. node' = [node EXCEPT ![n[1]][n[2]].next = Me(p)] /\ Me(p) \in Nodes
  BY MyNode DEF LinkPrev
<1> HIDE DEF n
<1>5. PICK c \in Cpus, i \in Indices, x \in NodeType :
        c = n[1] /\ i = n[2] /\ x = [node[c][i] EXCEPT !.next = Me(p)]
  BY <1>3, <1>4, NodePart, ZenonT(60)
<1>6. /\ node' \in [Cpus -> [Indices -> NodeType]]
      /\ node'[n[1]][n[2]] = [node[n[1]][n[2]] EXCEPT !.next = Me(p)]
      /\ \A d \in Cpus, j \in Indices : d # n[1] \/ j # n[2] => node'[d][j] = node[d][j]
  <2>1. node' = [node EXCEPT ![c][i] = x]
    BY <1>4, <1>5, NodePart
  <2>2. /\ node' \in [Cpus -> [Indices -> NodeType]] /\ node'[c][i] = x
        /\ \A d \in Cpus, j \in Indices : d # c \/ j # i => node'[d][j] = node[d][j]
    BY <2>1, NodeChange, ZenonT(60)
  <2>3. QED
    BY <1>5, <2>2
<1>7. node'[n[1]][n[2]].next = Me(p) /\ node'[n[1]][n[2]].locked = node[n[1]][n[2]].locked
  BY <1>3, <1>4, <1>6, NodePart
<1>8. \A d \in Cpus, j \in Indices : node'[d][j].locked = node[d][j].locked
  BY <1>6, <1>7
<1>9. loc' = [loc EXCEPT ![p] = [loc[p] EXCEPT !.prev = NULL]]
  BY DEF LinkPrev, TypeInv
<1>10. \A d \in Cpus, j \in Indices : <<d, j>> # n => node'[d][j] = node[d][j]
  BY <1>3, <1>6
<1>11. QED
  BY <1>2, <1>3, <1>6, <1>7, <1>8, <1>9, <1>10 DEF n

\* Whom p hands over to.
LEMMA HandStep ==
  ASSUME TypeInv, NEW p \in Contexts, HandOver(p)
  PROVE  LET n == loc[p].next IN
         /\ n \in Nodes /\ n = <<n[1], n[2]>> /\ n[1] \in Cpus /\ n[2] \in Indices
         /\ node' \in [Cpus -> [Indices -> NodeType]]
         /\ node'[n[1]][n[2]].locked = 1
         /\ \A d \in Cpus, j \in Indices : node'[d][j].next = node[d][j].next
         /\ \A d \in Cpus, j \in Indices : <<d, j>> # n => node'[d][j] = node[d][j]
<1> DEFINE n == loc[p].next
<1>1. pc[p] = "hand" /\ loc[p] \in LocType /\ n # NULL
  BY MyNode DEF HandOver, At, TypeInv, LocFits
<1>2. n \in Nodes
  BY <1>1, LocParts
<1>3. n[1] \in Cpus /\ n[2] \in Indices /\ n = <<n[1], n[2]>>
  BY <1>2, NodeFacts DEF Nodes
<1>4. node' = [node EXCEPT ![n[1]][n[2]].locked = 1]
  BY DEF HandOver
<1> HIDE DEF n
<1>5. PICK c \in Cpus, i \in Indices, x \in NodeType :
        c = n[1] /\ i = n[2] /\ x = [node[c][i] EXCEPT !.locked = 1]
  BY <1>3, <1>4, NodePart, ZenonT(60)
<1>6. /\ node' \in [Cpus -> [Indices -> NodeType]]
      /\ node'[n[1]][n[2]] = [node[n[1]][n[2]] EXCEPT !.locked = 1]
      /\ \A d \in Cpus, j \in Indices : d # n[1] \/ j # n[2] => node'[d][j] = node[d][j]
  <2>1. node' = [node EXCEPT ![c][i] = x]
    BY <1>4, <1>5, NodePart
  <2>2. /\ node' \in [Cpus -> [Indices -> NodeType]] /\ node'[c][i] = x
        /\ \A d \in Cpus, j \in Indices : d # c \/ j # i => node'[d][j] = node[d][j]
    BY <2>1, NodeChange
  <2>3. QED
    BY <1>5, <2>2
<1>7. node'[n[1]][n[2]].locked = 1 /\ node'[n[1]][n[2]].next = node[n[1]][n[2]].next
  BY <1>3, <1>4, <1>6, NodePart
<1>8. \A d \in Cpus, j \in Indices : node'[d][j].next = node[d][j].next
  BY <1>6, <1>7
<1>9. \A d \in Cpus, j \in Indices : <<d, j>> # n => node'[d][j] = node[d][j]
  BY <1>3, <1>6
<1>10. QED
  BY <1>2, <1>3, <1>6, <1>7, <1>8, <1>9 DEF n

\* The node p takes.
LEMMA TakeStep ==
  ASSUME TypeInv, NEW p \in Contexts, TakeNode(p), pc'[p] # "idle"
  PROVE  LET i == count[CpuOf[p]] IN
         /\ i \in Indices
         /\ count' = [count EXCEPT ![CpuOf[p]] = i + 1]
         /\ node' \in [Cpus -> [Indices -> NodeType]] /\ node'[CpuOf[p]][i] = FreshNode
         /\ \A d \in Cpus, j \in Indices : d # CpuOf[p] \/ j # i => node'[d][j] = node[d][j]
         /\ loc' = [loc EXCEPT ![p] = [loc[p] EXCEPT !.idx = i]] /\ loc'[p].idx = i
         /\ pc' = [pc EXCEPT ![p] = "trylock"] /\ preempt' = preempt
<1> DEFINE i == count[CpuOf[p]]
<1>1. CpuOf[p] \in Cpus /\ i \in 0 .. _Q_MAX_NODES
  BY MyNode DEF TypeInv
<1>2. /\ HasNode(i) /\ count' = [count EXCEPT ![CpuOf[p]] = i + 1]
      /\ node' = [node EXCEPT ![CpuOf[p]][i] = FreshNode]
      /\ loc' = [loc EXCEPT ![p] = [loc[p] EXCEPT !.idx = i]]
      /\ pc' = [pc EXCEPT ![p] = "trylock"] /\ preempt' = preempt
  BY DEF TakeNode, Return, Goto, TypeInv
<1>3. i \in Indices
  BY <1>1, <1>2, CpuFacts DEF HasNode, Indices
<1>4. loc'[p].idx = i
  BY <1>2, MyNode DEF TypeInv, LocType
<1> HIDE DEF i
<1>5. /\ node' \in [Cpus -> [Indices -> NodeType]] /\ node'[CpuOf[p]][i] = FreshNode
      /\ \A d \in Cpus, j \in Indices : d # CpuOf[p] \/ j # i => node'[d][j] = node[d][j]
  <2>1. PICK c \in Cpus, k \in Indices, x \in NodeType : c = CpuOf[p] /\ k = i /\ x = FreshNode
    BY <1>1, <1>3, Records
  <2>2. node' = [node EXCEPT ![c][k] = x]
    BY <1>2, <2>1
  <2>3. /\ node' \in [Cpus -> [Indices -> NodeType]] /\ node'[c][k] = x
        /\ \A d \in Cpus, j \in Indices : d # c \/ j # k => node'[d][j] = node[d][j]
    BY <2>2, NodeChange, ZenonT(60)
  <2>4. QED
    BY <2>1, <2>3
<1>6. QED
  BY <1>2, <1>3, <1>4, <1>5 DEF i

\* p gives its node back.
Drops(p) ==
  /\ pc[p] \in WithNode /\ pc'[p] \notin WithNode
  /\ count' = [count EXCEPT ![CpuOf[p]] = @ - 1]

\* The counts after the steps that may release a node.
LEMMA DropStep ==
  ASSUME TypeInv, NodeInv, NEW p \in Contexts,
         TryLock(p) \/ Claim(p) \/ HandOver(p) \/ Break(p)
  PROVE  \/ Drops(p) /\ (Return(p, "held") \/ Return(p, "idle"))
         \/ /\ count' = count
            /\ \/ pc[p] \in WithNode /\ (Goto(p, "publish") \/ Goto(p, "set")) /\ loc' = loc
               \/ pc[p] \notin WithNode /\ Return(p, "idle")
<1>1. pc \in [Contexts -> Labels] /\ CpuOf[p] \in Cpus /\ count \in [Cpus -> 0 .. _Q_MAX_NODES]
  BY MyNode DEF TypeInv
<1>2. \A label \in {"held", "idle"} : Return(p, label) => pc'[p] \notin WithNode
  BY <1>1 DEF Return, Goto, WithNode
<1>3. CASE TryLock(p) \/ Claim(p) \/ HandOver(p)
  <2>1. pc[p] \in WithNode
    BY <1>3 DEF TryLock, Claim, HandOver, At, WithNode
  <2>2. QED
    BY <1>2, <1>3, <2>1 DEF TryLock, Claim, HandOver, ReleaseNode, Drops
<1>4. CASE Break(p)
  <2>1. Return(p, "idle") /\ count' = [count EXCEPT ![CpuOf[p]] = ErrCount(p)]
    BY <1>4 DEF Break
  <2>2. pc[p] \in {"spin", "owner", "mcs", "head", "next"}
    BY <1>4 DEF Break, cond_break_label
  <2>3. CASE pc[p] \in {"mcs", "head", "next"}
    <3>1. ErrCount(p) = count[CpuOf[p]] - 1
      BY <2>3 DEF ErrCount
    <3>2. count' = [count EXCEPT ![CpuOf[p]] = @ - 1]
      BY <1>1, <2>1, <3>1
    <3>3. QED
      BY <1>2, <2>1, <2>3, <3>2 DEF Drops, WithNode
  <2>4. CASE pc[p] \in {"spin", "owner"}
    <3>1. ErrCount(p) = count[CpuOf[p]]
      BY <2>4 DEF ErrCount
    <3>2. count' = count
      BY <1>1, <2>1, <3>1
    <3>3. QED
      BY <2>1, <2>4, <3>2 DEF WithNode
  <2>5. QED
    BY <2>2, <2>3, <2>4
<1>5. QED
  BY <1>3, <1>4

\* The types after a step that takes, links or releases a node.
LEMMA TypeNodes ==
  ASSUME TypeInv, NodeInv, NEW p \in Contexts,
         TakeNode(p) \/ TryLock(p) \/ LinkPrev(p) \/ Claim(p) \/ HandOver(p) \/ Break(p)
  PROVE  TypeInv'
<1>1. CpuOf[p] \in Cpus /\ lock \in LockType /\ loc[p] \in LocType
  BY MyNode DEF TypeInv
<1>2. lock' \in LockType
  BY <1>1, Records DEF TakeNode, TryLock, LinkPrev, Claim, HandOver, Break, try_cmpxchg
<1>3. preempt' \in [Cpus -> Int] /\ broken' \in 0 .. MaxBreaks
  <2>1. preempt \in [Cpus -> Int] /\ broken \in 0 .. MaxBreaks /\ MaxBreaks \in Nat
    BY CpuFacts DEF TypeInv
  <2>2. CASE Break(p)
    BY <1>1, <2>1, <2>2 DEF Break, PreemptEnable, cond_break_label
  <2>3. CASE TakeNode(p)
    BY <1>1, <2>1, <2>3, SMTT(30) DEF TakeNode, PreemptEnable
  <2>4. CASE TryLock(p) \/ LinkPrev(p) \/ Claim(p) \/ HandOver(p)
    BY <2>1, <2>4 DEF TryLock, LinkPrev, Claim, HandOver
  <2>5. QED
    BY <2>2, <2>3, <2>4
<1>4. ASSUME TryLock(p) \/ Claim(p) \/ HandOver(p) \/ Break(p)
      PROVE  /\ count' \in [Cpus -> 0 .. _Q_MAX_NODES]
             /\ pc' \in [Contexts -> Labels] /\ loc' \in [Contexts -> LocType]
             /\ \A q \in Contexts : LocFits(q, pc'[q], loc'[q])
  <2>1. CASE Drops(p) /\ (Return(p, "held") \/ Return(p, "idle"))
    <3>1. count' \in [Cpus -> 0 .. _Q_MAX_NODES]
      BY <1>1, <2>1, NodeCounted DEF TypeInv, Drops
    <3>2. QED
      BY <2>1, <3>1, LocReturn
  <2>2. CASE count' = count /\ (Goto(p, "publish") \/ Goto(p, "set")) /\ loc' = loc
    <3>1. PICK label \in Labels \ {"link", "hand", "claim"} : pc' = [pc EXCEPT ![p] = label]
      BY <2>2 DEF Labels, Goto, WithNode
    <3>2. QED
      BY <2>2, <3>1, LocSame DEF TypeInv
  <2>3. CASE count' = count /\ Return(p, "idle")
    BY <2>3, LocReturn DEF TypeInv
  <2>4. QED
    BY <1>4, <2>1, <2>2, <2>3, DropStep
<1>5. CASE TryLock(p) \/ Claim(p) \/ Break(p)
  <2>1. node' = node
    BY <1>5 DEF TryLock, Claim, Break
  <2>2. QED
    BY <1>2, <1>3, <1>4, <1>5, <2>1 DEF TypeInv
<1>6. CASE HandOver(p)
  BY <1>2, <1>3, <1>4, <1>6, HandStep DEF TypeInv
<1>7. CASE LinkPrev(p)
  <2>1. [loc[p] EXCEPT !.prev = NULL] \in LocType
    BY <1>1, LocParts
  <2>2. LocFits(p, "mcs", [loc[p] EXCEPT !.prev = NULL])
    BY DEF LocFits
  <2>3. count' = count /\ pc' = [pc EXCEPT ![p] = "mcs"] /\ "mcs" \in Labels
    BY <1>7 DEF LinkPrev, Goto, Labels, WithNode
  <2>4. loc' = [loc EXCEPT ![p] = [loc[p] EXCEPT !.prev = NULL]]
        /\ node' \in [Cpus -> [Indices -> NodeType]]
    BY <1>7, LinkStep
  <2>5. /\ pc' \in [Contexts -> Labels] /\ loc' \in [Contexts -> LocType]
        /\ \A q \in Contexts : LocFits(q, pc'[q], loc'[q])
    BY <2>1, <2>2, <2>3, <2>4, LocStep
  <2>6. QED
    BY <1>2, <1>3, <2>3, <2>4, <2>5 DEF TypeInv
<1>8. CASE TakeNode(p)
  <2>1. CASE pc'[p] = "idle"
    <3>1. Return(p, "idle") /\ UNCHANGED <<count, node>>
      BY <1>8, <2>1 DEF TakeNode, Goto, TypeInv
    <3>2. QED
      BY <1>2, <1>3, <3>1, LocReturn DEF TypeInv
  <2>2. CASE pc'[p] # "idle"
    <3> DEFINE i == count[CpuOf[p]]
    <3>1. /\ i \in Indices /\ count' = [count EXCEPT ![CpuOf[p]] = i + 1]
          /\ node' \in [Cpus -> [Indices -> NodeType]]
          /\ loc' = [loc EXCEPT ![p] = [loc[p] EXCEPT !.idx = i]]
          /\ pc' = [pc EXCEPT ![p] = "trylock"]
      BY <1>8, <2>2, TakeStep
    <3> HIDE DEF i
    <3>2. i + 1 \in 0 .. _Q_MAX_NODES
      BY <3>1, CpuFacts DEF Indices
    <3>3. [loc[p] EXCEPT !.idx = i] \in LocType
      BY <1>1, <3>1, LocParts
    <3>4. LocFits(p, "trylock", [loc[p] EXCEPT !.idx = i]) /\ "trylock" \in Labels
      BY DEF LocFits, Labels, WithNode
    <3>5. /\ pc' \in [Contexts -> Labels] /\ loc' \in [Contexts -> LocType]
          /\ \A q \in Contexts : LocFits(q, pc'[q], loc'[q])
      BY <3>1, <3>3, <3>4, LocStep
    <3>6. count' \in [Cpus -> 0 .. _Q_MAX_NODES]
      BY <1>1, <3>1, <3>2 DEF TypeInv
    <3>7. QED
      BY <1>2, <1>3, <3>1, <3>5, <3>6 DEF TypeInv
  <2>3. QED
    BY <2>1, <2>2
<1>9. QED
  BY <1>5, <1>6, <1>7, <1>8

\* Every step keeps the types.
LEMMA TypeNext ==
  ASSUME TypeInv, NodeInv, NEW p \in Contexts, Steps(p)
  PROVE  TypeInv'
BY TypeFirst, TypeQuiet, TypeNodes DEF Steps, Step

-----------------------------------------------------------------------------
(* What is taken and given back                                            *)

KeepsNode(p) ==
  /\ pc'[p] \in WithNode <=> pc[p] \in WithNode
  /\ pc[p] \in WithNode => loc'[p].idx = loc[p].idx
  /\ count' = count

Takes(p) ==
  /\ pc[p] \notin WithNode /\ pc'[p] \in WithNode /\ loc'[p].idx = count[CpuOf[p]]
  /\ count' = [count EXCEPT ![CpuOf[p]] = @ + 1]

Stays(p) == (pc'[p] = "idle" <=> pc[p] = "idle") /\ preempt' = preempt

Enters(p) ==
  /\ pc[p] = "idle" /\ pc'[p] # "idle"
  /\ preempt' = [preempt EXCEPT ![CpuOf[p]] = @ + 1]

Exits(p) ==
  /\ pc[p] # "idle" /\ pc'[p] = "idle"
  /\ preempt' = [preempt EXCEPT ![CpuOf[p]] = @ - 1]

\* What a step does to the node of its context.
LEMMA NodeMoves ==
  ASSUME TypeInv, NodeInv, NEW p \in Contexts, Steps(p)
  PROVE  KeepsNode(p) \/ Takes(p) \/ Drops(p)
<1>1. pc \in [Contexts -> Labels] /\ loc[p] \in LocType /\ loc \in [Contexts -> LocType]
  BY MyNode DEF TypeInv
<1>2. CASE arena_spin_lock(p) \/ SpinPending(p) \/ FetchSetPending(p) \/ UndoPending(p)
             \/ WaitOwner(p) \/ TakeOver(p) \/ arena_spin_unlock(p)
  <2>1. pc[p] \notin WithNode /\ pc'[p] \notin WithNode
    BY <1>1, <1>2 DEF arena_spin_lock, SpinPending, FetchSetPending, UndoPending, WaitOwner,
         TakeOver, arena_spin_unlock, At, smp_cond_load, Goto, Return, WithNode
  <2>2. count' = count
    BY <1>2 DEF arena_spin_lock, SpinPending, FetchSetPending, UndoPending, WaitOwner,
         TakeOver, arena_spin_unlock
  <2>3. QED
    BY <2>1, <2>2 DEF KeepsNode
<1>3. CASE PublishTail(p) \/ WaitMcs(p) \/ WaitHead(p) \/ SetLocked(p) \/ WaitNext(p) \/ LinkPrev(p)
  <2>1. pc[p] \in WithNode /\ pc'[p] \in WithNode
    BY <1>1, <1>3, SMTT(30) DEF PublishTail, WaitMcs, WaitHead, SetLocked, WaitNext, LinkPrev, At,
         smp_cond_load, Goto, WithNode
  <2>2. count' = count
    BY <1>3 DEF PublishTail, WaitMcs, WaitHead, SetLocked, WaitNext, LinkPrev
  <2>3. loc'[p].idx = loc[p].idx
    <3>1. CASE PublishTail(p)
      BY <1>1, <3>1 DEF PublishTail, LocType
    <3>2. CASE WaitMcs(p) \/ WaitHead(p) \/ SetLocked(p) \/ WaitNext(p) \/ LinkPrev(p)
      BY <1>1, <3>2 DEF WaitMcs, WaitHead, SetLocked, WaitNext, LinkPrev, LocType
    <3>3. QED
      BY <1>3, <3>1, <3>2
  <2>4. QED
    BY <2>1, <2>2, <2>3 DEF KeepsNode
<1>4. CASE TakeNode(p)
  <2>1. pc[p] \notin WithNode
    BY <1>4 DEF TakeNode, At, WithNode
  <2>2. CASE pc'[p] = "idle"
    BY <1>1, <1>4, <2>1, <2>2 DEF TakeNode, Goto, WithNode, KeepsNode
  <2>3. CASE pc'[p] # "idle"
    BY <1>1, <1>4, <2>1, <2>3, TakeStep DEF Takes, WithNode
  <2>4. QED
    BY <2>2, <2>3
<1>5. CASE TryLock(p) \/ Claim(p) \/ HandOver(p) \/ Break(p)
  <2>1. CASE count' = count /\ pc[p] \in WithNode /\ (Goto(p, "publish") \/ Goto(p, "set")) /\ loc' = loc
    BY <1>1, <2>1 DEF Goto, KeepsNode, WithNode
  <2>2. CASE count' = count /\ pc[p] \notin WithNode /\ Return(p, "idle")
    BY <1>1, <2>2 DEF Return, Goto, KeepsNode, WithNode
  <2>3. QED
    BY <1>5, <2>1, <2>2, DropStep
<1>6. QED
  BY <1>2, <1>3, <1>4, <1>5 DEF Steps, Step

\* What a step does to the preemption count.
LEMMA PreemptMoves ==
  ASSUME TypeInv, NEW p \in Contexts, Steps(p)
  PROVE  Stays(p) \/ Enters(p) \/ Exits(p)
<1> USE DEF At, smp_cond_load, Goto, Return, PreemptEnable
<1>1. pc \in [Contexts -> Labels]
  BY DEF TypeInv
<1>2. CASE arena_spin_lock(p) \/ SpinPending(p) \/ FetchSetPending(p) \/ UndoPending(p)
             \/ WaitOwner(p) \/ TakeOver(p) \/ arena_spin_unlock(p)
  BY <1>1, <1>2, SMTT(30) DEF arena_spin_lock, SpinPending, FetchSetPending, UndoPending, WaitOwner,
       TakeOver, arena_spin_unlock, Stays, Enters, Exits
<1>3. CASE PublishTail(p) \/ WaitMcs(p) \/ WaitHead(p) \/ SetLocked(p) \/ WaitNext(p) \/ LinkPrev(p)
  BY <1>1, <1>3 DEF PublishTail, WaitMcs, WaitHead, SetLocked, WaitNext, LinkPrev, Stays
<1>4. CASE TakeNode(p) \/ TryLock(p) \/ Claim(p) \/ HandOver(p) \/ Break(p)
  BY <1>1, <1>4 DEF TakeNode, TryLock, Claim, HandOver, Break, cond_break_label, Stays, Exits
<1>5. QED
  BY <1>2, <1>3, <1>4 DEF Steps, Step

\* The contexts of a cpu keep their order.
LEMMA NodeNext ==
  ASSUME TypeInv, NodeInv, NEW p \in Contexts, Steps(p)
  PROVE  NodeInv'
<1>1. /\ \A q \in Contexts \ {p} : pc'[q] = pc[q] /\ loc'[q] = loc[q]
      /\ \A q \in Contexts : CpuOf[q] = CpuOf[p] /\ Level[q] > Level[p] => pc[q] \notin WithNode
  BY OthersStay DEF Runs, WithNode
<1>2. \A q \in Contexts : /\ CpuOf[q] \in Cpus /\ Level[q] \in Nat /\ loc[q].idx \in Nat
                          /\ count[CpuOf[q]] \in Nat
  <2>1. \A c \in Cpus : count[c] \in Nat
    BY CpuFacts DEF TypeInv
  <2>2. Indices \subseteq Nat
    BY CpuFacts DEF Indices
  <2>3. QED
    BY <2>1, <2>2, CpuFacts, MyNode
<1>3. \A q \in Contexts : q # p /\ CpuOf[q] = CpuOf[p] /\ pc[q] \in WithNode => Level[q] < Level[p]
  BY <1>1, <1>2, CpuFacts
<1>4. CASE KeepsNode(p)
  <2>1. \A q \in Contexts : /\ pc'[q] \in WithNode <=> pc[q] \in WithNode
                            /\ pc[q] \in WithNode => loc'[q].idx = loc[q].idx
    BY <1>1, <1>4 DEF KeepsNode
  <2>2. QED
    BY <1>4, <2>1 DEF NodeInv, KeepsNode
<1>5. CASE Takes(p)
  <2>1. /\ pc[p] \notin WithNode /\ pc'[p] \in WithNode /\ loc'[p].idx = count[CpuOf[p]]
        /\ \A q \in Contexts : count'[CpuOf[q]] = IF CpuOf[q] = CpuOf[p] THEN count[CpuOf[q]] + 1
                                                 ELSE count[CpuOf[q]]
    BY <1>2, <1>5 DEF Takes, TypeInv
  <2>2. ASSUME NEW q \in Contexts, pc'[q] \in WithNode PROVE loc'[q].idx < count'[CpuOf[q]]
    BY <1>1, <1>2, <2>1, <2>2 DEF NodeInv
  <2>3. ASSUME NEW q \in Contexts, NEW r \in Contexts, pc'[q] \in WithNode, pc'[r] \in WithNode,
               CpuOf[r] = CpuOf[q], Level[q] < Level[r]
        PROVE  loc'[q].idx < loc'[r].idx
    <3>1. q # p
      BY <1>1, <1>2, <2>3
    <3>2. QED
      BY <1>1, <1>2, <2>1, <2>3, <3>1 DEF NodeInv
  <2>4. QED
    BY <2>2, <2>3 DEF NodeInv
<1>6. CASE Drops(p)
  <2>1. /\ pc[p] \in WithNode /\ pc'[p] \notin WithNode
        /\ \A q \in Contexts : count'[CpuOf[q]] = IF CpuOf[q] = CpuOf[p] THEN count[CpuOf[q]] - 1
                                                 ELSE count[CpuOf[q]]
    BY <1>2, <1>6 DEF Drops, TypeInv
  <2>2. ASSUME NEW q \in Contexts, pc'[q] \in WithNode PROVE loc'[q].idx < count'[CpuOf[q]]
    <3>1. q # p /\ pc[q] \in WithNode /\ loc'[q] = loc[q] /\ loc[q].idx < count[CpuOf[q]]
      BY <1>1, <2>1, <2>2 DEF NodeInv
    <3>2. CpuOf[q] = CpuOf[p] => loc[q].idx < loc[p].idx /\ loc[p].idx < count[CpuOf[p]]
      BY <1>3, <2>1, <3>1 DEF NodeInv
    <3>3. QED
      BY <1>2, <2>1, <3>1, <3>2
  <2>3. QED
    BY <1>1, <2>1, <2>2 DEF NodeInv
<1>7. QED
  BY <1>4, <1>5, <1>6, NodeMoves

\* Two contexts never share a node.
LEMMA OwnNode ==
  ASSUME TypeInv, NodeInv, NEW p \in Contexts, NEW q \in Contexts,
         pc[p] \in WithNode, pc[q] \in WithNode, CpuOf[p] = CpuOf[q], loc[p].idx = loc[q].idx
  PROVE  p = q
<1>1. Level[p] \in Nat /\ Level[q] \in Nat /\ loc[p].idx \in Nat /\ loc[q].idx \in Nat
  BY CpuFacts, MyNode DEF Indices
<1>2. ~ (Level[p] < Level[q]) /\ ~ (Level[q] < Level[p])
  BY <1>1 DEF NodeInv
<1>3. QED
  BY <1>1, <1>2, CpuFacts

\* The contexts of a cpu that are at the lock, and those with a node.
AtLock(c) == {p \in OnCpu(c) : pc[p] # "idle"}

Holders(c) == {p \in OnCpu(c) : pc[p] \in WithNode}

BalanceInv ==
  \A c \in Cpus : /\ IsFiniteSet(AtLock(c))
                  /\ count[c] = Cardinality(Holders(c)) /\ preempt[c] = Cardinality(AtLock(c))

\* The holders of nodes are at the lock, and so finitely many.
LEMMA FiniteHolders ==
  ASSUME BalanceInv, NEW c \in Cpus
  PROVE  IsFiniteSet(AtLock(c)) /\ IsFiniteSet(Holders(c))
<1>1. Holders(c) \subseteq AtLock(c)
  BY DEF Holders, AtLock, WithNode
<1>2. QED
  BY <1>1, FS_Subset DEF BalanceInv

\* Every step takes and gives back what it counts.
LEMMA BalanceNext ==
  ASSUME TypeInv, NodeInv, BalanceInv, NEW p \in Contexts, Steps(p)
  PROVE  BalanceInv'
<1>1. \A q \in Contexts \ {p} : pc'[q] = pc[q]
  BY OthersStay
<1>2. SUFFICES ASSUME NEW c \in Cpus
               PROVE  /\ IsFiniteSet(AtLock(c))'
                      /\ count'[c] = Cardinality(Holders(c)') /\ preempt'[c] = Cardinality(AtLock(c)')
  BY DEF BalanceInv
<1>3. /\ IsFiniteSet(AtLock(c)) /\ IsFiniteSet(Holders(c))
      /\ count[c] = Cardinality(Holders(c)) /\ preempt[c] = Cardinality(AtLock(c))
  BY FiniteHolders DEF BalanceInv
<1>4. count'[c] = Cardinality(Holders(c)')
  <2>1. CASE KeepsNode(p) \/ (CpuOf[p] # c /\ (Takes(p) \/ Drops(p)))
    <3>1. Holders(c)' = Holders(c)
      BY <1>1, <2>1 DEF Holders, OnCpu, KeepsNode
    <3>2. count'[c] = count[c]
      BY <2>1, CpuFacts DEF KeepsNode, Takes, Drops, TypeInv
    <3>3. QED
      BY <1>3, <3>1, <3>2
  <2>2. CASE CpuOf[p] = c /\ Takes(p)
    <3>1. Holders(c)' = Holders(c) \cup {p} /\ p \notin Holders(c)
      BY <1>1, <2>2 DEF Holders, OnCpu, Takes
    <3>2. count'[c] = count[c] + 1
      BY <2>2 DEF Takes, TypeInv
    <3>3. QED
      BY <1>3, <3>1, <3>2, FS_AddElement
  <2>3. CASE CpuOf[p] = c /\ Drops(p)
    <3>1. Holders(c)' = Holders(c) \ {p} /\ p \in Holders(c)
      BY <1>1, <2>3 DEF Holders, OnCpu, Drops
    <3>2. count'[c] = count[c] - 1
      BY <2>3 DEF Drops, TypeInv
    <3>3. QED
      BY <1>3, <3>1, <3>2, FS_RemoveElement
  <2>4. QED
    BY <2>1, <2>2, <2>3, NodeMoves
<1>5. IsFiniteSet(AtLock(c))' /\ preempt'[c] = Cardinality(AtLock(c)')
  <2>1. CASE Stays(p) \/ (CpuOf[p] # c /\ (Enters(p) \/ Exits(p)))
    <3>1. AtLock(c)' = AtLock(c)
      BY <1>1, <2>1 DEF AtLock, OnCpu, Stays
    <3>2. preempt'[c] = preempt[c]
      BY <2>1, CpuFacts DEF Stays, Enters, Exits, TypeInv
    <3>3. QED
      BY <1>3, <3>1, <3>2
  <2>2. CASE CpuOf[p] = c /\ Enters(p)
    <3>1. AtLock(c)' = AtLock(c) \cup {p} /\ p \notin AtLock(c)
      BY <1>1, <2>2 DEF AtLock, OnCpu, Enters
    <3>2. preempt'[c] = preempt[c] + 1
      BY <2>2 DEF Enters, TypeInv
    <3>3. QED
      BY <1>3, <3>1, <3>2, FS_AddElement
  <2>3. CASE CpuOf[p] = c /\ Exits(p)
    <3>1. AtLock(c)' = AtLock(c) \ {p} /\ p \in AtLock(c)
      BY <1>1, <2>3 DEF AtLock, OnCpu, Exits
    <3>2. preempt'[c] = preempt[c] - 1
      BY <2>3 DEF Exits, TypeInv
    <3>3. QED
      BY <1>3, <3>1, <3>2, FS_RemoveElement
  <2>4. QED
    BY <2>1, <2>2, <2>3, PreemptMoves
<1>6. QED
  BY <1>4, <1>5

\* No context is at the lock to begin with.
LEMMA FirstInit ==
  Init => TypeInv /\ NodeInv /\ BalanceInv
<1> SUFFICES ASSUME Init PROVE TypeInv /\ NodeInv /\ BalanceInv
  OBVIOUS
<1>1. \A p \in Contexts : pc[p] = "idle" /\ LocFits(p, pc[p], loc[p])
  BY DEF Init, LocFits
<1>2. NodeInv
  BY <1>1 DEF NodeInv, WithNode
<1>3. TypeInv
  <2>1. /\ lock \in LockType /\ node \in [Cpus -> [Indices -> NodeType]]
        /\ loc \in [Contexts -> LocType]
    BY Records DEF Init, Indices
  <2>2. /\ count \in [Cpus -> 0 .. _Q_MAX_NODES] /\ preempt \in [Cpus -> Int]
        /\ pc \in [Contexts -> Labels] /\ broken \in 0 .. MaxBreaks
    BY CpuFacts DEF Init, Labels
  <2>3. QED
    BY <1>1, <2>1, <2>2 DEF TypeInv
<1>4. BalanceInv
  <2>1. \A c \in Cpus : AtLock(c) = {} /\ Holders(c) = {} /\ count[c] = 0 /\ preempt[c] = 0
    BY <1>1 DEF Init, AtLock, Holders, OnCpu, WithNode
  <2>2. QED
    BY <2>1, FS_EmptySet DEF BalanceInv
<1>5. QED
  BY <1>2, <1>3, <1>4

FirstInv == TypeInv /\ NodeInv /\ BalanceInv

\* Types, nodes and counts in every state.
LEMMA SpinFirst == Spec => []FirstInv
<1>1. Init => FirstInv
  BY FirstInit DEF FirstInv
<1>2. FirstInv /\ [Next]_vars => FirstInv'
  <2> SUFFICES ASSUME FirstInv, [Next]_vars PROVE FirstInv'
    OBVIOUS
  <2>1. CASE Next
    <3>1. PICK p \in Contexts : Steps(p)
      BY <2>1 DEF Next, Steps
    <3>2. QED
      BY <3>1, TypeNext, NodeNext, BalanceNext DEF FirstInv
  <2>2. CASE UNCHANGED vars
    BY <2>2 DEF vars, FirstInv, TypeInv, NodeInv, BalanceInv, AtLock, Holders
  <2>3. QED
    BY <2>1, <2>2
<1>3. QED
  BY <1>1, <1>2, PTL DEF Spec

\* Every variable keeps its type, for any number of contexts, as many cpus as the
\* tail has room for and as many nodes per cpu as the two bits of their index allow.
THEOREM SpinTypeOK == Spec => []TypeOK
<1>1. FirstInv => TypeOK
  <2> SUFFICES ASSUME FirstInv PROVE TypeOK
    OBVIOUS
  <2>1. lock \in [locked : {0, 1}, pending : {0, 1}, tail : Nat]
    <3>1. \A n \in Nodes : encode_tail(n[1], n[2]) \in Nat
      BY NodeFacts
    <3>2. Tails \subseteq Nat
      BY <3>1 DEF Tails
    <3>3. PICK S : S = {0} \cup Tails /\ S \subseteq Nat
      <4>1. \A x \in {0} \cup Tails : x \in Nat
        BY <3>2
      <4>2. QED
        BY <4>1, Zenon
    <3>4. lock \in [locked : {0, 1}, pending : {0, 1}, tail : S]
      BY <3>3 DEF FirstInv, TypeInv, LockType
    <3>5. QED
      BY <3>3, <3>4
  <2>2. preempt \in [Cpus -> Nat]
    <3>1. \A c \in Cpus : preempt[c] \in Nat
      BY FS_CardinalityType DEF FirstInv, BalanceInv
    <3>2. QED
      BY <3>1 DEF FirstInv, TypeInv
  <2>3. QED
    BY <2>1, <2>2 DEF FirstInv, TypeInv, TypeOK, Indices, Labels, WithNode
<1>2. QED
  BY <1>1, SpinFirst, PTL

\* Every path through the slow path, those that are broken off included, gives
\* back its queue node and its count of disabled preemption
\* (arena_spin_lock_slowpath, arena_spin_lock, arena_spin_unlock).
THEOREM SpinBalanced == Spec => []Balanced
<1>1. FirstInv => Balanced
  BY DEF FirstInv, BalanceInv, Balanced, AtLock, Holders, WithNode
<1>2. QED
  BY <1>1, SpinFirst, PTL

-----------------------------------------------------------------------------
(* One head of the queue, one owner                                        *)

\* The lock word, part by part.
LEMMA WordParts ==
  /\ Unlocked.locked = 0 /\ Unlocked.pending = 0 /\ Unlocked.tail = 0
  /\ \A l, b, t : Word(l, b, t).locked = l /\ Word(l, b, t).pending = b /\ Word(l, b, t).tail = t
  /\ \A w \in LockType :
       /\ w.locked \in {0, 1} /\ w.pending \in {0, 1}
       /\ w.locked = 0 /\ w.pending = 0 /\ w.tail = 0 => w = Unlocked
BY DEF Unlocked, Word, LockType

\* A tail that was published is not 0.
LEMMA TailSet ==
  ASSUME TypeInv, NEW p \in Contexts
  PROVE  MyTail(p) # 0 /\ lock.tail \in {0} \cup Tails
<1>1. MyTail(p) = encode_tail(Me(p)[1], Me(p)[2]) /\ Me(p) \in Nodes
  BY MyNode DEF MyTail, Me
<1>2. QED
  BY <1>1, NodeFacts DEF TypeInv, LockType

\* No new head, and the tail stays.
LEMMA TokenKept ==
  ASSUME TokenInv, \A q \in Contexts : Token(q)' => Token(q),
         lock'.tail = lock.tail \/ lock'.tail # 0
  PROVE  TokenInv'
BY DEF TokenInv

\* A step that leaves the nodes alone makes no other context the head.
LEMMA TokenOthers ==
  ASSUME TypeInv, NEW p \in Contexts, Steps(p),
         \A c \in Cpus, i \in Indices : node'[c][i].locked = node[c][i].locked
  PROVE  \A q \in Contexts \ {p} : Token(q)' <=> Token(q)
<1>1. \A q \in Contexts \ {p} : pc'[q] = pc[q] /\ loc'[q] = loc[q]
  BY OthersStay
<1>2. \A q \in Contexts : CpuOf[q] \in Cpus /\ loc[q].idx \in Indices
  BY MyNode
<1>3. QED
  BY <1>1, <1>2 DEF Token

\* The queue has one head at most.
LEMMA TokenNext ==
  ASSUME TypeInv, NodeInv, TokenInv, NEW p \in Contexts, Steps(p)
  PROVE  TokenInv'
<1>1. /\ pc \in [Contexts -> Labels] /\ loc \in [Contexts -> LocType] /\ loc[p] \in LocType
      /\ CpuOf[p] \in Cpus /\ loc[p].idx \in Indices /\ lock \in LockType
  BY MyNode DEF TypeInv
<1>2. CASE arena_spin_lock(p) \/ SpinPending(p) \/ FetchSetPending(p) \/ UndoPending(p)
             \/ WaitOwner(p) \/ TakeOver(p) \/ arena_spin_unlock(p)
  <2>1. node' = node /\ lock'.tail = lock.tail
    <3>1. CASE arena_spin_lock(p)
      BY <3>1, WordParts DEF arena_spin_lock, try_cmpxchg
    <3>2. CASE SpinPending(p) \/ FetchSetPending(p) \/ UndoPending(p) \/ WaitOwner(p)
                 \/ TakeOver(p) \/ arena_spin_unlock(p)
      <4>1. \/ lock' = lock
            \/ lock' = [lock EXCEPT !.pending = 1] \/ lock' = [lock EXCEPT !.pending = 0]
            \/ lock' = [lock EXCEPT !.locked = 0] \/ lock' = [lock EXCEPT !.locked = 1, !.pending = 0]
        BY <3>2 DEF SpinPending, FetchSetPending, UndoPending, WaitOwner, TakeOver,
             arena_spin_unlock, clear_pending
      <4>2. lock'.tail = lock.tail
        BY <1>1, <4>1 DEF LockType
      <4>3. QED
        BY <3>2, <4>2 DEF SpinPending, FetchSetPending, UndoPending, WaitOwner, TakeOver,
             arena_spin_unlock
    <3>3. QED
      BY <1>2, <3>1, <3>2
  <2>2. pc'[p] \notin WithNode
    BY <1>1, <1>2 DEF arena_spin_lock, SpinPending, FetchSetPending, UndoPending, WaitOwner,
         TakeOver, arena_spin_unlock, Goto, Return, WithNode
  <2>3. ~ Token(p)'
    BY <2>2 DEF Token, WithNode
  <2>4. QED
    BY <2>1, <2>3, TokenKept, TokenOthers
<1>3. CASE WaitMcs(p) \/ WaitHead(p) \/ SetLocked(p) \/ WaitNext(p) \/ Break(p)
  <2>1. node' = node /\ lock'.tail = lock.tail
    BY <1>1, <1>3 DEF WaitMcs, WaitHead, SetLocked, WaitNext, Break, LockType
  <2>2. Token(p)' => Token(p)
    BY <1>1, <1>3 DEF Token, WaitMcs, WaitHead, SetLocked, WaitNext, Break, At, smp_cond_load,
         Goto, Return
  <2>3. QED
    BY <2>1, <2>2, TokenKept, TokenOthers
<1>4. CASE LinkPrev(p)
  <2>1. /\ lock' = lock /\ pc[p] = "link" /\ pc' = [pc EXCEPT ![p] = "mcs"]
        /\ loc' = [loc EXCEPT ![p] = [loc[p] EXCEPT !.prev = NULL]]
        /\ \A c \in Cpus, i \in Indices : node'[c][i].locked = node[c][i].locked
    BY <1>4, LinkStep DEF LinkPrev, At, Goto
  <2>2. loc'[p].idx = loc[p].idx
    BY <1>1, <2>1 DEF LocType
  <2>3. Token(p)' => Token(p)
    BY <1>1, <2>1, <2>2 DEF Token
  <2>4. QED
    BY <2>1, <2>3, TokenKept, TokenOthers, SMTT(30)
<1>5. CASE PublishTail(p)
  <2>1. /\ node' = node /\ pc[p] = "publish" /\ lock'.tail = MyTail(p) /\ MyTail(p) # 0
        /\ pc' = [pc EXCEPT ![p] = IF lock.tail # 0 THEN "link" ELSE "head"]
    BY <1>5, TailSet DEF PublishTail, At, Goto, xchg_tail, Word
  <2>2. loc'[p].idx = loc[p].idx
    BY <1>1, <1>5 DEF PublishTail, LocType
  <2>3. CASE lock.tail # 0
    <3>1. Token(p)' => Token(p)
      BY <1>1, <2>1, <2>2, <2>3 DEF Token
    <3>2. QED
      BY <2>1, <3>1, TokenKept, TokenOthers
  <2>4. CASE lock.tail = 0
    <3>1. \A q \in Contexts \ {p} : ~ Token(q)'
      BY <2>1, <2>4, TokenOthers DEF TokenInv
    <3>2. QED
      BY <2>1, <3>1 DEF TokenInv
  <2>5. QED
    BY <2>3, <2>4
<1>6. CASE TryLock(p)
  <2>1. node' = node /\ lock'.tail = lock.tail
    BY <1>6 DEF TryLock, try_cmpxchg, Unlocked, Word
  <2>2. Token(p)' => Token(p)
    BY <1>1, <1>6 DEF Token, TryLock, At, Goto, Return
  <2>3. QED
    BY <2>1, <2>2, TokenKept, TokenOthers
<1>7. CASE Claim(p)
  <2>1. node' = node /\ Token(p)
    BY <1>7 DEF Claim, At, Token
  <2>2. CASE lock' = lock
    <3>1. QED
      BY <2>1, <2>2, TokenKept, TokenOthers
  <2>3. CASE lock' # lock
    <3>1. ~ Token(p)'
      BY <1>1, <1>7, <2>3 DEF Claim, Return, Goto, Token
    <3>2. \A q \in Contexts \ {p} : ~ Token(q)'
      BY <2>1, TokenOthers DEF TokenInv
    <3>3. QED
      BY <3>1, <3>2 DEF TokenInv
  <2>4. QED
    BY <2>2, <2>3
<1>8. CASE TakeNode(p)
  <2>1. lock' = lock /\ pc[p] = "queue"
    BY <1>8 DEF TakeNode, At
  <2>2. CASE pc'[p] = "idle"
    <3>1. node' = node
      BY <1>1, <1>8, <2>2 DEF TakeNode, Goto
    <3>2. ~ Token(p)'
      BY <2>2 DEF Token
    <3>3. QED
      BY <2>1, <3>1, <3>2, TokenKept, TokenOthers
  <2>3. CASE pc'[p] # "idle"
    <3> DEFINE i == count[CpuOf[p]]
    <3>1. /\ i \in Indices /\ node'[CpuOf[p]][i] = FreshNode /\ loc'[p].idx = i
          /\ \A d \in Cpus, j \in Indices : d # CpuOf[p] \/ j # i => node'[d][j] = node[d][j]
          /\ pc' = [pc EXCEPT ![p] = "trylock"]
      BY <1>8, <2>3, TakeStep
    <3>2. ~ Token(p)'
      <4>1. pc'[p] = "trylock" /\ node'[CpuOf[p]][loc'[p].idx].locked = 0
        BY <1>1, <3>1, Records
      <4>2. QED
        BY <4>1 DEF Token
    <3>3. ASSUME NEW q \in Contexts \ {p}, Token(q)' PROVE Token(q)
      <4>1. pc'[q] = pc[q] /\ loc'[q] = loc[q] /\ CpuOf[q] \in Cpus /\ loc[q].idx \in Indices
        BY OthersStay, MyNode
      <4>2. pc[q] \in WithNode => CpuOf[q] # CpuOf[p] \/ loc[q].idx < i
        BY DEF NodeInv
      <4>3. i \in Int /\ loc[q].idx \in Int
        BY <3>1, <4>1 DEF Indices
      <4>4. pc[q] \in WithNode => node'[CpuOf[q]][loc[q].idx] = node[CpuOf[q]][loc[q].idx]
        BY <3>1, <4>1, <4>2, <4>3
      <4>5. QED
        BY <3>3, <4>1, <4>4 DEF Token, WithNode
    <3>4. QED
      BY <2>1, <3>2, <3>3, TokenKept
  <2>4. QED
    BY <2>2, <2>3
<1>9. CASE HandOver(p)
  <2> DEFINE n == loc[p].next
  <2>1. /\ n = <<n[1], n[2]>>
        /\ \A d \in Cpus, j \in Indices : <<d, j>> # n => node'[d][j] = node[d][j]
    BY <1>9, HandStep
  <2>2. lock' = lock /\ Token(p) /\ ~ Token(p)'
    BY <1>1, <1>9 DEF HandOver, At, Return, Goto, Token
  <2> HIDE DEF n
  <2>3. ASSUME NEW q \in Contexts \ {p}, Token(q)'
        PROVE  pc[q] \in WithNode /\ <<CpuOf[q], loc[q].idx>> = n
    <3>1. pc'[q] = pc[q] /\ loc'[q] = loc[q] /\ CpuOf[q] \in Cpus /\ loc[q].idx \in Indices
      BY OthersStay, MyNode
    <3>2. ~ Token(q)
      BY <2>2 DEF TokenInv
    <3>3. node'[CpuOf[q]][loc[q].idx] # node[CpuOf[q]][loc[q].idx]
      BY <2>3, <3>1, <3>2 DEF Token
    <3>4. pc[q] \in WithNode
      BY <2>3, <3>1 DEF Token, WithNode
    <3>5. QED
      BY <2>1, <3>1, <3>3, <3>4
  <2>4. ASSUME NEW q \in Contexts, NEW r \in Contexts, Token(q)', Token(r)' PROVE q = r
    <3>1. /\ pc[q] \in WithNode /\ <<CpuOf[q], loc[q].idx>> = n
          /\ pc[r] \in WithNode /\ <<CpuOf[r], loc[r].idx>> = n
      BY <2>2, <2>3, <2>4
    <3>2. CpuOf[q] = CpuOf[r] /\ loc[q].idx = loc[r].idx
      BY <3>1
    <3>3. QED
      BY <3>1, <3>2, OwnNode
  <2>5. QED
    BY <2>2, <2>4 DEF TokenInv
<1>10. QED
  BY <1>2, <1>3, <1>4, <1>5, <1>6, <1>7, <1>8, <1>9 DEF Steps, Step

\* A step that changes neither the locked nor the pending byte and lets p neither
\* have the lock nor be about to.
LEMMA OwnKept ==
  ASSUME OwnInv, NEW p \in Contexts, \A q \in Contexts \ {p} : pc'[q] = pc[q],
         lock'.locked = lock.locked, lock'.pending = lock.pending,
         \/ ~ Owns(p)' /\ ~ Pends(p)' /\ pc'[p] \notin {"claim", "set"}
         \/ pc[p] \in {"next", "hand"} /\ pc'[p] \in {"hand", "held"}
         \/ pc[p] \in {"claim", "set"} /\ pc'[p] = "set"
  PROVE  OwnInv'
BY DEF OwnInv, Owns, Pends

\* One owner at most, also after waits were broken off.
LEMMA OwnNext ==
  ASSUME TypeInv, NodeInv, TokenInv, OwnInv, NEW p \in Contexts, Steps(p)
  PROVE  OwnInv'
<1>1. /\ pc \in [Contexts -> Labels] /\ lock \in LockType
      /\ lock.locked \in {0, 1} /\ lock.pending \in {0, 1}
  BY WordParts DEF TypeInv
<1>2. \A q \in Contexts \ {p} : pc'[q] = pc[q]
  BY OthersStay
<1>3. \A q \in Contexts : pc[q] \in {"claim", "set", "next", "hand"} => lock.tail # 0
  BY DEF TokenInv, Token
<1>4. CASE lock = Unlocked /\ lock' = Word(1, 0, 0) /\ pc'[p] = "held"
  <2>1. lock.locked = 0 /\ lock.pending = 0 /\ lock.tail = 0 /\ lock'.locked = 1
    BY <1>4, WordParts
  <2>2. \A q \in Contexts : ~ Owns(q) /\ ~ Pends(q) /\ pc[q] \notin {"claim", "set"}
    BY <1>3, <2>1 DEF OwnInv
  <2>3. QED
    BY <1>2, <1>4, <2>1, <2>2 DEF OwnInv, Owns, Pends
<1>5. CASE arena_spin_lock(p)
  <2>1. CASE lock = Unlocked
    BY <1>1, <1>4, <1>5, <2>1 DEF arena_spin_lock, try_cmpxchg, Goto
  <2>2. CASE lock # Unlocked
    BY <1>1, <1>2, <1>5, <2>2, OwnKept DEF arena_spin_lock, try_cmpxchg, Goto, Owns, Pends
  <2>3. QED
    BY <2>1, <2>2
<1>6. CASE SpinPending(p) \/ TakeNode(p) \/ LinkPrev(p) \/ WaitMcs(p) \/ WaitNext(p)
             \/ HandOver(p) \/ Break(p)
  <2>1. lock' = lock
    BY <1>6, ZenonT(60) DEF SpinPending, TakeNode, LinkPrev, WaitMcs, WaitNext, HandOver, Break
  <2>2. \/ pc'[p] \in {"idle", "queue", "pending", "trylock", "mcs", "head"}
        \/ pc[p] \in {"next", "hand"} /\ pc'[p] \in {"hand", "held"}
    BY <1>1, <1>6 DEF SpinPending, TakeNode, LinkPrev, WaitMcs, WaitNext, HandOver, Break,
         At, smp_cond_load, Goto, Return
  <2>3. QED
    BY <1>2, <2>1, <2>2, OwnKept, SMTT(30) DEF Owns, Pends
<1>7. CASE PublishTail(p)
  BY <1>1, <1>2, <1>7, OwnKept, WordParts DEF PublishTail, xchg_tail, Goto, Owns, Pends
<1>8. CASE FetchSetPending(p)
  <2>1. lock'.pending = 1 /\ lock'.locked = lock.locked
    BY <1>1, <1>8 DEF FetchSetPending, LockType
  <2>2. pc[p] = "pending"
    BY <1>8 DEF FetchSetPending, At
  <2>3. CASE lock.pending = 1
    <3>1. pc'[p] = "queue"
      BY <1>1, <1>8, <2>3 DEF FetchSetPending, Contended, Goto
    <3>2. QED
      BY <1>2, <2>1, <2>3, <3>1, OwnKept DEF Owns, Pends
  <2>4. CASE lock.pending = 0 /\ lock.tail # 0
    <3>1. pc'[p] = "undo"
      BY <1>1, <1>8, <2>4 DEF FetchSetPending, Contended, Goto
    <3>2. \A q \in Contexts : ~ Pends(q)
      BY <2>4 DEF OwnInv
    <3>3. QED
      BY <1>2, <2>1, <3>1, <3>2 DEF OwnInv, Owns, Pends
  <2>5. CASE lock.pending = 0 /\ lock.tail = 0
    <3>1. pc'[p] = IF lock.locked = 1 THEN "owner" ELSE "take"
      BY <1>1, <1>8, <2>5 DEF FetchSetPending, Contended, Goto
    <3>2. \A q \in Contexts : ~ Pends(q) /\ pc[q] \notin {"claim", "set", "next", "hand"}
      BY <1>3, <2>5 DEF OwnInv
    <3>3. pc'[p] = "take" => lock.locked = 0
      BY <1>1, <3>1
    <3>4. pc'[p] \in {"owner", "take"}
      BY <3>1
    <3>5. QED
      BY <1>2, <2>1, <3>2, <3>3, <3>4 DEF OwnInv, Owns, Pends
  <2>6. QED
    BY <1>1, <2>3, <2>4, <2>5
<1>9. CASE UndoPending(p)
  <2>1. lock'.pending = 0 /\ lock'.locked = lock.locked /\ pc[p] = "undo" /\ pc'[p] = "queue"
    BY <1>1, <1>9 DEF UndoPending, clear_pending, LockType, At, Goto
  <2>2. QED
    BY <1>2, <2>1 DEF OwnInv, Owns, Pends
<1>10. CASE WaitOwner(p)
  <2>1. lock' = lock /\ lock.locked = 0 /\ pc[p] = "owner" /\ pc'[p] = "take"
    BY <1>1, <1>10 DEF WaitOwner, smp_cond_load, At, Goto
  <2>2. QED
    BY <1>2, <2>1 DEF OwnInv, Owns, Pends
<1>11. CASE TakeOver(p)
  <2>1. lock'.locked = 1 /\ pc[p] = "take" /\ pc'[p] = "held"
    BY <1>1, <1>11 DEF TakeOver, LockType, At, Return, Goto
  <2>2. \A q \in Contexts : ~ Owns(q) /\ pc[q] \notin {"claim", "set"} /\ (Pends(q) => q = p)
    BY <2>1 DEF OwnInv, Pends
  <2>3. QED
    BY <1>2, <2>1, <2>2 DEF OwnInv, Owns, Pends
<1>12. CASE TryLock(p)
  <2>1. CASE lock = Unlocked
    BY <1>1, <1>4, <1>12, <2>1 DEF TryLock, try_cmpxchg, Return, Goto
  <2>2. CASE lock # Unlocked
    BY <1>1, <1>2, <1>12, <2>2, OwnKept DEF TryLock, try_cmpxchg, Goto, Owns, Pends
  <2>3. QED
    BY <2>1, <2>2
<1>13. CASE WaitHead(p)
  <2>1. /\ lock' = lock /\ lock.locked = 0 /\ lock.pending = 0
        /\ pc[p] = "head" /\ pc'[p] \in {"claim", "set"}
    BY <1>1, <1>13 DEF WaitHead, smp_cond_load, QueueHeadMayGo, At, Goto
  <2>2. \A q \in Contexts : ~ Owns(q) /\ ~ Pends(q)
    BY <2>1 DEF OwnInv
  <2>3. QED
    BY <1>2, <2>1, <2>2 DEF OwnInv, Owns, Pends
<1>14. CASE Claim(p)
  <2>1. pc[p] = "claim" /\ loc[p].val.pending = 0 /\ loc[p].val.locked = 0
    BY <1>14 DEF Claim, At, TypeInv, LocFits
  <2>2. CASE lock = loc[p].val
    <3>1. lock'.locked = 1 /\ lock'.pending = 0 /\ pc'[p] = "held"
      BY <1>1, <1>14, <2>2, WordParts DEF Claim, try_cmpxchg, Return, Goto
    <3>2. lock.locked = 0 /\ lock.pending = 0
      BY <2>1, <2>2
    <3>3. \A q \in Contexts : q # p => pc[q] \notin {"claim", "set"}
      BY <2>1 DEF TokenInv, Token
    <3>4. \A q \in Contexts : ~ Owns(q) /\ ~ Pends(q)
      BY <3>2 DEF OwnInv
    <3>5. QED
      BY <1>2, <3>1, <3>3, <3>4 DEF OwnInv, Owns, Pends
  <2>3. CASE lock # loc[p].val
    <3>1. lock' = lock /\ pc'[p] = "set"
      BY <1>1, <1>14, <2>3 DEF Claim, try_cmpxchg, Goto
    <3>2. QED
      BY <1>2, <2>1, <3>1, OwnKept
  <2>4. QED
    BY <2>2, <2>3
<1>15. CASE SetLocked(p)
  <2>1. /\ lock'.locked = 1 /\ lock'.pending = lock.pending
        /\ pc[p] = "set" /\ pc'[p] \in {"next", "hand"}
    BY <1>1, <1>15 DEF SetLocked, LockType, At, Goto
  <2>2. \A q \in Contexts : q # p => pc[q] \notin {"claim", "set"}
    BY <2>1 DEF TokenInv, Token
  <2>3. \A q \in Contexts : ~ Owns(q) /\ pc[q] \notin {"owner", "take"}
    BY <2>1 DEF OwnInv
  <2>4. QED
    BY <1>2, <2>1, <2>2, <2>3 DEF OwnInv, Owns, Pends
<1>16. CASE arena_spin_unlock(p)
  <2>1. lock'.locked = 0 /\ lock'.pending = lock.pending /\ pc[p] = "held" /\ pc'[p] = "idle"
    BY <1>1, <1>16 DEF arena_spin_unlock, LockType, At, Return, Goto
  <2>2. QED
    BY <1>2, <2>1 DEF OwnInv, Owns, Pends
<1>17. QED
  BY <1>5, <1>6, <1>7, <1>8, <1>9, <1>10, <1>11, <1>12, <1>13, <1>14, <1>15, <1>16 DEF Steps, Step

-----------------------------------------------------------------------------
(* The line                                                                *)

InLine(p) == \E i \in 1 .. Len(line) : line[i] = p

\* Who leaves the line leaves everybody else in it, in the same order.
LEMMA LeaveLine ==
  ASSUME LineInv, NEW p \in Contexts
  PROVE  \A s : s = Fifo!Leave(p) =>
         /\ s \in Seq(Contexts)
         /\ \A i, j \in 1 .. Len(s) : s[i] = s[j] => i = j
         /\ \A i \in 1 .. Len(s) : s[i] # p /\ InLine(s[i])
         /\ \A q \in Contexts : InLine(q) /\ q # p => \E i \in 1 .. Len(s) : s[i] = q
         /\ ~ InLine(p) => s = line
         /\ line # <<>> /\ line[1] = p =>
              Len(s) = Len(line) - 1 /\ \A i \in 1 .. Len(s) : s[i] = line[i + 1]
<1> TAKE s
<1> HAVE s = Fifo!Leave(p)
<1>1. /\ line \in Seq(Contexts) /\ Len(line) \in Nat
      /\ \A i, j \in 1 .. Len(line) : line[i] = line[j] => i = j
      /\ \A i \in 1 .. Len(line) : line[i] \in Contexts
  BY DEF LineInv
<1>2. CASE ~ InLine(p)
  <2>1. s = line
    BY <1>2 DEF Fifo!Leave, Fifo!InLine, InLine
  <2>2. line # <<>> => 1 \in 1 .. Len(line)
    BY <1>1
  <2>3. QED
    BY <1>1, <1>2, <2>1, <2>2 DEF InLine
<1>3. CASE InLine(p)
  <2>1. PICK at : at = CHOOSE i \in 1 .. Len(line) : line[i] = p
    OBVIOUS
  <2>2. at \in 1 .. Len(line) /\ line[at] = p
    BY <1>3, <2>1 DEF InLine
  <2>3. s = [i \in 1 .. Len(line) - 1 |-> line[IF i < at THEN i ELSE i + 1]]
    BY <1>3, <2>1 DEF Fifo!Leave, Fifo!InLine, InLine
  <2>4. PICK n \in Nat : n = Len(line) - 1
    BY <1>1, <2>2
  <2>5. \A i \in 1 .. n : line[IF i < at THEN i ELSE i + 1] \in Contexts
    BY <1>1, <2>2, <2>4
  <2>6. s \in Seq(Contexts) /\ Len(s) = n
    BY <2>3, <2>4, <2>5
  <2>7. \A i \in 1 .. n : s[i] = line[IF i < at THEN i ELSE i + 1]
    BY <2>3, <2>4
  <2>8. \A i, j \in 1 .. n : s[i] = s[j] => i = j
    <3>1. ASSUME NEW i \in 1 .. n, NEW j \in 1 .. n, s[i] = s[j] PROVE i = j
      <4>1. PICK k \in 1 .. Len(line), l \in 1 .. Len(line) :
              k = (IF i < at THEN i ELSE i + 1) /\ l = (IF j < at THEN j ELSE j + 1)
        BY <1>1, <2>2, <2>4
      <4>2. line[k] = line[l]
        BY <2>7, <3>1, <4>1
      <4>3. k = l
        BY <1>1, <4>2
      <4>4. QED
        BY <2>2, <2>4, <4>1, <4>3
    <3>2. QED
      BY <3>1
  <2>9. ASSUME NEW i \in 1 .. n PROVE s[i] # p /\ InLine(s[i])
    <3>1. PICK k \in 1 .. Len(line) : k = (IF i < at THEN i ELSE i + 1) /\ k # at
      BY <1>1, <2>2, <2>4
    <3>2. s[i] = line[k] /\ line[k] # line[at]
      BY <1>1, <2>2, <2>7, <3>1
    <3>3. QED
      BY <2>2, <3>2 DEF InLine
  <2>10. ASSUME NEW q \in Contexts, InLine(q), q # p PROVE \E i \in 1 .. n : s[i] = q
    <3>1. PICK k \in 1 .. Len(line) : line[k] = q /\ k # at
      BY <2>2, <2>10 DEF InLine
    <3>2. PICK i \in 1 .. n : k = (IF i < at THEN i ELSE i + 1)
      <4>1. CASE k < at
        <5>1. k \in 1 .. n
          BY <1>1, <2>2, <2>4, <4>1
        <5>2. QED
          BY <4>1, <5>1
      <4>2. CASE k > at
        <5>1. k - 1 \in 1 .. n /\ ~ (k - 1 < at) /\ k = k - 1 + 1
          BY <1>1, <2>2, <2>4, <4>2
        <5>2. QED
          BY <5>1
      <4>3. QED
        BY <1>1, <2>2, <3>1, <4>1, <4>2
    <3>3. QED
      BY <2>7, <3>1, <3>2
  <2>11. line # <<>> /\ line[1] = p => \A i \in 1 .. n : s[i] = line[i + 1]
    <3>1. SUFFICES ASSUME line[1] = p PROVE \A i \in 1 .. n : s[i] = line[i + 1]
      OBVIOUS
    <3>2. at = 1
      BY <1>1, <2>2, <3>1
    <3>3. QED
      BY <2>7, <3>2
  <2>12. QED
    BY <1>3, <2>4, <2>6, <2>8, <2>9, <2>10, <2>11
<1>4. QED
  BY <1>2, <1>3

\* A context is in the line while it waits.
LEMMA InLineWaits ==
  ASSUME LineInv, NEW p \in Contexts
  PROVE  InLine(p) <=> Waits(p)
BY DEF LineInv, InLine

\* p joins the line, leaves it, or neither.
LEMMA LineMoves ==
  ASSUME LineInv, NEW p \in Contexts, \A q \in Contexts \ {p} : pc'[q] = pc[q],
         \/ line' = line /\ (Waits(p)' <=> Waits(p))
         \/ line' = Append(line, p) /\ ~ Waits(p) /\ Waits(p)'
         \/ line' = Fifo!Leave(p) /\ ~ Waits(p)'
  PROVE  LineInv'
<1>1. \A q \in Contexts \ {p} : Waits(q)' <=> Waits(q)
  BY DEF Waits
<1>2. line \in Seq(Contexts) /\ Len(line) \in Nat
  BY DEF LineInv
<1>3. CASE line' = line /\ (Waits(p)' <=> Waits(p))
  BY <1>1, <1>3 DEF LineInv
<1>4. CASE line' = Append(line, p) /\ ~ Waits(p) /\ Waits(p)'
  <2>1. /\ line' \in Seq(Contexts) /\ Len(line') = Len(line) + 1
        /\ line'[Len(line) + 1] = p /\ \A i \in 1 .. Len(line) : line'[i] = line[i]
    BY <1>2, <1>4
  <2>2. \A i \in 1 .. Len(line) : line[i] # p /\ line[i] \in Contexts
    BY <1>2, <1>4 DEF LineInv
  <2>3. \A i, j \in 1 .. Len(line') : line'[i] = line'[j] => i = j
    <3>1. \A i \in 1 .. Len(line') : i \in 1 .. Len(line) \/ i = Len(line) + 1
      BY <1>2, <2>1
    <3>2. QED
      BY <2>1, <2>2, <3>1 DEF LineInv
  <2>4. \A i \in 1 .. Len(line') : pc'[line'[i]] \in WaitLabels
    <3>1. \A i \in 1 .. Len(line') : i \in 1 .. Len(line) \/ i = Len(line) + 1
      BY <1>2, <2>1
    <3>2. ASSUME NEW i \in 1 .. Len(line) PROVE pc'[line[i]] \in WaitLabels
      <4>1. PICK q \in Contexts \ {p} : q = line[i]
        BY <2>2
      <4>2. Waits(q)
        BY <4>1 DEF LineInv
      <4>3. QED
        BY <4>1, <4>2 DEF Waits
    <3>3. QED
      BY <1>4, <2>1, <3>1, <3>2 DEF Waits
  <2>5. ASSUME NEW q \in Contexts, Waits(q)' PROVE \E i \in 1 .. Len(line') : line'[i] = q
    <3>1. CASE q = p
      BY <1>2, <2>1, <3>1
    <3>2. CASE q # p
      <4>1. PICK i \in 1 .. Len(line) : line[i] = q
        BY <1>1, <2>5, <3>2 DEF LineInv
      <4>2. QED
        BY <1>2, <2>1, <4>1
    <3>3. QED
      BY <3>1, <3>2
  <2>6. QED
    BY <2>1, <2>3, <2>4, <2>5 DEF LineInv, Waits
<1>5. CASE line' = Fifo!Leave(p) /\ ~ Waits(p)'
  <2>1. /\ line' \in Seq(Contexts)
        /\ \A i, j \in 1 .. Len(line') : line'[i] = line'[j] => i = j
        /\ \A i \in 1 .. Len(line') : line'[i] # p /\ InLine(line'[i])
        /\ \A q \in Contexts : InLine(q) /\ q # p => \E i \in 1 .. Len(line') : line'[i] = q
    <3>1. PICK s : s = line' /\ s = Fifo!Leave(p)
      BY <1>5
    <3>2. /\ s \in Seq(Contexts)
          /\ \A i, j \in 1 .. Len(s) : s[i] = s[j] => i = j
          /\ \A i \in 1 .. Len(s) : s[i] # p /\ InLine(s[i])
          /\ \A q \in Contexts : InLine(q) /\ q # p => \E i \in 1 .. Len(s) : s[i] = q
      BY <3>1, LeaveLine, ZenonT(60)
    <3>3. QED
      BY <3>1, <3>2
  <2>2. ASSUME NEW i \in 1 .. Len(line') PROVE pc'[line'[i]] \in WaitLabels
    <3>1. PICK q \in Contexts \ {p} : q = line'[i]
      BY <2>1
    <3>2. Waits(q)
      BY <2>1, <3>1, InLineWaits
    <3>3. QED
      BY <1>1, <3>1, <3>2 DEF Waits
  <2>3. ASSUME NEW q \in Contexts, Waits(q)' PROVE \E i \in 1 .. Len(line') : line'[i] = q
    <3>1. q # p /\ Waits(q)
      BY <1>1, <1>5, <2>3
    <3>2. QED
      BY <2>1, <3>1, InLineWaits
  <2>4. QED
    BY <2>1, <2>2, <2>3 DEF LineInv, Waits
<1>6. QED
  BY <1>3, <1>4, <1>5

\* Who waits is in the line.
LEMMA LineNext ==
  ASSUME TypeInv, LineInv, NEW p \in Contexts, Steps(p)
  PROVE  LineInv'
<1> USE DEF At, smp_cond_load, Goto, Return, Waits, WaitLabels
<1>1. pc \in [Contexts -> Labels] /\ \A q \in Contexts \ {p} : pc'[q] = pc[q]
  BY OthersStay DEF TypeInv
<1>2. CASE arena_spin_lock(p) \/ SpinPending(p) \/ UndoPending(p) \/ WaitOwner(p)
             \/ TakeNode(p) \/ TryLock(p) \/ LinkPrev(p) \/ WaitMcs(p) \/ WaitHead(p)
             \/ WaitNext(p) \/ HandOver(p) \/ arena_spin_unlock(p)
  <2>1. line' = line /\ (Waits(p)' <=> Waits(p))
    <3>1. CASE arena_spin_lock(p) \/ SpinPending(p) \/ UndoPending(p) \/ WaitOwner(p)
                 \/ TakeNode(p) \/ TryLock(p)
      BY <1>1, <3>1 DEF arena_spin_lock, SpinPending, UndoPending, WaitOwner, TakeNode, TryLock
    <3>2. CASE LinkPrev(p) \/ WaitMcs(p) \/ WaitHead(p) \/ WaitNext(p) \/ HandOver(p)
                 \/ arena_spin_unlock(p)
      BY <1>1, <3>2 DEF LinkPrev, WaitMcs, WaitHead, WaitNext, HandOver, arena_spin_unlock
    <3>3. QED
      BY <1>2, <3>1, <3>2
  <2>2. QED
    BY <1>1, <2>1, LineMoves
<1>3. CASE FetchSetPending(p) \/ PublishTail(p)
  <2>1. \/ line' = line /\ (Waits(p)' <=> Waits(p))
        \/ line' = Append(line, p) /\ ~ Waits(p) /\ Waits(p)'
    BY <1>1, <1>3 DEF FetchSetPending, PublishTail
  <2>2. QED
    BY <1>1, <2>1, LineMoves
<1>4. CASE TakeOver(p) \/ Claim(p) \/ SetLocked(p) \/ Break(p)
  <2>1. \/ line' = line /\ (Waits(p)' <=> Waits(p))
        \/ line' = Fifo!Leave(p) /\ ~ Waits(p)'
    BY <1>1, <1>4 DEF TakeOver, Claim, SetLocked, Break
  <2>2. QED
    BY <1>1, <2>1, LineMoves
<1>5. QED
  BY <1>2, <1>3, <1>4 DEF Steps, Step

-----------------------------------------------------------------------------
(* The queue, as long as no wait is broken off                             *)

\* Who is in the queue.
LEMMA QueueFacts ==
  ASSUME TypeInv, NEW q \in Seq(Contexts), IsQueue(q)
  PROVE  /\ Len(q) \in Nat /\ (q # <<>> <=> Len(q) > 0)
         /\ \A i \in 1 .. Len(q) :
              q[i] \in Contexts /\ pc[q[i]] \in Queued /\ CpuOf[q[i]] \in Cpus /\ loc[q[i]].idx \in Indices
         /\ \A p \in Contexts : Token(p) /\ pc[p] \in Queued => q # <<>>
<1>1. Len(q) \in Nat /\ (q # <<>> <=> Len(q) > 0) /\ \A i \in 1 .. Len(q) : q[i] \in Contexts
  OBVIOUS
<1>2. \A i \in 1 .. Len(q) : pc[q[i]] \in Queued
  BY <1>1 DEF IsQueue
<1>3. \A p \in Contexts : pc[p] \in Queued => \E i \in 1 .. Len(q) : q[i] = p
  BY DEF IsQueue
<1>4. QED
  BY <1>1, <1>2, <1>3, MyNode

\* The head of the queue is the first of it.
LEMMA HeadFirst ==
  ASSUME TypeInv, TokenInv, NEW q \in Seq(Contexts), IsQueue(q),
         NEW p \in Contexts, Token(p), pc[p] \in Queued
  PROVE  q # <<>> /\ q[1] = p
<1>1. q # <<>> /\ q[1] \in Contexts
  BY QueueFacts
<1>2. Token(q[1])
  BY <1>1 DEF IsQueue
<1>3. QED
  BY <1>1, <1>2 DEF TokenInv

\* Who follows whom stays so while their nodes do.
LEMMA FollowsKept ==
  ASSUME NEW a \in Contexts, NEW b \in Contexts, Follows(a, b),
         pc'[a] = pc[a], loc'[a].prev = loc[a].prev, loc'[a].idx = loc[a].idx,
         loc'[b].idx = loc[b].idx, loc'[b].next = loc[b].next \/ loc'[b].next = NodeOf(b).next,
         node'[CpuOf[a]][loc[a].idx].locked = node[CpuOf[a]][loc[a].idx].locked,
         node'[CpuOf[b]][loc[b].idx].next = node[CpuOf[b]][loc[b].idx].next
  PROVE  Follows(a, b)'
BY DEF Follows, NodeOf, Me

\* A step outside the queue.
LEMMA QueueAside ==
  ASSUME TypeInv, NEW q \in Seq(Contexts), IsQueue(q),
         NEW p \in Contexts, \A r \in Contexts \ {p} : pc'[r] = pc[r] /\ loc'[r] = loc[r],
         pc[p] \notin Queued, pc'[p] \notin Queued, lock'.tail = lock.tail,
         \A r \in Contexts : pc[r] \in Queued =>
           node'[CpuOf[r]][loc[r].idx] = node[CpuOf[r]][loc[r].idx]
  PROVE  IsQueue(q)'
<1>1. /\ Len(q) \in Nat /\ (q # <<>> <=> Len(q) > 0)
      /\ \A i \in 1 .. Len(q) : q[i] \in Contexts /\ pc[q[i]] \in Queued
  BY QueueFacts
<1>2. \A i \in 1 .. Len(q) : /\ pc'[q[i]] = pc[q[i]] /\ loc'[q[i]] = loc[q[i]]
                             /\ node'[CpuOf[q[i]]][loc[q[i]].idx] = node[CpuOf[q[i]]][loc[q[i]].idx]
  BY <1>1
<1>3. \A r \in Contexts : pc'[r] \in Queued <=> pc[r] \in Queued
  OBVIOUS
<1>4. ASSUME NEW i \in 2 .. Len(q) PROVE Follows(q[i], q[i - 1])'
  <2>1. i \in 1 .. Len(q) /\ i - 1 \in 1 .. Len(q)
    BY <1>1
  <2>2. PICK a \in Contexts, b \in Contexts : a = q[i] /\ b = q[i - 1]
    BY <1>1, <2>1
  <2>3. Follows(a, b)
    BY <2>2 DEF IsQueue
  <2>4. Follows(a, b)'
    BY <1>2, <2>1, <2>2, <2>3, FollowsKept
  <2>5. QED
    BY <2>2, <2>4
<1>5. q # <<>> => /\ Token(q[1])' /\ pc'[q[1]] # "link"
                  /\ lock'.tail = MyTail(q[Len(q)])'
                  /\ NodeOf(q[Len(q)]).next' = NULL /\ loc'[q[Len(q)]].next = NULL
  <2>1. q # <<>> => 1 \in 1 .. Len(q) /\ Len(q) \in 1 .. Len(q)
    BY <1>1
  <2>2. QED
    BY <1>2, <2>1 DEF IsQueue, Token, MyTail, NodeOf
<1>6. QED
  BY <1>3, <1>4, <1>5 DEF IsQueue

\* A step of the head of the queue, who stays in it.
LEMMA QueueFirst ==
  ASSUME TypeInv, TokenInv, NEW q \in Seq(Contexts), IsQueue(q),
         NEW p \in Contexts, \A r \in Contexts \ {p} : pc'[r] = pc[r] /\ loc'[r] = loc[r],
         pc[p] \in Queued, Token(p), pc'[p] \in {"head", "claim", "set", "next", "hand"},
         lock'.tail = lock.tail, node' = node, loc'[p].idx = loc[p].idx,
         loc'[p].next = loc[p].next \/ loc'[p].next = NodeOf(p).next
  PROVE  IsQueue(q)'
<1>1. /\ Len(q) \in Nat /\ (q # <<>> <=> Len(q) > 0)
      /\ \A i \in 1 .. Len(q) : q[i] \in Contexts
  BY QueueFacts
<1>2. q # <<>> /\ q[1] = p /\ 1 \in 1 .. Len(q) /\ Len(q) \in 1 .. Len(q)
  BY <1>1, HeadFirst
<1>3. \A i \in 1 .. Len(q) : /\ i # 1 => q[i] # p /\ pc'[q[i]] = pc[q[i]] /\ loc'[q[i]] = loc[q[i]]
                             /\ loc'[q[i]].idx = loc[q[i]].idx
                             /\ \/ loc'[q[i]].next = loc[q[i]].next
                                \/ loc'[q[i]].next = NodeOf(q[i]).next
  BY <1>1, <1>2 DEF IsQueue
<1>4. \A r \in Contexts : pc'[r] \in Queued <=> pc[r] \in Queued
  BY DEF Queued
<1>5. ASSUME NEW i \in 2 .. Len(q) PROVE Follows(q[i], q[i - 1])'
  <2>1. i \in 1 .. Len(q) /\ i - 1 \in 1 .. Len(q) /\ i # 1
    BY <1>1
  <2>2. PICK a \in Contexts, b \in Contexts : a = q[i] /\ b = q[i - 1]
    BY <1>1, <2>1
  <2>3. Follows(a, b)
    BY <2>2 DEF IsQueue
  <2>4. Follows(a, b)'
    BY <1>3, <2>1, <2>2, <2>3, FollowsKept
  <2>5. QED
    BY <2>2, <2>4
<1>6. /\ Token(q[1])' /\ pc'[q[1]] # "link"
      /\ lock'.tail = MyTail(q[Len(q)])'
      /\ NodeOf(q[Len(q)]).next' = NULL /\ loc'[q[Len(q)]].next = NULL
  <2>1. Token(p)' /\ pc'[p] # "link"
    BY DEF Token
  <2>2. lock.tail = MyTail(q[Len(q)]) /\ NodeOf(q[Len(q)]).next = NULL /\ loc[q[Len(q)]].next = NULL
    BY <1>2 DEF IsQueue
  <2>3. QED
    BY <1>2, <1>3, <2>1, <2>2 DEF MyTail, NodeOf
<1>7. QED
  BY <1>2, <1>4, <1>5, <1>6 DEF IsQueue

\* p links itself behind the one ahead.
LEMMA QueueLink ==
  ASSUME TypeInv, NodeInv, TokenInv, NEW q \in Seq(Contexts), IsQueue(q),
         NEW p \in Contexts, LinkPrev(p)
  PROVE  /\ IsQueue(q)' /\ q # <<>> /\ q[1] # p
         /\ \E b \in Contexts : pc[b] \in Queued /\ loc[p].prev = Me(b)
<1> DEFINE n == loc[p].prev
<1>1. /\ Len(q) \in Nat /\ (q # <<>> <=> Len(q) > 0)
      /\ \A i \in 1 .. Len(q) : /\ q[i] \in Contexts /\ pc[q[i]] \in Queued
                                /\ CpuOf[q[i]] \in Cpus /\ loc[q[i]].idx \in Indices
      /\ \A i, j \in 1 .. Len(q) : q[i] = q[j] => i = j
  BY QueueFacts, SMTT(30) DEF IsQueue
<1>2. /\ pc \in [Contexts -> Labels] /\ loc \in [Contexts -> LocType] /\ loc[p] \in LocType
      /\ CpuOf[p] \in Cpus /\ loc[p].idx \in Indices
  BY MyNode DEF TypeInv
<1>3. /\ pc[p] = "link" /\ pc' = [pc EXCEPT ![p] = "mcs"] /\ lock' = lock
      /\ n \in Nodes /\ n = <<n[1], n[2]>> /\ n[1] \in Cpus /\ n[2] \in Indices
      /\ node'[n[1]][n[2]].next = Me(p)
      /\ \A d \in Cpus, j \in Indices : node'[d][j].locked = node[d][j].locked
      /\ \A d \in Cpus, j \in Indices : <<d, j>> # n => node'[d][j] = node[d][j]
      /\ loc' = [loc EXCEPT ![p] = [loc[p] EXCEPT !.prev = NULL]]
  BY LinkStep DEF LinkPrev, At, Goto
<1>4. /\ loc'[p].idx = loc[p].idx /\ loc'[p].next = loc[p].next /\ pc'[p] = "mcs"
      /\ \A r \in Contexts \ {p} : pc'[r] = pc[r] /\ loc'[r] = loc[r]
  BY <1>2, <1>3 DEF LocType
<1> HIDE DEF n
<1>5. PICK k \in 1 .. Len(q) : q[k] = p
  BY <1>3 DEF IsQueue, Queued
<1>6. k \in 2 .. Len(q) /\ k - 1 \in 1 .. Len(q)
  BY <1>1, <1>3, <1>5 DEF IsQueue
<1>7. PICK b \in Contexts \ {p} : b = q[k - 1]
  BY <1>1, <1>5, <1>6
<1>8. /\ n = Me(b) /\ NodeOf(p).locked = 0 /\ loc[b].next = NULL
      /\ CpuOf[b] \in Cpus /\ loc[b].idx \in Indices
  BY <1>1, <1>3, <1>5, <1>6, <1>7 DEF IsQueue, Follows, n
<1>9. \A i \in 1 .. Len(q) : i # k - 1 => <<CpuOf[q[i]], loc[q[i]].idx>> # n
  <2>1. SUFFICES ASSUME NEW i \in 1 .. Len(q), <<CpuOf[q[i]], loc[q[i]].idx>> = n PROVE i = k - 1
    OBVIOUS
  <2>2. PICK a \in Contexts : a = q[i] /\ pc[a] \in Queued
    BY <1>1
  <2>3. CpuOf[a] = CpuOf[b] /\ loc[a].idx = loc[b].idx /\ pc[b] \in Queued
    BY <1>1, <1>6, <1>7, <1>8, <2>1, <2>2 DEF Me
  <2>4. a = b
    BY <2>2, <2>3, OwnNode DEF Queued, WithNode
  <2>5. QED
    BY <1>1, <1>6, <1>7, <2>2, <2>4
<1>10. \A i \in 1 .. Len(q) :
         /\ loc'[q[i]].idx = loc[q[i]].idx /\ loc'[q[i]].next = loc[q[i]].next
         /\ i # k => pc'[q[i]] = pc[q[i]] /\ loc'[q[i]] = loc[q[i]]
         /\ node'[CpuOf[q[i]]][loc[q[i]].idx].locked = node[CpuOf[q[i]]][loc[q[i]].idx].locked
         /\ i # k - 1 => node'[CpuOf[q[i]]][loc[q[i]].idx] = node[CpuOf[q[i]]][loc[q[i]].idx]
  BY <1>1, <1>3, <1>4, <1>5, <1>9
<1>11. ASSUME NEW i \in 2 .. Len(q) PROVE Follows(q[i], q[i - 1])'
  <2>1. i \in 1 .. Len(q) /\ i - 1 \in 1 .. Len(q)
    BY <1>1
  <2>2. CASE i # k
    <3>1. PICK a \in Contexts, c \in Contexts : a = q[i] /\ c = q[i - 1]
      BY <1>1, <2>1
    <3>2. Follows(a, c)
      BY <3>1 DEF IsQueue
    <3>3. i - 1 # k - 1
      BY <1>1, <1>6, <2>1, <2>2
    <3>4. /\ pc'[a] = pc[a] /\ loc'[a].prev = loc[a].prev /\ loc'[a].idx = loc[a].idx
          /\ loc'[c].idx = loc[c].idx /\ loc'[c].next = loc[c].next
          /\ node'[CpuOf[a]][loc[a].idx].locked = node[CpuOf[a]][loc[a].idx].locked
          /\ node'[CpuOf[c]][loc[c].idx].next = node[CpuOf[c]][loc[c].idx].next
      BY <1>10, <2>1, <2>2, <3>1, <3>3
    <3>5. Follows(a, c)'
      BY <3>2, <3>4, FollowsKept
    <3>6. QED
      BY <3>1, <3>5
  <2>3. CASE i = k
    <3>1. node'[CpuOf[b]][loc[b].idx].next = Me(p) /\ Me(p)' = Me(p)
      BY <1>3, <1>4, <1>8 DEF Me
    <3>2. node'[CpuOf[p]][loc[p].idx].locked = 0 /\ loc'[b] = loc[b]
      BY <1>2, <1>3, <1>4, <1>8 DEF NodeOf
    <3>3. Follows(p, b)'
      BY <1>4, <1>8, <3>1, <3>2 DEF Follows, NodeOf
    <3>4. QED
      BY <1>5, <1>7, <2>3, <3>3
  <2>4. QED
    BY <2>2, <2>3
<1>12. q # <<>> /\ 1 \in 1 .. Len(q) /\ Len(q) \in 1 .. Len(q) /\ 1 # k /\ Len(q) # k - 1
  BY <1>1, <1>6
<1>13. /\ Token(q[1])' /\ pc'[q[1]] # "link"
       /\ lock'.tail = MyTail(q[Len(q)])'
       /\ NodeOf(q[Len(q)]).next' = NULL /\ loc'[q[Len(q)]].next = NULL
  <2>1. Token(q[1])' /\ pc'[q[1]] # "link"
    BY <1>10, <1>12, ZenonT(60) DEF IsQueue, Token
  <2>2. QED
    BY <1>3, <1>10, <1>12, <2>1, SMTT(30) DEF IsQueue, MyTail, NodeOf
<1>14. \A r \in Contexts : pc'[r] \in Queued <=> pc[r] \in Queued
  BY <1>3, <1>4 DEF Queued
<1>15. IsQueue(q)'
  BY <1>11, <1>12, <1>13, <1>14 DEF IsQueue
<1>16. pc[b] \in Queued /\ loc[p].prev = Me(b)
  BY <1>1, <1>6, <1>7, <1>8 DEF n
<1>17. q[1] # p
  BY <1>1, <1>5, <1>12
<1>18. QED
  BY <1>12, <1>15, <1>16, <1>17

\* p hands the head of the queue over and leaves it.
LEMMA QueueHand ==
  ASSUME TypeInv, NodeInv, TokenInv, NEW q \in Seq(Contexts), IsQueue(q),
         NEW p \in Contexts, HandOver(p)
  PROVE  /\ Len(q) > 1 /\ q[1] = p /\ pc[q[2]] = "mcs" /\ pc'[q[2]] = "mcs"
         /\ q[2] \in Contexts /\ loc[p].next = Me(q[2])
         /\ \A s \in Seq(Contexts) :
              Len(s) = Len(q) - 1 /\ (\A i \in 1 .. Len(s) : s[i] = q[i + 1]) => IsQueue(s)'
<1> DEFINE n == loc[p].next
<1>1. /\ Len(q) \in Nat /\ (q # <<>> <=> Len(q) > 0)
      /\ \A i \in 1 .. Len(q) : /\ q[i] \in Contexts /\ pc[q[i]] \in Queued
                                /\ CpuOf[q[i]] \in Cpus /\ loc[q[i]].idx \in Indices
      /\ \A i, j \in 1 .. Len(q) : q[i] = q[j] => i = j
  BY QueueFacts DEF IsQueue
<1>2. pc \in [Contexts -> Labels] /\ loc \in [Contexts -> LocType]
  BY DEF TypeInv
<1>3. /\ pc[p] = "hand" /\ lock' = lock
      /\ n \in Nodes /\ n = <<n[1], n[2]>> /\ n[1] \in Cpus /\ n[2] \in Indices
      /\ node'[n[1]][n[2]].locked = 1
      /\ \A d \in Cpus, j \in Indices : node'[d][j].next = node[d][j].next
      /\ \A d \in Cpus, j \in Indices : <<d, j>> # n => node'[d][j] = node[d][j]
  BY HandStep DEF HandOver, At
<1>4. pc'[p] = "held" /\ \A r \in Contexts \ {p} : pc'[r] = pc[r] /\ loc'[r] = loc[r]
  BY <1>2 DEF HandOver, Return, Goto
<1>5. q # <<>> /\ q[1] = p
  BY <1>3, HeadFirst DEF Token, Queued
<1>6. n # NULL
  BY <1>3, NodeFacts
<1>7. Len(q) > 1 /\ 1 \in 1 .. Len(q) /\ 2 \in 2 .. Len(q) /\ 2 \in 1 .. Len(q)
  <2>1. Len(q) # 1
    BY <1>5, <1>6 DEF IsQueue
  <2>2. PICK m \in Nat : m = Len(q) /\ m > 0
    BY <1>1, <1>5
  <2>3. m > 1
    BY <2>1, <2>2
  <2>4. QED
    BY <2>2, <2>3
<1>8. PICK b \in Contexts \ {p} : b = q[2]
  BY <1>1, <1>5, <1>7
<1>9. Follows(b, p)
  BY <1>5, <1>7, <1>8 DEF IsQueue
<1>10. pc[b] = "mcs" /\ n = Me(b) /\ CpuOf[b] \in Cpus /\ loc[b].idx \in Indices
  <2>1. pc[b] = "mcs" /\ n = Me(b)
    BY <1>6, <1>9 DEF Follows
  <2>2. QED
    BY <1>1, <1>7, <1>8, <2>1
<1> HIDE DEF n
<1>11. \A i \in 1 .. Len(q) : i # 2 => <<CpuOf[q[i]], loc[q[i]].idx>> # n
  <2>1. SUFFICES ASSUME NEW i \in 1 .. Len(q), <<CpuOf[q[i]], loc[q[i]].idx>> = n PROVE i = 2
    OBVIOUS
  <2>2. PICK a \in Contexts : a = q[i] /\ pc[a] \in Queued
    BY <1>1
  <2>3. CpuOf[a] = CpuOf[b] /\ loc[a].idx = loc[b].idx /\ pc[b] \in Queued
    BY <1>10, <2>1, <2>2 DEF Me, Queued
  <2>4. a = b
    BY <2>2, <2>3, OwnNode DEF Queued, WithNode
  <2>5. QED
    BY <1>1, <1>7, <1>8, <2>2, <2>4
<1>12. \A i \in 1 .. Len(q) : i # 1 =>
         /\ q[i] # p /\ pc'[q[i]] = pc[q[i]] /\ loc'[q[i]] = loc[q[i]]
         /\ node'[CpuOf[q[i]]][loc[q[i]].idx].next = node[CpuOf[q[i]]][loc[q[i]].idx].next
         /\ i # 2 => node'[CpuOf[q[i]]][loc[q[i]].idx] = node[CpuOf[q[i]]][loc[q[i]].idx]
  BY <1>1, <1>3, <1>4, <1>5, <1>7, <1>11
<1>13. Token(b)' /\ pc'[b] = "mcs"
  <2>1. node'[CpuOf[b]][loc[b].idx].locked = 1
    BY <1>3, <1>10 DEF Me
  <2>2. QED
    BY <1>4, <1>10, <2>1 DEF Token
<1>14. ASSUME NEW s \in Seq(Contexts), Len(s) = Len(q) - 1, \A i \in 1 .. Len(s) : s[i] = q[i + 1]
       PROVE  IsQueue(s)'
  <2>1. /\ Len(s) \in Nat /\ Len(s) > 0 /\ s # <<>> /\ 1 \in 1 .. Len(s) /\ Len(s) \in 1 .. Len(s)
        /\ \A i \in 1 .. Len(s) : i + 1 \in 1 .. Len(q) /\ i + 1 # 1
    BY <1>1, <1>7, <1>14
  <2>2. s[1] = b /\ s[Len(s)] = q[Len(q)]
    BY <1>1, <1>8, <1>14, <2>1
  <2>3. \A i, j \in 1 .. Len(s) : s[i] = s[j] => i = j
    BY <1>1, <1>14, <2>1
  <2>4. \A r \in Contexts : pc'[r] \in Queued <=> \E i \in 1 .. Len(s) : s[i] = r
    <3>1. ASSUME NEW i \in 1 .. Len(s) PROVE pc'[s[i]] \in Queued
      BY <1>1, <1>12, <1>14, <2>1
    <3>2. ASSUME NEW r \in Contexts, pc'[r] \in Queued PROVE \E i \in 1 .. Len(s) : s[i] = r
      <4>1. r # p /\ pc[r] \in Queued
        BY <1>4, <3>2 DEF Queued
      <4>2. PICK k \in 1 .. Len(q) : q[k] = r
        BY <4>1 DEF IsQueue
      <4>3. k # 1
        BY <1>5, <4>1, <4>2
      <4>4. k - 1 \in 1 .. Len(s) /\ k - 1 + 1 = k
        BY <1>1, <1>14, <4>2, <4>3
      <4>5. s[k - 1] = r
        BY <1>14, <4>2, <4>4
      <4>6. QED
        BY <4>4, <4>5
    <3>3. QED
      BY <3>1, <3>2
  <2>5. ASSUME NEW i \in 2 .. Len(s) PROVE Follows(s[i], s[i - 1])'
    <3>1. /\ i \in 1 .. Len(s) /\ i - 1 \in 1 .. Len(s)
          /\ i + 1 \in 1 .. Len(q) /\ i + 1 # 1 /\ i + 1 # 2 /\ i + 1 \in 2 .. Len(q)
          /\ i \in 1 .. Len(q) /\ i # 1 /\ i - 1 + 1 = i /\ i + 1 - 1 = i
      BY <1>1, <1>14, <2>1
    <3>2. PICK a \in Contexts, c \in Contexts : a = q[i + 1] /\ c = q[i]
      BY <1>1, <3>1
    <3>3. Follows(a, c)
      BY <3>1, <3>2 DEF IsQueue
    <3>4. /\ pc'[a] = pc[a] /\ loc'[a] = loc[a] /\ loc'[c] = loc[c]
          /\ node'[CpuOf[a]][loc[a].idx] = node[CpuOf[a]][loc[a].idx]
          /\ node'[CpuOf[c]][loc[c].idx].next = node[CpuOf[c]][loc[c].idx].next
      BY <1>12, <3>1, <3>2
    <3>5. Follows(a, c)'
      BY <3>3, <3>4, FollowsKept
    <3>6. s[i] = a /\ s[i - 1] = c
      BY <1>14, <3>1, <3>2
    <3>7. QED
      BY <3>5, <3>6
  <2>6. /\ lock'.tail = MyTail(s[Len(s)])'
        /\ NodeOf(s[Len(s)]).next' = NULL /\ loc'[s[Len(s)]].next = NULL
    <3>1. Len(q) \in 1 .. Len(q) /\ Len(q) # 1
      BY <1>1, <1>7
    <3>2. lock.tail = MyTail(q[Len(q)]) /\ NodeOf(q[Len(q)]).next = NULL /\ loc[q[Len(q)]].next = NULL
      BY <1>5 DEF IsQueue
    <3>3. PICK l : l = q[Len(q)]
      OBVIOUS
    <3>4. /\ loc'[l] = loc[l]
          /\ node'[CpuOf[l]][loc[l].idx].next = node[CpuOf[l]][loc[l].idx].next
      BY <1>12, <3>1, <3>3
    <3>5. lock'.tail = MyTail(l)' /\ NodeOf(l).next' = NULL /\ loc'[l].next = NULL
      BY <1>3, <3>2, <3>3, <3>4 DEF MyTail, NodeOf
    <3>6. s[Len(s)] = l
      BY <2>2, <3>3
    <3>7. QED
      BY <3>5, <3>6
  <2>7. QED
    BY <1>13, <2>1, <2>2, <2>3, <2>4, <2>5, <2>6 DEF IsQueue
<1>15. QED
  BY <1>5, <1>7, <1>8, <1>10, <1>13, <1>14 DEF n

\* The tail of p tells its node.
LEMMA TailNode ==
  ASSUME TypeInv, NEW p \in Contexts
  PROVE  decode_tail(MyTail(p)) = Me(p)
<1>1. PICK n \in Nodes : n = Me(p) /\ n[1] = CpuOf[p] /\ n[2] = loc[p].idx
  BY MyNode DEF Me
<1>2. decode_tail(encode_tail(n[1], n[2])) = n
  BY NodeFacts
<1>3. QED
  BY <1>1, <1>2 DEF MyTail

\* p becomes the last of the queue.
LEMMA QueueJoin ==
  ASSUME TypeInv, NodeInv, TokenInv, FreshInv, NEW q \in Seq(Contexts), IsQueue(q),
         NEW p \in Contexts, PublishTail(p)
  PROVE  IsQueue(Append(q, p))'
<1>1. /\ Len(q) \in Nat /\ (q # <<>> <=> Len(q) > 0)
      /\ \A i \in 1 .. Len(q) : q[i] \in Contexts /\ pc[q[i]] \in Queued
      /\ \A i, j \in 1 .. Len(q) : q[i] = q[j] => i = j
  BY QueueFacts DEF IsQueue
<1>2. /\ pc \in [Contexts -> Labels] /\ loc \in [Contexts -> LocType] /\ loc[p] \in LocType
      /\ MyTail(p) # 0
  BY MyNode, TailSet DEF TypeInv
<1>3. /\ pc[p] = "publish" /\ lock'.tail = MyTail(p) /\ node' = node
      /\ pc'[p] = IF lock.tail # 0 THEN "link" ELSE "head"
      /\ \A r \in Contexts \ {p} : pc'[r] = pc[r] /\ loc'[r] = loc[r]
  BY <1>2 DEF PublishTail, At, Goto, xchg_tail, Word
<1>4. /\ loc'[p].idx = loc[p].idx /\ loc'[p].next = NULL
      /\ lock.tail # 0 => loc'[p].prev = decode_tail(lock.tail)
  BY <1>2 DEF PublishTail, LocType
<1>5. NodeOf(p)' = FreshNode /\ MyTail(p)' = MyTail(p)
  BY <1>3, <1>4 DEF FreshInv, NodeOf, MyTail
<1>6. FreshNode.locked = 0 /\ FreshNode.next = NULL
  BY Records
<1>7. PICK m \in Nat : m = Len(q)
  BY <1>1
<1>8. PICK s \in Seq(Contexts) :
        /\ s = Append(q, p) /\ Len(s) = m + 1 /\ s[m + 1] = p
        /\ \A i \in 1 .. m : s[i] = q[i]
  <2>1. /\ Append(q, p) \in Seq(Contexts) /\ Len(Append(q, p)) = m + 1 /\ Append(q, p)[m + 1] = p
        /\ \A i \in 1 .. m : Append(q, p)[i] = q[i]
    BY <1>7
  <2>2. QED
    BY <2>1, Zenon
<1>9. \A i \in 1 .. m + 1 : i \in 1 .. m \/ i = m + 1
  OBVIOUS
<1>10. \A i \in 1 .. m : q[i] \in Contexts \ {p} /\ pc'[q[i]] = pc[q[i]] /\ loc'[q[i]] = loc[q[i]]
  BY <1>1, <1>3, <1>7 DEF Queued
<1>11. \A i, j \in 1 .. m + 1 : s[i] = s[j] => i = j
  <2>1. \A i \in 1 .. m : s[i] # p
    BY <1>8, <1>10
  <2>2. \A i, j \in 1 .. m : s[i] = s[j] => i = j
    BY <1>1, <1>7, <1>8
  <2>3. QED
    BY <1>8, <1>9, <2>1, <2>2
<1>12. pc'[p] \in Queued
  BY <1>3 DEF Queued
<1>13. \A r \in Contexts : pc'[r] \in Queued <=> \E i \in 1 .. m + 1 : s[i] = r
  <2>1. ASSUME NEW i \in 1 .. m + 1 PROVE pc'[s[i]] \in Queued
    BY <1>1, <1>7, <1>8, <1>9, <1>10, <1>12
  <2>2. ASSUME NEW r \in Contexts, pc'[r] \in Queued PROVE \E i \in 1 .. m + 1 : s[i] = r
    <3>1. CASE r = p
      BY <1>8, <3>1
    <3>2. CASE r # p
      <4>1. PICK i \in 1 .. m : q[i] = r
        BY <1>3, <1>7, <2>2, <3>2 DEF IsQueue
      <4>2. i \in 1 .. m + 1
        OBVIOUS
      <4>3. QED
        BY <1>8, <4>1, <4>2
    <3>3. QED
      BY <3>1, <3>2
  <2>3. QED
    BY <2>1, <2>2
<1>14. CASE m = 0
  <2>1. lock.tail = 0 /\ pc'[p] = "head" /\ s[1] = p
    BY <1>1, <1>3, <1>7, <1>8, <1>14 DEF IsQueue
  <2>2. Token(p)'
    BY <2>1 DEF Token
  <2>3. /\ s # <<>> /\ s[Len(s)] = p /\ \A i \in 2 .. Len(s) : FALSE
    BY <1>8, <1>14
  <2>4. /\ Token(s[1])' /\ pc'[s[1]] # "link" /\ lock'.tail = MyTail(s[Len(s)])'
        /\ NodeOf(s[Len(s)]).next' = NULL /\ loc'[s[Len(s)]].next = NULL
    BY <1>3, <1>4, <1>5, <1>6, <2>1, <2>2, <2>3
  <2>5. IsQueue(s)'
    BY <1>8, <1>11, <1>13, <2>3, <2>4, ZenonT(60) DEF IsQueue
  <2>6. QED
    BY <1>8, <2>5
<1>15. CASE m > 0
  <2>1. q # <<>> /\ m \in 1 .. m /\ 1 \in 1 .. m
    BY <1>1, <1>7, <1>15
  <2>2. PICK b \in Contexts \ {p} : b = q[m]
    BY <1>10, <2>1
  <2>3. /\ lock.tail = MyTail(b) /\ NodeOf(b).next = NULL /\ loc[b].next = NULL
        /\ pc'[b] = pc[b] /\ loc'[b] = loc[b]
    BY <1>7, <1>10, <2>1, <2>2 DEF IsQueue
  <2>4. lock.tail # 0
    BY <2>3, TailSet
  <2>5. pc'[p] = "link" /\ loc'[p].prev = Me(b)
    BY <1>3, <1>4, <2>3, <2>4, TailNode
  <2>6. Follows(p, b)'
    <3>1. NodeOf(b).next' = NULL /\ loc'[b].next = NULL /\ Me(b)' = Me(b)
      BY <1>3, <2>3 DEF NodeOf, Me
    <3>2. NodeOf(p)'.locked = 0
      BY <1>5, <1>6
    <3>3. QED
      BY <2>5, <3>1, <3>2 DEF Follows
  <2>7. ASSUME NEW i \in 2 .. m + 1 PROVE Follows(s[i], s[i - 1])'
    <3>1. CASE i = m + 1
      <4>1. s[i] = p /\ s[i - 1] = b
        BY <1>8, <2>1, <2>2, <3>1
      <4>2. QED
        BY <2>6, <4>1
    <3>2. CASE i # m + 1
      <4>1. i \in 2 .. m /\ i \in 1 .. m /\ i - 1 \in 1 .. m
        BY <3>2
      <4>2. PICK a \in Contexts, c \in Contexts : a = q[i] /\ c = q[i - 1]
        BY <1>10, <4>1
      <4>3. Follows(a, c)
        BY <1>7, <4>1, <4>2 DEF IsQueue
      <4>4. pc'[a] = pc[a] /\ loc'[a] = loc[a] /\ loc'[c] = loc[c]
        BY <1>10, <4>1, <4>2
      <4>5. Follows(a, c)'
        BY <1>3, <4>3, <4>4, FollowsKept
      <4>6. s[i] = a /\ s[i - 1] = c
        BY <1>8, <4>1, <4>2
      <4>7. QED
        BY <4>5, <4>6
    <3>3. QED
      BY <3>1, <3>2
  <2>8. PICK a \in Contexts : a = q[1] /\ a = s[1]
    BY <1>8, <1>10, <2>1
  <2>9. Token(a)' /\ pc'[a] # "link"
    <3>1. Token(a) /\ pc[a] # "link" /\ pc'[a] = pc[a] /\ loc'[a] = loc[a]
      BY <1>10, <2>1, <2>8 DEF IsQueue
    <3>2. QED
      BY <1>3, <3>1 DEF Token
  <2>10. s # <<>> /\ s[Len(s)] = p
    BY <1>8
  <2>11. /\ Token(s[1])' /\ pc'[s[1]] # "link" /\ lock'.tail = MyTail(s[Len(s)])'
         /\ NodeOf(s[Len(s)]).next' = NULL /\ loc'[s[Len(s)]].next = NULL
    BY <1>3, <1>4, <1>5, <1>6, <2>8, <2>9, <2>10
  <2>12. IsQueue(s)'
    BY <1>8, <1>11, <1>13, <2>7, <2>10, <2>11, ZenonT(60) DEF IsQueue
  <2>13. QED
    BY <1>8, <2>12
<1>16. QED
  BY <1>14, <1>15

\* The last of the queue clears the tail: it was the only one.
LEMMA QueueClaim ==
  ASSUME TypeInv, NodeInv, TokenInv, NEW q \in Seq(Contexts), IsQueue(q),
         NEW p \in Contexts, Claim(p), lock = loc[p].val
  PROVE  Len(q) = 1 /\ q[1] = p /\ IsQueue(<<>>)'
<1>1. /\ Len(q) \in Nat /\ (q # <<>> <=> Len(q) > 0)
      /\ \A i \in 1 .. Len(q) : q[i] \in Contexts /\ pc[q[i]] \in Queued
      /\ \A i, j \in 1 .. Len(q) : q[i] = q[j] => i = j
  BY QueueFacts DEF IsQueue
<1>2. pc \in [Contexts -> Labels]
  BY DEF TypeInv
<1>3. pc[p] = "claim" /\ loc[p].val.tail = MyTail(p)
  BY DEF Claim, At, TypeInv, LocFits, MyTail
<1>4. /\ lock' = Word(1, 0, 0) /\ pc'[p] = "held"
      /\ \A r \in Contexts \ {p} : pc'[r] = pc[r]
  BY <1>2 DEF Claim, try_cmpxchg, Return, Goto
<1>5. q # <<>> /\ q[1] = p
  BY <1>3, HeadFirst DEF Token, Queued
<1>6. 1 \in 1 .. Len(q) /\ Len(q) \in 1 .. Len(q)
  BY <1>1, <1>5
<1>7. PICK b \in Contexts : b = q[Len(q)] /\ pc[b] \in Queued
  BY <1>1, <1>6
<1>8. MyTail(b) = MyTail(p)
  BY <1>3, <1>5, <1>7 DEF IsQueue
<1>9. Me(b) = Me(p)
  BY <1>8, TailNode
<1>10. b = p
  BY <1>3, <1>7, <1>9, OwnNode DEF Me, Queued, WithNode
<1>11. Len(q) = 1
  BY <1>1, <1>5, <1>6, <1>7, <1>10
<1>12. \A r \in Contexts : pc'[r] \notin Queued
  <2>1. ASSUME NEW r \in Contexts, pc'[r] \in Queued PROVE FALSE
    <3>1. r # p /\ pc[r] \in Queued
      BY <1>4, <2>1 DEF Queued
    <3>2. PICK i \in 1 .. Len(q) : q[i] = r
      BY <3>1 DEF IsQueue
    <3>3. i = 1
      BY <1>11, <3>2
    <3>4. QED
      BY <1>5, <3>1, <3>2, <3>3
  <2>2. QED
    BY <2>1
<1>13. lock'.tail = 0
  BY <1>4, WordParts
<1>14. PICK e : e = <<>> /\ Len(e) = 0
  OBVIOUS
<1>15. IsQueue(e)'
  <2>1. \A i \in 1 .. Len(e) : FALSE
    BY <1>14
  <2>2. \A i \in 2 .. Len(e) : FALSE
    BY <1>14
  <2>3. QED
    BY <1>12, <1>13, <1>14, <2>1, <2>2 DEF IsQueue
<1>16. QED
  BY <1>5, <1>11, <1>14, <1>15

\* No node that was taken and is not yet in the queue changes.
LEMMA FreshKept ==
  ASSUME FreshInv, NEW p \in Contexts,
         \A r \in Contexts \ {p} : pc'[r] = pc[r] /\ loc'[r] = loc[r],
         pc'[p] \notin {"trylock", "publish"},
         \A r \in Contexts : pc[r] \in {"trylock", "publish"} =>
           node'[CpuOf[r]][loc[r].idx] = node[CpuOf[r]][loc[r].idx]
  PROVE  FreshInv'
<1>1. ASSUME NEW r \in Contexts, pc'[r] \in {"trylock", "publish"} PROVE NodeOf(r)' = FreshNode
  <2>1. pc[r] \in {"trylock", "publish"} /\ loc'[r] = loc[r] /\ r # p
    BY <1>1
  <2>2. NodeOf(r) = FreshNode /\ node'[CpuOf[r]][loc[r].idx] = node[CpuOf[r]][loc[r].idx]
    BY <2>1 DEF FreshInv
  <2>3. QED
    BY <2>1, <2>2 DEF NodeOf
<1>2. QED
  BY <1>1 DEF FreshInv

\* The node of b is not that of r.
LEMMA NodesApart ==
  ASSUME TypeInv, NodeInv, NEW b \in Contexts, pc[b] \in Queued,
         \A d \in Cpus, j \in Indices : <<d, j>> # Me(b) => node'[d][j] = node[d][j],
         NEW r \in Contexts, pc[r] \in {"trylock", "publish"}
  PROVE  node'[CpuOf[r]][loc[r].idx] = node[CpuOf[r]][loc[r].idx]
<1>1. CpuOf[r] \in Cpus /\ loc[r].idx \in Indices
  BY MyNode
<1>2. r # b
  BY DEF Queued
<1>3. CpuOf[r] # CpuOf[b] \/ loc[r].idx # loc[b].idx
  BY <1>2, OwnNode DEF WithNode, Queued
<1>4. <<CpuOf[r], loc[r].idx>> # Me(b)
  BY <1>3 DEF Me
<1>5. QED
  BY <1>1, <1>4

\* A node is fresh until its context is in the queue.
LEMMA FreshNext ==
  ASSUME TypeInv, NodeInv, TokenInv, FreshInv, NEW q \in Seq(Contexts), IsQueue(q),
         NEW p \in Contexts, Steps(p)
  PROVE  FreshInv'
<1>1. pc \in [Contexts -> Labels] /\ loc \in [Contexts -> LocType]
  BY DEF TypeInv
<1>2. \A r \in Contexts \ {p} : pc'[r] = pc[r] /\ loc'[r] = loc[r]
  BY OthersStay
<1>3. CASE node' = node /\ pc'[p] \notin {"trylock", "publish"}
  BY <1>2, <1>3, FreshKept
<1>4. CASE arena_spin_lock(p) \/ SpinPending(p) \/ FetchSetPending(p) \/ UndoPending(p)
             \/ WaitOwner(p) \/ TakeOver(p) \/ arena_spin_unlock(p)
  BY <1>1, <1>3, <1>4 DEF arena_spin_lock, SpinPending, FetchSetPending, UndoPending, WaitOwner,
       TakeOver, arena_spin_unlock, Goto, Return
<1>5. CASE PublishTail(p) \/ WaitMcs(p) \/ WaitHead(p) \/ SetLocked(p) \/ WaitNext(p)
             \/ Claim(p) \/ Break(p)
  BY <1>1, <1>3, <1>5 DEF PublishTail, WaitMcs, WaitHead, SetLocked, WaitNext, Claim, Break,
       Goto, Return
<1>6. CASE TryLock(p)
  <2>1. CASE lock = Unlocked
    BY <1>1, <1>3, <1>6, <2>1 DEF TryLock, Goto, Return
  <2>2. CASE lock # Unlocked
    <3>1. loc' = loc /\ node' = node /\ pc[p] = "trylock"
      BY <1>6, <2>2 DEF TryLock, try_cmpxchg, At
    <3>2. QED
      BY <1>2, <3>1 DEF FreshInv, NodeOf
  <2>3. QED
    BY <2>1, <2>2
<1>7. CASE TakeNode(p)
  <2>1. CASE pc'[p] = "idle"
    BY <1>1, <1>3, <1>7, <2>1 DEF TakeNode, Goto
  <2>2. CASE pc'[p] # "idle"
    <3> DEFINE i == count[CpuOf[p]]
    <3>1. /\ i \in Indices /\ node'[CpuOf[p]][i] = FreshNode /\ loc'[p].idx = i
          /\ \A d \in Cpus, j \in Indices : d # CpuOf[p] \/ j # i => node'[d][j] = node[d][j]
      BY <1>7, <2>2, TakeStep
    <3>2. pc[p] = "queue"
      BY <1>7 DEF TakeNode, At
    <3>3. ASSUME NEW r \in Contexts, pc'[r] \in {"trylock", "publish"}
          PROVE  node'[CpuOf[r]][loc'[r].idx] = FreshNode
      <4>1. CASE r = p
        BY <3>1, <4>1
      <4>2. CASE r # p
        <5>1. /\ pc[r] \in {"trylock", "publish"} /\ loc'[r] = loc[r]
              /\ CpuOf[r] \in Cpus /\ loc[r].idx \in Indices
          BY <1>2, <3>3, <4>2, MyNode
        <5>2. CpuOf[r] # CpuOf[p] \/ loc[r].idx < i
          BY <5>1 DEF NodeInv, WithNode
        <5>3. i \in Int /\ loc[r].idx \in Int
          BY <3>1, <5>1 DEF Indices
        <5>4. node'[CpuOf[r]][loc[r].idx] = node[CpuOf[r]][loc[r].idx]
          BY <3>1, <5>1, <5>2, <5>3
        <5>5. QED
          BY <5>1, <5>4 DEF FreshInv, NodeOf
      <4>3. QED
        BY <4>1, <4>2
    <3>4. QED
      BY <3>3 DEF FreshInv, NodeOf
  <2>3. QED
    BY <2>1, <2>2
<1>8. CASE LinkPrev(p)
  <2>1. PICK b \in Contexts : pc[b] \in Queued /\ loc[p].prev = Me(b)
    BY <1>8, QueueLink
  <2>2. \A d \in Cpus, j \in Indices : <<d, j>> # Me(b) => node'[d][j] = node[d][j]
    BY <1>8, <2>1, LinkStep, ZenonT(60)
  <2>3. pc'[p] = "mcs"
    BY <1>1, <1>8 DEF LinkPrev, Goto
  <2>4. QED
    BY <1>2, <2>1, <2>2, <2>3, NodesApart, FreshKept
<1>9. CASE HandOver(p)
  <2>1. PICK b \in Contexts : pc[b] = "mcs" /\ loc[p].next = Me(b)
    BY <1>9, QueueHand
  <2>2. pc[b] \in Queued
    BY <2>1 DEF Queued
  <2>3. \A d \in Cpus, j \in Indices : <<d, j>> # Me(b) => node'[d][j] = node[d][j]
    BY <1>9, <2>1, HandStep
  <2>4. pc'[p] = "held"
    BY <1>1, <1>9 DEF HandOver, Return, Goto
  <2>5. QED
    BY <1>2, <2>2, <2>3, <2>4, NodesApart, FreshKept
<1>10. QED
  BY <1>4, <1>5, <1>6, <1>7, <1>8, <1>9 DEF Steps, Step

\* The line stays, and so do the one with the pending bit and the head of the queue.
LEMMA OrderKept ==
  ASSUME NEW q \in Seq(Contexts), InOrder(q), line' = line,
         SomePends' <=> SomePends, FirstOwns(q)' <=> FirstOwns(q)
  PROVE  InOrder(q)'
BY DEF InOrder

\* The one with the pending bit and the first of the queue, after a step of p.
LEMMA PlacesKept ==
  ASSUME TypeInv, NEW q \in Seq(Contexts), NEW p \in Contexts,
         \A r \in Contexts \ {p} : pc'[r] = pc[r]
  PROVE  /\ (pc[p] \in {"owner", "take"} <=> pc'[p] \in {"owner", "take"})
              => (SomePends' <=> SomePends)
         /\ (pc[p] \in {"next", "hand"} <=> pc'[p] \in {"next", "hand"})
              => (FirstOwns(q)' <=> FirstOwns(q))
         /\ q # <<>> /\ q[1] # p => (FirstOwns(q)' <=> FirstOwns(q))
<1>1. q # <<>> => q[1] \in Contexts
  OBVIOUS
<1>2. QED
  BY <1>1 DEF SomePends, FirstOwns

\* The line and the queue get a last one.
LEMMA OrderJoin ==
  ASSUME TypeInv, NodeInv, TokenInv, LineInv, NEW q \in Seq(Contexts), IsQueue(q), InOrder(q),
         NEW p \in Contexts, PublishTail(p), \A r \in Contexts \ {p} : pc'[r] = pc[r]
  PROVE  InOrder(Append(q, p))'
<1>1. pc[p] = "publish" /\ pc'[p] \in {"link", "head"} /\ line' = Append(line, p)
  BY DEF PublishTail, At, Goto, TypeInv
<1>2. PICK m \in Nat, n \in Nat : m = Len(q) /\ n = Len(line)
  BY DEF LineInv
<1>3. PICK s : s = Append(q, p)
  OBVIOUS
<1>4. Len(s) = m + 1 /\ s[m + 1] = p /\ (\A i \in 1 .. m : s[i] = q[i]) /\ s # <<>>
  BY <1>2, <1>3
<1>5. Len(line') = n + 1 /\ line'[n + 1] = p /\ \A i \in 1 .. n : line'[i] = line[i]
  BY <1>1, <1>2 DEF LineInv
<1>6. SomePends' <=> SomePends
  BY <1>1, PlacesKept
<1>7. FirstOwns(s)' <=> FirstOwns(q)
  <2>1. CASE m = 0
    <3>1. s[1] = p
      BY <1>4, <2>1
    <3>2. q = <<>>
      <4>1. q # <<>> <=> Len(q) > 0
        OBVIOUS
      <4>2. QED
        BY <1>2, <2>1, <4>1
    <3>3. QED
      BY <1>1, <3>1, <3>2 DEF FirstOwns
  <2>2. CASE m > 0
    <3>1. s[1] = q[1] /\ q # <<>> /\ 1 \in 1 .. Len(q)
      BY <1>2, <1>4, <2>2
    <3>2. q[1] \in Contexts \ {p}
      BY <1>1, <3>1, QueueFacts DEF Queued
    <3>3. QED
      BY <1>4, <3>1, <3>2 DEF FirstOwns
  <2>3. QED
    BY <2>1, <2>2
<1>8. PICK a \in {0, 1}, b \in {0, 1} :
        a = (IF SomePends THEN 1 ELSE 0) /\ b = (IF FirstOwns(q) THEN 1 ELSE 0)
  OBVIOUS
<1>9. n = a + m - b /\ \A i \in 1 .. m - b : line[a + i] = q[b + i]
  BY <1>2, <1>8 DEF InOrder
<1>10. FirstOwns(q) => m > 0
  BY <1>2 DEF FirstOwns
<1>11. b <= m
  BY <1>8, <1>10
<1>12. n + 1 = a + (m + 1) - b
  BY <1>9
<1>13. ASSUME NEW i \in 1 .. m + 1 - b PROVE line'[a + i] = s[b + i]
  <2>1. CASE i = m + 1 - b
    <3>1. a + i = n + 1 /\ b + i = m + 1
      BY <1>9, <2>1
    <3>2. QED
      BY <1>4, <1>5, <3>1
  <2>2. CASE i # m + 1 - b
    <3>1. i \in 1 .. m - b /\ a + i \in 1 .. n /\ b + i \in 1 .. m
      BY <1>9, <1>11, <2>2
    <3>2. QED
      BY <1>4, <1>5, <1>9, <3>1
  <2>3. QED
    BY <2>1, <2>2
<1>14. InOrder(s)'
  <2>1. Len(line') = a + Len(s) - b /\ \A i \in 1 .. Len(s) - b : line'[a + i] = s[b + i]
    BY <1>4, <1>5, <1>12, <1>13
  <2>2. (IF SomePends' THEN 1 ELSE 0) = a /\ (IF FirstOwns(s)' THEN 1 ELSE 0) = b
    BY <1>6, <1>7, <1>8
  <2>3. QED
    BY <2>1, <2>2 DEF InOrder
<1>15. QED
  BY <1>3, <1>14

\* The first of the queue, who has the lock, leaves the queue.
LEMMA OrderHand ==
  ASSUME NEW q \in Seq(Contexts), NEW s \in Seq(Contexts), InOrder(q), FirstOwns(q),
         line' = line, SomePends' <=> SomePends, ~ FirstOwns(s)',
         Len(s) = Len(q) - 1, \A i \in 1 .. Len(s) : s[i] = q[i + 1]
  PROVE  InOrder(s)'
<1>1. PICK m \in Nat : m = Len(q) /\ m > 0
  BY DEF FirstOwns
<1>2. PICK a \in {0, 1} : a = (IF SomePends THEN 1 ELSE 0)
  OBVIOUS
<1>3. Len(line) = a + m - 1 /\ \A i \in 1 .. m - 1 : line[a + i] = q[1 + i]
  BY <1>1, <1>2 DEF InOrder
<1>4. Len(line) = a + (m - 1) - 0 /\ \A i \in 1 .. (m - 1) - 0 : line[a + i] = s[0 + i]
  BY <1>1, <1>3
<1>5. QED
  BY <1>1, <1>2, <1>4 DEF InOrder

\* The head of the queue takes the lock: it is the first of the line.
LEMMA OrderSet ==
  ASSUME TypeInv, LineInv, OwnInv, NEW q \in Seq(Contexts), IsQueue(q), InOrder(q),
         NEW p \in Contexts, q # <<>>, q[1] = p, pc[p] \in {"claim", "set"}
  PROVE  /\ ~ SomePends /\ ~ FirstOwns(q)
         /\ line # <<>> /\ line[1] = p /\ Len(line) = Len(q)
         /\ \A i \in 1 .. Len(q) : line[i] = q[i]
<1>1. ~ SomePends /\ ~ FirstOwns(q)
  BY DEF OwnInv, SomePends, FirstOwns
<1>2. PICK m \in Nat : m = Len(q) /\ m > 0
  OBVIOUS
<1>3. Len(line) = 0 + m - 0 /\ \A i \in 1 .. m - 0 : line[0 + i] = q[0 + i]
  BY <1>1, <1>2 DEF InOrder
<1>4. Len(line) = m /\ \A i \in 1 .. m : line[i] = q[i]
  BY <1>3
<1>5. 1 \in 1 .. m /\ line # <<>>
  BY <1>2, <1>4
<1>6. QED
  BY <1>1, <1>2, <1>4, <1>5

\* So is the one who waits for the owner with the pending bit set.
LEMMA OrderTake ==
  ASSUME TypeInv, LineInv, NEW q \in Seq(Contexts), IsQueue(q), InOrder(q),
         NEW p \in Contexts, pc[p] \in {"owner", "take"}
  PROVE  line # <<>> /\ line[1] = p
<1>1. SomePends
  BY DEF SomePends
<1>2. PICK m \in Nat, b \in {0, 1} : m = Len(q) /\ b = (IF FirstOwns(q) THEN 1 ELSE 0)
  OBVIOUS
<1>3. Len(line) = 1 + m - b /\ \A i \in 1 .. m - b : line[1 + i] = q[b + i]
  BY <1>1, <1>2 DEF InOrder
<1>4. Waits(p)
  BY DEF Waits, WaitLabels
<1>5. PICK k \in 1 .. Len(line) : line[k] = p
  BY <1>4 DEF LineInv
<1>6. k = 1
  <2>1. SUFFICES ASSUME k # 1 PROVE FALSE
    OBVIOUS
  <2>2. k - 1 \in 1 .. m - b /\ 1 + (k - 1) = k /\ b + (k - 1) \in 1 .. m
    BY <1>2, <1>3, <1>5, <2>1
  <2>3. q[b + (k - 1)] = p
    BY <1>3, <1>5, <2>2
  <2>4. pc[p] \in Queued
    BY <1>2, <2>2, <2>3, QueueFacts
  <2>5. QED
    BY <2>4 DEF Queued
<1>7. QED
  BY <1>5, <1>6 DEF LineInv

\* The queue goes on from step to step.
LEMMA QueueNext ==
  ASSUME TypeInv, NodeInv, TokenInv, OwnInv, LineInv, QueueInv, NEW p \in Contexts, Steps(p)
  PROVE  QueueInv'
<1> SUFFICES ASSUME broken' = 0 PROVE FreshInv' /\ \E q \in Seq(Contexts) : IsQueue(q)' /\ InOrder(q)'
  BY DEF QueueInv
<1>1. /\ pc \in [Contexts -> Labels] /\ loc \in [Contexts -> LocType] /\ loc[p] \in LocType
      /\ lock \in LockType /\ lock.pending \in {0, 1}
  BY MyNode, WordParts DEF TypeInv
<1>2. broken = 0 /\ (Break(p) => pc[p] = "spin")
  <2>1. CASE Break(p)
    BY <2>1 DEF Break, TypeInv
  <2>2. CASE arena_spin_lock(p) \/ SpinPending(p) \/ FetchSetPending(p) \/ UndoPending(p)
               \/ WaitOwner(p) \/ TakeOver(p) \/ TakeNode(p) \/ TryLock(p)
    BY <2>1, <2>2, SMTT(30) DEF arena_spin_lock, SpinPending, FetchSetPending, UndoPending, WaitOwner,
         TakeOver, TakeNode, TryLock
  <2>3. CASE PublishTail(p) \/ LinkPrev(p) \/ WaitMcs(p) \/ WaitHead(p) \/ Claim(p)
               \/ SetLocked(p) \/ WaitNext(p) \/ HandOver(p) \/ arena_spin_unlock(p)
    BY <2>1, <2>3 DEF PublishTail, LinkPrev, WaitMcs, WaitHead, Claim, SetLocked, WaitNext,
         HandOver, arena_spin_unlock
  <2>4. QED
    BY <2>1, <2>2, <2>3 DEF Steps, Step
<1>3. FreshInv
  BY <1>2 DEF QueueInv
<1>4. PICK q \in Seq(Contexts) : IsQueue(q) /\ InOrder(q)
  BY <1>2 DEF QueueInv
<1>5. FreshInv'
  BY <1>3, <1>4, FreshNext
<1>6. /\ \A r \in Contexts \ {p} : pc'[r] = pc[r] /\ loc'[r] = loc[r]
  BY OthersStay
<1>7. line \in Seq(Contexts) /\ Len(line) \in Nat
  BY DEF LineInv
<1>8. SUFFICES \E s \in Seq(Contexts) : IsQueue(s)' /\ InOrder(s)'
  BY <1>5
<1>9. ASSUME node' = node, lock'.tail = lock.tail, line' = line,
             pc[p] \notin Queued \cup {"owner", "take"}, pc'[p] \notin Queued \cup {"owner", "take"}
      PROVE  IsQueue(q)' /\ InOrder(q)'
  <2>1. IsQueue(q)'
    BY <1>4, <1>6, <1>9, QueueAside
  <2>2. pc[p] \notin {"next", "hand"} /\ pc'[p] \notin {"next", "hand"}
    BY <1>9 DEF Queued
  <2>3. InOrder(q)'
    BY <1>4, <1>6, <1>9, <2>2, OrderKept, PlacesKept
  <2>4. QED
    BY <2>1, <2>3
<1>10. CASE arena_spin_lock(p) \/ SpinPending(p) \/ UndoPending(p) \/ TryLock(p) \/ arena_spin_unlock(p)
  <2>1. node' = node /\ line' = line
    BY <1>10 DEF arena_spin_lock, SpinPending, UndoPending, TryLock, arena_spin_unlock
  <2>2. lock'.tail = lock.tail
    BY <1>1, <1>10, WordParts DEF arena_spin_lock, SpinPending, UndoPending, TryLock,
         arena_spin_unlock, try_cmpxchg, clear_pending, LockType
  <2>3. pc[p] \notin Queued \cup {"owner", "take"} /\ pc'[p] \notin Queued \cup {"owner", "take"}
    BY <1>1, <1>10 DEF arena_spin_lock, SpinPending, UndoPending, TryLock,
         arena_spin_unlock, At, Goto, Return, Queued
  <2>4. QED
    BY <1>9, <2>1, <2>2, <2>3
<1>11. CASE Break(p)
  <2>1. node' = node /\ lock' = lock /\ pc[p] = "spin" /\ pc'[p] = "idle"
    BY <1>1, <1>2, <1>11 DEF Break, Return, Goto
  <2>2. ~ InLine(p)
    BY <2>1, InLineWaits DEF Waits, WaitLabels
  <2>3. line' = line
    <3>1. PICK s : s = line' /\ s = Fifo!Leave(p)
      BY <1>11 DEF Break
    <3>2. s = line
      BY <2>2, <3>1, LeaveLine
    <3>3. QED
      BY <3>1, <3>2
  <2>4. QED
    BY <1>9, <2>1, <2>3 DEF Queued
<1>12. CASE FetchSetPending(p)
  <2>1. node' = node /\ pc[p] = "pending" /\ lock'.tail = lock.tail
    BY <1>1, <1>12 DEF FetchSetPending, At, LockType
  <2>2. CASE Contended(lock)
    <3>1. line' = line /\ pc'[p] \in {"queue", "undo"}
      BY <1>1, <1>12, <2>2 DEF FetchSetPending, Goto
    <3>2. QED
      BY <1>9, <2>1, <3>1 DEF Queued
  <2>3. CASE ~ Contended(lock)
    <3>1. line' = Append(line, p) /\ pc'[p] \in {"owner", "take"} /\ lock.tail = 0 /\ lock.pending = 0
      BY <1>1, <1>12, <2>3 DEF FetchSetPending, Goto, Contended
    <3>2. IsQueue(q)'
      BY <1>4, <1>6, <2>1, <3>1, QueueAside DEF Queued
    <3>3. q = <<>>
      <4>1. q # <<>> => q[Len(q)] \in Contexts /\ lock.tail = MyTail(q[Len(q)])
        BY <1>4 DEF IsQueue
      <4>2. QED
        BY <3>1, <4>1, TailSet
    <3>4. ~ SomePends /\ SomePends' /\ ~ FirstOwns(q) /\ ~ FirstOwns(q)'
      BY <3>1, <3>3 DEF OwnInv, SomePends, Pends, FirstOwns
    <3>5. Len(line) = 0 /\ Len(q) = 0
      <4>1. Len(q) = 0
        BY <3>3
      <4>2. Len(line) = 0 + Len(q) - 0
        BY <1>4, <3>4 DEF InOrder
      <4>3. QED
        BY <4>1, <4>2
    <3>6. Len(line') = 1 + Len(q) - 0 /\ \A i \in 1 .. Len(q) - 0 : FALSE
      BY <1>7, <3>1, <3>5
    <3>7. InOrder(q)'
      BY <3>4, <3>6 DEF InOrder
    <3>8. QED
      BY <3>2, <3>7
  <2>4. QED
    BY <2>2, <2>3
<1>13. CASE WaitOwner(p)
  <2>1. /\ node' = node /\ lock' = lock /\ line' = line /\ pc[p] = "owner" /\ pc'[p] = "take"
    BY <1>1, <1>13 DEF WaitOwner, smp_cond_load, At, Goto
  <2>2. IsQueue(q)'
    BY <1>4, <1>6, <2>1, QueueAside DEF Queued
  <2>3. InOrder(q)'
    BY <1>4, <1>6, <2>1, OrderKept, PlacesKept
  <2>4. QED
    BY <2>2, <2>3
<1>14. CASE TakeOver(p)
  <2>1. node' = node /\ lock'.tail = lock.tail /\ pc[p] = "take" /\ pc'[p] = "held"
    BY <1>1, <1>14 DEF TakeOver, At, Return, Goto, LockType
  <2>2. IsQueue(q)'
    BY <1>4, <1>6, <2>1, QueueAside DEF Queued
  <2>3. line # <<>> /\ line[1] = p
    BY <1>4, <2>1, OrderTake
  <2>4. Len(line') = Len(line) - 1 /\ \A i \in 1 .. Len(line') : line'[i] = line[i + 1]
    <3>1. PICK s : s = line' /\ s = Fifo!Leave(p)
      BY <1>14 DEF TakeOver
    <3>2. Len(s) = Len(line) - 1 /\ \A i \in 1 .. Len(s) : s[i] = line[i + 1]
      BY <2>3, <3>1, LeaveLine
    <3>3. QED
      BY <3>1, <3>2
  <2>5. SomePends /\ ~ SomePends'
    BY <1>6, <2>1 DEF SomePends, OwnInv, Pends
  <2>6. FirstOwns(q)' <=> FirstOwns(q)
    BY <1>6, <2>1, PlacesKept
  <2>7. PICK m \in Nat, b \in {0, 1} : m = Len(q) /\ b = (IF FirstOwns(q) THEN 1 ELSE 0)
    OBVIOUS
  <2>8. Len(line) = 1 + m - b /\ \A i \in 1 .. m - b : line[1 + i] = q[b + i]
    BY <1>4, <2>5, <2>7 DEF InOrder
  <2>9. Len(line') = 0 + m - b /\ \A i \in 1 .. m - b : line'[0 + i] = q[b + i]
    BY <2>4, <2>7, <2>8
  <2>10. InOrder(q)'
    <3>1. (IF FirstOwns(q)' THEN 1 ELSE 0) = b /\ (IF SomePends' THEN 1 ELSE 0) = 0
      BY <2>5, <2>6, <2>7
    <3>2. QED
      BY <2>7, <2>9, <3>1 DEF InOrder
  <2>11. QED
    BY <2>2, <2>10
<1>15. CASE TakeNode(p)
  <2>1. lock' = lock /\ line' = line /\ pc[p] = "queue"
    BY <1>15 DEF TakeNode, At
  <2>2. CASE pc'[p] = "idle"
    <3>1. node' = node
      BY <1>1, <1>15, <2>2 DEF TakeNode, Goto
    <3>2. QED
      BY <1>9, <2>1, <2>2, <3>1 DEF Queued
  <2>3. CASE pc'[p] # "idle"
    <3> DEFINE i == count[CpuOf[p]]
    <3>1. /\ i \in Indices /\ pc' = [pc EXCEPT ![p] = "trylock"]
          /\ \A d \in Cpus, j \in Indices : d # CpuOf[p] \/ j # i => node'[d][j] = node[d][j]
      BY <1>15, <2>3, TakeStep
    <3>2. ASSUME NEW r \in Contexts, pc[r] \in Queued
          PROVE  node'[CpuOf[r]][loc[r].idx] = node[CpuOf[r]][loc[r].idx]
      <4>1. CpuOf[r] \in Cpus /\ loc[r].idx \in Indices
        BY MyNode
      <4>2. CpuOf[r] # CpuOf[p] \/ loc[r].idx < i
        BY <3>2 DEF NodeInv, WithNode, Queued
      <4>3. i \in Int /\ loc[r].idx \in Int
        BY <3>1, <4>1 DEF Indices
      <4>4. QED
        BY <3>1, <4>1, <4>2, <4>3
    <3>3. pc'[p] = "trylock"
      BY <1>1, <3>1
    <3>4. IsQueue(q)'
      BY <1>4, <1>6, <2>1, <3>2, <3>3, QueueAside DEF Queued
    <3>5. InOrder(q)'
      BY <1>4, <1>6, <2>1, <3>3, OrderKept, PlacesKept
    <3>6. QED
      BY <3>4, <3>5
  <2>4. QED
    BY <2>2, <2>3
<1>16. CASE PublishTail(p)
  <2>1. IsQueue(Append(q, p))' /\ InOrder(Append(q, p))'
    BY <1>3, <1>4, <1>6, <1>16, QueueJoin, OrderJoin
  <2>2. PICK s \in Seq(Contexts) : s = Append(q, p)
    <3>1. Append(q, p) \in Seq(Contexts)
      OBVIOUS
    <3>2. QED
      BY <3>1, Zenon
  <2>3. IsQueue(s)' /\ InOrder(s)'
    BY <2>1, <2>2
  <2>4. QED
    BY <2>3
<1>17. CASE LinkPrev(p)
  <2>1. IsQueue(q)' /\ q # <<>> /\ q[1] # p
    BY <1>4, <1>17, QueueLink
  <2>2. line' = line /\ pc[p] = "link" /\ pc'[p] = "mcs"
    BY <1>1, <1>17 DEF LinkPrev, At, Goto
  <2>3. InOrder(q)'
    BY <1>4, <1>6, <2>1, <2>2, OrderKept, PlacesKept
  <2>4. QED
    BY <2>1, <2>3
<1>18. ASSUME node' = node, lock'.tail = lock.tail, line' = line, pc[p] \in Queued, Token(p),
              pc'[p] \in {"head", "claim", "set", "next", "hand"},
              pc'[p] \in {"next", "hand"} <=> pc[p] \in {"next", "hand"},
              loc'[p].idx = loc[p].idx, loc'[p].next \in {loc[p].next, NodeOf(p).next}
       PROVE  IsQueue(q)' /\ InOrder(q)'
  <2>1. IsQueue(q)'
    BY <1>4, <1>6, <1>18, QueueFirst
  <2>2. pc[p] \notin {"owner", "take"} /\ pc'[p] \notin {"owner", "take"}
    BY <1>18 DEF Queued
  <2>3. InOrder(q)'
    BY <1>4, <1>6, <1>18, <2>2, OrderKept, PlacesKept
  <2>4. QED
    BY <2>1, <2>3
<1>19. CASE WaitMcs(p) \/ WaitHead(p) \/ WaitNext(p)
  <2>1. node' = node /\ lock' = lock /\ line' = line
    BY <1>19 DEF WaitMcs, WaitHead, WaitNext
  <2>2. /\ pc[p] \in Queued /\ Token(p) /\ pc'[p] \in {"head", "claim", "set", "next", "hand"}
        /\ pc'[p] \in {"next", "hand"} <=> pc[p] \in {"next", "hand"}
    BY <1>1, <1>19 DEF WaitMcs, WaitHead, WaitNext, smp_cond_load, At, Goto, Token, Queued
  <2>3. loc'[p].idx = loc[p].idx /\ loc'[p].next \in {loc[p].next, NodeOf(p).next}
    BY <1>1, <1>19 DEF WaitMcs, WaitHead, WaitNext, LocType, NodeOf
  <2>4. QED
    BY <1>18, <2>1, <2>2, <2>3
<1>20. CASE Claim(p)
  <2>1. pc[p] = "claim" /\ node' = node /\ Token(p) /\ pc[p] \in Queued
    BY <1>20 DEF Claim, At, Token, Queued
  <2>2. CASE lock # loc[p].val
    <3>1. lock' = lock /\ line' = line /\ loc' = loc /\ pc'[p] = "set"
      BY <1>1, <1>20, <2>2 DEF Claim, try_cmpxchg, Goto
    <3>2. QED
      BY <1>18, <2>1, <3>1
  <2>3. CASE lock = loc[p].val
    <3>1. Len(q) = 1 /\ q[1] = p /\ IsQueue(<<>>)'
      BY <1>4, <1>20, <2>3, QueueClaim
    <3>2. q # <<>>
      <4>1. q # <<>> <=> Len(q) > 0
        OBVIOUS
      <4>2. QED
        BY <3>1, <4>1
    <3>3. ~ SomePends /\ line # <<>> /\ line[1] = p /\ Len(line) = Len(q)
      BY <1>4, <2>1, <3>1, <3>2, OrderSet
    <3>4. Len(line') = Len(line) - 1
      <4>1. PICK s : s = line' /\ s = Fifo!Leave(p)
        BY <1>20, <2>3 DEF Claim
      <4>2. Len(s) = Len(line) - 1
        BY <3>3, <4>1, LeaveLine
      <4>3. QED
        BY <4>1, <4>2
    <3>5. pc'[p] = "held"
      BY <1>1, <1>20, <2>3 DEF Claim, Return, Goto
    <3>6. ~ SomePends'
      BY <1>6, <3>3, <3>5 DEF SomePends
    <3>7. PICK s \in Seq(Contexts) : s = <<>>
      <4>1. <<>> \in Seq(Contexts)
        OBVIOUS
      <4>2. QED
        BY <4>1, Zenon
    <3>8. ~ FirstOwns(s)' /\ Len(s) = 0
      BY <3>7 DEF FirstOwns
    <3>9. Len(line') = 0 + Len(s) - 0 /\ \A i \in 1 .. Len(s) - 0 : FALSE
      BY <3>1, <3>3, <3>4, <3>8
    <3>10. InOrder(s)'
      BY <3>6, <3>8, <3>9 DEF InOrder
    <3>11. QED
      BY <3>1, <3>7, <3>10
  <2>4. QED
    BY <2>2, <2>3
<1>21. CASE SetLocked(p)
  <2>1. /\ node' = node /\ lock'.tail = lock.tail /\ pc[p] = "set" /\ pc'[p] \in {"next", "hand"}
        /\ loc'[p].idx = loc[p].idx /\ loc'[p].next = loc[p].next
    BY <1>1, <1>21 DEF SetLocked, At, Goto, LockType, LocType
  <2>2. Token(p) /\ pc[p] \in Queued
    BY <2>1 DEF Token, Queued
  <2>3. IsQueue(q)'
    BY <1>4, <1>6, <2>1, <2>2, QueueFirst
  <2>4. q # <<>> /\ q[1] = p
    BY <1>4, <2>2, HeadFirst
  <2>5. /\ ~ SomePends /\ line # <<>> /\ line[1] = p /\ Len(line) = Len(q)
        /\ \A i \in 1 .. Len(q) : line[i] = q[i]
    BY <1>4, <2>1, <2>4, OrderSet
  <2>6. Len(line') = Len(line) - 1 /\ \A i \in 1 .. Len(line') : line'[i] = line[i + 1]
    <3>1. PICK s : s = line' /\ s = Fifo!Leave(p)
      BY <1>21 DEF SetLocked
    <3>2. Len(s) = Len(line) - 1 /\ \A i \in 1 .. Len(s) : s[i] = line[i + 1]
      BY <2>5, <3>1, LeaveLine
    <3>3. QED
      BY <3>1, <3>2
  <2>7. FirstOwns(q)' /\ ~ SomePends'
    BY <1>6, <2>1, <2>4, <2>5 DEF FirstOwns, SomePends
  <2>8. PICK m \in Nat : m = Len(q)
    OBVIOUS
  <2>9. \A i \in 1 .. m - 1 : line'[0 + i] = q[1 + i]
    BY <2>5, <2>6, <2>8
  <2>10. Len(line') = 0 + Len(q) - 1 /\ \A i \in 1 .. Len(q) - 1 : line'[0 + i] = q[1 + i]
    BY <2>5, <2>6, <2>8, <2>9
  <2>11. InOrder(q)'
    BY <2>7, <2>10 DEF InOrder
  <2>12. QED
    BY <2>3, <2>11
<1>22. CASE HandOver(p)
  <2>1. /\ Len(q) > 1 /\ q[1] = p /\ pc'[q[2]] = "mcs"
        /\ \A s \in Seq(Contexts) :
             Len(s) = Len(q) - 1 /\ (\A i \in 1 .. Len(s) : s[i] = q[i + 1]) => IsQueue(s)'
    BY <1>4, <1>22, QueueHand
  <2>2. line' = line /\ pc[p] = "hand" /\ pc'[p] = "held"
    BY <1>1, <1>22, SMTT(30) DEF HandOver, At, Return, Goto
  <2>3. PICK s \in Seq(Contexts) : Len(s) = Len(q) - 1 /\ \A i \in 1 .. Len(s) : s[i] = q[i + 1]
    <3>1. Tail(q) \in Seq(Contexts) /\ Len(Tail(q)) = Len(q) - 1
      BY <2>1
    <3>2. \A i \in 1 .. Len(q) - 1 : Tail(q)[i] = q[i + 1]
      BY <2>1
    <3>3. QED
      BY <3>1, <3>2
  <2>4. IsQueue(s)'
    BY <2>1, <2>3
  <2>5. FirstOwns(q) /\ ~ FirstOwns(s)'
    <3>1. q # <<>> /\ s # <<>> /\ s[1] = q[2]
      BY <2>1, <2>3
    <3>2. QED
      BY <2>1, <2>2, <3>1 DEF FirstOwns
  <2>6. SomePends' <=> SomePends
    BY <1>6, <2>2, PlacesKept
  <2>7. InOrder(s)'
    BY <1>4, <2>2, <2>3, <2>5, <2>6, OrderHand
  <2>8. QED
    BY <2>4, <2>7
<1>23. QED
  BY <1>10, <1>11, <1>12, <1>13, <1>14, <1>15, <1>16, <1>17, <1>19, <1>20, <1>21, <1>22
    DEF Steps, Step

-----------------------------------------------------------------------------
(* The lock is a fifo lock                                                 *)

SpinInv == FirstInv /\ TokenInv /\ OwnInv /\ LineInv /\ QueueInv

\* Nobody waits or has the lock to begin with.
LEMMA SpinInit == Init => SpinInv
<1> SUFFICES ASSUME Init PROVE SpinInv
  OBVIOUS
<1>1. FirstInv
  BY FirstInit DEF FirstInv
<1>2. \A p \in Contexts : pc[p] = "idle"
  BY DEF Init
<1>3. TokenInv
  BY <1>2 DEF TokenInv, Token
<1>4. OwnInv
  BY <1>2 DEF OwnInv, Owns, Pends
<1>5. LineInv
  <2>1. line = <<>> /\ line \in Seq(Contexts) /\ \A i \in 1 .. Len(line) : FALSE
    BY DEF Init
  <2>2. QED
    BY <1>2, <2>1 DEF LineInv, Waits, WaitLabels
<1>6. FreshInv
  BY <1>2 DEF FreshInv
<1>7. PICK q \in Seq(Contexts) : q = <<>> /\ Len(q) = 0
  <2>1. <<>> \in Seq(Contexts) /\ Len(<<>>) = 0
    OBVIOUS
  <2>2. QED
    BY <2>1, Zenon
<1>8. IsQueue(q)
  <2>1. (\A i \in 1 .. Len(q) : FALSE) /\ \A i \in 2 .. Len(q) : FALSE
    BY <1>7
  <2>2. lock.tail = 0
    BY WordParts DEF Init
  <2>3. QED
    BY <1>2, <1>7, <2>1, <2>2 DEF IsQueue, Queued
<1>9. InOrder(q)
  <2>1. ~ SomePends /\ ~ FirstOwns(q)
    BY <1>2, <1>7 DEF SomePends, FirstOwns
  <2>2. Len(line) = 0 + Len(q) - 0 /\ \A i \in 1 .. Len(q) - 0 : FALSE
    BY <1>7 DEF Init
  <2>3. QED
    BY <2>1, <2>2 DEF InOrder
<1>10. QED
  BY <1>1, <1>3, <1>4, <1>5, <1>6, <1>7, <1>8, <1>9 DEF SpinInv, QueueInv

\* The invariant of every state.
LEMMA SpinAlways == Spec => []SpinInv
<1>1. SpinInv /\ [Next]_vars => SpinInv'
  <2> SUFFICES ASSUME SpinInv, [Next]_vars PROVE SpinInv'
    OBVIOUS
  <2>1. CASE Next
    <3>1. PICK p \in Contexts : Steps(p)
      BY <2>1 DEF Next, Steps
    <3>2. TypeInv /\ NodeInv /\ BalanceInv /\ TokenInv /\ OwnInv /\ LineInv /\ QueueInv
      BY DEF SpinInv, FirstInv
    <3>3. FirstInv'
      BY <3>1, <3>2, TypeNext, NodeNext, BalanceNext DEF FirstInv
    <3>4. TokenInv' /\ OwnInv' /\ LineInv' /\ QueueInv'
      BY <3>1, <3>2, TokenNext, OwnNext, LineNext, QueueNext
    <3>5. QED
      BY <3>3, <3>4 DEF SpinInv
  <2>2. CASE UNCHANGED vars
    <3>1. FirstInv'
      BY <2>2 DEF vars, SpinInv, FirstInv, TypeInv, NodeInv, BalanceInv, AtLock, Holders
    <3>2. TokenInv' /\ OwnInv' /\ LineInv'
      BY <2>2 DEF vars, SpinInv, TokenInv, Token, OwnInv, Owns, Pends, LineInv, Waits
    <3>3. QueueInv'
      <4>1. CASE broken # 0
        BY <2>2, <4>1 DEF vars, QueueInv
      <4>2. CASE broken = 0
        <5>1. FreshInv'
          BY <2>2, <4>2 DEF vars, SpinInv, QueueInv, FreshInv, NodeOf
        <5>2. PICK q \in Seq(Contexts) : IsQueue(q) /\ InOrder(q)
          BY <4>2 DEF SpinInv, QueueInv
        <5>3. IsQueue(q)'
          <6>1. \A i \in 2 .. Len(q) : Follows(q[i], q[i - 1])'
            BY <2>2, <5>2 DEF vars, IsQueue, Follows, NodeOf, Me
          <6>2. QED
            BY <2>2, <5>2, <6>1, SMTT(30) DEF vars, IsQueue, Token, MyTail, NodeOf
        <5>4. InOrder(q)'
          BY <2>2, <5>2 DEF vars, InOrder, SomePends, FirstOwns
        <5>5. QED
          BY <5>1, <5>2, <5>3, <5>4 DEF QueueInv
      <4>3. QED
        BY <4>1, <4>2
    <3>4. QED
      BY <3>1, <3>2, <3>3 DEF SpinInv
  <2>3. QED
    BY <2>1, <2>2
<1>2. QED
  BY <1>1, SpinInit, PTL DEF Spec

\* Nobody is in the line when the lock word is all zero, unless a wait was broken off.
LEMMA FreeLine ==
  ASSUME SpinInv, lock = Unlocked
  PROVE  line = <<>> \/ broken > 0
<1>1. SUFFICES ASSUME broken = 0 PROVE line = <<>>
  BY DEF SpinInv, FirstInv, TypeInv
<1>2. PICK q \in Seq(Contexts) : IsQueue(q) /\ InOrder(q)
  BY <1>1 DEF SpinInv, QueueInv
<1>3. lock.tail = 0 /\ lock.pending = 0
  BY WordParts
<1>4. q = <<>>
  <2>1. q # <<>> => q[Len(q)] \in Contexts /\ lock.tail = MyTail(q[Len(q)])
    BY <1>2 DEF IsQueue
  <2>2. QED
    BY <1>3, <2>1, TailSet DEF SpinInv, FirstInv
<1>5. ~ SomePends /\ ~ FirstOwns(q)
  BY <1>3, <1>4 DEF SpinInv, OwnInv, SomePends, Pends, FirstOwns
<1>6. Len(line) = 0 + Len(q) - 0
  BY <1>2, <1>5 DEF InOrder
<1>7. Len(q) = 0 /\ line \in Seq(Contexts)
  BY <1>4 DEF SpinInv, LineInv
<1>8. Len(line) = 0
  BY <1>6, <1>7
<1>9. line # <<>> <=> Len(line) > 0
  BY <1>7
<1>10. QED
  BY <1>8, <1>9

\* Who is about to take the lock is the first of the line, unless a wait was broken off.
LEMMA FirstInLine ==
  ASSUME SpinInv, NEW p \in Contexts, pc[p] \in {"take", "claim", "set"}
  PROVE  broken > 0 \/ Head(line) = p
<1>1. SUFFICES ASSUME broken = 0 PROVE Head(line) = p
  BY DEF SpinInv, FirstInv, TypeInv
<1>2. PICK q \in Seq(Contexts) : IsQueue(q) /\ InOrder(q)
  BY <1>1 DEF SpinInv, QueueInv
<1>3. TypeInv /\ TokenInv /\ OwnInv /\ LineInv
  BY DEF SpinInv, FirstInv
<1>4. CASE pc[p] = "take"
  BY <1>2, <1>3, <1>4, OrderTake DEF LineInv
<1>5. CASE pc[p] \in {"claim", "set"}
  <2>1. Token(p) /\ pc[p] \in Queued
    BY <1>5 DEF Token, Queued
  <2>2. q # <<>> /\ q[1] = p
    BY <1>2, <1>3, <2>1, HeadFirst
  <2>3. line # <<>> /\ line[1] = p
    BY <1>2, <1>3, <1>5, <2>2, OrderSet
  <2>4. QED
    BY <1>3, <2>3 DEF LineInv
<1>6. QED
  BY <1>4, <1>5

Owners == {p \in Contexts : Owns(p)}

\* The owners after a step of p.
LEMMA OwnersStep ==
  ASSUME OwnInv, NEW p \in Contexts, \A r \in Contexts \ {p} : pc'[r] = pc[r]
  PROVE  /\ (Owns(p)' <=> Owns(p)) => Owners' = Owners
         /\ Owns(p) /\ ~ Owns(p)' => p \in Owners /\ Owners' = Owners \ {p}
         /\ lock.locked = 0 /\ Owns(p)' => Owners = {} /\ Owners' = {p}
         /\ ~ Owns(p) => p \notin Owners
<1>1. \A r \in Contexts \ {p} : Owns(r)' <=> Owns(r)
  BY DEF Owns
<1>2. lock.locked = 0 => \A r \in Contexts : ~ Owns(r)
  BY DEF OwnInv
<1>3. QED
  BY <1>1, <1>2 DEF Owners

\* Every step of the spinlock is a step of the fifo lock, or none.
LEMMA FifoStep ==
  ASSUME SpinInv, NEW p \in Contexts, Steps(p)
  PROVE  Fifo!Next \/ UNCHANGED Fifo!vars
<1> USE DEF At, smp_cond_load, Goto, Return, Owns
<1>1. TypeInv /\ NodeInv /\ TokenInv /\ OwnInv /\ LineInv
  BY DEF SpinInv, FirstInv
<1>2. pc \in [Contexts -> Labels] /\ broken \in Nat /\ lock \in LockType
  BY <1>1, CpuFacts DEF TypeInv
<1>3. \A r \in Contexts \ {p} : pc'[r] = pc[r]
  BY <1>1, OthersStay
<1>4. /\ (Owns(p)' <=> Owns(p)) => Owners' = Owners
      /\ Owns(p) /\ ~ Owns(p)' => p \in Owners /\ Owners' = Owners \ {p}
      /\ lock.locked = 0 /\ Owns(p)' => Owners = {} /\ Owners' = {p}
      /\ ~ Owns(p) => p \notin Owners
  BY <1>1, <1>3, OwnersStep
<1>5. Fifo!InLine(p) <=> Waits(p)
  BY <1>1, InLineWaits DEF InLine, Fifo!InLine
<1>6. ASSUME Owners' = Owners, line' = line, broken' = broken PROVE UNCHANGED Fifo!vars
  BY <1>6 DEF Fifo!vars, Owners
<1>7. ASSUME Owners = {}, Owners' = {p}, lock = Unlocked, line' = line, broken' = broken PROVE Fifo!Next
  <2>1. line = <<>> \/ broken > 0
    BY <1>7, FreeLine
  <2>2. Fifo!Barge(p)
    BY <1>7, <2>1 DEF Fifo!Barge, Owners
  <2>3. QED
    BY <2>2 DEF Fifo!Next
<1>8. ASSUME Owners' = Owners, p \notin Owners, line' = Append(line, p), ~ Waits(p), broken' = broken
      PROVE  Fifo!Next
  <2>1. Fifo!Join(p)
    BY <1>5, <1>8 DEF Fifo!Join, Owners
  <2>2. QED
    BY <2>1 DEF Fifo!Next
<1>9. ASSUME pc[p] \in {"take", "claim", "set"}, Owners' = {p}, Owners = {},
             line' = Fifo!Leave(p), broken' = broken
      PROVE  Fifo!Next
  <2>1. broken > 0 \/ Head(line) = p
    BY <1>9, FirstInLine
  <2>2. Fifo!InLine(p)
    BY <1>5, <1>9 DEF Waits, WaitLabels
  <2>3. Fifo!Grant(p)
    BY <1>9, <2>1, <2>2 DEF Fifo!Grant, Owners
  <2>4. QED
    BY <2>3 DEF Fifo!Next
<1>10. CASE arena_spin_lock(p)
  <2>1. CASE lock = Unlocked
    <3>1. line' = line /\ broken' = broken /\ Owns(p)' /\ lock.locked = 0
      BY <1>2, <1>10, <2>1, WordParts DEF arena_spin_lock, try_cmpxchg
    <3>2. QED
      BY <1>4, <1>7, <2>1, <3>1
  <2>2. CASE lock # Unlocked
    <3>1. line' = line /\ broken' = broken /\ ~ Owns(p) /\ ~ Owns(p)'
      BY <1>2, <1>10, <2>2 DEF arena_spin_lock, try_cmpxchg
    <3>2. QED
      BY <1>4, <1>6, <3>1
  <2>3. QED
    BY <2>1, <2>2
<1>11. CASE SpinPending(p) \/ UndoPending(p) \/ WaitOwner(p) \/ TakeNode(p)
  <2>1. line' = line /\ broken' = broken /\ (Owns(p)' <=> Owns(p))
    BY <1>2, <1>11, SMTT(30) DEF SpinPending, UndoPending, WaitOwner, TakeNode
  <2>2. QED
    BY <1>4, <1>6, <2>1
<1>12. CASE LinkPrev(p) \/ WaitMcs(p) \/ WaitHead(p) \/ WaitNext(p) \/ HandOver(p)
  <2>1. line' = line /\ broken' = broken /\ (Owns(p)' <=> Owns(p))
    BY <1>2, <1>12 DEF LinkPrev, WaitMcs, WaitHead, WaitNext, HandOver
  <2>2. QED
    BY <1>4, <1>6, <2>1
<1>13. CASE FetchSetPending(p) \/ PublishTail(p)
  <2>1. broken' = broken /\ ~ Owns(p) /\ ~ Owns(p)' /\ ~ Waits(p)
    BY <1>2, <1>13 DEF FetchSetPending, PublishTail, Waits, WaitLabels
  <2>2. line' = line \/ line' = Append(line, p)
    BY <1>13 DEF FetchSetPending, PublishTail
  <2>3. QED
    BY <1>4, <1>6, <1>8, <2>1, <2>2
<1>14. CASE TakeOver(p)
  <2>1. /\ pc[p] = "take" /\ Owns(p)' /\ line' = Fifo!Leave(p) /\ broken' = broken
    BY <1>2, <1>14 DEF TakeOver
  <2>2. lock.locked = 0
    BY <1>1, <2>1 DEF OwnInv
  <2>3. QED
    BY <1>4, <1>9, <2>1, <2>2
<1>15. CASE SetLocked(p)
  <2>1. /\ pc[p] = "set" /\ Owns(p)' /\ line' = Fifo!Leave(p) /\ broken' = broken
    BY <1>2, <1>15 DEF SetLocked
  <2>2. lock.locked = 0
    BY <1>1, <2>1 DEF OwnInv
  <2>3. QED
    BY <1>4, <1>9, <2>1, <2>2
<1>16. CASE Claim(p)
  <2>1. pc[p] = "claim" /\ broken' = broken
    BY <1>16 DEF Claim
  <2>2. lock.locked = 0
    BY <1>1, <2>1 DEF OwnInv
  <2>3. CASE lock = loc[p].val
    <3>1. Owns(p)' /\ line' = Fifo!Leave(p)
      BY <1>2, <1>16, <2>3 DEF Claim
    <3>2. QED
      BY <1>4, <1>9, <2>1, <2>2, <3>1
  <2>4. CASE lock # loc[p].val
    <3>1. line' = line /\ ~ Owns(p) /\ ~ Owns(p)'
      BY <1>2, <1>16, <2>1, <2>4 DEF Claim, try_cmpxchg
    <3>2. QED
      BY <1>4, <1>6, <2>1, <3>1
  <2>5. QED
    BY <2>3, <2>4
<1>17. CASE TryLock(p)
  <2>1. CASE lock = Unlocked
    <3>1. line' = line /\ broken' = broken /\ Owns(p)' /\ lock.locked = 0
      BY <1>2, <1>17, <2>1, WordParts DEF TryLock, try_cmpxchg
    <3>2. QED
      BY <1>4, <1>7, <2>1, <3>1
  <2>2. CASE lock # Unlocked
    <3>1. line' = line /\ broken' = broken /\ ~ Owns(p) /\ ~ Owns(p)'
      BY <1>2, <1>17, <2>2 DEF TryLock, try_cmpxchg
    <3>2. QED
      BY <1>4, <1>6, <3>1
  <2>3. QED
    BY <2>1, <2>2
<1>18. CASE Break(p)
  <2>1. /\ line' = Fifo!Leave(p) /\ ~ Owns(p)' /\ pc[p] \in {"spin", "owner", "mcs", "head", "next"}
        /\ broken' = IF pc[p] = "spin" THEN broken ELSE broken + 1
    BY <1>2, <1>18 DEF Break, cond_break_label
  <2>2. CASE pc[p] = "spin"
    <3>1. ~ Fifo!InLine(p) /\ ~ Owns(p)
      BY <1>5, <2>2 DEF Waits, WaitLabels
    <3>2. line' = line
      BY <2>1, <3>1 DEF Fifo!Leave
    <3>3. QED
      BY <1>4, <1>6, <2>1, <2>2, <3>1, <3>2
  <2>3. CASE pc[p] # "spin"
    <3>1. Fifo!InLine(p) \/ p \in Owners
      BY <1>5, <2>1, <2>3 DEF Waits, WaitLabels, Owners
    <3>2. Owners' = Owners \ {p}
      BY <1>4, <2>1
    <3>3. (broken > 0)' = TRUE
      BY <1>2, <2>1, <2>3
    <3>4. Fifo!GiveUp(p)
      BY <2>1, <3>1, <3>2, <3>3 DEF Fifo!GiveUp, Owners
    <3>5. QED
      BY <3>4 DEF Fifo!Next
  <2>4. QED
    BY <2>2, <2>3
<1>19. CASE arena_spin_unlock(p)
  <2>1. line' = line /\ broken' = broken /\ Owns(p) /\ ~ Owns(p)'
    BY <1>2, <1>19 DEF arena_spin_unlock
  <2>2. p \in Owners /\ Owners' = Owners \ {p}
    BY <1>4, <2>1
  <2>3. Fifo!Release(p)
    BY <2>1, <2>2 DEF Fifo!Release, Owners
  <2>4. QED
    BY <2>3 DEF Fifo!Next
<1>20. QED
  BY <1>10, <1>11, <1>12, <1>13, <1>14, <1>15, <1>16, <1>17, <1>18, <1>19 DEF Steps, Step

\* The queued spinlock is a fifo lock, for any number of contexts and as many cpus
\* as the tail has room for: it never has two owners, also after waits were broken off; and as long as none
\* was, it goes to those who wait in the order in which they set the pending bit
\* or exchanged the tail, and nobody takes it past them (arena_spin_lock_slowpath).
THEOREM SpinImplementsFifoLock == Spec => ImplementsFifoLock
<1>1. Init => Fifo!Init
  BY DEF Init, Fifo!Init, Owns
<1>2. SpinInv /\ [Next]_vars => [Fifo!Next]_(Fifo!vars)
  <2> SUFFICES ASSUME SpinInv, [Next]_vars PROVE Fifo!Next \/ UNCHANGED Fifo!vars
    OBVIOUS
  <2>1. CASE Next
    <3>1. PICK p \in Contexts : Steps(p)
      BY <2>1 DEF Next, Steps
    <3>2. QED
      BY <3>1, FifoStep
  <2>2. CASE UNCHANGED vars
    BY <2>2 DEF vars, Fifo!vars, Owns
  <2>3. QED
    BY <2>1, <2>2
<1>3. QED
  BY <1>1, <1>2, SpinAlways, PTL DEF Spec, ImplementsFifoLock, Fifo!Spec
=============================================================================
