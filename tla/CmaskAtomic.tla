------------------------------ MODULE CmaskAtomic ------------------------------
(***************************************************************************)
(* The atomic operations of scx/cid.bpf.h on one cmask that several cpus   *)
(* change at once: a loop of load and compare-and-swap on a word, given up *)
(* after CMASK_CAS_TRIES rounds or when the runtime ends it, and ranges,   *)
(* word by word.  A word is the set of its bits that are 1.  One action is *)
(* one access to the mask.                                                 *)
(***************************************************************************)
EXTENDS Integers, Sequences, FiniteSets, FiniteSetsExt

CONSTANTS
  Threads,
  W,                \* bits of a word
  base, nr_cids,    \* the active range
  CMASK_CAS_TRIES

ASSUME AtomicAssumption ==
  /\ W \in Nat \ {0} /\ nr_cids \in Nat \ {0} /\ base \in Nat
  /\ CMASK_CAS_TRIES \in Nat \ {0}

Cids == base .. base + nr_cids - 1

\* Cids around the active range, as callers may pass them.
Args == 0 .. base + nr_cids

WordIndex(cid) == cid \div W - base \div W

VARIABLES
  bits,   \* word -> its set bits
  pc,     \* thread -> "idle", "load" or "cas"
  call,   \* thread -> kind, tests, the words with their masks to do, the answer
  old,    \* thread -> the word it loaded
  tries,  \* thread -> failed swaps on the word it is at
  raced,  \* history: changes others made to it meanwhile, up to CMASK_CAS_TRIES
  error   \* scx_bpf_error was called

vars == <<bits, pc, call, old, tries, raced, error>>

NoCall == [kind |-> "none", tests |-> FALSE, words |-> <<>>, answer |-> FALSE]

At(t, label) == pc[t] = label

Word(t) == call[t].words[1]

\* Thread t calls an operation on these words.
Call(t, kind, tests, words) ==
  /\ At(t, "idle")
  /\ pc' = [pc EXCEPT ![t] = "load"]
  /\ call' = [call EXCEPT ![t] =
                [kind |-> kind, tests |-> tests, words |-> words, answer |-> FALSE]]
  /\ UNCHANGED <<bits, old, tries, raced, error>>

\* The word and the bit of a cid, if the mask has it.
One(cid) ==
  IF cid \in Cids THEN <<[at |-> WordIndex(cid), mask |-> {cid % W}]>> ELSE <<>>

\* The words of a range, clamped to the active range.
CidRange(start, nr) ==
  LET lo == Max({start, base})
      hi == Min({start + nr, base + nr_cids})
      first == lo \div W
      Bits(w) == {b \in 0 .. W - 1 : lo <= w * W + b /\ w * W + b < hi}
  IN IF lo >= hi THEN <<>>
     ELSE [i \in 1 .. (hi - 1) \div W - first + 1 |->
             [at |-> first + i - 1 - base \div W, mask |-> Bits(first + i - 1)]]

cmask_set(t)   == \E cid \in Args : Call(t, "set", FALSE, One(cid))
cmask_clear(t) == \E cid \in Args : Call(t, "clear", FALSE, One(cid))

cmask_test_and_set(t)   == \E cid \in Args : Call(t, "set", TRUE, One(cid))
cmask_test_and_clear(t) == \E cid \in Args : Call(t, "clear", TRUE, One(cid))

cmask_set_range(t) ==
  \E start \in Args, nr \in 0 .. nr_cids + 1 : Call(t, "set", FALSE, CidRange(start, nr))

cmask_clear_range(t) ==
  \E start \in Args, nr \in 0 .. nr_cids + 1 : Call(t, "clear", FALSE, CidRange(start, nr))

-----------------------------------------------------------------------------
(* The loop                                                                *)

\* What a round makes of the word it loaded: whether there is nothing to do, and
\* the word to store.
__cmask_word_or(o, mask) == [done |-> mask \subseteq o, new |-> o \cup mask]

__cmask_word_andnot(o, mask) == [done |-> mask \cap o = {}, new |-> o \ mask]

Round(t, o) ==
  IF call[t].kind = "set" THEN __cmask_word_or(o, Word(t).mask)
                          ELSE __cmask_word_andnot(o, Word(t).mask)

\* Thread t is done with its word; a test answers whether the cid was set.
WordDone(t, answer) ==
  /\ call' = [call EXCEPT ![t].words = Tail(@), ![t].answer = call[t].tests /\ answer]
  /\ pc' = [pc EXCEPT ![t] = "load"]
  /\ old' = [old EXCEPT ![t] = {}]
  /\ tries' = [tries EXCEPT ![t] = 0]

\* Variant: the word is loaded once, before the loop.
LoadsAgain_Never == "cas"

\* Where a round begins.
LoadsAgain == "load"

\* old = *w, and the early return.
Load(t) ==
  /\ At(t, "load") /\ call[t].words # <<>> /\ tries[t] < CMASK_CAS_TRIES
  /\ LET w == bits[Word(t).at] IN
     \/ /\ Round(t, w).done
        /\ WordDone(t, call[t].kind = "set")
        /\ raced' = [raced EXCEPT ![t] = 0]
     \/ /\ ~ Round(t, w).done
        /\ old' = [old EXCEPT ![t] = w]
        /\ pc' = [pc EXCEPT ![t] = "cas"]
        /\ UNCHANGED <<call, tries, raced>>
  /\ UNCHANGED <<bits, error>>

\* Others that are at the same word see it change.
Races(t) ==
  [u \in Threads |->
    IF u = t THEN 0
    ELSE IF call[u].words # <<>> /\ Word(u).at = Word(t).at
      THEN Min({raced[u] + 1, CMASK_CAS_TRIES})
      ELSE raced[u]]

\* Variant: a plain store.
Swaps_Store(t) == TRUE

\* __sync_val_compare_and_swap succeeds.
Swaps(t) == bits[Word(t).at] = old[t]

Cas(t) ==
  /\ At(t, "cas")
  /\ \/ /\ Swaps(t)
        /\ bits' = [bits EXCEPT ![Word(t).at] = Round(t, old[t]).new]
        /\ WordDone(t, call[t].kind = "clear")
        /\ raced' = Races(t)
     \/ /\ ~ Swaps(t) /\ tries[t] < CMASK_CAS_TRIES
        /\ tries' = [tries EXCEPT ![t] = @ + 1]
        /\ pc' = [pc EXCEPT ![t] = LoadsAgain]
        /\ UNCHANGED <<bits, call, old, raced>>
  /\ UNCHANGED error

\* The loop ends without a swap; a range goes on with its next word.
Exhausted(t) ==
  /\ call[t].words # <<>> /\ tries[t] = CMASK_CAS_TRIES
  /\ WordDone(t, FALSE)
  /\ raced' = [raced EXCEPT ![t] = 0]
  /\ error' = TRUE
  /\ bits' = bits

\* can_loop of bpf_arena_for is false at the head of a loop: the runtime lets the
\* program loop no more, which ends the loops of the call.  Within the loop on a
\* word this is an error too; between the words of a range nobody notices (a call
\* for one cid counts as a range here).
LoopEnds(t) ==
  /\ At(t, "load") /\ call[t].words # <<>> /\ tries[t] < CMASK_CAS_TRIES
  /\ call' = [call EXCEPT ![t].words = <<>>]
  /\ old' = [old EXCEPT ![t] = {}]
  /\ tries' = [tries EXCEPT ![t] = 0]
  /\ raced' = [raced EXCEPT ![t] = 0]
  /\ \/ error' = TRUE
     \/ tries[t] = 0 /\ ~ call[t].tests /\ UNCHANGED error
  /\ UNCHANGED <<bits, pc>>

Return(t) ==
  /\ At(t, "load") /\ call[t].words = <<>>
  /\ pc' = [pc EXCEPT ![t] = "idle"]
  /\ call' = [call EXCEPT ![t] = NoCall]
  /\ UNCHANGED <<bits, old, tries, raced, error>>

-----------------------------------------------------------------------------

Init ==
  /\ bits = [i \in 0 .. WordIndex(base + nr_cids - 1) |-> {}]
  /\ pc = [t \in Threads |-> "idle"]
  /\ call = [t \in Threads |-> NoCall]
  /\ old = [t \in Threads |-> {}]
  /\ tries = [t \in Threads |-> 0]
  /\ raced = [t \in Threads |-> 0]
  /\ error = FALSE

Calls(t) ==
  \/ cmask_set(t) \/ cmask_clear(t) \/ cmask_test_and_set(t) \/ cmask_test_and_clear(t)
  \/ cmask_set_range(t) \/ cmask_clear_range(t)

Next ==
  \E t \in Threads :
    Calls(t) \/ Load(t) \/ Cas(t) \/ Exhausted(t) \/ LoopEnds(t) \/ Return(t)

Spec == Init /\ [][Next]_vars

-----------------------------------------------------------------------------
(* Properties                                                              *)

CidsOf(i, S) == {cid \in Cids : WordIndex(cid) = i /\ cid % W \in S}

Todo(t) == UNION {CidsOf(w.at, w.mask) : w \in {call[t].words[i] : i \in DOMAIN call[t].words}}

Abstract == INSTANCE AtomicMask WITH
  mask <- UNION {CidsOf(i, bits[i]) : i \in DOMAIN bits},
  call <- [t \in Threads |-> [kind |-> call[t].kind, tests |-> call[t].tests,
                              todo |-> Todo(t), answer |-> call[t].answer]]

\* The operations are atomic for every cid: no update of another bit of the word
\* is lost, whoever changed it between the load and the swap, nothing outside of
\* the call changes, and the answer of a test is that of the instant of the
\* change (the cmpxchg loops of cid.bpf.h).
ImplementsAtomicMask == Abstract!Spec

\* A round fails only because somebody else got on: a call that gives up after
\* CMASK_CAS_TRIES rounds has seen that many changes of its word by others
\* ("past any plausible contention"), one that the runtime stops has seen as many
\* as it had rounds.
FailsByContention == \A t \in Threads : tries[t] <= raced[t]

===============================================================================
