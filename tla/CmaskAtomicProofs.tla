--------------------------- MODULE CmaskAtomicProofs ---------------------------
(***************************************************************************)
(* The atomic operations on a cmask, for any number of threads, words and  *)
(* rounds: they implement AtomicMask, and a round fails only because       *)
(* another thread got on.                                                  *)
(***************************************************************************)
EXTENDS CmaskAtomic, SequenceTheorems, FiniteSetTheorems, TLAPS

-----------------------------------------------------------------------------
(* Words and cids                                                          *)

LastWord == WordIndex(base + nr_cids - 1)

Words == [at : 0 .. LastWord, mask : SUBSET (0 .. W - 1)]

\* The quotient of a greater number is not smaller.
LEMMA DivMonotone ==
  ASSUME NEW a \in Nat, NEW b \in Nat, NEW d \in Nat, d > 0, a <= b
  PROVE  a \div d \in Nat /\ b \div d \in Nat /\ a \div d <= b \div d
OBVIOUS

\* A cid has a word, and the word and the bit give back the cid.
LEMMA WordOf ==
  /\ \A cid \in Cids : /\ cid \in Nat /\ WordIndex(cid) \in 0 .. LastWord
                       /\ cid % W \in 0 .. W - 1
  /\ \A c, d \in Cids : WordIndex(c) = WordIndex(d) /\ c % W = d % W => c = d
  /\ LastWord \in Nat
<1>1. W \in Nat /\ W > 0 /\ base \in Nat /\ nr_cids \in Nat \ {0}
  BY AtomicAssumption
<1>2. \A cid \in Cids : cid \in Nat /\ base <= cid /\ cid <= base + nr_cids - 1
  BY <1>1 DEF Cids
<1>3. base + nr_cids - 1 \in Nat /\ base <= base + nr_cids - 1
  BY <1>1
<1>4. ASSUME NEW cid \in Cids
      PROVE  WordIndex(cid) \in 0 .. LastWord /\ cid % W \in 0 .. W - 1
  <2>1. base \div W \in Nat /\ cid \div W \in Nat /\ base \div W <= cid \div W
    BY <1>1, <1>2, DivMonotone
  <2>2. (base + nr_cids - 1) \div W \in Nat /\ cid \div W <= (base + nr_cids - 1) \div W
    BY <1>1, <1>2, <1>3, DivMonotone
  <2>3. WordIndex(cid) \in 0 .. LastWord
    BY <2>1, <2>2 DEF WordIndex, LastWord
  <2>4. cid % W \in 0 .. W - 1
    BY <1>1, <1>2
  <2> QED
    BY <2>3, <2>4
<1>5. ASSUME NEW c \in Cids, NEW d \in Cids, WordIndex(c) = WordIndex(d), c % W = d % W
      PROVE  c = d
  <2>1. c \div W \in Nat /\ d \div W \in Nat /\ base \div W \in Nat
    BY <1>1, <1>2
  <2>2. c \div W = d \div W
    BY <1>5, <2>1 DEF WordIndex
  <2> QED
    BY <1>1, <1>2, <1>5, <2>2
<1>6. LastWord \in Nat
  <2>1. /\ base \div W \in Nat /\ (base + nr_cids - 1) \div W \in Nat
        /\ base \div W <= (base + nr_cids - 1) \div W
    BY <1>1, <1>3, DivMonotone
  <2> QED
    BY <2>1 DEF LastWord, WordIndex
<1> QED
  BY <1>2, <1>4, <1>5, <1>6

\* The cids a call with these words still has to do.
TodoOf(words) == UNION {CidsOf(words[i].at, words[i].mask) : i \in DOMAIN words}

Apart(words) == \A i, j \in DOMAIN words : words[i].at = words[j].at => i = j

\* The word of a single cid.
LEMMA OneWord ==
  ASSUME NEW cid \in Cids
  PROVE  CidsOf(WordIndex(cid), {cid % W}) = {cid}
BY WordOf DEF CidsOf

\* What there is to do for it.
LEMMA OneTodo ==
  ASSUME NEW cid \in Cids, NEW words, words = <<[at |-> WordIndex(cid), mask |-> {cid % W}]>>
  PROVE  /\ words[1].at = WordIndex(cid) /\ words[1].mask = {cid % W}
         /\ TodoOf(words) = {cid}
<1>1. PICK a, m : a = WordIndex(cid) /\ m = {cid % W}
  OBVIOUS
<1>2. words = <<[at |-> a, mask |-> m]>>
  BY <1>1
<1>3. DOMAIN words = {1} /\ words[1].at = a /\ words[1].mask = m
  BY <1>2
<1>4. TodoOf(words) = CidsOf(a, m)
  BY <1>3 DEF TodoOf
<1> QED
  BY <1>1, <1>3, <1>4, OneWord

\* The words of a single cid, which may be outside of the mask.
LEMMA OneWords ==
  ASSUME NEW cid \in Args
  PROVE  /\ One(cid) \in Seq(Words) /\ Apart(One(cid))
         /\ One(cid) # <<>> => \E c \in Cids : One(cid) = <<[at |-> WordIndex(c), mask |-> {c % W}]>>
<1>1. CASE cid \in Cids
  <2>1. [at |-> WordIndex(cid), mask |-> {cid % W}] \in Words
    BY <1>1, WordOf DEF Words
  <2>2. One(cid) = <<[at |-> WordIndex(cid), mask |-> {cid % W}]>>
    BY <1>1 DEF One
  <2>3. Apart(One(cid))
    <3>1. DOMAIN One(cid) = {1}
      BY <2>2
    <3> QED
      BY <3>1 DEF Apart
  <2>4. One(cid) \in Seq(Words)
    BY <2>1, <2>2
  <2>5. \E c \in Cids : One(cid) = <<[at |-> WordIndex(c), mask |-> {c % W}]>>
    BY <1>1, <2>2, Zenon
  <2> QED
    BY <2>3, <2>4, <2>5
<1>2. CASE cid \notin Cids
  BY <1>2 DEF One, Apart
<1> QED
  BY <1>1, <1>2

\* The greater and the smaller of two numbers.
LEMMA MaxMin ==
  ASSUME NEW a \in Int, NEW b \in Int
  PROVE  /\ Max({a, b}) \in {a, b} /\ Max({a, b}) >= a /\ Max({a, b}) >= b
         /\ Min({a, b}) \in {a, b} /\ Min({a, b}) <= a /\ Min({a, b}) <= b
<1>1. \E x \in {a, b} : \A y \in {a, b} : x >= y
  BY a >= b \/ b >= a
<1>2. \E x \in {a, b} : \A y \in {a, b} : x <= y
  BY a >= b \/ b >= a
<1>3. Max({a, b}) \in {a, b} /\ \A y \in {a, b} : Max({a, b}) >= y
  BY <1>1 DEF Max
<1>4. Min({a, b}) \in {a, b} /\ \A y \in {a, b} : Min({a, b}) <= y
  BY <1>2 DEF Min
<1> QED
  BY <1>3, <1>4

\* The words of a range are words of the mask, each there once, wherever the range
\* lies (cmask_clamp and the loops over the words).
LEMMA RangeWords ==
  ASSUME NEW start \in Args, NEW nr \in 0 .. nr_cids + 1
  PROVE  CidRange(start, nr) \in Seq(Words) /\ Apart(CidRange(start, nr))
<1>1. W \in Nat /\ W > 0 /\ base \in Nat /\ nr_cids \in Nat \ {0} /\ start \in Nat /\ nr \in Nat
  BY AtomicAssumption DEF Args
<1>2. PICK lo : lo = Max({start, base})
  OBVIOUS
<1>3. PICK hi : hi = Min({start + nr, base + nr_cids})
  OBVIOUS
<1>4. lo \in Nat /\ base <= lo
  BY <1>1, <1>2, MaxMin
<1>5. hi \in Nat /\ hi <= base + nr_cids
  <2>1. start + nr \in Nat /\ base + nr_cids \in Nat
    BY <1>1
  <2>2. \A a, b \in Nat : Min({a, b}) \in {a, b} /\ Min({a, b}) <= b
    BY MaxMin
  <2> QED
    BY <1>3, <2>1, <2>2
<1>6. PICK first : first = lo \div W
  OBVIOUS
<1> DEFINE Bits(w) == {b \in 0 .. W - 1 : lo <= w * W + b /\ w * W + b < hi}
<1>7. CASE lo >= hi
  <2>1. CidRange(start, nr) = <<>>
    BY <1>2, <1>3, <1>7 DEF CidRange
  <2> QED
    BY <2>1 DEF Apart
<1>8. CASE ~ (lo >= hi)
  <2>1. PICK n : n = (hi - 1) \div W - first + 1
    OBVIOUS
  <2>2. CidRange(start, nr) =
          [i \in 1 .. n |-> [at |-> first + i - 1 - base \div W, mask |-> Bits(first + i - 1)]]
    BY <1>2, <1>3, <1>6, <1>8, <2>1 DEF CidRange
  <2>3. /\ base \div W \in Nat /\ first \in Nat /\ base \div W <= first
    BY <1>1, <1>4, <1>6, DivMonotone
  <2>4. /\ (hi - 1) \div W \in Nat /\ first <= (hi - 1) \div W
    <3>1. hi - 1 \in Nat /\ lo <= hi - 1
      BY <1>4, <1>5, <1>8
    <3> QED
      BY <1>1, <1>4, <1>6, <3>1, DivMonotone
  <2>5. (hi - 1) \div W <= (base + nr_cids - 1) \div W /\ (base + nr_cids - 1) \div W \in Nat
    <3>1. hi - 1 \in Nat /\ base + nr_cids - 1 \in Nat /\ hi - 1 <= base + nr_cids - 1
      BY <1>1, <1>4, <1>5, <1>8
    <3> QED
      BY <1>1, <3>1, DivMonotone
  <2>6. n \in Nat
    BY <2>1, <2>3, <2>4
  <2>7. \A i \in 1 .. n : first + i - 1 - base \div W \in 0 .. LastWord
    BY <2>1, <2>3, <2>4, <2>5, <2>6 DEF LastWord, WordIndex
  <2>8. \A w : Bits(w) \in SUBSET (0 .. W - 1)
    OBVIOUS
  <2> HIDE DEF Bits
  <2>9. \A i \in 1 .. n :
          [at |-> first + i - 1 - base \div W, mask |-> Bits(first + i - 1)] \in Words
    BY <2>7, <2>8 DEF Words
  <2>10. CidRange(start, nr) \in Seq(Words)
    BY <2>2, <2>6, <2>9
  <2>11. Apart(CidRange(start, nr))
    BY <2>2, <2>3, <2>6, SMTT(30) DEF Apart
  <2> QED
    BY <2>10, <2>11
<1> QED
  BY <1>7, <1>8

\* A call that is done with its first word has the cids of the others to do.
LEMMA TailTodo ==
  ASSUME NEW words \in Seq(Words), words # <<>>, Apart(words)
  PROVE  /\ Tail(words) \in Seq(Words) /\ Apart(Tail(words))
         /\ TodoOf(Tail(words)) = TodoOf(words) \ CidsOf(words[1].at, words[1].mask)
         /\ CidsOf(words[1].at, words[1].mask) \subseteq TodoOf(words)
<1>1. PICK n \in Nat : n = Len(words) /\ n > 0 /\ DOMAIN words = 1 .. n
  BY EmptySeq
<1>2. PICK rest : rest = Tail(words)
  OBVIOUS
<1>3. rest \in Seq(Words) /\ DOMAIN rest = 1 .. n - 1 /\ \A i \in 1 .. n - 1 : rest[i] = words[i + 1]
  BY <1>1, <1>2
<1>4. Apart(rest)
  <2> SUFFICES ASSUME NEW i \in 1 .. n - 1, NEW j \in 1 .. n - 1, rest[i].at = rest[j].at
               PROVE  i = j
    BY <1>3 DEF Apart
  <2>1. i + 1 \in 1 .. n /\ j + 1 \in 1 .. n /\ words[i + 1].at = words[j + 1].at
    BY <1>1, <1>3
  <2>2. i + 1 = j + 1
    BY <1>1, <2>1 DEF Apart
  <2> QED
    BY <2>2
<1> DEFINE C(w) == CidsOf(w.at, w.mask)
<1>5. \A v, w : v.at # w.at => C(v) \cap C(w) = {}
  BY DEF CidsOf
<1>6. TodoOf(words) = UNION {C(words[i]) : i \in 1 .. n} /\ TodoOf(rest) = UNION {C(rest[i]) : i \in 1 .. n - 1}
  BY <1>1, <1>3 DEF TodoOf
<1> HIDE DEF C
<1>7. 1 \in 1 .. n /\ C(words[1]) \subseteq TodoOf(words)
  BY <1>1, <1>6
<1>8. \A i \in 2 .. n : C(words[i]) \cap C(words[1]) = {}
  <2> SUFFICES ASSUME NEW i \in 2 .. n PROVE C(words[i]) \cap C(words[1]) = {}
    OBVIOUS
  <2>1. i \in DOMAIN words /\ 1 \in DOMAIN words /\ i # 1
    BY <1>1
  <2>2. words[i].at # words[1].at
    BY <2>1 DEF Apart
  <2> QED
    BY <1>5, <2>2
<1>9. \A x : x \in TodoOf(rest) <=> x \in TodoOf(words) /\ x \notin C(words[1])
  <2> SUFFICES ASSUME NEW x PROVE x \in TodoOf(rest) <=> x \in TodoOf(words) /\ x \notin C(words[1])
    OBVIOUS
  <2>1. ASSUME x \in TodoOf(rest) PROVE x \in TodoOf(words) /\ x \notin C(words[1])
    <3>1. PICK i \in 1 .. n - 1 : x \in C(rest[i])
      BY <1>6, <2>1
    <3>2. i + 1 \in 2 .. n /\ i + 1 \in 1 .. n /\ x \in C(words[i + 1])
      BY <1>1, <1>3, <3>1
    <3> QED
      BY <1>6, <1>8, <3>2
  <2>2. ASSUME x \in TodoOf(words), x \notin C(words[1]) PROVE x \in TodoOf(rest)
    <3>1. PICK i \in 1 .. n : x \in C(words[i])
      BY <1>6, <2>2
    <3>2. i # 1
      BY <2>2, <3>1
    <3>3. i - 1 \in 1 .. n - 1 /\ rest[i - 1] = words[i]
      <4>1. i - 1 \in 1 .. n - 1 /\ (i - 1) + 1 = i
        BY <1>1, <3>1, <3>2
      <4> QED
        BY <1>3, <4>1
    <3> QED
      BY <1>6, <3>1, <3>3
  <2> QED
    BY <2>1, <2>2
<1>10. TodoOf(rest) = TodoOf(words) \ C(words[1])
  BY <1>9
<1> QED
  BY <1>2, <1>3, <1>4, <1>7, <1>10 DEF C

-----------------------------------------------------------------------------
(* The inductive invariant                                                 *)

CallType == [kind : {"none", "set", "clear"}, tests : BOOLEAN, words : Seq(Words), answer : BOOLEAN]

TypeInv ==
  /\ bits \in [0 .. LastWord -> SUBSET (0 .. W - 1)]
  /\ pc \in [Threads -> {"idle", "load", "cas"}]
  /\ call \in [Threads -> CallType]
  /\ old \in [Threads -> SUBSET (0 .. W - 1)]
  /\ tries \in [Threads -> 0 .. CMASK_CAS_TRIES]
  /\ raced \in [Threads -> 0 .. CMASK_CAS_TRIES]

\* What a thread knows of its call: the words are different ones; a test is about
\* one cid; there is an answer only when there is nothing left to do.
CallFits(label, x) ==
  /\ label = "idle" <=> x.kind = "none"
  /\ label = "idle" => x.words = <<>> /\ ~ x.tests
  /\ Apart(x.words)
  /\ x.tests /\ x.words # <<>> =>
       \E c \in Cids : x.words = <<[at |-> WordIndex(c), mask |-> {c % W}]>>
  /\ x.words # <<>> \/ ~ x.tests => ~ x.answer

CallInv == \A t \in Threads : CallFits(pc[t], call[t])

\* A thread before its compare-and-swap has something to change in the word it
\* loaded; if the word is another one by now, the thread has seen it race.
RoundInv ==
  \A t \in Threads :
    /\ tries[t] <= raced[t]
    /\ pc[t] = "cas" =>
         /\ call[t].words # <<>> /\ tries[t] < CMASK_CAS_TRIES
         /\ ~ Round(t, old[t]).done
         /\ bits[Word(t).at] # old[t] => tries[t] < raced[t]

MaskInv == TypeInv /\ CallInv /\ RoundInv

\* A call, part by part.
LEMMA CallParts ==
  ASSUME NEW x \in CallType
  PROVE  /\ x.kind \in {"none", "set", "clear"} /\ x.tests \in BOOLEAN
         /\ x.words \in Seq(Words) /\ x.answer \in BOOLEAN
BY DEF CallType

Answered(x, answer) == [x EXCEPT !.answer = answer]

\* Two parts of a call change.
LEMMA CallChanges ==
  ASSUME NEW x \in CallType, NEW v, NEW z, NEW y, y = [x EXCEPT !.words = v]
  PROVE  Answered(y, z) = [kind |-> x.kind, tests |-> x.tests, words |-> v, answer |-> z]
<1>1. x = [kind |-> x.kind, tests |-> x.tests, words |-> x.words, answer |-> x.answer]
  BY DEF CallType
<1>2. y = [kind |-> x.kind, tests |-> x.tests, words |-> v, answer |-> x.answer]
  BY <1>1
<1>3. [[kind |-> x.kind, tests |-> x.tests, words |-> v, answer |-> x.answer] EXCEPT !.answer = z] =
        [kind |-> x.kind, tests |-> x.tests, words |-> v, answer |-> z]
  OBVIOUS
<1> QED
  BY <1>2, <1>3, Zenon DEF Answered

\* What WordDone leaves of a call.
LEMMA Finished ==
  ASSUME MaskInv, NEW t \in Threads, NEW answer \in BOOLEAN, call[t].words # <<>>,
         WordDone(t, answer)
  PROVE  /\ call' \in [Threads -> CallType]
         /\ call'[t].kind = call[t].kind /\ call'[t].tests = call[t].tests
         /\ call'[t].words = Tail(call[t].words)
         /\ call'[t].answer = (call[t].tests /\ answer)
         /\ \A u \in Threads \ {t} : call'[u] = call[u]
         /\ Apart(call'[t].words)
         /\ call[t].tests => call'[t].words = <<>>
         /\ pc' \in [Threads -> {"idle", "load", "cas"}] /\ pc'[t] = "load"
         /\ \A u \in Threads \ {t} : pc'[u] = pc[u]
         /\ old' \in [Threads -> SUBSET (0 .. W - 1)] /\ \A u \in Threads \ {t} : old'[u] = old[u]
         /\ tries' \in [Threads -> 0 .. CMASK_CAS_TRIES] /\ tries'[t] = 0
         /\ \A u \in Threads \ {t} : tries'[u] = tries[u]
<1>1. TypeInv /\ CallInv /\ RoundInv
  BY DEF MaskInv
<1>2. PICK x : x = call[t]
  OBVIOUS
<1>3. x \in CallType /\ x.words # <<>> /\ Apart(x.words) /\ x.words \in Seq(Words)
  BY <1>1, <1>2, CallParts DEF TypeInv, CallInv, CallFits
<1>4. PICK y : y = [kind |-> x.kind, tests |-> x.tests, words |-> Tail(x.words),
                    answer |-> x.tests /\ answer]
  OBVIOUS
<1>5. Tail(x.words) \in Seq(Words) /\ Apart(Tail(x.words))
  BY <1>3, TailTodo
<1>6. y \in CallType
  <2>1. x.tests \in BOOLEAN /\ x.kind \in {"none", "set", "clear"} /\ (x.tests /\ answer) \in BOOLEAN
    BY <1>3, CallParts
  <2> QED
    BY <1>4, <1>5, <2>1 DEF CallType
<1>7. call' = [call EXCEPT ![t] = y]
  <2>1. PICK z : z = (call[t].tests /\ answer)
    OBVIOUS
  <2>2. PICK r : r = [x EXCEPT !.words = Tail(x.words)]
    OBVIOUS
  <2>3. call' = [call EXCEPT ![t].words = Tail(@), ![t].answer = z]
    BY <2>1 DEF WordDone
  <2>4. call' = [call EXCEPT ![t] = Answered(r, z)]
    BY <1>1, <1>2, <2>2, <2>3 DEF TypeInv, Answered
  <2>5. Answered(r, z) = [kind |-> x.kind, tests |-> x.tests, words |-> Tail(x.words), answer |-> z]
    BY <1>3, <2>2, CallChanges
  <2> QED
    BY <1>2, <1>4, <2>1, <2>4, <2>5
<1>8. /\ call' \in [Threads -> CallType] /\ call'[t] = y
      /\ \A u \in Threads \ {t} : call'[u] = call[u]
  BY <1>1, <1>6, <1>7 DEF TypeInv
<1>9. x.tests => Tail(x.words) = <<>>
  <2> SUFFICES ASSUME x.tests PROVE Tail(x.words) = <<>>
    OBVIOUS
  <2>1. PICK c \in Cids : x.words = <<[at |-> WordIndex(c), mask |-> {c % W}]>>
    BY <1>1, <1>2, <1>3 DEF CallInv, CallFits
  <2> QED
    BY <2>1
<1>10. /\ pc' \in [Threads -> {"idle", "load", "cas"}] /\ pc'[t] = "load"
       /\ \A u \in Threads \ {t} : pc'[u] = pc[u]
       /\ old' \in [Threads -> SUBSET (0 .. W - 1)] /\ \A u \in Threads \ {t} : old'[u] = old[u]
  BY <1>1 DEF WordDone, TypeInv
<1>11. /\ tries' \in [Threads -> 0 .. CMASK_CAS_TRIES] /\ tries'[t] = 0
       /\ \A u \in Threads \ {t} : tries'[u] = tries[u]
  BY <1>1, AtomicAssumption DEF WordDone, TypeInv
<1>12. /\ y.kind = x.kind /\ y.tests = x.tests /\ y.words = Tail(x.words)
       /\ y.answer = (x.tests /\ answer)
  BY <1>4
<1> QED
  BY <1>2, <1>5, <1>8, <1>9, <1>10, <1>11, <1>12

\* A call begins.
Begins(t, words) ==
  /\ words \in Seq(Words) /\ Apart(words)
  /\ \E kind \in {"set", "clear"}, tests \in BOOLEAN :
       /\ Call(t, kind, tests, words)
       /\ tests /\ words # <<>> => \E c \in Cids : words = <<[at |-> WordIndex(c), mask |-> {c % W}]>>

\* Each of the operations begins a call with words of the mask.
LEMMA CallsBegin ==
  ASSUME NEW t \in Threads, Calls(t)
  PROVE  \E words : Begins(t, words)
<1>1. ASSUME NEW cid \in Args, NEW kind \in {"set", "clear"}, NEW tests \in BOOLEAN,
             Call(t, kind, tests, One(cid))
      PROVE  Begins(t, One(cid))
  BY <1>1, OneWords, Zenon DEF Begins
<1>2. ASSUME NEW start \in Args, NEW nr \in 0 .. nr_cids + 1, NEW kind \in {"set", "clear"},
             Call(t, kind, FALSE, CidRange(start, nr))
      PROVE  Begins(t, CidRange(start, nr))
  <2>1. CidRange(start, nr) \in Seq(Words) /\ Apart(CidRange(start, nr))
    BY RangeWords
  <2> QED
    BY <1>2, <2>1, Zenon DEF Begins
<1>3. CASE cmask_set(t) \/ cmask_clear(t) \/ cmask_test_and_set(t) \/ cmask_test_and_clear(t)
  BY <1>1, <1>3, Zenon DEF cmask_set, cmask_clear, cmask_test_and_set, cmask_test_and_clear
<1>4. CASE cmask_set_range(t) \/ cmask_clear_range(t)
  BY <1>2, <1>4, Zenon DEF cmask_set_range, cmask_clear_range
<1> QED
  BY <1>3, <1>4 DEF Calls

\* The invariant is kept when a call begins.
LEMMA BeginStep ==
  ASSUME MaskInv, NEW t \in Threads, NEW words, Begins(t, words)
  PROVE  MaskInv'
<1>1. TypeInv /\ CallInv /\ RoundInv
  BY DEF MaskInv
<1>2. words \in Seq(Words) /\ Apart(words)
  BY DEF Begins
<1>3. PICK kind \in {"set", "clear"}, tests \in BOOLEAN :
        /\ Call(t, kind, tests, words)
        /\ tests /\ words # <<>> => \E c \in Cids : words = <<[at |-> WordIndex(c), mask |-> {c % W}]>>
  BY DEF Begins
<1>4. PICK x : x = [kind |-> kind, tests |-> tests, words |-> words, answer |-> FALSE]
  OBVIOUS
<1>5. /\ x \in CallType /\ x.kind = kind /\ x.tests = tests /\ x.words = words /\ x.answer = FALSE
  BY <1>2, <1>4 DEF CallType
<1>6. /\ call' \in [Threads -> CallType] /\ call'[t] = x
      /\ \A u \in Threads \ {t} : call'[u] = call[u]
  <2>1. call' = [call EXCEPT ![t] = x]
    BY <1>3, <1>4 DEF Call
  <2> QED
    BY <1>1, <1>5, <2>1 DEF TypeInv
<1>7. /\ pc' \in [Threads -> {"idle", "load", "cas"}] /\ pc'[t] = "load"
      /\ \A u \in Threads \ {t} : pc'[u] = pc[u]
      /\ UNCHANGED <<bits, old, tries, raced>>
  BY <1>1, <1>3 DEF Call, TypeInv
<1>8. TypeInv'
  BY <1>1, <1>6, <1>7 DEF TypeInv
<1>9. CallInv'
  <2>1. CallFits("load", x)
    BY <1>2, <1>3, <1>5 DEF CallFits
  <2> QED
    BY <1>1, <1>6, <1>7, <2>1 DEF CallInv
<1>10. RoundInv'
  BY <1>1, <1>6, <1>7 DEF RoundInv, Round, Word
<1> QED
  BY <1>8, <1>9, <1>10 DEF MaskInv

\* The word a thread is at.
LEMMA WordType ==
  ASSUME TypeInv, NEW t \in Threads, call[t].words # <<>>
  PROVE  Word(t) \in Words /\ Word(t).at \in 0 .. LastWord /\ Word(t).mask \subseteq 0 .. W - 1
<1>1. call[t].words \in Seq(Words)
  BY CallParts DEF TypeInv
<1>2. 1 \in DOMAIN call[t].words
  BY <1>1, EmptySeq
<1>3. Word(t) \in Words
  BY <1>1, <1>2 DEF Word
<1> QED
  BY <1>3 DEF Words

\* A thread is done with its word, however it got there.
LEMMA DoneStep ==
  ASSUME MaskInv, NEW t \in Threads, NEW answer \in BOOLEAN, call[t].words # <<>>,
         WordDone(t, answer), pc[t] # "idle",
         bits' \in [0 .. LastWord -> SUBSET (0 .. W - 1)],
         raced' \in [Threads -> 0 .. CMASK_CAS_TRIES],
         \A u \in Threads \ {t} :
           /\ tries[u] <= raced'[u]
           /\ pc[u] = "cas" /\ bits'[Word(u).at] # old[u] => tries[u] < raced'[u]
  PROVE  MaskInv'
<1>1. TypeInv /\ CallInv /\ RoundInv
  BY DEF MaskInv
<1>2. /\ call' \in [Threads -> CallType]
      /\ call'[t].kind = call[t].kind /\ call'[t].tests = call[t].tests
      /\ call'[t].answer = (call[t].tests /\ answer)
      /\ \A u \in Threads \ {t} : call'[u] = call[u]
      /\ Apart(call'[t].words)
      /\ call[t].tests => call'[t].words = <<>>
      /\ pc' \in [Threads -> {"idle", "load", "cas"}] /\ pc'[t] = "load"
      /\ \A u \in Threads \ {t} : pc'[u] = pc[u]
      /\ old' \in [Threads -> SUBSET (0 .. W - 1)] /\ \A u \in Threads \ {t} : old'[u] = old[u]
      /\ tries' \in [Threads -> 0 .. CMASK_CAS_TRIES] /\ tries'[t] = 0
      /\ \A u \in Threads \ {t} : tries'[u] = tries[u]
  BY Finished
<1>3. TypeInv'
  BY <1>2 DEF TypeInv
<1>4. CallInv'
  <2>1. CallFits("load", call'[t])
    <3>1. call[t].kind # "none"
      BY <1>1 DEF CallInv, CallFits
    <3> QED
      BY <1>2, <3>1 DEF CallFits
  <2> QED
    BY <1>1, <1>2, <2>1 DEF CallInv
<1>5. RoundInv'
  <2> SUFFICES ASSUME NEW u \in Threads
               PROVE  /\ tries'[u] <= raced'[u]
                      /\ pc'[u] = "cas" =>
                         /\ call'[u].words # <<>> /\ tries'[u] < CMASK_CAS_TRIES
                         /\ ~ Round(u, old[u])'.done
                         /\ bits'[Word(u)'.at] # old'[u] => tries'[u] < raced'[u]
    BY DEF RoundInv
  <2>1. CASE u = t
    BY <1>2, <2>1
  <2>2. CASE u # t
    <3>1. Round(u, old[u])' = Round(u, old[u]) /\ Word(u)' = Word(u)
      BY <1>2, <2>2 DEF Round, Word
    <3> QED
      BY <1>1, <1>2, <2>2, <3>1 DEF RoundInv
  <2> QED
    BY <2>1, <2>2
<1> QED
  BY <1>3, <1>4, <1>5 DEF MaskInv

\* old = *w.
LEMMA LoadStep ==
  ASSUME MaskInv, NEW t \in Threads, Load(t)
  PROVE  MaskInv'
<1>1. TypeInv /\ CallInv /\ RoundInv
  BY DEF MaskInv
<1>2. PICK w : w = bits[Word(t).at]
  OBVIOUS
<1>3. /\ At(t, "load") /\ call[t].words # <<>> /\ tries[t] < CMASK_CAS_TRIES /\ UNCHANGED bits
  BY DEF Load
<1>4. CASE Round(t, w).done /\ WordDone(t, call[t].kind = "set") /\ raced' = [raced EXCEPT ![t] = 0]
  <2>1. bits' \in [0 .. LastWord -> SUBSET (0 .. W - 1)] /\ raced' \in [Threads -> 0 .. CMASK_CAS_TRIES]
    BY <1>1, <1>3, <1>4, AtomicAssumption DEF TypeInv
  <2>2. \A u \in Threads \ {t} : raced'[u] = raced[u]
    BY <1>1, <1>4 DEF TypeInv
  <2>3. \A u \in Threads \ {t} :
           /\ tries[u] <= raced'[u]
           /\ pc[u] = "cas" /\ bits'[Word(u).at] # old[u] => tries[u] < raced'[u]
    BY <1>1, <1>3, <2>2 DEF RoundInv
  <2>4. pc[t] # "idle" /\ (call[t].kind = "set") \in BOOLEAN
    BY <1>3 DEF At
  <2> QED
    BY <1>3, <1>4, <2>1, <2>3, <2>4, DoneStep
<1>5. CASE /\ ~ Round(t, w).done /\ old' = [old EXCEPT ![t] = w]
           /\ pc' = [pc EXCEPT ![t] = "cas"] /\ UNCHANGED <<call, tries, raced>>
  <2>1. w \in SUBSET (0 .. W - 1)
    BY <1>1, <1>2, <1>3, WordType DEF TypeInv
  <2>2. TypeInv'
    BY <1>1, <1>3, <1>5, <2>1 DEF TypeInv
  <2>3. pc[t] = "load" /\ pc'[t] = "cas" /\ old'[t] = w
        /\ \A u \in Threads \ {t} : pc'[u] = pc[u] /\ old'[u] = old[u]
    BY <1>1, <1>3, <1>5 DEF TypeInv, At
  <2>4. CallInv'
    BY <1>1, <1>5, <2>3 DEF CallInv, CallFits
  <2>5. RoundInv'
    <3> SUFFICES ASSUME NEW u \in Threads
                 PROVE  /\ tries'[u] <= raced'[u]
                        /\ pc'[u] = "cas" =>
                           /\ call'[u].words # <<>> /\ tries'[u] < CMASK_CAS_TRIES
                           /\ ~ Round(u, old[u])'.done
                           /\ bits'[Word(u)'.at] # old'[u] => tries'[u] < raced'[u]
      BY DEF RoundInv
    <3>2. Round(u, old[u])' = Round(u, old'[u]) /\ Word(u)' = Word(u)
      BY <1>5 DEF Round, Word
    <3>3. CASE u = t
      BY <1>1, <1>2, <1>3, <1>5, <2>3, <3>2, <3>3 DEF RoundInv
    <3>4. CASE u # t
      BY <1>1, <1>3, <1>5, <2>3, <3>2, <3>4 DEF RoundInv
    <3> QED
      BY <3>3, <3>4
  <2> QED
    BY <2>2, <2>4, <2>5 DEF MaskInv
<1> QED
  BY <1>2, <1>4, <1>5 DEF Load

\* The compare-and-swap.
LEMMA CasStep ==
  ASSUME MaskInv, NEW t \in Threads, Cas(t)
  PROVE  MaskInv'
<1>1. TypeInv /\ CallInv /\ RoundInv
  BY DEF MaskInv
<1>2. /\ pc[t] = "cas" /\ call[t].words # <<>> /\ tries[t] < CMASK_CAS_TRIES
      /\ bits[Word(t).at] # old[t] => tries[t] < raced[t]
  BY <1>1 DEF Cas, At, RoundInv
<1>3. CASE /\ bits' = [bits EXCEPT ![Word(t).at] = Round(t, old[t]).new]
           /\ WordDone(t, call[t].kind = "clear") /\ raced' = Races(t)
  <2>1. /\ Word(t).at \in 0 .. LastWord /\ Word(t).mask \in SUBSET (0 .. W - 1)
        /\ old[t] \in SUBSET (0 .. W - 1)
    BY <1>1, <1>2, WordType DEF TypeInv
  <2>2. Round(t, old[t]).new \in SUBSET (0 .. W - 1)
    BY <2>1 DEF Round, __cmask_word_or, __cmask_word_andnot
  <2>3. bits' \in [0 .. LastWord -> SUBSET (0 .. W - 1)]
    BY <1>1, <1>3, <2>1, <2>2 DEF TypeInv
  <2>4. \A u \in Threads : raced[u] \in Nat /\ raced[u] <= CMASK_CAS_TRIES /\ tries[u] \in Nat
    BY <1>1, AtomicAssumption DEF TypeInv
  <2>5. ASSUME NEW u \in Threads
        PROVE  /\ Min({raced[u] + 1, CMASK_CAS_TRIES}) \in 0 .. CMASK_CAS_TRIES
               /\ Min({raced[u] + 1, CMASK_CAS_TRIES}) >= raced[u]
               /\ tries[u] < CMASK_CAS_TRIES => tries[u] < Min({raced[u] + 1, CMASK_CAS_TRIES})
    <3>1. raced[u] + 1 \in Nat /\ CMASK_CAS_TRIES \in Nat /\ raced[u] \in Nat /\ raced[u] <= CMASK_CAS_TRIES
          /\ tries[u] <= raced[u] /\ tries[u] \in Nat
      BY <1>1, <2>4, AtomicAssumption DEF RoundInv
    <3>2. PICK a, b : a = raced[u] + 1 /\ b = CMASK_CAS_TRIES
      OBVIOUS
    <3>3. a \in Int /\ b \in Int
      BY <3>1, <3>2
    <3>4. Min({a, b}) \in {a, b} /\ Min({a, b}) <= a /\ Min({a, b}) <= b
      BY <3>3, MaxMin
    <3> QED
      BY <3>1, <3>2, <3>4
  <2>6. raced' \in [Threads -> 0 .. CMASK_CAS_TRIES]
    <3>1. \A u \in Threads : raced[u] \in 0 .. CMASK_CAS_TRIES /\ 0 \in 0 .. CMASK_CAS_TRIES
      BY <1>1, AtomicAssumption DEF TypeInv
    <3>2. \A u \in Threads : Min({raced[u] + 1, CMASK_CAS_TRIES}) \in 0 .. CMASK_CAS_TRIES
      BY <2>5
    <3> QED
      BY <1>3, <3>1, <3>2 DEF Races
  <2>7. ASSUME NEW u \in Threads \ {t}
        PROVE  /\ tries[u] <= raced'[u]
               /\ pc[u] = "cas" /\ bits'[Word(u).at] # old[u] => tries[u] < raced'[u]
    <3>1. /\ tries[u] <= raced[u]
          /\ pc[u] = "cas" => /\ call[u].words # <<>> /\ tries[u] < CMASK_CAS_TRIES
                              /\ bits[Word(u).at] # old[u] => tries[u] < raced[u]
      BY <1>1 DEF RoundInv
    <3>2. CASE call[u].words # <<>> /\ Word(u).at = Word(t).at
      <4>1. raced'[u] = Min({raced[u] + 1, CMASK_CAS_TRIES})
        BY <1>3, <3>2 DEF Races
      <4>2. /\ raced'[u] \in Nat /\ raced'[u] >= raced[u] /\ raced[u] \in Nat /\ tries[u] \in Nat
            /\ tries[u] < CMASK_CAS_TRIES => tries[u] < raced'[u]
        BY <2>4, <2>5, <4>1
      <4> QED
        BY <3>1, <4>2
    <3>3. CASE ~ (call[u].words # <<>> /\ Word(u).at = Word(t).at)
      <4>1. raced'[u] = raced[u]
        BY <1>3, <3>3 DEF Races
      <4>2. pc[u] = "cas" => bits'[Word(u).at] = bits[Word(u).at]
        <5>1. pc[u] = "cas" => Word(u).at \in 0 .. LastWord /\ Word(u).at # Word(t).at
          BY <1>1, <3>1, <3>3, WordType
        <5> QED
          BY <1>1, <1>3, <5>1 DEF TypeInv
      <4> QED
        BY <3>1, <4>1, <4>2
    <3> QED
      BY <3>2, <3>3
  <2>8. pc[t] # "idle" /\ (call[t].kind = "clear") \in BOOLEAN
    BY <1>2
  <2> QED
    BY <1>2, <1>3, <2>3, <2>6, <2>7, <2>8, DoneStep
<1>4. CASE /\ ~ Swaps(t)
           /\ tries' = [tries EXCEPT ![t] = @ + 1] /\ pc' = [pc EXCEPT ![t] = LoadsAgain]
           /\ UNCHANGED <<bits, call, old, raced>>
  <2>1. tries'[t] = tries[t] + 1 /\ tries' \in [Threads -> 0 .. CMASK_CAS_TRIES] /\ pc'[t] = "load"
        /\ pc' \in [Threads -> {"idle", "load", "cas"}]
        /\ \A u \in Threads \ {t} : tries'[u] = tries[u] /\ pc'[u] = pc[u]
    BY <1>1, <1>2, <1>4, AtomicAssumption DEF TypeInv, LoadsAgain
  <2>2. TypeInv'
    BY <1>1, <1>4, <2>1 DEF TypeInv
  <2>3. CallInv'
    BY <1>1, <1>2, <1>4, <2>1, ZenonT(60) DEF CallInv, CallFits
  <2>4. tries[t] < raced[t] /\ tries[t] \in Nat /\ raced[t] \in Nat
    BY <1>1, <1>2, <1>4 DEF Swaps, TypeInv
  <2>5. \A u \in Threads : Round(u, old[u])' = Round(u, old[u]) /\ Word(u)' = Word(u)
    BY <1>4 DEF Round, Word
  <2>6. RoundInv'
    BY <1>1, <1>4, <2>1, <2>4, <2>5 DEF RoundInv
  <2> QED
    BY <2>2, <2>3, <2>6 DEF MaskInv
<1> QED
  BY <1>3, <1>4 DEF Cas

\* The loop ends without a swap.
LEMMA ExhaustedStep ==
  ASSUME MaskInv, NEW t \in Threads, Exhausted(t)
  PROVE  MaskInv'
<1>1. TypeInv /\ CallInv /\ RoundInv
  BY DEF MaskInv
<1>2. call[t].words # <<>> /\ WordDone(t, FALSE) /\ raced' = [raced EXCEPT ![t] = 0] /\ bits' = bits
  BY DEF Exhausted
<1>3. bits' \in [0 .. LastWord -> SUBSET (0 .. W - 1)] /\ raced' \in [Threads -> 0 .. CMASK_CAS_TRIES]
  BY <1>1, <1>2, AtomicAssumption DEF TypeInv
<1>4. \A u \in Threads \ {t} : raced'[u] = raced[u]
  BY <1>1, <1>2 DEF TypeInv
<1>5. \A u \in Threads \ {t} :
        /\ tries[u] <= raced'[u]
        /\ pc[u] = "cas" /\ bits'[Word(u).at] # old[u] => tries[u] < raced'[u]
  BY <1>1, <1>2, <1>4 DEF RoundInv
<1>6. pc[t] # "idle" /\ FALSE \in BOOLEAN
  BY <1>1, <1>2 DEF CallInv, CallFits
<1> QED
  BY <1>2, <1>3, <1>5, <1>6, DoneStep

\* What is left of a call whose loops the runtime ends.
LEMMA Stopped ==
  ASSUME MaskInv, NEW t \in Threads, LoopEnds(t)
  PROVE  /\ call' \in [Threads -> CallType]
         /\ call'[t] = [kind |-> call[t].kind, tests |-> call[t].tests, words |-> <<>>,
                        answer |-> call[t].answer]
         /\ \A u \in Threads \ {t} : call'[u] = call[u]
<1>1. TypeInv
  BY DEF MaskInv
<1>2. PICK x : x = call[t] /\ x \in CallType
  BY <1>1 DEF TypeInv
<1>3. PICK y : y = [x EXCEPT !.words = <<>>]
  OBVIOUS
<1>4. y = [kind |-> x.kind, tests |-> x.tests, words |-> <<>>, answer |-> x.answer]
  <2>1. x = [kind |-> x.kind, tests |-> x.tests, words |-> x.words, answer |-> x.answer]
    BY <1>2 DEF CallType
  <2> QED
    BY <1>3, <2>1
<1>5. y \in CallType
  <2>1. <<>> \in Seq(Words)
    OBVIOUS
  <2> QED
    BY <1>2, <1>4, <2>1, CallParts DEF CallType
<1>6. call' = [call EXCEPT ![t] = y]
  <2>1. call' = [call EXCEPT ![t].words = <<>>]
    BY DEF LoopEnds
  <2> QED
    BY <1>1, <1>2, <1>3, <2>1 DEF TypeInv
<1> QED
  BY <1>1, <1>2, <1>4, <1>5, <1>6 DEF TypeInv

\* The runtime ends the loops.
LEMMA LoopEndsStep ==
  ASSUME MaskInv, NEW t \in Threads, LoopEnds(t)
  PROVE  MaskInv'
<1>1. TypeInv /\ CallInv /\ RoundInv
  BY DEF MaskInv
<1>2. /\ call' \in [Threads -> CallType]
      /\ call'[t] = [kind |-> call[t].kind, tests |-> call[t].tests, words |-> <<>>,
                     answer |-> call[t].answer]
      /\ \A u \in Threads \ {t} : call'[u] = call[u]
  BY Stopped
<1>3. UNCHANGED <<bits, pc>> /\ pc[t] = "load" /\ call[t].words # <<>>
  BY DEF LoopEnds, At
<1>4. /\ old' \in [Threads -> SUBSET (0 .. W - 1)] /\ \A u \in Threads \ {t} : old'[u] = old[u]
      /\ tries' \in [Threads -> 0 .. CMASK_CAS_TRIES] /\ tries'[t] = 0
      /\ \A u \in Threads \ {t} : tries'[u] = tries[u]
  BY <1>1, AtomicAssumption DEF LoopEnds, TypeInv
<1>5. /\ raced' \in [Threads -> 0 .. CMASK_CAS_TRIES] /\ raced'[t] = 0
      /\ \A u \in Threads \ {t} : raced'[u] = raced[u]
  BY <1>1, AtomicAssumption DEF LoopEnds, TypeInv
<1>6. TypeInv'
  BY <1>1, <1>2, <1>3, <1>4, <1>5 DEF TypeInv
<1>7. CallInv'
  <2>1. PICK x : x = call[t] /\ CallFits("load", x) /\ x.words # <<>>
    BY <1>1, <1>3 DEF CallInv
  <2>2. PICK y : y = call'[t] /\ y.kind = x.kind /\ y.tests = x.tests /\ y.words = <<>>
                 /\ y.answer = x.answer
    BY <1>2, <2>1
  <2>3. Apart(<<>>)
    BY DEF Apart
  <2>4. CallFits("load", y)
    BY <2>1, <2>2, <2>3 DEF CallFits
  <2> QED
    BY <1>1, <1>2, <1>3, <2>2, <2>4 DEF CallInv
<1>8. RoundInv'
  <2>1. ASSUME NEW u \in Threads \ {t}
        PROVE  /\ tries'[u] <= raced'[u]
               /\ pc'[u] = "cas" =>
                    /\ call'[u].words # <<>> /\ tries'[u] < CMASK_CAS_TRIES
                    /\ ~ Round(u, old[u])'.done
                    /\ bits'[Word(u)'.at] # old'[u] => tries'[u] < raced'[u]
    BY <1>1, <1>2, <1>3, <1>4, <1>5 DEF RoundInv, Round, Word
  <2>2. tries'[t] <= raced'[t] /\ pc'[t] # "cas"
    BY <1>3, <1>4, <1>5
  <2> QED
    BY <2>1, <2>2 DEF RoundInv
<1> QED
  BY <1>6, <1>7, <1>8 DEF MaskInv

\* The call returns.
LEMMA ReturnStep ==
  ASSUME MaskInv, NEW t \in Threads, Return(t)
  PROVE  MaskInv'
<1>1. TypeInv /\ CallInv /\ RoundInv
  BY DEF MaskInv
<1>2. /\ NoCall \in CallType /\ NoCall.kind = "none" /\ NoCall.words = <<>> /\ ~ NoCall.tests
      /\ ~ NoCall.answer
  BY DEF NoCall, CallType
<1>3. /\ pc' \in [Threads -> {"idle", "load", "cas"}] /\ pc'[t] = "idle"
      /\ \A u \in Threads \ {t} : pc'[u] = pc[u]
      /\ UNCHANGED <<bits, old, tries, raced>>
  BY <1>1 DEF Return, TypeInv
<1>4. /\ call' \in [Threads -> CallType] /\ call'[t] = NoCall
      /\ \A u \in Threads \ {t} : call'[u] = call[u]
  <2>1. call' = [call EXCEPT ![t] = NoCall]
    BY DEF Return
  <2> QED
    BY <1>1, <1>2, <2>1 DEF TypeInv
<1>5. TypeInv'
  BY <1>1, <1>3, <1>4 DEF TypeInv
<1>6. CallInv'
  <2>1. Apart(<<>>)
    BY DEF Apart
  <2>2. CallFits("idle", NoCall)
    BY <1>2, <2>1 DEF CallFits
  <2> QED
    BY <1>1, <1>3, <1>4, <2>2 DEF CallInv
<1>7. RoundInv'
  BY <1>1, <1>3, <1>4 DEF RoundInv, Round, Word
<1> QED
  BY <1>5, <1>6, <1>7 DEF MaskInv

-----------------------------------------------------------------------------
(* The theorems                                                            *)

\* The inductive invariant of the loops holds throughout.
THEOREM MaskInductive == Spec => []MaskInv
<1>1. Init => MaskInv
  <2> SUFFICES ASSUME Init PROVE MaskInv
    OBVIOUS
  <2>1. NoCall \in CallType /\ CallFits("idle", NoCall)
    BY DEF NoCall, CallType, CallFits, Apart
  <2>2. TypeInv
    <3>1. bits \in [0 .. LastWord -> SUBSET (0 .. W - 1)]
      BY DEF Init, LastWord
    <3> QED
      BY <2>1, <3>1, AtomicAssumption DEF Init, TypeInv
  <2>3. CallInv /\ RoundInv
    BY <2>1 DEF Init, CallInv, RoundInv
  <2> QED
    BY <2>2, <2>3 DEF MaskInv
<1>2. MaskInv /\ [Next]_vars => MaskInv'
  <2> SUFFICES ASSUME MaskInv, [Next]_vars PROVE MaskInv'
    OBVIOUS
  <2>1. ASSUME NEW t \in Threads, Calls(t) PROVE MaskInv'
    BY <2>1, CallsBegin, BeginStep
  <2>2. CASE UNCHANGED vars
    <3>1. UNCHANGED <<bits, pc, call, old, tries, raced>>
      BY <2>2 DEF vars
    <3> QED
      BY <3>1 DEF MaskInv, TypeInv, CallInv, RoundInv, Round, Word
  <2> QED
    BY <2>1, <2>2, LoadStep, CasStep, ExhaustedStep, LoopEndsStep, ReturnStep DEF Next
<1> QED
  BY <1>1, <1>2, PTL DEF Spec

\* A round fails only because somebody else got on, for any number of threads and
\* any CMASK_CAS_TRIES: a call that gives up by itself has lost that many races.
THEOREM MaskFailsByContention == Spec => []FailsByContention
<1>1. MaskInv => FailsByContention
  BY DEF MaskInv, RoundInv, FailsByContention
<1> QED
  BY <1>1, MaskInductive, PTL

-----------------------------------------------------------------------------
(* The atomic mask                                                         *)

AbsMask == UNION {CidsOf(i, bits[i]) : i \in DOMAIN bits}

AbsOf(x) == [kind |-> x.kind, tests |-> x.tests, todo |-> TodoOf(x.words), answer |-> x.answer]

AbsCall == [t \in Threads |-> AbsOf(call[t])]

\* What the refinement mapping of CmaskAtomic maps to.
LEMMA Mapping ==
  /\ AbsCall = [t \in Threads |-> [kind |-> call[t].kind, tests |-> call[t].tests,
                                   todo |-> Todo(t), answer |-> call[t].answer]]
  /\ AbsCall' = [t \in Threads |-> [kind |-> call[t].kind, tests |-> call[t].tests,
                                    todo |-> Todo(t), answer |-> call[t].answer]]'
<1>1. \A t : Todo(t) = TodoOf(call[t].words)
  BY DEF Todo, TodoOf
<1>2. \A t : Todo(t)' = TodoOf(call'[t].words)
  BY DEF Todo, TodoOf
<1> QED
  BY <1>1, <1>2 DEF AbsCall, AbsOf

\* A cid is in the mask if its bit is set.
LEMMA InMask ==
  ASSUME TypeInv
  PROVE  AbsMask = {c \in Cids : c % W \in bits[WordIndex(c)]}
<1>1. DOMAIN bits = 0 .. LastWord
  BY DEF TypeInv
<1>2. \A c \in Cids : WordIndex(c) \in 0 .. LastWord
  BY WordOf
<1> QED
  BY <1>1, <1>2 DEF AbsMask, CidsOf

\* A step of t changes the call of t only.
LEMMA OneCall ==
  ASSUME NEW t \in Threads, \A u \in Threads \ {t} : call'[u] = call[u]
  PROVE  AbsCall' = [AbsCall EXCEPT ![t] = AbsOf(call'[t])]
BY DEF AbsCall

\* An operation begins: so does the abstract one.
LEMMA BeginAbs ==
  ASSUME MaskInv, NEW t \in Threads, NEW words, Begins(t, words)
  PROVE  Abstract!Begin(t)
<1>1. PICK kind \in {"set", "clear"}, tests \in BOOLEAN :
        /\ Call(t, kind, tests, words)
        /\ tests /\ words # <<>> => \E c \in Cids : words = <<[at |-> WordIndex(c), mask |-> {c % W}]>>
  BY DEF Begins
<1>2. PICK S : S = TodoOf(words)
  OBVIOUS
<1>3. S \in SUBSET Cids
  BY <1>2 DEF TodoOf, CidsOf
<1>4. tests => \A c, d \in S : c = d
  <2>1. CASE words = <<>>
    BY <1>2, <2>1 DEF TodoOf
  <2>2. CASE tests /\ words # <<>>
    <3>1. PICK c \in Cids : words = <<[at |-> WordIndex(c), mask |-> {c % W}]>>
      BY <1>1, <2>2
    <3>2. S = {c}
      BY <1>2, <3>1, OneTodo
    <3> QED
      BY <3>2
  <2> QED
    BY <2>1, <2>2
<1>5. /\ TypeInv /\ CallInv /\ At(t, "idle") /\ bits' = bits
      /\ call' = [call EXCEPT ![t] =
                   [kind |-> kind, tests |-> tests, words |-> words, answer |-> FALSE]]
  BY <1>1 DEF Call, MaskInv
<1>6. call[t].kind = "none"
  BY <1>5 DEF At, CallInv, CallFits
<1>7. /\ \A u \in Threads \ {t} : call'[u] = call[u]
      /\ call'[t] = [kind |-> kind, tests |-> tests, words |-> words, answer |-> FALSE]
  BY <1>5 DEF TypeInv
<1>8. AbsCall' = [AbsCall EXCEPT ![t] = AbsOf(call'[t])]
  BY <1>7, OneCall
<1>9. AbsOf(call'[t]) = [kind |-> kind, tests |-> tests, todo |-> S, answer |-> FALSE]
  BY <1>2, <1>7 DEF AbsOf
<1>10. AbsCall[t].kind = "none" /\ AbsMask' = AbsMask
  BY <1>5, <1>6 DEF AbsCall, AbsOf, AbsMask
<1>11. /\ AbsCall[t].kind = "none"
       /\ \E k \in {"set", "clear"}, b \in BOOLEAN, T \in SUBSET Cids :
            /\ b => \A c, d \in T : c = d
            /\ AbsCall' = [AbsCall EXCEPT ![t] = [kind |-> k, tests |-> b, todo |-> T, answer |-> FALSE]]
       /\ AbsMask' = AbsMask
  BY <1>3, <1>4, <1>8, <1>9, <1>10, Zenon
<1> QED
  BY <1>11, Mapping, Zenon DEF Abstract!Begin, AbsMask

\* The cids of the word a thread is at.
Here(t) == CidsOf(Word(t).at, Word(t).mask)

\* What they say of the word.
LEMMA HereIs ==
  ASSUME MaskInv, NEW t \in Threads, call[t].words # <<>>
  PROVE  /\ Here(t) \subseteq TodoOf(call[t].words)
         /\ TodoOf(Tail(call[t].words)) = TodoOf(call[t].words) \ Here(t)
         /\ Here(t) = {c \in Cids : WordIndex(c) = Word(t).at /\ c % W \in Word(t).mask}
         /\ call[t].tests => \E c \in Cids : /\ Here(t) = {c} /\ Word(t).mask = {c % W}
                                             /\ Word(t).at = WordIndex(c)
<1>1. call[t].words \in Seq(Words) /\ CallFits(pc[t], call[t])
  BY CallParts DEF MaskInv, TypeInv, CallInv
<1>2. /\ Here(t) \subseteq TodoOf(call[t].words)
      /\ TodoOf(Tail(call[t].words)) = TodoOf(call[t].words) \ Here(t)
  BY <1>1, TailTodo DEF CallFits, Here, Word
<1>3. Here(t) = {c \in Cids : WordIndex(c) = Word(t).at /\ c % W \in Word(t).mask}
  BY DEF Here, CidsOf
<1>4. ASSUME call[t].tests
      PROVE  \E c \in Cids : /\ Here(t) = {c} /\ Word(t).mask = {c % W} /\ Word(t).at = WordIndex(c)
  <2>1. PICK c \in Cids : call[t].words = <<[at |-> WordIndex(c), mask |-> {c % W}]>>
    BY <1>1, <1>4 DEF CallFits
  <2>2. Word(t).at = WordIndex(c) /\ Word(t).mask = {c % W}
    BY <2>1, OneTodo DEF Word
  <2>3. Here(t) = {c}
    BY <2>2, OneWord DEF Here
  <2> QED
    BY <2>2, <2>3
<1> QED
  BY <1>2, <1>3, <1>4

\* The abstract call after a thread is done with its word.
LEMMA DoneCall ==
  ASSUME MaskInv, NEW t \in Threads, NEW answer \in BOOLEAN, call[t].words # <<>>,
         WordDone(t, answer)
  PROVE  /\ AbsCall' = [AbsCall EXCEPT ![t] =
              [kind |-> AbsCall[t].kind, tests |-> AbsCall[t].tests,
               todo |-> AbsCall[t].todo \ Here(t), answer |-> AbsCall[t].tests /\ answer]]
         /\ Here(t) \subseteq AbsCall[t].todo
<1>1. /\ call'[t].kind = call[t].kind /\ call'[t].tests = call[t].tests
      /\ call'[t].words = Tail(call[t].words)
      /\ call'[t].answer = (call[t].tests /\ answer)
      /\ \A u \in Threads \ {t} : call'[u] = call[u]
  BY Finished
<1>2. AbsCall' = [AbsCall EXCEPT ![t] = AbsOf(call'[t])]
  BY <1>1, OneCall
<1>3. /\ Here(t) \subseteq TodoOf(call[t].words)
      /\ TodoOf(Tail(call[t].words)) = TodoOf(call[t].words) \ Here(t)
  BY HereIs
<1>4. AbsOf(call'[t]) = [kind |-> call[t].kind, tests |-> call[t].tests,
                         todo |-> TodoOf(call[t].words) \ Here(t), answer |-> call[t].tests /\ answer]
  BY <1>1, <1>3, Zenon DEF AbsOf
<1>5. /\ AbsCall[t].kind = call[t].kind /\ AbsCall[t].tests = call[t].tests
      /\ AbsCall[t].todo = TodoOf(call[t].words)
  BY DEF AbsCall, AbsOf
<1> QED
  BY <1>2, <1>3, <1>4, <1>5, Zenon

\* Part of an abstract call changes.
LEMMA AbsChanges ==
  ASSUME NEW t \in Threads, NEW T
  PROVE  [AbsCall EXCEPT ![t].todo = T] =
           [AbsCall EXCEPT ![t] = [kind |-> AbsCall[t].kind, tests |-> AbsCall[t].tests,
                                   todo |-> T, answer |-> AbsCall[t].answer]]
<1>1. PICK f : f = AbsCall
  OBVIOUS
<1>2. f = [u \in Threads |-> f[u]]
  BY <1>1 DEF AbsCall
<1>3. PICK k, b, d, z : f[t] = [kind |-> k, tests |-> b, todo |-> d, answer |-> z]
  BY <1>1 DEF AbsCall, AbsOf
<1>4. f[t].kind = k /\ f[t].tests = b /\ f[t].answer = z
  BY <1>3
<1>5. PICK r : r = [f[t] EXCEPT !.todo = T]
  OBVIOUS
<1>6. r = [kind |-> k, tests |-> b, todo |-> T, answer |-> z]
  <2>1. [[kind |-> k, tests |-> b, todo |-> d, answer |-> z] EXCEPT !.todo = T] =
          [kind |-> k, tests |-> b, todo |-> T, answer |-> z]
    OBVIOUS
  <2> QED
    BY <1>3, <1>5, <2>1, Zenon
<1>7. [f EXCEPT ![t].todo = T] = [f EXCEPT ![t] = r]
  BY <1>2, <1>5
<1> QED
  BY <1>1, <1>4, <1>6, <1>7, Zenon

\* A step of the abstract mask, or none.
AbsStep == (\E t \in Threads : Abstract!Begin(t) \/ Abstract!Apply(t) \/ Abstract!GiveUp(t) \/ Abstract!End(t))
           \/ (AbsMask' = AbsMask /\ AbsCall' = AbsCall)

\* A thread that is done with its word has set or cleared its cids at this
\* instant, and a test has the answer of this instant.
LEMMA ApplyAbs ==
  ASSUME MaskInv, NEW t \in Threads, NEW answer \in BOOLEAN, call[t].words # <<>>,
         WordDone(t, answer),
         AbsMask' = IF call[t].kind = "set" THEN AbsMask \cup Here(t) ELSE AbsMask \ Here(t),
         call[t].tests => (answer <=> Here(t) \subseteq AbsMask)
  PROVE  AbsStep
<1>1. PICK S : S = Here(t)
  OBVIOUS
<1>2. /\ AbsCall[t].kind = call[t].kind /\ AbsCall[t].tests = call[t].tests
      /\ AbsCall[t].answer = call[t].answer /\ AbsCall[t].todo = TodoOf(call[t].words)
      /\ AbsCall[t] = AbsOf(call[t])
  BY DEF AbsCall, AbsOf
<1>3. call[t].tests \in BOOLEAN
  BY CallParts DEF MaskInv, TypeInv
<1>4. (call[t].tests /\ answer) = (call[t].tests /\ S \subseteq AbsMask)
  BY <1>1, <1>3
<1>5. /\ AbsCall' = [AbsCall EXCEPT ![t] =
           [kind |-> AbsCall[t].kind, tests |-> AbsCall[t].tests,
            todo |-> AbsCall[t].todo \ S, answer |-> AbsCall[t].tests /\ answer]]
      /\ S \subseteq AbsCall[t].todo
  BY <1>1, DoneCall
<1>6. CASE S # {}
  <2>1. AbsCall' = [AbsCall EXCEPT ![t] =
           [kind |-> AbsCall[t].kind, tests |-> AbsCall[t].tests,
            todo |-> AbsCall[t].todo \ S, answer |-> AbsCall[t].tests /\ S \subseteq AbsMask]]
    <3>1. (AbsCall[t].tests /\ answer) = (AbsCall[t].tests /\ S \subseteq AbsMask)
      BY <1>2, <1>4
    <3> QED
      BY <1>5, <3>1, Zenon
  <2>2. S \in (SUBSET AbsCall[t].todo) \ {{}}
    BY <1>5, <1>6
  <2>3. AbsMask' = IF AbsCall[t].kind = "set" THEN AbsMask \cup S ELSE AbsMask \ S
    BY <1>1, <1>2
  <2>4. \E R \in (SUBSET AbsCall[t].todo) \ {{}} :
          /\ AbsMask' = IF AbsCall[t].kind = "set" THEN AbsMask \cup R ELSE AbsMask \ R
          /\ AbsCall' = [AbsCall EXCEPT ![t] =
               [kind |-> @.kind, tests |-> @.tests,
                todo |-> @.todo \ R, answer |-> @.tests /\ R \subseteq AbsMask]]
    BY <2>1, <2>2, <2>3, Zenon
  <2>5. Abstract!Apply(t)
    BY <2>4, Mapping, ZenonT(60) DEF Abstract!Apply, Abstract!Parts, AbsMask
  <2> QED
    BY <2>5 DEF AbsStep
<1>7. CASE S = {}
  <2>1. ~ call[t].tests
    BY <1>1, <1>7, HereIs
  <2>2. call[t].answer = FALSE
    <3>1. CallFits(pc[t], call[t]) /\ call[t].answer \in BOOLEAN
      BY CallParts DEF MaskInv, CallInv, TypeInv
    <3> QED
      BY <2>1, <3>1 DEF CallFits
  <2>3. AbsCall[t].todo \ S = TodoOf(call[t].words) /\ (AbsCall[t].tests /\ answer) = call[t].answer
    BY <1>2, <1>7, <2>1, <2>2
  <2>4. AbsCall' = [AbsCall EXCEPT ![t] = AbsOf(call[t])]
    BY <1>2, <1>5, <2>3, Zenon DEF AbsOf
  <2>5. AbsCall' = AbsCall
    BY <2>4 DEF AbsCall
  <2>6. AbsMask' = AbsMask
    BY <1>1, <1>7
  <2> QED
    BY <2>5, <2>6 DEF AbsStep
<1> QED
  BY <1>6, <1>7

\* A thread gives up its word.
LEMMA GiveUpAbs ==
  ASSUME MaskInv, NEW t \in Threads, Exhausted(t)
  PROVE  AbsStep
<1>1. PICK S : S = Here(t)
  OBVIOUS
<1>2. call[t].words # <<>> /\ WordDone(t, FALSE) /\ bits' = bits /\ AbsMask' = AbsMask
  BY DEF Exhausted, AbsMask
<1>3. /\ AbsCall[t].kind = call[t].kind /\ AbsCall[t].tests = call[t].tests
      /\ AbsCall[t].answer = call[t].answer /\ AbsCall[t].todo = TodoOf(call[t].words)
      /\ AbsCall[t] = AbsOf(call[t])
  BY DEF AbsCall, AbsOf
<1>4. call[t].answer = FALSE /\ call[t].tests \in BOOLEAN
  <2>1. CallFits(pc[t], call[t]) /\ call[t].answer \in BOOLEAN /\ call[t].tests \in BOOLEAN
    BY CallParts DEF MaskInv, CallInv, TypeInv
  <2> QED
    BY <1>2, <2>1 DEF CallFits
<1>5. /\ AbsCall' = [AbsCall EXCEPT ![t] =
           [kind |-> AbsCall[t].kind, tests |-> AbsCall[t].tests,
            todo |-> AbsCall[t].todo \ S, answer |-> AbsCall[t].tests /\ FALSE]]
      /\ S \subseteq AbsCall[t].todo
  BY <1>1, <1>2, DoneCall
<1>6. AbsCall' = [AbsCall EXCEPT ![t] =
           [kind |-> AbsCall[t].kind, tests |-> AbsCall[t].tests,
            todo |-> AbsCall[t].todo \ S, answer |-> AbsCall[t].answer]]
  <2>1. (AbsCall[t].tests /\ FALSE) = AbsCall[t].answer
    BY <1>3, <1>4
  <2> QED
    BY <1>5, <2>1, Zenon
<1>7. CASE S # {}
  <2>1. AbsCall' = [AbsCall EXCEPT ![t].todo = AbsCall[t].todo \ S]
    <3>1. PICK T : T = AbsCall[t].todo \ S
      OBVIOUS
    <3> QED
      BY <1>6, <3>1, AbsChanges, Zenon
  <2>2. S \in (SUBSET AbsCall[t].todo) \ {{}}
    BY <1>5, <1>7
  <2>3. \E R \in (SUBSET AbsCall[t].todo) \ {{}} :
          AbsCall' = [AbsCall EXCEPT ![t].todo = @ \ R] /\ AbsMask' = AbsMask
    BY <1>2, <2>1, <2>2, Zenon
  <2>4. Abstract!GiveUp(t)
    BY <2>3, Mapping, Zenon DEF Abstract!GiveUp, Abstract!Parts, AbsMask
  <2> QED
    BY <2>4 DEF AbsStep
<1>8. CASE S = {}
  <2>1. AbsCall' = [AbsCall EXCEPT ![t] = AbsOf(call[t])]
    <3>1. AbsCall[t].todo \ S = TodoOf(call[t].words)
      BY <1>3, <1>8
    <3> QED
      BY <1>3, <1>6, <3>1, Zenon DEF AbsOf
  <2>2. AbsCall' = AbsCall
    BY <2>1 DEF AbsCall
  <2> QED
    BY <1>2, <2>2 DEF AbsStep
<1> QED
  BY <1>7, <1>8

\* A call that the runtime stops gives up all that is left.
LEMMA StopAbs ==
  ASSUME MaskInv, NEW t \in Threads, LoopEnds(t)
  PROVE  AbsStep
<1>1. PICK S : S = TodoOf(call[t].words)
  OBVIOUS
<1>2. bits' = bits /\ AbsMask' = AbsMask
  BY DEF LoopEnds, AbsMask
<1>3. /\ AbsCall[t].kind = call[t].kind /\ AbsCall[t].tests = call[t].tests
      /\ AbsCall[t].answer = call[t].answer /\ AbsCall[t].todo = S
      /\ AbsCall[t] = AbsOf(call[t])
  BY <1>1 DEF AbsCall, AbsOf
<1>4. /\ \A u \in Threads \ {t} : call'[u] = call[u]
      /\ call'[t].kind = call[t].kind /\ call'[t].tests = call[t].tests
      /\ call'[t].words = <<>> /\ call'[t].answer = call[t].answer
  <2>1. PICK x, y : x = call[t] /\ y = call'[t]
    OBVIOUS
  <2>2. y = [kind |-> x.kind, tests |-> x.tests, words |-> <<>>, answer |-> x.answer]
    BY <2>1, Stopped, Zenon
  <2>3. y.kind = x.kind /\ y.tests = x.tests /\ y.words = <<>> /\ y.answer = x.answer
    BY <2>2
  <2> QED
    BY <2>1, <2>3, Stopped
<1>5. TodoOf(<<>>) = {}
  BY DEF TodoOf
<1>6. AbsOf(call'[t]) = [kind |-> call[t].kind, tests |-> call[t].tests, todo |-> {},
                         answer |-> call[t].answer]
  BY <1>4, <1>5, Zenon DEF AbsOf
<1>7. AbsCall' = [AbsCall EXCEPT ![t] =
           [kind |-> AbsCall[t].kind, tests |-> AbsCall[t].tests,
            todo |-> {}, answer |-> AbsCall[t].answer]]
  <2>1. AbsCall' = [AbsCall EXCEPT ![t] = AbsOf(call'[t])]
    BY <1>4, OneCall
  <2> QED
    BY <1>3, <1>6, <2>1, Zenon
<1>8. CASE S # {}
  <2>1. AbsCall' = [AbsCall EXCEPT ![t].todo = {}]
    BY <1>7, AbsChanges, Zenon
  <2>2. S \in (SUBSET AbsCall[t].todo) \ {{}} /\ AbsCall[t].todo \ S = {}
    BY <1>3, <1>8
  <2>3. AbsCall' = [AbsCall EXCEPT ![t].todo = AbsCall[t].todo \ S]
    BY <2>1, <2>2, Zenon
  <2>4. \E R \in (SUBSET AbsCall[t].todo) \ {{}} :
          AbsCall' = [AbsCall EXCEPT ![t].todo = @ \ R] /\ AbsMask' = AbsMask
    BY <1>2, <2>2, <2>3, Zenon
  <2>5. Abstract!GiveUp(t)
    BY <2>4, Mapping, Zenon DEF Abstract!GiveUp, Abstract!Parts, AbsMask
  <2> QED
    BY <2>5 DEF AbsStep
<1>9. CASE S = {}
  <2>1. AbsCall' = [AbsCall EXCEPT ![t] = AbsOf(call[t])]
    BY <1>1, <1>3, <1>7, <1>9, Zenon DEF AbsOf
  <2>2. AbsCall' = AbsCall
    BY <2>1 DEF AbsCall
  <2> QED
    BY <1>2, <2>2 DEF AbsStep
<1> QED
  BY <1>8, <1>9

\* A call returns when nothing is left to do.
LEMMA ReturnAbs ==
  ASSUME MaskInv, NEW t \in Threads, Return(t)
  PROVE  AbsStep
<1>1. /\ pc[t] = "load" /\ call[t].words = <<>> /\ call' = [call EXCEPT ![t] = NoCall]
      /\ AbsMask' = AbsMask
  BY DEF Return, At, AbsMask
<1>2. call[t].kind # "none" /\ TypeInv
  BY <1>1 DEF MaskInv, CallInv, CallFits
<1>3. AbsCall[t].kind # "none" /\ AbsCall[t].todo = {}
  BY <1>1, <1>2 DEF AbsCall, AbsOf, TodoOf
<1>4. (\A u \in Threads \ {t} : call'[u] = call[u]) /\ call'[t] = NoCall
  BY <1>1, <1>2 DEF TypeInv
<1>5. AbsCall' = [AbsCall EXCEPT ![t] = AbsOf(NoCall)]
  BY <1>4, OneCall
<1>6. AbsOf(NoCall) = Abstract!NoCall
  <2>1. TodoOf(<<>>) = {}
    BY DEF TodoOf
  <2>2. NoCall.kind = "none" /\ NoCall.tests = FALSE /\ NoCall.words = <<>> /\ NoCall.answer = FALSE
    BY DEF NoCall
  <2> QED
    BY <2>1, <2>2, Zenon DEF AbsOf, Abstract!NoCall
<1>7. AbsCall' = [AbsCall EXCEPT ![t] = Abstract!NoCall]
  BY <1>5, <1>6
<1>8. Abstract!End(t)
  BY <1>1, <1>3, <1>7, Mapping, Zenon DEF Abstract!End, AbsMask
<1> QED
  BY <1>8 DEF AbsStep

\* A call that finds nothing to do in the word it loads is done with it.
LEMMA LoadAbs ==
  ASSUME MaskInv, NEW t \in Threads, Load(t)
  PROVE  AbsStep
<1>1. TypeInv /\ call[t].words # <<>> /\ UNCHANGED bits /\ AbsMask' = AbsMask
  BY DEF MaskInv, Load, AbsMask
<1>2. PICK w : w = bits[Word(t).at]
  OBVIOUS
<1>3. PICK m : m = Word(t).mask
  OBVIOUS
<1>4. AbsMask = {c \in Cids : c % W \in bits[WordIndex(c)]}
  BY <1>1, InMask
<1>5. /\ Here(t) = {c \in Cids : WordIndex(c) = Word(t).at /\ c % W \in m}
      /\ call[t].tests => \E c \in Cids : Here(t) = {c} /\ m = {c % W} /\ Word(t).at = WordIndex(c)
  BY <1>1, <1>3, HereIs
<1>6. CASE Round(t, w).done /\ WordDone(t, call[t].kind = "set")
  <2>1. call[t].kind = "set" => m \subseteq w
    BY <1>3, <1>6 DEF Round, __cmask_word_or
  <2>2. call[t].kind # "set" => m \cap w = {}
    BY <1>3, <1>6 DEF Round, __cmask_word_andnot
  <2>3. \A c \in Here(t) : c \in Cids /\ c % W \in m /\ (c \in AbsMask <=> c % W \in w)
    BY <1>2, <1>4, <1>5
  <2>4. CASE call[t].kind = "set"
    <3>1. Here(t) \subseteq AbsMask
      BY <2>1, <2>3, <2>4
    <3>2. AbsMask' = AbsMask \cup Here(t)
      BY <1>1, <3>1
    <3>3. WordDone(t, TRUE)
      <4>1. (call[t].kind = "set") = TRUE
        BY <2>4
      <4> QED
        BY <1>6, <4>1, Zenon
    <3> QED
      BY <1>1, <2>4, <3>1, <3>2, <3>3, ApplyAbs
  <2>5. CASE call[t].kind # "set"
    <3>1. AbsMask' = AbsMask \ Here(t)
      BY <1>1, <2>2, <2>3, <2>5
    <3>2. call[t].tests => ~ (Here(t) \subseteq AbsMask)
      BY <1>5, <2>2, <2>3, <2>5
    <3>3. WordDone(t, FALSE)
      <4>1. (call[t].kind = "set") = FALSE
        BY <2>5
      <4> QED
        BY <1>6, <4>1, Zenon
    <3> QED
      BY <1>1, <2>5, <3>1, <3>2, <3>3, ApplyAbs
  <2> QED
    BY <2>4, <2>5
<1>7. CASE UNCHANGED call
  BY <1>1, <1>7 DEF AbsStep, AbsCall
<1> QED
  BY <1>2, <1>6, <1>7 DEF Load

\* The instant of a swap is the instant of the operation: the word is what the
\* thread loaded, so no change of another thread is lost.
LEMMA CasAbs ==
  ASSUME MaskInv, NEW t \in Threads, Cas(t)
  PROVE  AbsStep
<1>1. TypeInv /\ pc[t] = "cas" /\ call[t].words # <<>> /\ ~ Round(t, old[t]).done
  BY DEF MaskInv, RoundInv, Cas, At
<1>2. PICK w : w = bits[Word(t).at]
  OBVIOUS
<1>3. PICK m : m = Word(t).mask
  OBVIOUS
<1>4. AbsMask = {c \in Cids : c % W \in bits[WordIndex(c)]}
  BY <1>1, InMask
<1>5. /\ Here(t) = {c \in Cids : WordIndex(c) = Word(t).at /\ c % W \in m}
      /\ call[t].tests => \E c \in Cids : Here(t) = {c} /\ m = {c % W} /\ Word(t).at = WordIndex(c)
  BY <1>1, <1>3, HereIs
<1>6. CASE /\ Swaps(t) /\ bits' = [bits EXCEPT ![Word(t).at] = Round(t, old[t]).new]
           /\ WordDone(t, call[t].kind = "clear")
  <2>1. old[t] = w /\ Word(t).at \in 0 .. LastWord /\ bits \in [0 .. LastWord -> SUBSET (0 .. W - 1)]
    BY <1>1, <1>2, <1>6, WordType DEF Swaps, TypeInv
  <2>2. TypeInv'
    <3>1. MaskInv'
      BY CasStep
    <3> QED
      BY <3>1 DEF MaskInv
  <2>3. AbsMask' = {c \in Cids : c % W \in bits'[WordIndex(c)]}
    <3>1. DOMAIN bits' = 0 .. LastWord
      BY <2>2 DEF TypeInv
    <3>2. \A c \in Cids : WordIndex(c) \in 0 .. LastWord
      BY WordOf
    <3> QED
      BY <3>1, <3>2 DEF AbsMask, CidsOf
  <2>4. \A c \in Cids : WordIndex(c) \in 0 .. LastWord
    BY WordOf
  <2>5. PICK n : n = Round(t, old[t]).new
    OBVIOUS
  <2>6. \A c \in Cids : bits'[WordIndex(c)] = IF WordIndex(c) = Word(t).at THEN n ELSE bits[WordIndex(c)]
    BY <1>6, <2>1, <2>4, <2>5
  <2>7. \A c \in Cids : WordIndex(c) = Word(t).at => (c \in AbsMask <=> c % W \in w)
    BY <1>2, <1>4
  <2>8. CASE call[t].kind = "set"
    <3>1. n = w \cup m /\ ~ (m \subseteq w)
      BY <1>1, <1>3, <2>1, <2>5, <2>8 DEF Round, __cmask_word_or
    <3>2. AbsMask' = AbsMask \cup Here(t)
      BY <1>2, <1>4, <1>5, <2>3, <2>6, <3>1
    <3>3. call[t].tests => ~ (Here(t) \subseteq AbsMask)
      BY <1>5, <2>7, <3>1
    <3>4. WordDone(t, FALSE)
      <4>1. (call[t].kind = "clear") = FALSE
        BY <2>8
      <4> QED
        BY <1>6, <4>1, Zenon
    <3> QED
      BY <1>1, <2>8, <3>2, <3>3, <3>4, ApplyAbs
  <2>9. CASE call[t].kind # "set"
    <3>1. n = w \ m /\ m \cap w # {}
      BY <1>1, <1>3, <2>1, <2>5, <2>9 DEF Round, __cmask_word_andnot
    <3>2. AbsMask' = AbsMask \ Here(t)
      BY <1>2, <1>4, <1>5, <2>3, <2>6, <3>1
    <3>3. call[t].tests => Here(t) \subseteq AbsMask
      BY <1>5, <2>7, <3>1
    <3>4. call[t].kind = "clear"
      <4>1. call[t].kind \in {"none", "set", "clear"}
        BY <1>1, CallParts DEF TypeInv
      <4>2. call[t].kind # "none"
        BY <1>1 DEF MaskInv, CallInv, CallFits
      <4> QED
        BY <2>9, <4>1, <4>2
    <3>5. WordDone(t, TRUE)
      <4>1. (call[t].kind = "clear") = TRUE
        BY <3>4
      <4> QED
        BY <1>6, <4>1, Zenon
    <3> QED
      BY <1>1, <2>9, <3>2, <3>3, <3>5, ApplyAbs
  <2> QED
    BY <2>8, <2>9
<1>7. CASE UNCHANGED <<bits, call>>
  BY <1>7 DEF AbsStep, AbsCall, AbsMask
<1> QED
  BY <1>6, <1>7 DEF Cas

\* The operations of cid.bpf.h are atomic for every cid, for any number of threads,
\* any width of a word and any active range: a bit another thread changed between
\* the load and the swap is never lost, nothing outside of a call changes, and a
\* test has the answer of the instant of its change.
THEOREM MaskImplementsAtomicMask == Spec => ImplementsAtomicMask
<1>1. Init => Abstract!Init
  <2> SUFFICES ASSUME Init PROVE Abstract!Init
    OBVIOUS
  <2>1. AbsMask = {}
    BY DEF Init, AbsMask, CidsOf
  <2>2. AbsCall = [t \in Threads |-> Abstract!NoCall]
    <3>1. AbsOf(NoCall) = Abstract!NoCall
      <4>1. TodoOf(<<>>) = {}
        BY DEF TodoOf
      <4>2. NoCall.kind = "none" /\ NoCall.tests = FALSE /\ NoCall.words = <<>> /\ NoCall.answer = FALSE
        BY DEF NoCall
      <4> QED
        BY <4>1, <4>2, Zenon DEF AbsOf, Abstract!NoCall
    <3>2. \A t \in Threads : call[t] = NoCall
      BY DEF Init
    <3> QED
      BY <3>1, <3>2 DEF AbsCall
  <2> QED
    BY <2>1, <2>2, Mapping, Zenon DEF Abstract!Init, AbsMask
<1>2. MaskInv /\ [Next]_vars => [Abstract!Next]_(Abstract!vars)
  <2> SUFFICES ASSUME MaskInv, [Next]_vars PROVE [Abstract!Next]_(Abstract!vars)
    OBVIOUS
  <2>1. ASSUME NEW t \in Threads, Calls(t) PROVE AbsStep
    <3>1. PICK words : Begins(t, words)
      BY <2>1, CallsBegin
    <3>2. Abstract!Begin(t)
      BY <3>1, BeginAbs
    <3> QED
      BY <3>2 DEF AbsStep
  <2>2. ASSUME UNCHANGED vars PROVE AbsStep
    BY <2>2 DEF AbsStep, AbsMask, AbsCall, vars
  <2>3. AbsStep
    BY <2>1, <2>2, LoadAbs, CasAbs, GiveUpAbs, StopAbs, ReturnAbs DEF Next
  <2>4. CASE AbsMask' = AbsMask /\ AbsCall' = AbsCall
    <3>1. UNCHANGED Abstract!vars
      BY <2>4, Mapping, Zenon DEF Abstract!vars, AbsMask
    <3> QED
      BY <3>1
  <2> QED
    BY <2>3, <2>4 DEF AbsStep, Abstract!Next
<1> QED
  BY <1>1, <1>2, MaskInductive, PTL DEF Spec, ImplementsAtomicMask, Abstract!Spec
=============================================================================
