--------------------------------- MODULE Cmask ---------------------------------
(***************************************************************************)
(* The cmasks of include/scx/cid.bpf.h: bitmaps over a range of cids that  *)
(* need not begin or end at a word.  The words at both ends then have      *)
(* padding bits, which many of the operations rely on being zero.          *)
(*                                                                         *)
(* A word is the set of the positions of its set bits; W is the number of  *)
(* bits, 64 in the code.  cids are small: sums of them do not overflow.    *)
(* The operations here are those of one owner; CmaskAtomic has the atomic  *)
(* ones under concurrency.  It also has the case that the runtime ends a   *)
(* loop early (can_loop); the loops here are assumed to run to their end.  *)
(***************************************************************************)
EXTENDS Integers, FiniteSets, FiniteSetsExt

CONSTANTS
  W,                \* bits of a word
  CMASK_MAX_WORDS,  \* bound of the loops over the words of a mask
  Masks,            \* the masks
  Scratch,          \* the masks that change as a whole
  ALLOC_CIDS,       \* cids each of them has storage for
  MaxBase,          \* bound on where a range begins
  cpu_to_cid        \* cpu -> its cid

Bits == 0 .. W - 1

BIT(n)        == {n}
GENMASK(h, l) == l .. h

\* Variant: no word for a range that does not begin at a word.
CMASK_NR_WORDS_Tight(nr) == (nr + W - 1) \div W

CMASK_NR_WORDS(nr) == (nr + W - 1) \div W + 1

ASSUME CmaskAssumption ==
  /\ W \in Nat \ {0} /\ ALLOC_CIDS \in Nat \ {0} /\ MaxBase \in Nat
  /\ CMASK_MAX_WORDS \in Nat /\ CMASK_MAX_WORDS >= CMASK_NR_WORDS(ALLOC_CIDS)
  /\ Scratch \subseteq Masks
  /\ \A cpu \in DOMAIN cpu_to_cid : cpu_to_cid[cpu] \in Int

VARIABLES
  mask,     \* name -> struct scx_cmask
  rotor,    \* cmask_distribute_rotor of this cpu
  picked,   \* history: name -> the cids picked from it in a row
  repeated  \* history: a cid was picked again before all the others

vars == <<mask, rotor, picked, repeated>>

-----------------------------------------------------------------------------
(* Ranges and words.  Words are counted from cid 0 unless said otherwise.  *)

Shift(S, w) == {w * W + b : b \in S}     \* the cids of a word
wbase(m)    == m.base \div W
cmask_end(m) == m.base + m.nr_cids

Contains(cid, m) == cid >= m.base /\ cid < cmask_end(m)

\* Word w of the mask.
Word(m, w) == m.bits[w - wbase(m)]

\* The words a loop over [lo, hi) visits.
WordsOf(lo, hi) ==
  lo \div W .. Min({(hi - 1) \div W, lo \div W + CMASK_MAX_WORDS - 1})

\* The bits of word w that are in [lo, hi).
RangeMask(w, lo, hi) ==
  GENMASK(IF w = (hi - 1) \div W THEN (hi - 1) % W ELSE W - 1,
          IF w = lo \div W THEN lo % W ELSE 0)

\* [start, start + nr) clamped to the range of the mask.
ClampLo(m, start)     == Max({start, m.base})
ClampHi(m, start, nr) == Min({start + nr, cmask_end(m)})

\* The mask with word w replaced by F(w) for the words of [lo, hi).
MapWords(m, lo, hi, F(_)) ==
  IF lo >= hi THEN m
  ELSE [m EXCEPT !.bits = [k \in DOMAIN @ |->
          IF k + wbase(m) \in WordsOf(lo, hi) THEN F(k + wbase(m)) ELSE @[k]]]

cmask_nr_words(m) ==
  IF m.nr_cids = 0 THEN 0 ELSE (cmask_end(m) - 1) \div W - wbase(m) + 1

\* Word k, counted from the word of the base.
cmask_word(m, k) == IF k >= cmask_nr_words(m) THEN {} ELSE m.bits[k]

cmask_range_word(m, k, start, nr) ==
  LET wlo == (wbase(m) + k) * W
      lo == Max({start, wlo})
      hi == Min({start + nr, wlo + W})
  IN IF lo >= hi THEN {} ELSE GENMASK(hi - wlo - 1, lo - wlo)

-----------------------------------------------------------------------------
(* Changes                                                                 *)

\* With more cids than storage, an error is reported and m left alone.
cmask_init(m, base, nr, alloc) ==
  IF nr > alloc THEN m
  ELSE [base |-> base, nr_cids |-> nr, alloc_words |-> CMASK_NR_WORDS(alloc),
        bits |-> [k \in 0 .. CMASK_NR_WORDS(alloc) - 1 |-> {}]]

\* Variant: only the first word is cleared.
cmask_reframe_Head(m, base, nr) ==
  IF CMASK_NR_WORDS(nr) > m.alloc_words THEN m
  ELSE [m EXCEPT !.base = base, !.nr_cids = nr,
          !.bits = IF nr = 0 THEN @ ELSE [@ EXCEPT ![0] = {}]]

cmask_reframe(m, base, nr) ==
  LET last_word == ((base % W) + nr - 1) \div W IN
  IF CMASK_NR_WORDS(nr) > m.alloc_words THEN m
  ELSE [m EXCEPT !.base = base, !.nr_cids = nr,
          !.bits = IF nr = 0 THEN @ ELSE [@ EXCEPT ![0] = {}, ![last_word] = {}]]

cmask_set(cid, m) ==
  IF ~ Contains(cid, m) THEN m
  ELSE [m EXCEPT !.bits[cid \div W - wbase(m)] = @ \cup BIT(cid % W)]

cmask_clear(cid, m) ==
  IF ~ Contains(cid, m) THEN m
  ELSE [m EXCEPT !.bits[cid \div W - wbase(m)] = @ \ BIT(cid % W)]

cmask_set_range(m, start, nr) ==
  LET lo == ClampLo(m, start)
      hi == ClampHi(m, start, nr)
      Or(w) == Word(m, w) \cup RangeMask(w, lo, hi)
  IN MapWords(m, lo, hi, Or)

cmask_clear_range(m, start, nr) ==
  LET lo == ClampLo(m, start)
      hi == ClampHi(m, start, nr)
      AndNot(w) == Word(m, w) \ RangeMask(w, lo, hi)
  IN MapWords(m, lo, hi, AndNot)

\* All the words the range could span.
cmask_zero(m) ==
  [m EXCEPT !.bits = [k \in DOMAIN @ |->
     IF k < CMASK_NR_WORDS(m.nr_cids) /\ k < CMASK_MAX_WORDS THEN {} ELSE @[k]]]

\* Whole words first, then the padding of the first and of the last one.
cmask_fill(m) ==
  LET n == cmask_nr_words(m)
      head == m.base % W
      tail == cmask_end(m) % W
      Pad(k) == (IF k = 0 THEN 0 .. head - 1 ELSE {}) \cup
                (IF k = n - 1 /\ tail # 0 THEN tail .. W - 1 ELSE {})
  IN [m EXCEPT !.bits = [k \in DOMAIN @ |->
        IF k < n /\ k < CMASK_MAX_WORDS THEN Bits \ Pad(k) ELSE @[k]]]

op_word(dv, sv, op) ==
  CASE op = "AND" -> dv \cap sv
    [] op = "OR" -> dv \cup sv
    [] op = "ANDNOT" -> dv \ sv
    [] op = "COPY" -> sv

\* Variant: the words of src are counted from the first word of dst.
cmask_op_OneBase(dst, src, op) ==
  LET lo == Max({dst.base, src.base})
      hi == Min({cmask_end(dst), cmask_end(src)})
      New(w) == LET msk == RangeMask(w, lo, hi)
                    sv == src.bits[w - wbase(dst)]
                IN (Word(dst, w) \ msk) \cup (op_word(Word(dst, w), sv, op) \cap msk)
  IN MapWords(dst, lo, hi, New)

\* cmask_and, cmask_or, cmask_copy and cmask_andnot.
cmask_op(dst, src, op) ==
  LET lo == Max({dst.base, src.base})
      hi == Min({cmask_end(dst), cmask_end(src)})
      New(w) == LET msk == RangeMask(w, lo, hi) IN
                (Word(dst, w) \ msk) \cup (op_word(Word(dst, w), Word(src, w), op) \cap msk)
  IN MapWords(dst, lo, hi, New)

\* cmask_set for every cpu that has a cid; it only adds bits, so that the words
\* are the unions of what the calls set.
cmask_from_cpumask(m, cpus) ==
  LET zero == cmask_zero(m)
      cids == {cpu_to_cid[cpu] : cpu \in {x \in cpus : cpu_to_cid[x] >= 0}}
  IN [zero EXCEPT !.bits = [k \in DOMAIN @ |->
        @[k] \cup UNION {cmask_set(cid, zero).bits[k] : cid \in cids}]]

-----------------------------------------------------------------------------
(* Questions                                                               *)

cmask_test(cid, m) == Contains(cid, m) /\ cid % W \in Word(m, cid \div W)

cmask_full_range(m, start, nr) ==
  LET lo == ClampLo(m, start)
      hi == ClampHi(m, start, nr)
  IN lo >= hi \/ \A w \in WordsOf(lo, hi) : RangeMask(w, lo, hi) \subseteq Word(m, w)

\* The words the range spans, counted from the word of the base.
NrOwnWords(m) == Min({cmask_nr_words(m), CMASK_MAX_WORDS})
OwnWords(m)   == 0 .. NrOwnWords(m) - 1

cmask_empty(m)  == \A k \in OwnWords(m) : m.bits[k] = {}

\* The sum of the bits of the words up to the last.
cmask_weight(m) ==
  LET n == NrOwnWords(m)
      count[k \in 0 .. n] == IF k = 0 THEN 0 ELSE count[k - 1] + Cardinality(m.bits[k - 1])
  IN count[n]

cmask_equal(a, b) ==
  /\ a.base = b.base /\ a.nr_cids = b.nr_cids
  /\ \A k \in OwnWords(a) : a.bits[k] = b.bits[k]

ctzll(word) == Min(word)

\* The search of the next_ functions: the first cid at or after start in the
\* words W_(w) of [start, hi), none if that is hi or more.
Search(start, hi, none, Wd(_)) ==
  LET From(w) == IF w = start \div W THEN Wd(w) \cap GENMASK(W - 1, start % W) ELSE Wd(w)
      hits == {w \in WordsOf(start, hi) : From(w) # {}}
      found == Min(hits) * W + ctzll(From(Min(hits)))
  IN IF hits = {} \/ found >= hi THEN none ELSE found

cmask_next_set(m, cid) ==
  LET start == ClampLo(m, cid)
      Own(w) == Word(m, w)
  IN IF start >= cmask_end(m) THEN cmask_end(m)
     ELSE Search(start, cmask_end(m), cmask_end(m), Own)

\* Over the masks of a set, bounded by all their ranges.
next_and(ms, cid, none) ==
  LET lo == Max({m.base : m \in ms})
      hi == Min({cmask_end(m) : m \in ms})
      start == Max({cid, lo})
      All(w) == {b \in Bits : \A m \in ms : b \in Word(m, w)}
  IN IF lo >= hi \/ start >= hi THEN none ELSE Search(start, hi, none, All)

cmask_next_and_set(a, b, start)     == next_and({a, b}, start, cmask_end(a))
cmask_next_and2_set(a, b, c, start) == next_and({a, b, c}, start, cmask_end(a))

\* From start to the end of the range of m, then from its base up to start.
wrap(m, start, Next_(_)) ==
  IF Next_(start) < cmask_end(m) \/ start <= m.base THEN Next_(start)
  ELSE IF Next_(m.base) < start THEN Next_(m.base) ELSE cmask_end(m)

cmask_next_set_wrap(m, start) == wrap(m, start, LAMBDA s : cmask_next_set(m, s))
cmask_next_and_set_wrap(a, b, start) ==
  wrap(a, start, LAMBDA s : cmask_next_and_set(a, b, s))
cmask_next_and2_set_wrap(a, b, c, start) ==
  wrap(a, start, LAMBDA s : cmask_next_and2_set(a, b, c, s))

\* Variant: no look at what a has above the range of b.
cmask_subset_NoAbove(a, b) ==
  LET lo == Max({a.base, b.base})
      hi == Min({cmask_end(a), cmask_end(b)})
      below == /\ a.base < b.base
               /\ cmask_next_set(a, a.base) < Min({b.base, cmask_end(a)})
  IN /\ ~ below
     /\ lo < hi => \A w \in WordsOf(lo, hi) : Word(a, w) \subseteq Word(b, w)

\* Every set bit of a is set in b: nothing of a beside the range of b, then
\* the words both have.
cmask_subset(a, b) ==
  LET lo == Max({a.base, b.base})
      hi == Min({cmask_end(a), cmask_end(b)})
      below == /\ a.base < b.base
               /\ cmask_next_set(a, a.base) < Min({b.base, cmask_end(a)})
      above == /\ cmask_end(a) > cmask_end(b)
               /\ cmask_next_set(a, Max({a.base, cmask_end(b)})) < cmask_end(a)
  IN /\ ~ below /\ ~ above
     /\ lo < hi => \A w \in WordsOf(lo, hi) : Word(a, w) \subseteq Word(b, w)

cmask_intersects(a, b) ==
  LET lo == Max({a.base, b.base})
      hi == Min({cmask_end(a), cmask_end(b)})
  IN lo < hi /\ \E w \in WordsOf(lo, hi) :
       Word(a, w) \cap Word(b, w) \cap RangeMask(w, lo, hi) # {}

-----------------------------------------------------------------------------
(* The masks                                                               *)

Bases == 0 .. MaxBase
Sizes == 0 .. ALLOC_CIDS
Cids  == 0 .. MaxBase + ALLOC_CIDS

Blank == [base |-> 0, nr_cids |-> 0, alloc_words |-> 0, bits |-> <<>>]

Init ==
  /\ mask = [n \in Masks |-> cmask_init(Blank, MaxBase, ALLOC_CIDS - 1, ALLOC_CIDS)]
  /\ rotor = 0
  /\ picked = [n \in Masks |-> {}]
  /\ repeated = FALSE

Becomes(n, m) ==
  /\ mask' = [mask EXCEPT ![n] = m]
  /\ picked' = [x \in Masks |-> {}]
  /\ UNCHANGED <<rotor, repeated>>

InitMask(n) == \E base \in Bases, nr \in Sizes \cup {ALLOC_CIDS + 1} :
  Becomes(n, cmask_init(mask[n], base, nr, ALLOC_CIDS))
Reframe(n) == \E base \in Bases, nr \in Sizes \cup {ALLOC_CIDS + W} :
  Becomes(n, cmask_reframe(mask[n], base, nr))

Set(n)        == \E c \in Cids : Becomes(n, cmask_set(c, mask[n]))
Clear(n)      == \E c \in Cids : Becomes(n, cmask_clear(c, mask[n]))
SetRange(n)   == \E c \in Cids, nr \in Sizes : Becomes(n, cmask_set_range(mask[n], c, nr))
ClearRange(n) == \E c \in Cids, nr \in Sizes : Becomes(n, cmask_clear_range(mask[n], c, nr))
Zero(n)       == Becomes(n, cmask_zero(mask[n]))
Fill(n)       == Becomes(n, cmask_fill(mask[n]))
FromCpumask(n) == \E cpus \in SUBSET DOMAIN cpu_to_cid :
  Becomes(n, cmask_from_cpumask(mask[n], cpus))
Combine(d, s) == \E op \in {"AND", "OR", "COPY", "ANDNOT"} :
  Becomes(d, cmask_op(mask[d], mask[s], op))

\* Variant: the search begins at the last pick.
RotorStart_Same == rotor

RotorStart == rotor + 1

\* A pick from the mask n.
cmask_any_distribute(n) ==
  LET pick == cmask_next_set_wrap(mask[n], RotorStart)
      choice == {c \in Cids : cmask_test(c, mask[n])}
  IN
  /\ rotor' = IF pick < cmask_end(mask[n]) THEN pick ELSE rotor
  /\ picked' = [x \in Masks |->
       IF x # n \/ choice = {} THEN {}
       ELSE IF picked[n] = choice THEN {pick} ELSE picked[n] \cup {pick}]
  /\ repeated' = (repeated \/ (pick \in picked[n] /\ picked[n] # choice))
  /\ UNCHANGED mask

\* A pick that the mask o has too; it moves the same rotor.
cmask_any_and_distribute(n, o) ==
  LET pick == cmask_next_and_set_wrap(mask[n], mask[o], RotorStart) IN
  /\ rotor' = IF pick < cmask_end(mask[n]) THEN pick ELSE rotor
  /\ picked' = [x \in Masks |-> {}]
  /\ UNCHANGED <<mask, repeated>>

Next ==
  \/ \E n \in Masks : Set(n) \/ Clear(n) \/ cmask_any_distribute(n)
  \/ \E n \in Scratch : SetRange(n) \/ ClearRange(n) \/ Zero(n) \/ Fill(n)
                        \/ FromCpumask(n) \/ InitMask(n) \/ Reframe(n)
  \/ \E d \in Scratch, s \in Masks : Combine(d, s) \/ cmask_any_and_distribute(d, s)

Spec == Init /\ [][Next]_vars

-----------------------------------------------------------------------------
(* Properties                                                              *)

RangeOf(m) == m.base .. cmask_end(m) - 1
SetOf(m)   == {c \in RangeOf(m) : cmask_test(c, m)}

\* Every variable has its type; the words of a range are within the storage.
TypeOK ==
  /\ \A n \in Masks :
       /\ mask[n].bits \in [0 .. mask[n].alloc_words - 1 -> SUBSET Bits]
       /\ cmask_nr_words(mask[n]) <= mask[n].alloc_words
  /\ rotor \in Cids

\* "Padding bits are kept clear by all cmask helpers": a bit of the words of the
\* range that is set belongs to a cid of the range.
PaddingClear ==
  \A n \in Masks : LET m == mask[n] IN
    \A k \in OwnWords(m) : Shift(m.bits[k], k + wbase(m)) \subseteq RangeOf(m)

FirstOf(S, none) == IF S = {} THEN none ELSE Min(S)

\* The first of S at or after start, from the beginning after the end.
FirstAround(S, start, none) ==
  FirstOf(IF \E c \in S : c >= start THEN {c \in S : c >= start} ELSE S, none)

\* The changes of one mask a: they stay within its range.
ChangesOf(a) ==
  LET A == SetOf(a)
      R == RangeOf(a)
  IN
  /\ SetOf(cmask_zero(a)) = {} /\ SetOf(cmask_fill(a)) = R
  /\ \A c \in Cids :
       /\ SetOf(cmask_set(c, a)) = A \cup ({c} \cap R)
       /\ SetOf(cmask_clear(c, a)) = A \ {c}
       /\ \A nr \in Sizes :
            /\ SetOf(cmask_set_range(a, c, nr)) = A \cup ((c .. c + nr - 1) \cap R)
            /\ SetOf(cmask_clear_range(a, c, nr)) = A \ (c .. c + nr - 1)
  /\ \A cpus \in SUBSET DOMAIN cpu_to_cid :
       SetOf(cmask_from_cpumask(a, cpus)) = {cpu_to_cid[cpu] : cpu \in cpus} \cap R

\* The changes of a by another mask b: they stay within both ranges.
ChangesBy(a, b) ==
  LET A == SetOf(a)
      B == SetOf(b)
      R == RangeOf(a)
      both == R \cap RangeOf(b)
      Op(op) == SetOf(cmask_op(a, b, op))
  IN
  /\ Op("AND") = (A \ both) \cup (A \cap B)
  /\ Op("OR") = A \cup (B \cap R)
  /\ Op("COPY") = (A \ both) \cup (B \cap R)
  /\ Op("ANDNOT") = A \ B

\* What the word-wise changes do is what they mean for the sets, for one mask and
\* for two with any frames.
ChangesExact ==
  \A x \in Masks : ChangesOf(mask[x]) /\ \A y \in Masks : ChangesBy(mask[x], mask[y])

\* The scans of one mask.
ScansOf(a) ==
  LET A == SetOf(a) IN
  /\ cmask_empty(a) <=> A = {}
  /\ cmask_weight(a) = Cardinality(A)
  /\ \A s \in Cids :
       /\ cmask_next_set(a, s) = FirstOf({c \in A : c >= s}, cmask_end(a))
       /\ cmask_next_set_wrap(a, s) = FirstAround(A, s, cmask_end(a))
       /\ \A nr \in Sizes :
            /\ cmask_full_range(a, s, nr) <=> (s .. s + nr - 1) \cap RangeOf(a) \subseteq A
            /\ A \cap (s .. s + nr - 1) =
                 UNION {Shift(cmask_word(a, k) \cap cmask_range_word(a, k, s, nr), k + wbase(a))
                          : k \in 0 .. a.alloc_words}

\* The scans of two masks, and of two and a third one.
ScansOfBoth(a, b) ==
  LET A == SetOf(a)
      B == SetOf(b)
      c == cmask_fill(cmask_init(Blank, 1, 2, 3))
      S == A \cap B \cap RangeOf(c)
  IN
  /\ cmask_equal(a, b) <=> (RangeOf(a) = RangeOf(b) /\ A = B
                            /\ a.base = b.base)
  /\ cmask_subset(a, b) <=> A \subseteq B
  /\ cmask_intersects(a, b) <=> A \cap B # {}
  /\ \A s \in Cids :
       /\ cmask_next_and_set(a, b, s) = FirstOf({d \in A \cap B : d >= s}, cmask_end(a))
       /\ cmask_next_and_set_wrap(a, b, s) = FirstAround(A \cap B, s, cmask_end(a))
       /\ cmask_next_and2_set(a, b, c, s) = FirstOf({d \in S : d >= s}, cmask_end(a))
       /\ cmask_next_and2_set_wrap(a, b, c, s) = FirstAround(S, s, cmask_end(a))

\* What the word-wise scans say is what holds of the sets.
ScansExact ==
  \A x \in Masks : ScansOf(mask[x]) /\ \A y \in Masks : ScansOfBoth(mask[x], mask[y])

\* "Successive picks rotate through the set cids": from a mask that does not
\* change, none is picked again before all the others were.
Rotates == ~ repeated

===============================================================================
