----------------------------- MODULE CmaskProofs -----------------------------
(***************************************************************************)
(* Proofs about Cmask: for every size of a word, frame and number of masks *)
(* the operations on words are those on sets of cids.                      *)
(*                                                                         *)
(* The words of a mask represent a set of cids if they have the bits of    *)
(* its members and no other (Represents).  One lemma per operation says    *)
(* which set the result represents.                                        *)
(***************************************************************************)
EXTENDS Cmask, WellFoundedInduction, FiniteSetTheorems, TLAPS

-----------------------------------------------------------------------------
(* Words, bits and cids                                                    *)

\* The constants have their types.
LEMMA Positive ==
  /\ W \in Nat /\ W > 0 /\ W - 1 \in Nat /\ ALLOC_CIDS \in Nat /\ ALLOC_CIDS > 0
  /\ MaxBase \in Nat /\ CMASK_MAX_WORDS \in Nat /\ Scratch \subseteq Masks
BY CmaskAssumption

\* A later word has later cids.
LEMMA WordOrder ==
  ASSUME NEW v \in Int, NEW w \in Int, v < w
  PROVE  v * W + W <= w * W
<1>1. PICK d \in Nat : w = v + 1 + d
  <2>1. w - v - 1 \in Nat /\ w = v + 1 + (w - v - 1)
    OBVIOUS
  <2>2. QED
    BY <2>1
<1>2. w * W = v * W + W + d * W
  BY <1>1, Positive
<1>3. d * W >= 0
  BY <1>1, Positive
<1>4. v * W \in Int /\ d * W \in Int
  BY <1>1, Positive
<1>5. QED
  BY <1>2, <1>3, <1>4, Positive

\* Cids are ordered by their words, and by their bits within one.
LEMMA CidOrder ==
  ASSUME NEW v \in Int, NEW a \in Bits, NEW w \in Int, NEW b \in Bits
  PROVE  v * W + a <= w * W + b <=> v < w \/ (v = w /\ a <= b)
<1>1. PICK x \in Int, y \in Int : x = v * W /\ y = w * W
  BY Positive
<1>2. a \in Int /\ b \in Int /\ a >= 0 /\ a < W /\ b >= 0 /\ b < W
  BY Positive DEF Bits
<1>3. CASE v < w
  <2>1. x + W <= y
    BY <1>1, <1>3, WordOrder
  <2>2. QED
    BY <1>1, <1>2, <1>3, <2>1, Positive
<1>4. CASE w < v
  <2>1. y + W <= x
    BY <1>1, <1>4, WordOrder
  <2>2. QED
    BY <1>1, <1>2, <1>4, <2>1, Positive
<1>5. CASE v = w
  BY <1>1, <1>2, <1>5, Positive
<1>6. QED
  BY <1>3, <1>4, <1>5

\* A cid is made up of its word and its bit.
LEMMA Split ==
  ASSUME NEW c \in Nat
  PROVE  \E q \in Nat, r \in Bits : q = c \div W /\ r = c % W /\ c = q * W + r
<1>1. PICK q \in Int, r \in Int : q = c \div W /\ r = c % W
  BY Positive, Z3
<1>2. c = W * q + r /\ 0 <= r /\ r < W
  BY <1>1, Positive, Z3
<1>3. q >= 0
  <2>1. SUFFICES ASSUME q < 0 PROVE FALSE
    BY <1>1
  <2>2. q * W + W <= 0 * W
    BY <2>1, WordOrder
  <2>3. PICK x \in Int : x = q * W /\ x = W * q
    BY <1>1, Positive
  <2>4. QED
    BY <1>2, <2>2, <2>3, Positive
<1>4. q \in Nat /\ r \in Bits
  BY <1>1, <1>2, <1>3, Positive DEF Bits
<1>5. c = q * W + r
  BY <1>1, <1>2, Positive
<1>6. QED
  BY <1>1, <1>4, <1>5, Zenon

\* The word and the bit of a cid are numbers.
LEMMA DivMod ==
  ASSUME NEW c \in Nat
  PROVE  c \div W \in Nat /\ c % W \in Bits
BY Split, Zenon

\* Words are counted evenly.
LEMMA Distribute ==
  ASSUME NEW v \in Int, NEW w \in Int
  PROVE  (v + w) * W = v * W + w * W /\ v * W \in Int
BY Positive

\* It is made up of them in one way only.
LEMMA DivOf ==
  ASSUME NEW w \in Nat, NEW b \in Bits
  PROVE  /\ w * W + b \in Nat
         /\ (w * W + b) \div W = w /\ (w * W + b) % W = b
<1>1. w * W + b \in Nat
  BY Positive DEF Bits
<1>2. PICK c \in Nat : c = w * W + b
  BY <1>1
<1>3. PICK q \in Nat, r \in Bits : q = c \div W /\ r = c % W /\ c = q * W + r
  BY Split
<1>4. q * W + r <= w * W + b /\ w * W + b <= q * W + r
  BY <1>1, <1>2, <1>3
<1>5. (q < w \/ (q = w /\ r <= b)) /\ (w < q \/ (w = q /\ b <= r))
  BY <1>3, <1>4, CidOrder
<1>6. r \in Int /\ b \in Int
  BY Positive DEF Bits
<1>7. QED
  BY <1>1, <1>2, <1>3, <1>5, <1>6

\* The words of cids are ordered as they are.
LEMMA DivMono ==
  ASSUME NEW a \in Nat, NEW c \in Nat, a <= c
  PROVE  a \div W <= c \div W
<1>1. PICK v \in Nat, x \in Bits : v = a \div W /\ a = v * W + x
  BY Split
<1>2. PICK w \in Nat, y \in Bits : w = c \div W /\ c = w * W + y
  BY Split
<1>3. v < w \/ (v = w /\ x <= y)
  BY <1>1, <1>2, CidOrder
<1>4. QED
  BY <1>1, <1>2, <1>3

\* Min and Max of two numbers.
LEMMA MinMaxPair ==
  ASSUME NEW a \in Int, NEW b \in Int
  PROVE  /\ Min({a, b}) = IF a <= b THEN a ELSE b
         /\ Max({a, b}) = IF a >= b THEN a ELSE b
<1>1. Min({a, b}) = IF a <= b THEN a ELSE b
  BY DEF Min
<1>2. Max({a, b}) = IF a >= b THEN a ELSE b
  BY DEF Max
<1>3. QED
  BY <1>1, <1>2

\* A set of numbers has a least one.
LEMMA MinOf ==
  ASSUME NEW S \in SUBSET Nat, S # {}
  PROVE  Min(S) \in S /\ \A x \in S : Min(S) <= x
<1>1. PICK m \in S : \A x \in S : ~ (<<x, m>> \in OpToRel(<, Nat))
  BY NatLessThanWellFounded, WFMin
<1>2. \A x \in S : ~ (x < m)
  BY <1>1, Zenon DEF OpToRel
<1>3. \A x \in S : m <= x
  BY <1>2
<1>4. QED
  BY <1>3, Zenon DEF Min

\* What is below all the others is the least.
LEMMA MinIs ==
  ASSUME NEW S \in SUBSET Nat, NEW m \in S, \A x \in S : m <= x
  PROVE  Min(S) = m
<1>1. Min(S) \in S /\ \A x \in S : Min(S) <= x
  BY MinOf
<1>2. Min(S) <= m /\ m <= Min(S) /\ Min(S) \in Nat /\ m \in Nat
  BY <1>1
<1>3. QED
  BY <1>2

-----------------------------------------------------------------------------
(* Frames                                                                  *)

\* The number of words of n cids from b on.
Span(b, n) == IF n = 0 THEN 0 ELSE (b + n - 1) \div W - b \div W + 1

\* A frame of any kind: its words fit, and the loops reach them all.
Frame(m) ==
  /\ m.base \in Nat /\ m.nr_cids \in Nat /\ m.alloc_words \in Nat
  /\ cmask_nr_words(m) <= m.alloc_words
  /\ cmask_nr_words(m) <= CMASK_MAX_WORDS

IsMask(m) ==
  /\ m = [base |-> m.base, nr_cids |-> m.nr_cids, alloc_words |-> m.alloc_words,
          bits |-> m.bits]
  /\ Frame(m)
  /\ m.bits \in [0 .. m.alloc_words - 1 -> SUBSET Bits]

\* The cid of bit b of word k, counted from the word of the base.
CidAt(m, k, b) == (k + wbase(m)) * W + b

\* The words of m have the bits of the cids of S, and no other.
Represents(m, S) ==
  /\ S \subseteq RangeOf(m)
  /\ \A k \in 0 .. cmask_nr_words(m) - 1, b \in Bits :
       b \in m.bits[k] <=> CidAt(m, k, b) \in S

\* n has the frame of m.
SameFrame(n, m) ==
  /\ IsMask(n)
  /\ n.base = m.base /\ n.nr_cids = m.nr_cids /\ n.alloc_words = m.alloc_words

\* A range spans as many words as CMASK_NR_WORDS says at most.
LEMMA SpanBound ==
  ASSUME NEW b \in Nat, NEW n \in Nat
  PROVE  Span(b, n) \in Nat /\ Span(b, n) <= CMASK_NR_WORDS(n)
<1>1. PICK q \in Nat, r \in Bits : q = (n + W - 1) \div W /\ n + W - 1 = q * W + r
  <2>1. n + W - 1 \in Nat
    BY Positive
  <2>2. QED
    BY <2>1, Split
<1>2. n <= q * W
  <2>1. PICK x \in Int : x = q * W
    BY <1>1, Positive
  <2>2. QED
    BY <1>1, <2>1, Positive DEF Bits
<1>3. CMASK_NR_WORDS(n) = q + 1
  BY <1>1 DEF CMASK_NR_WORDS
<1>4. CASE n = 0
  BY <1>1, <1>3, <1>4 DEF Span
<1>5. CASE n # 0
  <2>1. b + n - 1 \in Nat /\ b <= b + n - 1
    BY <1>5
  <2>2. PICK v \in Nat, x \in Bits : v = b \div W /\ b = v * W + x
    BY Split
  <2>3. PICK w \in Nat, y \in Bits : w = (b + n - 1) \div W /\ b + n - 1 = w * W + y
    BY <2>1, Split
  <2>4. v <= w
    BY <2>1, <2>2, <2>3, DivMono
  <2>5. w <= v + q
    <3>1. w * W + y <= (v + q) * W + x
      <4>1. PICK f \in Int, g \in Int : f = v * W /\ g = q * W
        BY <1>1, <2>2, Positive
      <4>2. (v + q) * W = f + g
        BY <4>1, Distribute
      <4>3. PICK h \in Int : h = w * W
        BY <2>3, Positive
      <4>4. x \in Int /\ y \in Int
        BY Positive DEF Bits
      <4>5. QED
        BY <1>2, <2>2, <2>3, <4>1, <4>2, <4>3, <4>4
    <3>2. QED
      BY <1>1, <2>2, <2>3, <3>1, CidOrder
  <2>6. Span(b, n) = w - v + 1
    BY <1>5, <2>2, <2>3 DEF Span
  <2>7. QED
    BY <1>1, <1>3, <2>2, <2>3, <2>4, <2>5, <2>6
<1>6. QED
  BY <1>4, <1>5

\* More cids need no fewer words.
LEMMA NrWordsMono ==
  ASSUME NEW a \in Nat, NEW b \in Nat, a <= b
  PROVE  CMASK_NR_WORDS(a) \in Nat /\ CMASK_NR_WORDS(a) <= CMASK_NR_WORDS(b)
<1>1. a + W - 1 \in Nat /\ b + W - 1 \in Nat /\ a + W - 1 <= b + W - 1
  BY Positive
<1>2. (a + W - 1) \div W \in Nat /\ (b + W - 1) \div W \in Nat
      /\ (a + W - 1) \div W <= (b + W - 1) \div W
  BY <1>1, DivMod, DivMono
<1>3. QED
  BY <1>2 DEF CMASK_NR_WORDS

\* What is used of a frame.
LEMMA FrameFacts ==
  ASSUME NEW m, IsMask(m)
  PROVE  /\ m.base \in Nat /\ m.nr_cids \in Nat /\ m.alloc_words \in Nat
         /\ wbase(m) \in Nat /\ cmask_end(m) \in Nat /\ cmask_end(m) = m.base + m.nr_cids
         /\ cmask_nr_words(m) \in Nat /\ cmask_nr_words(m) <= m.alloc_words
         /\ cmask_nr_words(m) <= CMASK_MAX_WORDS
         /\ cmask_nr_words(m) <= CMASK_NR_WORDS(m.nr_cids)
         /\ m.nr_cids # 0 => cmask_nr_words(m) = (cmask_end(m) - 1) \div W - wbase(m) + 1
         /\ m.nr_cids = 0 => cmask_nr_words(m) = 0
         /\ NrOwnWords(m) = cmask_nr_words(m)
         /\ OwnWords(m) = 0 .. cmask_nr_words(m) - 1
         /\ m.bits \in [0 .. m.alloc_words - 1 -> SUBSET Bits]
<1>1. m.base \in Nat /\ m.nr_cids \in Nat /\ m.alloc_words \in Nat
      /\ cmask_nr_words(m) <= m.alloc_words /\ cmask_nr_words(m) <= CMASK_MAX_WORDS
      /\ m.bits \in [0 .. m.alloc_words - 1 -> SUBSET Bits]
  BY DEF IsMask, Frame
<1>2. cmask_end(m) \in Nat /\ cmask_end(m) = m.base + m.nr_cids
  BY <1>1 DEF cmask_end
<1>3. wbase(m) \in Nat
  BY <1>1, DivMod DEF wbase
<1>4. cmask_nr_words(m) = Span(m.base, m.nr_cids)
  <2>1. CASE m.nr_cids = 0
    BY <2>1 DEF cmask_nr_words, Span
  <2>2. CASE m.nr_cids # 0
    <3>1. cmask_nr_words(m) = (cmask_end(m) - 1) \div W - wbase(m) + 1
      BY <2>2 DEF cmask_nr_words
    <3>2. Span(m.base, m.nr_cids) = (m.base + m.nr_cids - 1) \div W - m.base \div W + 1
      BY <2>2 DEF Span
    <3>3. wbase(m) = m.base \div W
      BY DEF wbase
    <3>4. cmask_end(m) - 1 = m.base + m.nr_cids - 1
      BY <1>1, <1>2
    <3>5. QED
      BY <3>1, <3>2, <3>3, <3>4, Zenon
  <2>3. QED
    BY <2>1, <2>2
<1>5. cmask_nr_words(m) \in Nat /\ cmask_nr_words(m) <= CMASK_NR_WORDS(m.nr_cids)
  BY <1>1, <1>4, SpanBound
<1>6. NrOwnWords(m) = cmask_nr_words(m)
  BY <1>1, <1>5, MinMaxPair, Positive DEF NrOwnWords
<1>7. OwnWords(m) = 0 .. cmask_nr_words(m) - 1
  BY <1>6 DEF OwnWords
<1>8. /\ m.nr_cids # 0 => cmask_nr_words(m) = (cmask_end(m) - 1) \div W - wbase(m) + 1
      /\ m.nr_cids = 0 => cmask_nr_words(m) = 0
  BY DEF cmask_nr_words
<1>9. QED
  BY <1>1, <1>2, <1>3, <1>5, <1>6, <1>7, <1>8

\* Masks with one frame have one range.
LEMMA FrameSame ==
  ASSUME NEW m, NEW n, n.base = m.base, n.nr_cids = m.nr_cids
  PROVE  /\ wbase(n) = wbase(m) /\ cmask_end(n) = cmask_end(m) /\ RangeOf(n) = RangeOf(m)
         /\ cmask_nr_words(n) = cmask_nr_words(m)
         /\ \A k, b : CidAt(n, k, b) = CidAt(m, k, b)
         /\ \A c : Contains(c, n) = Contains(c, m)
BY DEF wbase, cmask_end, RangeOf, cmask_nr_words, CidAt, Contains

\* The words of the cids of the range are those of the mask.
LEMMA CidWord ==
  ASSUME NEW m, IsMask(m), NEW c \in RangeOf(m)
  PROVE  /\ c \in Nat /\ c \div W \in Nat /\ c % W \in Bits
         /\ c >= m.base /\ c < cmask_end(m) /\ Contains(c, m)
         /\ c \div W - wbase(m) \in 0 .. cmask_nr_words(m) - 1
         /\ c \div W - wbase(m) \in 0 .. m.alloc_words - 1
         /\ CidAt(m, c \div W - wbase(m), c % W) = c
<1>1. /\ m.base \in Nat /\ m.nr_cids \in Nat /\ m.alloc_words \in Nat /\ wbase(m) \in Nat
      /\ cmask_end(m) \in Nat /\ cmask_end(m) = m.base + m.nr_cids
      /\ cmask_nr_words(m) \in Nat /\ cmask_nr_words(m) <= m.alloc_words
      /\ m.nr_cids # 0 => cmask_nr_words(m) = (cmask_end(m) - 1) \div W - wbase(m) + 1
  BY FrameFacts
<1>2. c \in Nat /\ c >= m.base /\ c < cmask_end(m) /\ m.nr_cids # 0
  BY <1>1 DEF RangeOf
<1>3. c \div W \in Nat /\ c % W \in Bits
  BY <1>2, DivMod
<1>4. cmask_end(m) - 1 \in Nat /\ c <= cmask_end(m) - 1 /\ (cmask_end(m) - 1) \div W \in Nat
  BY <1>1, <1>2, DivMod
<1>5. c \div W <= (cmask_end(m) - 1) \div W
  BY <1>2, <1>4, DivMono
<1>6. wbase(m) <= c \div W
  BY <1>1, <1>2, DivMono DEF wbase
<1>7. c \div W - wbase(m) \in 0 .. cmask_nr_words(m) - 1
      /\ c \div W - wbase(m) \in 0 .. m.alloc_words - 1
  BY <1>1, <1>2, <1>3, <1>4, <1>5, <1>6
<1>8. CidAt(m, c \div W - wbase(m), c % W) = c
  <2>1. PICK q \in Nat, r \in Bits : q = c \div W /\ r = c % W /\ c = q * W + r
    BY <1>2, Split
  <2>2. q - wbase(m) + wbase(m) = q
    BY <1>1, <2>1
  <2>3. CidAt(m, q - wbase(m), r) = q * W + r
    BY <2>2, Zenon DEF CidAt
  <2>4. QED
    BY <2>1, <2>3, Zenon
<1>9. Contains(c, m)
  BY <1>2 DEF Contains
<1>10. QED
  BY <1>2, <1>3, <1>7, <1>8, <1>9

\* A cid of the range is tested by its bit.
LEMMA TestBit ==
  ASSUME NEW m, IsMask(m), NEW c \in RangeOf(m)
  PROVE  cmask_test(c, m) <=> c % W \in m.bits[c \div W - wbase(m)]
BY CidWord DEF cmask_test, Word

\* A set that the words represent is the one cmask_test tells.
LEMMA SetOfRepresented ==
  ASSUME NEW m, IsMask(m), NEW S, Represents(m, S)
  PROVE  SetOf(m) = S
<1>1. ASSUME NEW c \in RangeOf(m)
      PROVE  cmask_test(c, m) <=> c \in S
  <2>1. /\ c \div W - wbase(m) \in 0 .. cmask_nr_words(m) - 1 /\ c % W \in Bits
        /\ CidAt(m, c \div W - wbase(m), c % W) = c
    BY CidWord
  <2>2. c % W \in m.bits[c \div W - wbase(m)] <=> c \in S
    BY <2>1, Zenon DEF Represents
  <2>3. QED
    BY <2>2, TestBit
<1>2. S \subseteq RangeOf(m)
  BY DEF Represents
<1>3. QED
  BY <1>1, <1>2 DEF SetOf

\* With its padding clear a mask represents a set.
LEMMA RepresentsSetOf ==
  ASSUME NEW m, IsMask(m),
         \A k \in OwnWords(m) : Shift(m.bits[k], k + wbase(m)) \subseteq RangeOf(m)
  PROVE  Represents(m, SetOf(m))
<1>1. ASSUME NEW k \in 0 .. cmask_nr_words(m) - 1, NEW b \in Bits
      PROVE  b \in m.bits[k] <=> CidAt(m, k, b) \in SetOf(m)
  <2>1. k \in OwnWords(m) /\ wbase(m) \in Nat /\ k + wbase(m) \in Nat
    BY FrameFacts
  <2>2. /\ CidAt(m, k, b) \div W = k + wbase(m)
        /\ CidAt(m, k, b) % W = b
    BY <2>1, DivOf DEF CidAt
  <2>3. k + wbase(m) - wbase(m) = k
    BY <2>1
  <2>4. CidAt(m, k, b) \in RangeOf(m) =>
          (b \in m.bits[k] <=> CidAt(m, k, b) \in SetOf(m))
    <3>1. PICK c : c = CidAt(m, k, b)
      OBVIOUS
    <3>2. c \div W - wbase(m) = k /\ c % W = b
      <4>1. c \div W = k + wbase(m) /\ c % W = b
        BY <2>2, <3>1
      <4>2. PICK q : q = c \div W
        OBVIOUS
      <4>3. q - wbase(m) = k
        BY <2>1, <4>1, <4>2
      <4>4. QED
        BY <4>1, <4>2, <4>3, Zenon
    <3>3. c \in RangeOf(m) => (c % W \in m.bits[c \div W - wbase(m)] <=> c \in SetOf(m))
      BY TestBit, Zenon DEF SetOf
    <3>4. QED
      BY <3>1, <3>2, <3>3, Zenon
  <2>5. b \in m.bits[k] => CidAt(m, k, b) \in RangeOf(m)
    BY <2>1 DEF Shift, CidAt
  <2>6. CidAt(m, k, b) \in SetOf(m) => CidAt(m, k, b) \in RangeOf(m)
    BY DEF SetOf
  <2>7. QED
    BY <2>4, <2>5, <2>6
<1>2. SetOf(m) \subseteq RangeOf(m)
  BY DEF SetOf
<1>3. QED
  BY <1>1, <1>2, Zenon DEF Represents

\* The padding of a mask that represents a set is clear.
LEMMA PaddingOfRepresented ==
  ASSUME NEW m, IsMask(m), NEW S, Represents(m, S), NEW k \in OwnWords(m)
  PROVE  Shift(m.bits[k], k + wbase(m)) \subseteq RangeOf(m)
<1>1. k \in 0 .. cmask_nr_words(m) - 1 /\ k \in 0 .. m.alloc_words - 1
  BY FrameFacts
<1>2. m.bits[k] \subseteq Bits
  BY <1>1, FrameFacts
<1>3. ASSUME NEW b \in m.bits[k]
      PROVE  (k + wbase(m)) * W + b \in RangeOf(m)
  BY <1>1, <1>2, <1>3, Zenon DEF Represents, CidAt
<1>4. QED
  BY <1>3 DEF Shift

-----------------------------------------------------------------------------
(* Changes                                                                 *)

\* New words for a frame.
LEMMA NewBits ==
  ASSUME NEW m, IsMask(m), NEW f \in [0 .. m.alloc_words - 1 -> SUBSET Bits]
  PROVE  /\ SameFrame([m EXCEPT !.bits = f], m)
         /\ [m EXCEPT !.bits = f].bits = f
<1>1. PICK b, n, a, g : m = [base |-> b, nr_cids |-> n, alloc_words |-> a, bits |-> g]
  BY DEF IsMask
<1>2. PICK x : x = [m EXCEPT !.bits = f]
  OBVIOUS
<1>3. x = [base |-> b, nr_cids |-> n, alloc_words |-> a, bits |-> f]
  BY <1>1, <1>2
<1>4. /\ x.base = m.base /\ x.nr_cids = m.nr_cids /\ x.alloc_words = m.alloc_words
      /\ x.bits = f
  BY <1>1, <1>3
<1>5. x = [base |-> x.base, nr_cids |-> x.nr_cids, alloc_words |-> x.alloc_words,
           bits |-> x.bits]
  BY <1>3
<1>6. cmask_nr_words(x) = cmask_nr_words(m)
  BY <1>4, FrameSame
<1>7. Frame(x)
  BY <1>4, <1>6 DEF IsMask, Frame
<1>8. IsMask(x)
  BY <1>4, <1>5, <1>7 DEF IsMask
<1>9. QED
  BY <1>2, <1>4, <1>8, Zenon DEF SameFrame

\* New words that have the bits of the cids of S.
LEMMA NewSet ==
  ASSUME NEW m, IsMask(m), NEW f \in [0 .. m.alloc_words - 1 -> SUBSET Bits],
         NEW S \in SUBSET RangeOf(m),
         \A k \in 0 .. cmask_nr_words(m) - 1, b \in Bits : b \in f[k] <=> CidAt(m, k, b) \in S
  PROVE  SameFrame([m EXCEPT !.bits = f], m) /\ Represents([m EXCEPT !.bits = f], S)
<1>1. PICK x : x = [m EXCEPT !.bits = f]
  OBVIOUS
<1>2. SameFrame(x, m) /\ x.bits = f
  BY <1>1, NewBits, Zenon
<1>3. /\ RangeOf(x) = RangeOf(m) /\ cmask_nr_words(x) = cmask_nr_words(m)
      /\ \A k, b : CidAt(x, k, b) = CidAt(m, k, b)
  BY <1>2, FrameSame, Zenon DEF SameFrame
<1>4. Represents(x, S)
  BY <1>2, <1>3, Zenon DEF Represents
<1>5. QED
  BY <1>1, <1>2, <1>4, Zenon

\* Word k of m and a bit of it, and the cid they stand for.
LEMMA CidAtFacts ==
  ASSUME NEW m, IsMask(m), NEW k \in 0 .. cmask_nr_words(m) - 1, NEW b \in Bits
  PROVE  /\ k \in Nat /\ wbase(m) \in Nat /\ k + wbase(m) \in Nat
         /\ k \in 0 .. m.alloc_words - 1
         /\ k + wbase(m) - wbase(m) = k
         /\ CidAt(m, k, b) \in Nat
         /\ CidAt(m, k, b) = (k + wbase(m)) * W + b
         /\ CidAt(m, k, b) \div W = k + wbase(m)
         /\ CidAt(m, k, b) % W = b
         /\ CidAt(m, k, b) \div W - wbase(m) = k
<1>1. k \in Nat /\ wbase(m) \in Nat /\ k + wbase(m) \in Nat /\ k \in 0 .. m.alloc_words - 1
      /\ k + wbase(m) - wbase(m) = k
  BY FrameFacts
<1>2. /\ CidAt(m, k, b) \in Nat
      /\ CidAt(m, k, b) = (k + wbase(m)) * W + b
      /\ CidAt(m, k, b) \div W = k + wbase(m)
      /\ CidAt(m, k, b) % W = b
  BY <1>1, DivOf, Zenon DEF CidAt
<1>3. CidAt(m, k, b) \div W - wbase(m) = k
  <2>1. PICK q, v : q = CidAt(m, k, b) \div W /\ v = k + wbase(m)
    OBVIOUS
  <2>2. q = v /\ v - wbase(m) = k
    BY <1>1, <1>2, <2>1
  <2>3. QED
    BY <2>1, <2>2, Zenon
<1>4. QED
  BY <1>1, <1>2, <1>3

\* No bits.
LEMMA ZeroSet ==
  ASSUME NEW m, IsMask(m)
  PROVE  SameFrame(cmask_zero(m), m) /\ Represents(cmask_zero(m), {})
<1> DEFINE f == [k \in DOMAIN m.bits |->
                   IF k < CMASK_NR_WORDS(m.nr_cids) /\ k < CMASK_MAX_WORDS THEN {} ELSE m.bits[k]]
<1>1. cmask_zero(m) = [m EXCEPT !.bits = f]
  BY DEF cmask_zero, IsMask
<1>2. DOMAIN m.bits = 0 .. m.alloc_words - 1 /\ m.bits \in [0 .. m.alloc_words - 1 -> SUBSET Bits]
  BY FrameFacts
<1>3. f \in [0 .. m.alloc_words - 1 -> SUBSET Bits]
  BY <1>2
<1>4. ASSUME NEW k \in 0 .. cmask_nr_words(m) - 1 PROVE f[k] = {}
  <2>1. k \in 0 .. m.alloc_words - 1 /\ k \in Nat /\ cmask_nr_words(m) \in Nat
        /\ cmask_nr_words(m) <= CMASK_NR_WORDS(m.nr_cids) /\ cmask_nr_words(m) <= CMASK_MAX_WORDS
    BY FrameFacts
  <2>2. m.nr_cids \in Nat /\ CMASK_NR_WORDS(m.nr_cids) \in Nat
    BY FrameFacts, NrWordsMono
  <2>3. k < CMASK_NR_WORDS(m.nr_cids) /\ k < CMASK_MAX_WORDS
    BY <2>1, <2>2, Positive
  <2>4. QED
    BY <1>2, <2>1, <2>3
<1> HIDE DEF f
<1>5. \A k \in 0 .. cmask_nr_words(m) - 1, b \in Bits : b \in f[k] <=> CidAt(m, k, b) \in {}
  BY <1>4
<1>6. SameFrame([m EXCEPT !.bits = f], m) /\ Represents([m EXCEPT !.bits = f], {})
  BY <1>3, <1>5, NewSet, Zenon
<1>7. QED
  BY <1>1, <1>6, Zenon

\* One bit more.
LEMMA SetSet ==
  ASSUME NEW m, IsMask(m), NEW A, Represents(m, A), NEW c \in Int
  PROVE  /\ SameFrame(cmask_set(c, m), m)
         /\ Represents(cmask_set(c, m), A \cup ({c} \cap RangeOf(m)))
<1>0. /\ A \subseteq RangeOf(m) /\ m.base \in Nat /\ cmask_end(m) \in Nat
      /\ m.bits \in [0 .. m.alloc_words - 1 -> SUBSET Bits]
  BY FrameFacts DEF Represents
<1>1. CASE ~ Contains(c, m)
  <2>1. c \notin RangeOf(m)
    BY <1>0, <1>1 DEF Contains, RangeOf
  <2>2. cmask_set(c, m) = m
    BY <1>1 DEF cmask_set
  <2>3. A \cup ({c} \cap RangeOf(m)) = A
    BY <2>1
  <2>4. QED
    BY <2>2, <2>3, Zenon DEF SameFrame
<1>2. CASE Contains(c, m)
  <2>1. c \in RangeOf(m)
    BY <1>0, <1>2 DEF Contains, RangeOf
  <2>2. PICK i, j : i = c \div W - wbase(m) /\ j = c % W
    OBVIOUS
  <2>3. /\ i \in 0 .. cmask_nr_words(m) - 1 /\ i \in 0 .. m.alloc_words - 1 /\ j \in Bits
        /\ CidAt(m, i, j) = c
    BY <2>1, <2>2, CidWord, Zenon
  <2> DEFINE f == [m.bits EXCEPT ![i] = @ \cup {j}]
  <2>4. cmask_set(c, m) = [m EXCEPT !.bits = f]
    BY <1>2, <2>2 DEF cmask_set, BIT, IsMask
  <2>5. f \in [0 .. m.alloc_words - 1 -> SUBSET Bits]
    BY <1>0, <2>3
  <2>6. ASSUME NEW k \in 0 .. cmask_nr_words(m) - 1, NEW b \in Bits
        PROVE  b \in f[k] <=> CidAt(m, k, b) \in A \cup ({c} \cap RangeOf(m))
    <3>1. b \in f[k] <=> (b \in m.bits[k] \/ (k = i /\ b = j))
      BY <1>0, <2>3, CidAtFacts
    <3>2. b \in m.bits[k] <=> CidAt(m, k, b) \in A
      BY Zenon DEF Represents
    <3>3. (k = i /\ b = j) <=> CidAt(m, k, b) = c
      <4>1. /\ CidAt(m, k, b) \div W - wbase(m) = k
            /\ CidAt(m, k, b) % W = b
        BY CidAtFacts, Zenon
      <4>2. QED
        BY <2>2, <2>3, <4>1, Zenon
    <3>4. QED
      BY <2>1, <3>1, <3>2, <3>3
  <2> HIDE DEF f
  <2>7. PICK S : S = A \cup ({c} \cap RangeOf(m)) /\ S \in SUBSET RangeOf(m)
    BY <1>0
  <2>8. \A k \in 0 .. cmask_nr_words(m) - 1, b \in Bits : b \in f[k] <=> CidAt(m, k, b) \in S
    BY <2>6, <2>7, Zenon
  <2>9. SameFrame([m EXCEPT !.bits = f], m) /\ Represents([m EXCEPT !.bits = f], S)
    BY <2>5, <2>7, <2>8, NewSet, Zenon
  <2>10. QED
    BY <2>4, <2>7, <2>9, Zenon
<1>3. QED
  BY <1>1, <1>2

\* One bit less.
LEMMA ClearSet ==
  ASSUME NEW m, IsMask(m), NEW A, Represents(m, A), NEW c \in Int
  PROVE  SameFrame(cmask_clear(c, m), m) /\ Represents(cmask_clear(c, m), A \ {c})
<1>0. /\ A \subseteq RangeOf(m) /\ m.base \in Nat /\ cmask_end(m) \in Nat
      /\ m.bits \in [0 .. m.alloc_words - 1 -> SUBSET Bits]
  BY FrameFacts DEF Represents
<1>1. CASE ~ Contains(c, m)
  <2>1. c \notin RangeOf(m)
    BY <1>0, <1>1 DEF Contains, RangeOf
  <2>2. cmask_clear(c, m) = m
    BY <1>1 DEF cmask_clear
  <2>3. A \ {c} = A
    BY <1>0, <2>1
  <2>4. QED
    BY <2>2, <2>3, Zenon DEF SameFrame
<1>2. CASE Contains(c, m)
  <2>1. c \in RangeOf(m)
    BY <1>0, <1>2 DEF Contains, RangeOf
  <2>2. PICK i, j : i = c \div W - wbase(m) /\ j = c % W
    OBVIOUS
  <2>3. /\ i \in 0 .. cmask_nr_words(m) - 1 /\ i \in 0 .. m.alloc_words - 1 /\ j \in Bits
        /\ CidAt(m, i, j) = c
    BY <2>1, <2>2, CidWord, Zenon
  <2> DEFINE f == [m.bits EXCEPT ![i] = @ \ {j}]
  <2>4. cmask_clear(c, m) = [m EXCEPT !.bits = f]
    BY <1>2, <2>2 DEF cmask_clear, BIT, IsMask
  <2>5. f \in [0 .. m.alloc_words - 1 -> SUBSET Bits]
    BY <1>0, <2>3
  <2>6. ASSUME NEW k \in 0 .. cmask_nr_words(m) - 1, NEW b \in Bits
        PROVE  b \in f[k] <=> CidAt(m, k, b) \in A \ {c}
    <3>1. b \in f[k] <=> (b \in m.bits[k] /\ ~ (k = i /\ b = j))
      BY <1>0, <2>3, CidAtFacts
    <3>2. b \in m.bits[k] <=> CidAt(m, k, b) \in A
      BY Zenon DEF Represents
    <3>3. (k = i /\ b = j) <=> CidAt(m, k, b) = c
      <4>1. /\ CidAt(m, k, b) \div W - wbase(m) = k
            /\ CidAt(m, k, b) % W = b
        BY CidAtFacts, Zenon
      <4>2. QED
        BY <2>2, <2>3, <4>1, Zenon
    <3>4. QED
      BY <2>1, <3>1, <3>2, <3>3
  <2> HIDE DEF f
  <2>7. PICK S : S = A \ {c} /\ S \in SUBSET RangeOf(m)
    BY <1>0
  <2>8. \A k \in 0 .. cmask_nr_words(m) - 1, b \in Bits : b \in f[k] <=> CidAt(m, k, b) \in S
    BY <2>6, <2>7, Zenon
  <2>9. SameFrame([m EXCEPT !.bits = f], m) /\ Represents([m EXCEPT !.bits = f], S)
    BY <2>5, <2>7, <2>8, NewSet, Zenon
  <2>10. QED
    BY <2>4, <2>7, <2>9, Zenon
<1>3. QED
  BY <1>1, <1>2

-----------------------------------------------------------------------------
(* Ranges                                                                  *)

\* The masks for the words of a range have the bits of its cids.
LEMMA RangeBit ==
  ASSUME NEW lo \in Nat, NEW hi \in Nat, lo < hi,
         (hi - 1) \div W - lo \div W < CMASK_MAX_WORDS, NEW w \in Nat, NEW b \in Bits
  PROVE  w \in WordsOf(lo, hi) /\ b \in RangeMask(w, lo, hi)
           <=> lo <= w * W + b /\ w * W + b < hi
<1>1. PICK v \in Nat, x \in Bits : v = lo \div W /\ x = lo % W /\ lo = v * W + x
  BY Split
<1>2. hi - 1 \in Nat
  OBVIOUS
<1>3. PICK u \in Nat, y \in Bits : u = (hi - 1) \div W /\ y = (hi - 1) % W /\ hi - 1 = u * W + y
  BY <1>2, Split
<1>4. lo <= w * W + b <=> v < w \/ (v = w /\ x <= b)
  BY <1>1, CidOrder
<1>5. w * W + b <= hi - 1 <=> w < u \/ (w = u /\ b <= y)
  BY <1>3, CidOrder
<1>6. w * W + b \in Nat
  BY DivOf
<1>7. w * W + b < hi <=> w * W + b <= hi - 1
  BY <1>6
<1>8. WordsOf(lo, hi) = v .. u
  <2>1. Min({u, v + CMASK_MAX_WORDS - 1}) = u
    BY <1>1, <1>3, MinMaxPair, Positive
  <2>2. QED
    BY <1>1, <1>3, <2>1 DEF WordsOf
<1>9. b \in RangeMask(w, lo, hi) <=>
        (IF w = v THEN x ELSE 0) <= b /\ b <= (IF w = u THEN y ELSE W - 1)
  BY <1>1, <1>3, Positive DEF RangeMask, GENMASK, Bits
<1>10. /\ b \in Int /\ 0 <= b /\ b <= W - 1 /\ x \in Int /\ 0 <= x /\ x <= W - 1
       /\ y \in Int /\ 0 <= y /\ y <= W - 1
  BY Positive DEF Bits
<1>11. w \in v .. u /\ b \in RangeMask(w, lo, hi) <=>
         (v < w \/ (v = w /\ x <= b)) /\ (w < u \/ (w = u /\ b <= y))
  BY <1>1, <1>3, <1>9, <1>10
<1>12. QED
  BY <1>4, <1>5, <1>7, <1>8, <1>11, Zenon

\* A mask for a word has only its bits.
LEMMA RangeMaskType ==
  ASSUME NEW lo \in Nat, NEW hi \in Nat, lo < hi, NEW w
  PROVE  RangeMask(w, lo, hi) \subseteq Bits
<1>1. lo % W \in Bits
  BY DivMod
<1>2. hi - 1 \in Nat
  OBVIOUS
<1>3. (hi - 1) % W \in Bits
  BY <1>2, DivMod
<1>4. PICK x, y : x = lo % W /\ y = (hi - 1) % W
  OBVIOUS
<1>5. RangeMask(w, lo, hi) = (IF w = lo \div W THEN x ELSE 0) ..
                             (IF w = (hi - 1) \div W THEN y ELSE W - 1)
  BY <1>4, Zenon DEF RangeMask, GENMASK
<1>6. x \in Bits /\ y \in Bits
  BY <1>1, <1>3, <1>4, Zenon
<1>7. PICK g, h : /\ g = (IF w = lo \div W THEN x ELSE 0)
                  /\ h = (IF w = (hi - 1) \div W THEN y ELSE W - 1)
  OBVIOUS
<1>8. g \in Bits /\ h \in Bits
  BY <1>6, <1>7, Positive DEF Bits
<1>9. QED
  BY <1>5, <1>7, <1>8, Positive DEF Bits

\* A range within that of a mask has words of the mask, which the loops reach.
LEMMA SubRange ==
  ASSUME NEW m, IsMask(m), NEW lo \in Nat, NEW hi \in Nat,
         m.base <= lo, lo < hi, hi <= cmask_end(m)
  PROVE  /\ (hi - 1) \div W - lo \div W < CMASK_MAX_WORDS
         /\ WordsOf(lo, hi) = lo \div W .. (hi - 1) \div W
         /\ \A w \in WordsOf(lo, hi) :
              w \in Nat /\ w - wbase(m) \in 0 .. cmask_nr_words(m) - 1
<1>1. /\ m.base \in Nat /\ wbase(m) \in Nat /\ cmask_end(m) \in Nat /\ m.nr_cids \in Nat
      /\ cmask_end(m) = m.base + m.nr_cids /\ cmask_nr_words(m) \in Nat
      /\ cmask_nr_words(m) <= CMASK_MAX_WORDS
      /\ m.nr_cids # 0 => cmask_nr_words(m) = (cmask_end(m) - 1) \div W - wbase(m) + 1
  BY FrameFacts
<1>2. m.nr_cids # 0 /\ hi - 1 \in Nat /\ cmask_end(m) - 1 \in Nat /\ hi - 1 <= cmask_end(m) - 1
      /\ lo <= hi - 1
  BY <1>1
<1>3. PICK v \in Nat : v = lo \div W
  BY DivMod
<1>4. PICK u \in Nat : u = (hi - 1) \div W
  BY <1>2, DivMod
<1>5. PICK e \in Nat : e = (cmask_end(m) - 1) \div W
  BY <1>2, DivMod
<1>6. wbase(m) <= v
  BY <1>1, <1>3, DivMono DEF wbase
<1>7. v <= u
  BY <1>2, <1>3, <1>4, DivMono
<1>8. u <= e
  BY <1>2, <1>4, <1>5, DivMono
<1>9. cmask_nr_words(m) = e - wbase(m) + 1
  BY <1>1, <1>2, <1>5
<1>10. u - v < CMASK_MAX_WORDS
  BY <1>1, <1>3, <1>4, <1>5, <1>6, <1>8, <1>9, Positive
<1>11. WordsOf(lo, hi) = v .. u
  <2>1. Min({u, v + CMASK_MAX_WORDS - 1}) = u
    BY <1>3, <1>4, <1>10, MinMaxPair, Positive
  <2>2. QED
    BY <1>3, <1>4, <2>1, Zenon DEF WordsOf
<1>12. \A w \in v .. u : w \in Nat /\ w - wbase(m) \in 0 .. cmask_nr_words(m) - 1
  BY <1>1, <1>3, <1>4, <1>5, <1>6, <1>8, <1>9
<1>13. QED
  BY <1>3, <1>4, <1>10, <1>11, <1>12, Zenon

\* A range is clamped to that of the mask.
LEMMA Clamped ==
  ASSUME NEW m, IsMask(m), NEW s \in Nat, NEW nr \in Nat
  PROVE  /\ ClampLo(m, s) \in Nat /\ ClampHi(m, s, nr) \in Nat
         /\ m.base <= ClampLo(m, s) /\ ClampHi(m, s, nr) <= cmask_end(m)
         /\ \A c \in Int : ClampLo(m, s) <= c /\ c < ClampHi(m, s, nr) <=>
                           c \in (s .. s + nr - 1) \cap RangeOf(m)
<1>1. m.base \in Nat /\ cmask_end(m) \in Nat
  BY FrameFacts
<1>2. ClampLo(m, s) = IF s >= m.base THEN s ELSE m.base
  BY <1>1, MinMaxPair DEF ClampLo
<1>3. ClampHi(m, s, nr) = IF s + nr <= cmask_end(m) THEN s + nr ELSE cmask_end(m)
  BY <1>1, MinMaxPair DEF ClampHi
<1>4. QED
  BY <1>1, <1>2, <1>3 DEF RangeOf

\* Which words a loop over a part of the range visits, by bits.
LEMMA PartBit ==
  ASSUME NEW m, IsMask(m), NEW lo \in Nat, NEW hi \in Nat,
         m.base <= lo, lo < hi, hi <= cmask_end(m),
         NEW k \in 0 .. cmask_nr_words(m) - 1, NEW b \in Bits
  PROVE  k + wbase(m) \in WordsOf(lo, hi) /\ b \in RangeMask(k + wbase(m), lo, hi)
           <=> lo <= CidAt(m, k, b) /\ CidAt(m, k, b) < hi
<1>1. (hi - 1) \div W - lo \div W < CMASK_MAX_WORDS
  BY SubRange
<1>2. k + wbase(m) \in Nat /\ CidAt(m, k, b) = (k + wbase(m)) * W + b
  BY CidAtFacts
<1>3. QED
  BY <1>1, <1>2, RangeBit

\* All the cids of a range, as far as the mask has them.
LEMMA SetRangeSet ==
  ASSUME NEW m, IsMask(m), NEW A, Represents(m, A), NEW s \in Nat, NEW nr \in Nat
  PROVE  /\ SameFrame(cmask_set_range(m, s, nr), m)
         /\ Represents(cmask_set_range(m, s, nr), A \cup ((s .. s + nr - 1) \cap RangeOf(m)))
<1>1. PICK lo \in Nat, hi \in Nat :
        /\ lo = ClampLo(m, s) /\ hi = ClampHi(m, s, nr)
        /\ m.base <= lo /\ hi <= cmask_end(m)
        /\ \A c \in Int : lo <= c /\ c < hi <=> c \in (s .. s + nr - 1) \cap RangeOf(m)
  BY Clamped, Zenon
<1>2. A \subseteq RangeOf(m) /\ m.bits \in [0 .. m.alloc_words - 1 -> SUBSET Bits]
      /\ wbase(m) \in Nat
  BY FrameFacts DEF Represents
<1>3. PICK S : S = A \cup ((s .. s + nr - 1) \cap RangeOf(m)) /\ S \in SUBSET RangeOf(m)
  BY <1>2
<1>4. CASE lo >= hi
  <2>1. cmask_set_range(m, s, nr) = m
    BY <1>1, <1>4 DEF cmask_set_range, MapWords
  <2>2. (s .. s + nr - 1) \cap RangeOf(m) = {}
    BY <1>1, <1>4
  <2>3. S = A
    BY <1>3, <2>2
  <2>4. QED
    BY <1>3, <2>1, <2>3, Zenon DEF SameFrame
<1>5. CASE lo < hi
  <2> DEFINE Old(k) == m.bits[(k + wbase(m)) - wbase(m)]
             f == [k \in DOMAIN m.bits |->
                     IF k + wbase(m) \in WordsOf(lo, hi)
                     THEN Old(k) \cup RangeMask(k + wbase(m), lo, hi) ELSE m.bits[k]]
  <2>1. cmask_set_range(m, s, nr) = [m EXCEPT !.bits = f]
    <3>1. ~ (ClampLo(m, s) >= ClampHi(m, s, nr))
      BY <1>1, <1>5
    <3>2. QED
      BY <1>1, <3>1, Zenon DEF cmask_set_range, MapWords, Word
  <2>2. \A k \in 0 .. m.alloc_words - 1 : (k + wbase(m)) - wbase(m) = k
    BY <1>2
  <2>3. \A k \in 0 .. m.alloc_words - 1 :
          f[k] = IF k + wbase(m) \in WordsOf(lo, hi)
                 THEN m.bits[k] \cup RangeMask(k + wbase(m), lo, hi) ELSE m.bits[k]
    BY <1>2, <2>2
  <2>4. f \in [0 .. m.alloc_words - 1 -> SUBSET Bits]
    <3>1. \A k : RangeMask(k + wbase(m), lo, hi) \subseteq Bits
      BY <1>5, RangeMaskType
    <3>2. \A k \in 0 .. m.alloc_words - 1 : f[k] \in SUBSET Bits
      BY <1>2, <2>3, <3>1
    <3>3. DOMAIN f = 0 .. m.alloc_words - 1 /\ f = [k \in DOMAIN f |-> f[k]]
      BY <1>2
    <3> HIDE DEF f
    <3>4. QED
      BY <3>2, <3>3
  <2> HIDE DEF f
  <2>5. ASSUME NEW k \in 0 .. cmask_nr_words(m) - 1, NEW b \in Bits
        PROVE  b \in f[k] <=> CidAt(m, k, b) \in S
    <3>1. k \in 0 .. m.alloc_words - 1 /\ CidAt(m, k, b) \in Int
      BY CidAtFacts
    <3>2. b \in f[k] <=> \/ b \in m.bits[k]
                         \/ /\ k + wbase(m) \in WordsOf(lo, hi)
                            /\ b \in RangeMask(k + wbase(m), lo, hi)
      BY <2>3, <3>1
    <3>3. b \in m.bits[k] <=> CidAt(m, k, b) \in A
      BY Zenon DEF Represents
    <3>4. k + wbase(m) \in WordsOf(lo, hi) /\ b \in RangeMask(k + wbase(m), lo, hi)
            <=> lo <= CidAt(m, k, b) /\ CidAt(m, k, b) < hi
      BY <1>1, <1>5, PartBit
    <3>5. lo <= CidAt(m, k, b) /\ CidAt(m, k, b) < hi
            <=> CidAt(m, k, b) \in (s .. s + nr - 1) \cap RangeOf(m)
      BY <1>1, <3>1
    <3>6. QED
      BY <1>3, <3>2, <3>3, <3>4, <3>5, Zenon
  <2>6. SameFrame([m EXCEPT !.bits = f], m) /\ Represents([m EXCEPT !.bits = f], S)
    BY <1>3, <2>4, <2>5, NewSet, Zenon
  <2>7. QED
    BY <1>3, <2>1, <2>6, Zenon
<1>6. QED
  BY <1>1, <1>4, <1>5
\* None of the cids of a range.
LEMMA ClearRangeSet ==
  ASSUME NEW m, IsMask(m), NEW A, Represents(m, A), NEW s \in Nat, NEW nr \in Nat
  PROVE  /\ SameFrame(cmask_clear_range(m, s, nr), m)
         /\ Represents(cmask_clear_range(m, s, nr), A \ (s .. s + nr - 1))
<1>1. PICK lo \in Nat, hi \in Nat :
        /\ lo = ClampLo(m, s) /\ hi = ClampHi(m, s, nr)
        /\ m.base <= lo /\ hi <= cmask_end(m)
        /\ \A c \in Int : lo <= c /\ c < hi <=> c \in (s .. s + nr - 1) \cap RangeOf(m)
  BY Clamped, Zenon
<1>2. A \subseteq RangeOf(m) /\ m.bits \in [0 .. m.alloc_words - 1 -> SUBSET Bits]
      /\ wbase(m) \in Nat
  BY FrameFacts DEF Represents
<1>3. PICK S : S = A \ (s .. s + nr - 1) /\ S \in SUBSET RangeOf(m)
  BY <1>2
<1>4. CASE lo >= hi
  <2>1. cmask_clear_range(m, s, nr) = m
    BY <1>1, <1>4 DEF cmask_clear_range, MapWords
  <2>2. (s .. s + nr - 1) \cap RangeOf(m) = {}
    BY <1>1, <1>4
  <2>3. S = A
    BY <1>2, <1>3, <2>2
  <2>4. QED
    BY <1>3, <2>1, <2>3, Zenon DEF SameFrame
<1>5. CASE lo < hi
  <2> DEFINE Old(k) == m.bits[(k + wbase(m)) - wbase(m)]
             f == [k \in DOMAIN m.bits |->
                     IF k + wbase(m) \in WordsOf(lo, hi)
                     THEN Old(k) \ RangeMask(k + wbase(m), lo, hi) ELSE m.bits[k]]
  <2>1. cmask_clear_range(m, s, nr) = [m EXCEPT !.bits = f]
    <3>1. ~ (ClampLo(m, s) >= ClampHi(m, s, nr))
      BY <1>1, <1>5
    <3>2. QED
      BY <1>1, <3>1, Zenon DEF cmask_clear_range, MapWords, Word
  <2>2. \A k \in 0 .. m.alloc_words - 1 : (k + wbase(m)) - wbase(m) = k
    BY <1>2
  <2>3. \A k \in 0 .. m.alloc_words - 1 :
          f[k] = IF k + wbase(m) \in WordsOf(lo, hi)
                 THEN m.bits[k] \ RangeMask(k + wbase(m), lo, hi) ELSE m.bits[k]
    BY <1>2, <2>2
  <2>4. f \in [0 .. m.alloc_words - 1 -> SUBSET Bits]
    <3>1. \A k : RangeMask(k + wbase(m), lo, hi) \subseteq Bits
      BY <1>5, RangeMaskType
    <3>2. \A k \in 0 .. m.alloc_words - 1 : f[k] \in SUBSET Bits
      BY <1>2, <2>3, <3>1
    <3>3. DOMAIN f = 0 .. m.alloc_words - 1 /\ f = [k \in DOMAIN f |-> f[k]]
      BY <1>2
    <3> HIDE DEF f
    <3>4. QED
      BY <3>2, <3>3
  <2> HIDE DEF f
  <2>5. ASSUME NEW k \in 0 .. cmask_nr_words(m) - 1, NEW b \in Bits
        PROVE  b \in f[k] <=> CidAt(m, k, b) \in S
    <3>1. k \in 0 .. m.alloc_words - 1 /\ CidAt(m, k, b) \in Int
      BY CidAtFacts
    <3>2. b \in f[k] <=> /\ b \in m.bits[k]
                         /\ ~ (/\ k + wbase(m) \in WordsOf(lo, hi)
                               /\ b \in RangeMask(k + wbase(m), lo, hi))
      BY <2>3, <3>1
    <3>3. b \in m.bits[k] <=> CidAt(m, k, b) \in A
      BY Zenon DEF Represents
    <3>4. k + wbase(m) \in WordsOf(lo, hi) /\ b \in RangeMask(k + wbase(m), lo, hi)
            <=> lo <= CidAt(m, k, b) /\ CidAt(m, k, b) < hi
      BY <1>1, <1>5, PartBit
    <3>5. lo <= CidAt(m, k, b) /\ CidAt(m, k, b) < hi
            <=> CidAt(m, k, b) \in (s .. s + nr - 1) \cap RangeOf(m)
      BY <1>1, <3>1
    <3>6. QED
      BY <1>2, <1>3, <3>2, <3>3, <3>4, <3>5, Zenon
  <2>6. SameFrame([m EXCEPT !.bits = f], m) /\ Represents([m EXCEPT !.bits = f], S)
    BY <1>3, <2>4, <2>5, NewSet, Zenon
  <2>7. QED
    BY <1>3, <2>1, <2>6, Zenon
<1>6. QED
  BY <1>1, <1>4, <1>5

-----------------------------------------------------------------------------
(* Two masks                                                               *)

\* The cids both ranges have.
LEMMA Overlap ==
  ASSUME NEW d, NEW s, IsMask(d), IsMask(s)
  PROVE  /\ Max({d.base, s.base}) \in Nat /\ Min({cmask_end(d), cmask_end(s)}) \in Nat
         /\ d.base <= Max({d.base, s.base}) /\ s.base <= Max({d.base, s.base})
         /\ Min({cmask_end(d), cmask_end(s)}) <= cmask_end(d)
         /\ Min({cmask_end(d), cmask_end(s)}) <= cmask_end(s)
         /\ \A c \in Int : Max({d.base, s.base}) <= c /\ c < Min({cmask_end(d), cmask_end(s)})
                             <=> c \in RangeOf(d) \cap RangeOf(s)
<1>1. d.base \in Nat /\ cmask_end(d) \in Nat /\ s.base \in Nat /\ cmask_end(s) \in Nat
  BY FrameFacts
<1>2. Max({d.base, s.base}) = IF d.base >= s.base THEN d.base ELSE s.base
  BY <1>1, MinMaxPair
<1>3. Min({cmask_end(d), cmask_end(s)}) =
        IF cmask_end(d) <= cmask_end(s) THEN cmask_end(d) ELSE cmask_end(s)
  BY <1>1, MinMaxPair
<1>4. QED
  BY <1>1, <1>2, <1>3 DEF RangeOf

\* A bit of a word of a mask, by its cid.
LEMMA WordBit ==
  ASSUME NEW s, IsMask(s), NEW B, Represents(s, B), NEW w \in Nat, NEW b \in Bits,
         w * W + b \in RangeOf(s)
  PROVE  b \in Word(s, w) <=> w * W + b \in B
<1>1. PICK c : c = w * W + b
  OBVIOUS
<1>2. c \div W = w /\ c % W = b
  BY <1>1, DivOf
<1>3. /\ c \div W - wbase(s) \in 0 .. cmask_nr_words(s) - 1
      /\ CidAt(s, c \div W - wbase(s), c % W) = c
  BY <1>1, CidWord, Zenon
<1>4. b \in s.bits[w - wbase(s)] <=> c \in B
  BY <1>2, <1>3, Zenon DEF Represents
<1>5. QED
  BY <1>1, <1>4, Zenon DEF Word

Ops == {"AND", "OR", "COPY", "ANDNOT"}

\* What an operation means for the sets A and B of the masks of the ranges R
\* and Q: it is about the cids both ranges have.
OpResult(A, B, R, Q, op) ==
  {c \in R : IF c \in Q
             THEN CASE op = "AND" -> c \in A /\ c \in B
                    [] op = "OR" -> c \in A \/ c \in B
                    [] op = "ANDNOT" -> c \in A /\ c \notin B
                    [] op = "COPY" -> c \in B
             ELSE c \in A}

\* A bit of the result of an operation on two words.
LEMMA OpWordBit ==
  ASSUME NEW dv, NEW sv, NEW op \in Ops, NEW b
  PROVE  b \in op_word(dv, sv, op) <=>
           CASE op = "AND" -> b \in dv /\ b \in sv
             [] op = "OR" -> b \in dv \/ b \in sv
             [] op = "ANDNOT" -> b \in dv /\ b \notin sv
             [] op = "COPY" -> b \in sv
<1>1. CASE op = "AND"
  BY <1>1 DEF op_word
<1>2. CASE op = "OR"
  BY <1>2 DEF op_word
<1>3. CASE op = "ANDNOT"
  BY <1>3 DEF op_word
<1>4. CASE op = "COPY"
  BY <1>4 DEF op_word
<1>5. QED
  BY <1>1, <1>2, <1>3, <1>4 DEF Ops

\* The operations of two masks change what they mean to.
LEMMA OpSet ==
  ASSUME NEW m, IsMask(m), NEW A, Represents(m, A),
         NEW n, IsMask(n), NEW B, Represents(n, B), NEW op \in Ops
  PROVE  /\ SameFrame(cmask_op(m, n, op), m)
         /\ Represents(cmask_op(m, n, op), OpResult(A, B, RangeOf(m), RangeOf(n), op))
<1>1. PICK lo \in Nat, hi \in Nat :
        /\ lo = Max({m.base, n.base}) /\ hi = Min({cmask_end(m), cmask_end(n)})
        /\ m.base <= lo /\ hi <= cmask_end(m)
        /\ \A c \in Int : lo <= c /\ c < hi <=> c \in RangeOf(m) \cap RangeOf(n)
  BY Overlap, Zenon
<1>2. A \subseteq RangeOf(m) /\ m.bits \in [0 .. m.alloc_words - 1 -> SUBSET Bits]
      /\ wbase(m) \in Nat /\ RangeOf(m) \subseteq Int
  BY FrameFacts DEF Represents, RangeOf
<1>3. PICK S : S = OpResult(A, B, RangeOf(m), RangeOf(n), op) /\ S \in SUBSET RangeOf(m)
  BY DEF OpResult
<1>4. CASE lo >= hi
  <2>1. cmask_op(m, n, op) = m
    BY <1>1, <1>4 DEF cmask_op, MapWords
  <2>2. RangeOf(m) \cap RangeOf(n) = {}
    <3>1. \A c \in Int : ~ (lo <= c /\ c < hi)
      BY <1>4
    <3>2. QED
      BY <1>1, <1>2, <3>1, Zenon
  <2>3. S = A
    BY <1>2, <1>3, <2>2 DEF OpResult
  <2>4. QED
    BY <1>3, <2>1, <2>3, Zenon DEF SameFrame
<1>5. CASE lo < hi
  <2> DEFINE Old(k) == m.bits[(k + wbase(m)) - wbase(m)]
             Msk(k) == RangeMask(k + wbase(m), lo, hi)
             New(k) == (Old(k) \ Msk(k)) \cup (op_word(Old(k), Word(n, k + wbase(m)), op) \cap Msk(k))
             f == [k \in DOMAIN m.bits |->
                     IF k + wbase(m) \in WordsOf(lo, hi) THEN New(k) ELSE m.bits[k]]
  <2>1. cmask_op(m, n, op) = [m EXCEPT !.bits = f]
    <3>1. ~ (Max({m.base, n.base}) >= Min({cmask_end(m), cmask_end(n)}))
      BY <1>1, <1>5
    <3>2. QED
      BY <1>1, <3>1, Zenon DEF cmask_op, MapWords, Word
  <2>2. \A k \in 0 .. m.alloc_words - 1 : (k + wbase(m)) - wbase(m) = k
    BY <1>2
  <2>3. \A k \in 0 .. m.alloc_words - 1 :
          f[k] = IF k + wbase(m) \in WordsOf(lo, hi)
                 THEN (m.bits[k] \ Msk(k))
                      \cup (op_word(m.bits[k], Word(n, k + wbase(m)), op) \cap Msk(k))
                 ELSE m.bits[k]
    BY <1>2, <2>2
  <2>4. f \in [0 .. m.alloc_words - 1 -> SUBSET Bits]
    <3>1. \A k : Msk(k) \subseteq Bits
      BY <1>5, RangeMaskType
    <3> HIDE DEF Msk
    <3>2. \A k \in 0 .. m.alloc_words - 1 : f[k] \in SUBSET Bits
      <4> HIDE DEF f
      <4>1. QED
        BY <1>2, <2>3, <3>1
    <3>3. DOMAIN f = 0 .. m.alloc_words - 1 /\ f = [k \in DOMAIN f |-> f[k]]
      BY <1>2
    <3> HIDE DEF f
    <3>4. QED
      BY <3>2, <3>3
  <2> HIDE DEF f
  <2>5. ASSUME NEW k \in 0 .. cmask_nr_words(m) - 1, NEW b \in Bits
        PROVE  b \in f[k] <=> CidAt(m, k, b) \in S
    <3>1. k \in 0 .. m.alloc_words - 1 /\ CidAt(m, k, b) \in Int /\ k + wbase(m) \in Nat
          /\ CidAt(m, k, b) = (k + wbase(m)) * W + b
      BY CidAtFacts
    <3>2. b \in f[k] <=>
            IF k + wbase(m) \in WordsOf(lo, hi) /\ b \in RangeMask(k + wbase(m), lo, hi)
            THEN b \in op_word(m.bits[k], Word(n, k + wbase(m)), op)
            ELSE b \in m.bits[k]
      <4> HIDE DEF Msk
      <4>1. b \in f[k] <=> IF k + wbase(m) \in WordsOf(lo, hi) /\ b \in Msk(k)
                           THEN b \in op_word(m.bits[k], Word(n, k + wbase(m)), op)
                           ELSE b \in m.bits[k]
        BY <2>3, <3>1
      <4>2. QED
        BY <4>1, Zenon DEF Msk
    <3>3. b \in m.bits[k] <=> CidAt(m, k, b) \in A
      BY Zenon DEF Represents
    <3>4. k + wbase(m) \in WordsOf(lo, hi) /\ b \in RangeMask(k + wbase(m), lo, hi)
            <=> lo <= CidAt(m, k, b) /\ CidAt(m, k, b) < hi
      BY <1>1, <1>5, PartBit
    <3>5. PICK c : c = CidAt(m, k, b)
      OBVIOUS
    <3>6. k + wbase(m) \in WordsOf(lo, hi) /\ b \in RangeMask(k + wbase(m), lo, hi)
            <=> c \in RangeOf(m) /\ c \in RangeOf(n)
      BY <1>1, <3>1, <3>4, <3>5, Zenon
    <3>7. CASE c \in RangeOf(m) /\ c \in RangeOf(n)
      <4>1. b \in f[k] <=> b \in op_word(m.bits[k], Word(n, k + wbase(m)), op)
        BY <3>2, <3>6, <3>7, Zenon
      <4>2. b \in Word(n, k + wbase(m)) <=> c \in B
        <5>1. (k + wbase(m)) * W + b \in RangeOf(n)
          BY <3>1, <3>5, <3>7, Zenon
        <5>2. b \in Word(n, k + wbase(m)) <=> (k + wbase(m)) * W + b \in B
          BY <3>1, <5>1, WordBit
        <5>3. QED
          BY <3>1, <3>5, <5>2, Zenon
      <4>3. b \in m.bits[k] <=> c \in A
        BY <3>3, <3>5, Zenon
      <4>4. b \in op_word(m.bits[k], Word(n, k + wbase(m)), op) <=>
              CASE op = "AND" -> b \in m.bits[k] /\ b \in Word(n, k + wbase(m))
                [] op = "OR" -> b \in m.bits[k] \/ b \in Word(n, k + wbase(m))
                [] op = "ANDNOT" -> b \in m.bits[k] /\ b \notin Word(n, k + wbase(m))
                [] op = "COPY" -> b \in Word(n, k + wbase(m))
        <5>1. PICK dv, sv : dv = m.bits[k] /\ sv = Word(n, k + wbase(m))
          OBVIOUS
        <5>2. b \in op_word(dv, sv, op) <=>
                CASE op = "AND" -> b \in dv /\ b \in sv
                  [] op = "OR" -> b \in dv \/ b \in sv
                  [] op = "ANDNOT" -> b \in dv /\ b \notin sv
                  [] op = "COPY" -> b \in sv
          BY OpWordBit
        <5>3. QED
          BY <5>1, <5>2
      <4>5. c \in S <=> CASE op = "AND" -> c \in A /\ c \in B
                          [] op = "OR" -> c \in A \/ c \in B
                          [] op = "ANDNOT" -> c \in A /\ c \notin B
                          [] op = "COPY" -> c \in B
        BY <1>3, <3>7 DEF OpResult
      <4>6. b \in f[k] <=> c \in S
        <5>1. CASE op = "AND"
          BY <4>1, <4>2, <4>3, <4>4, <4>5, <5>1
        <5>2. CASE op = "OR"
          BY <4>1, <4>2, <4>3, <4>4, <4>5, <5>2
        <5>3. CASE op = "ANDNOT"
          BY <4>1, <4>2, <4>3, <4>4, <4>5, <5>3
        <5>4. CASE op = "COPY"
          BY <4>1, <4>2, <4>3, <4>4, <4>5, <5>4
        <5>5. QED
          BY <5>1, <5>2, <5>3, <5>4 DEF Ops
      <4>7. QED
        BY <3>5, <4>6, Zenon
    <3>8. CASE ~ (c \in RangeOf(m) /\ c \in RangeOf(n))
      <4>1. b \in f[k] <=> c \in A
        BY <3>2, <3>3, <3>5, <3>6, <3>8, Zenon
      <4>2. c \in S <=> c \in A
        BY <1>2, <1>3, <3>8 DEF OpResult
      <4>3. QED
        BY <3>5, <4>1, <4>2, Zenon
    <3>9. QED
      BY <3>7, <3>8, Zenon
  <2>6. SameFrame([m EXCEPT !.bits = f], m) /\ Represents([m EXCEPT !.bits = f], S)
    BY <1>3, <2>4, <2>5, NewSet, Zenon
  <2>7. QED
    BY <1>3, <2>1, <2>6, Zenon
<1>6. QED
  BY <1>1, <1>4, <1>5

-----------------------------------------------------------------------------
(* Whole masks                                                             *)

\* The position of the last cid in its word, from where the range ends.
LEMMA LastBit ==
  ASSUME NEW e \in Nat, e > 0
  PROVE  (e - 1) % W = IF e % W = 0 THEN W - 1 ELSE (e % W) - 1
<1>1. PICK q \in Nat, r \in Bits : q = e \div W /\ r = e % W /\ e = q * W + r
  BY Split
<1>2. CASE r # 0
  <2>1. r - 1 \in Bits /\ q * W \in Int /\ e - 1 = q * W + (r - 1)
    BY <1>1, <1>2, Positive DEF Bits
  <2>2. (e - 1) % W = r - 1
    BY <2>1, DivOf
  <2>3. QED
    BY <1>1, <1>2, <2>2
<1>3. CASE r = 0
  <2>1. q - 1 \in Nat
    <3>1. SUFFICES ASSUME q = 0 PROVE FALSE
      OBVIOUS
    <3>2. q * W = 0
      BY <3>1, Positive
    <3>3. QED
      BY <1>1, <1>3, <3>2
  <2>2. (q - 1) * W = q * W - W
    BY <1>1, Positive
  <2>3. W - 1 \in Bits /\ q * W \in Int /\ e - 1 = (q - 1) * W + (W - 1)
    BY <1>1, <1>3, <2>1, <2>2, Positive DEF Bits
  <2>4. (e - 1) % W = W - 1
    BY <2>1, <2>3, DivOf
  <2>5. QED
    BY <1>1, <1>3, <2>4
<1>4. QED
  BY <1>2, <1>3

\* The bits that are not padding are those of the cids of the range.
LEMMA FillBit ==
  ASSUME NEW m, IsMask(m), NEW k \in 0 .. cmask_nr_words(m) - 1, NEW b \in Bits
  PROVE  CidAt(m, k, b) \in RangeOf(m) <=>
           /\ ~ (k = 0 /\ b \in 0 .. (m.base % W) - 1)
           /\ ~ (k = cmask_nr_words(m) - 1 /\ cmask_end(m) % W # 0
                 /\ b \in (cmask_end(m) % W) .. W - 1)
<1>1. /\ m.base \in Nat /\ m.nr_cids \in Nat /\ wbase(m) \in Nat /\ cmask_end(m) \in Nat
      /\ cmask_end(m) = m.base + m.nr_cids /\ cmask_nr_words(m) \in Nat
      /\ m.nr_cids # 0 => cmask_nr_words(m) = (cmask_end(m) - 1) \div W - wbase(m) + 1
      /\ m.nr_cids = 0 => cmask_nr_words(m) = 0
  BY FrameFacts
<1>2. m.nr_cids # 0 /\ cmask_end(m) > 0 /\ cmask_end(m) - 1 \in Nat /\ k \in Nat
  BY <1>1
<1>3. PICK v \in Nat, x \in Bits : v = m.base \div W /\ x = m.base % W /\ m.base = v * W + x
  BY <1>1, Split
<1>4. PICK u \in Nat, y \in Bits : /\ u = (cmask_end(m) - 1) \div W /\ y = (cmask_end(m) - 1) % W
                                   /\ cmask_end(m) - 1 = u * W + y
  BY <1>2, Split
<1>5. PICK t \in Bits : t = cmask_end(m) % W
  BY <1>1, DivMod
<1>6. y = IF t = 0 THEN W - 1 ELSE t - 1
  BY <1>1, <1>2, <1>4, <1>5, LastBit
<1>7. v = wbase(m) /\ cmask_nr_words(m) = u - v + 1
  BY <1>1, <1>2, <1>3, <1>4 DEF wbase
<1>8. CidAt(m, k, b) = (k + v) * W + b /\ CidAt(m, k, b) \in Nat
  BY <1>7, CidAtFacts
<1>9. v * W + x <= (k + v) * W + b <=> v < k + v \/ (v = k + v /\ x <= b)
  BY <1>2, CidOrder
<1>10. (k + v) * W + b <= u * W + y <=> k + v < u \/ (k + v = u /\ b <= y)
  BY <1>2, CidOrder
<1>11. /\ b \in Int /\ 0 <= b /\ b <= W - 1 /\ x \in Int /\ 0 <= x /\ x <= W - 1
       /\ t \in Int /\ 0 <= t /\ t <= W - 1
  BY Positive DEF Bits
<1>12. CidAt(m, k, b) \in RangeOf(m) <=> m.base <= CidAt(m, k, b) /\ CidAt(m, k, b) <= cmask_end(m) - 1
  BY <1>1, <1>8 DEF RangeOf
<1>13. CidAt(m, k, b) \in RangeOf(m) <=>
         /\ v < k + v \/ (v = k + v /\ x <= b)
         /\ k + v < u \/ (k + v = u /\ b <= y)
  BY <1>3, <1>4, <1>8, <1>9, <1>10, <1>12, Zenon
<1>14. CidAt(m, k, b) \in RangeOf(m) <=>
         /\ ~ (k = 0 /\ b \in 0 .. x - 1)
         /\ ~ (k = cmask_nr_words(m) - 1 /\ t # 0 /\ b \in t .. W - 1)
  BY <1>1, <1>2, <1>6, <1>7, <1>11, <1>13, Positive
<1>15. QED
  BY <1>3, <1>5, <1>14, Zenon

\* All the cids of the range.
LEMMA FillSet ==
  ASSUME NEW m, IsMask(m)
  PROVE  SameFrame(cmask_fill(m), m) /\ Represents(cmask_fill(m), RangeOf(m))
<1> DEFINE P(k) == (IF k = 0 THEN 0 .. (m.base % W) - 1 ELSE {}) \cup
                   (IF k = cmask_nr_words(m) - 1 /\ cmask_end(m) % W # 0
                    THEN (cmask_end(m) % W) .. W - 1 ELSE {})
           f == [k \in DOMAIN m.bits |->
                   IF k < cmask_nr_words(m) /\ k < CMASK_MAX_WORDS THEN Bits \ P(k) ELSE m.bits[k]]
<1>1. cmask_fill(m) = [m EXCEPT !.bits = f]
  BY Zenon DEF cmask_fill
<1>2. DOMAIN m.bits = 0 .. m.alloc_words - 1 /\ m.bits \in [0 .. m.alloc_words - 1 -> SUBSET Bits]
  BY FrameFacts
<1>3. f \in [0 .. m.alloc_words - 1 -> SUBSET Bits]
  <2> HIDE DEF P
  <2>1. QED
    BY <1>2
<1>4. ASSUME NEW k \in 0 .. cmask_nr_words(m) - 1, NEW b \in Bits
      PROVE  b \in f[k] <=> CidAt(m, k, b) \in RangeOf(m)
  <2>1. k \in 0 .. m.alloc_words - 1 /\ k \in Nat /\ cmask_nr_words(m) \in Nat
        /\ cmask_nr_words(m) <= CMASK_MAX_WORDS
    BY FrameFacts
  <2>2. k < cmask_nr_words(m) /\ k < CMASK_MAX_WORDS
    BY <2>1, Positive
  <2>3. b \in f[k] <=> b \notin P(k)
    <3> HIDE DEF P
    <3>1. QED
      BY <1>2, <2>1, <2>2
  <2>4. QED
    BY <2>3, FillBit, Zenon
<1> HIDE DEF f
<1>5. RangeOf(m) \in SUBSET RangeOf(m)
  OBVIOUS
<1>6. SameFrame([m EXCEPT !.bits = f], m) /\ Represents([m EXCEPT !.bits = f], RangeOf(m))
  BY <1>3, <1>4, <1>5, NewSet, Zenon
<1>7. QED
  BY <1>1, <1>6, Zenon

\* The cids of the cpus of a cpumask.
LEMMA FromCpumaskSet ==
  ASSUME NEW m, IsMask(m), NEW cpus \in SUBSET DOMAIN cpu_to_cid
  PROVE  /\ SameFrame(cmask_from_cpumask(m, cpus), m)
         /\ Represents(cmask_from_cpumask(m, cpus), {cpu_to_cid[cpu] : cpu \in cpus} \cap RangeOf(m))
<1>1. PICK z : z = cmask_zero(m) /\ SameFrame(z, m) /\ Represents(z, {})
  BY ZeroSet, Zenon
<1>2. PICK C : C = {cpu_to_cid[cpu] : cpu \in {x \in cpus : cpu_to_cid[x] >= 0}}
  OBVIOUS
<1>3. C \subseteq Int
  BY <1>2, CmaskAssumption
<1>4. IsMask(z) /\ z.alloc_words = m.alloc_words /\ cmask_nr_words(z) = cmask_nr_words(m)
      /\ RangeOf(z) = RangeOf(m)
  BY <1>1, FrameSame, Zenon DEF SameFrame
<1>5. z.bits \in [0 .. z.alloc_words - 1 -> SUBSET Bits] /\ RangeOf(z) \subseteq Nat
  BY <1>4, FrameFacts DEF RangeOf
<1> DEFINE G(k) == UNION {cmask_set(cid, z).bits[k] : cid \in C}
           f == [k \in DOMAIN z.bits |-> z.bits[k] \cup G(k)]
<1>6. cmask_from_cpumask(m, cpus) = [z EXCEPT !.bits = f]
  BY <1>1, <1>2, Zenon DEF cmask_from_cpumask
<1>7. ASSUME NEW cid \in C
      PROVE  /\ cmask_set(cid, z).bits \in [0 .. z.alloc_words - 1 -> SUBSET Bits]
             /\ \A k \in 0 .. cmask_nr_words(z) - 1, b \in Bits :
                  b \in cmask_set(cid, z).bits[k] <=> CidAt(z, k, b) \in {cid} \cap RangeOf(z)
  <2>1. PICK x : x = cmask_set(cid, z)
    OBVIOUS
  <2>2. SameFrame(x, z) /\ Represents(x, {} \cup ({cid} \cap RangeOf(z)))
    <3>1. cid \in Int
      BY <1>3
    <3>2. QED
      BY <1>1, <1>4, <2>1, <3>1, SetSet, Zenon
  <2>3. IsMask(x) /\ x.alloc_words = z.alloc_words /\ cmask_nr_words(x) = cmask_nr_words(z)
        /\ \A k, b : CidAt(x, k, b) = CidAt(z, k, b)
    BY <2>2, FrameSame, Zenon DEF SameFrame
  <2>4. x.bits \in [0 .. z.alloc_words - 1 -> SUBSET Bits]
    BY <2>3 DEF IsMask
  <2>5. {} \cup ({cid} \cap RangeOf(z)) = {cid} \cap RangeOf(z)
    OBVIOUS
  <2>6. \A k \in 0 .. cmask_nr_words(z) - 1, b \in Bits :
                  b \in x.bits[k] <=> CidAt(z, k, b) \in {cid} \cap RangeOf(z)
    BY <2>2, <2>3, <2>5, Zenon DEF Represents
  <2>7. QED
    BY <2>1, <2>4, <2>6, Zenon
<1>8. \A k \in 0 .. z.alloc_words - 1 : G(k) \in SUBSET Bits
  <2>1. \A k \in 0 .. z.alloc_words - 1, cid \in C : cmask_set(cid, z).bits[k] \in SUBSET Bits
    BY <1>7
  <2>2. QED
    BY <2>1, Zenon
<1>9. \A k \in 0 .. cmask_nr_words(z) - 1, b \in Bits :
        b \in G(k) <=> CidAt(z, k, b) \in C \cap RangeOf(z)
  <2>1. SUFFICES ASSUME NEW k \in 0 .. cmask_nr_words(z) - 1, NEW b \in Bits
                 PROVE  b \in G(k) <=> CidAt(z, k, b) \in C \cap RangeOf(z)
    BY Zenon
  <2>2. b \in G(k) <=> \E cid \in C : b \in cmask_set(cid, z).bits[k]
    BY Zenon
  <2>3. \A cid \in C : b \in cmask_set(cid, z).bits[k]
                       <=> CidAt(z, k, b) = cid /\ CidAt(z, k, b) \in RangeOf(z)
    <3>1. SUFFICES ASSUME NEW cid \in C
                   PROVE  b \in cmask_set(cid, z).bits[k] <=>
                            CidAt(z, k, b) = cid /\ CidAt(z, k, b) \in RangeOf(z)
      BY Zenon
    <3>2. b \in cmask_set(cid, z).bits[k] <=> CidAt(z, k, b) \in {cid} \cap RangeOf(z)
      BY <1>7, Zenon
    <3>3. QED
      BY <3>2, Zenon
  <2>4. QED
    BY <2>2, <2>3, Zenon
<1> HIDE DEF G
<1>10. f \in [0 .. z.alloc_words - 1 -> SUBSET Bits]
  BY <1>5, <1>8
<1>11. ASSUME NEW k \in 0 .. cmask_nr_words(z) - 1, NEW b \in Bits
       PROVE  b \in f[k] <=> CidAt(z, k, b) \in C \cap RangeOf(z)
  <2>1. k \in 0 .. z.alloc_words - 1
    BY <1>4, FrameFacts
  <2>2. b \in f[k] <=> b \in z.bits[k] \/ b \in G(k)
    BY <1>5, <2>1
  <2>3. b \notin z.bits[k]
    BY <1>1, Zenon DEF Represents
  <2>4. QED
    BY <1>9, <2>2, <2>3, Zenon
<1> HIDE DEF f
<1>12. C \cap RangeOf(z) \in SUBSET RangeOf(z)
  OBVIOUS
<1>13. SameFrame([z EXCEPT !.bits = f], z) /\ Represents([z EXCEPT !.bits = f], C \cap RangeOf(z))
  BY <1>4, <1>10, <1>11, <1>12, NewSet, Zenon
<1>14. C \cap RangeOf(z) = {cpu_to_cid[cpu] : cpu \in cpus} \cap RangeOf(m)
  <2>1. \A c \in RangeOf(m) : c >= 0
    BY <1>4, <1>5
  <2>2. QED
    BY <1>2, <1>4, <2>1
<1>15. SameFrame([z EXCEPT !.bits = f], m)
  BY <1>1, <1>13, Zenon DEF SameFrame
<1>16. QED
  BY <1>6, <1>13, <1>14, <1>15, Zenon

-----------------------------------------------------------------------------
(* Searches                                                                *)

\* The bits of the words g that a search from start looks at.
SeenBits(g, start, w) ==
  IF w = start \div W THEN g[w] \cap GENMASK(W - 1, start % W) ELSE g[w]

\* A search in the words g.
SearchIn(start, hi, none, g) ==
  LET hits == {w \in WordsOf(start, hi) : SeenBits(g, start, w) # {}}
      found == Min(hits) * W + Min(SeenBits(g, start, Min(hits)))
  IN IF hits = {} \/ found >= hi THEN none ELSE found

\* The words g have the cids of S that are in [start, hi).
HasCids(g, S, start, hi) ==
  /\ g \in [WordsOf(start, hi) -> SUBSET Bits]
  /\ \A w \in WordsOf(start, hi), b \in Bits :
       start <= w * W + b /\ w * W + b < hi => (b \in g[w] <=> w * W + b \in S)
  /\ \A c \in S : c \in Nat /\ c < hi

\* The bits that are seen are those of the cids from start on.
LEMMA SeenBit ==
  ASSUME NEW start \in Nat, NEW hi \in Nat, start < hi, NEW S, NEW g, HasCids(g, S, start, hi),
         NEW w \in WordsOf(start, hi), w \in Nat, start \div W <= w, NEW b \in Bits
  PROVE  b \in SeenBits(g, start, w) <=> b \in g[w] /\ start <= w * W + b
<1>1. PICK v \in Nat, x \in Bits : v = start \div W /\ x = start % W /\ start = v * W + x
  BY Split
<1>2. start <= w * W + b <=> v < w \/ (v = w /\ x <= b)
  BY <1>1, CidOrder
<1>3. v <= w /\ x \in Int /\ b \in Int /\ b <= W - 1
  BY <1>1, Positive DEF Bits
<1>4. CASE w = v
  <2>1. start <= w * W + b <=> x <= b
    BY <1>2, <1>4
  <2>2. SeenBits(g, start, w) = g[w] \cap (x .. W - 1)
    BY <1>1, <1>4, Zenon DEF SeenBits, GENMASK
  <2>3. b \in x .. W - 1 <=> x <= b
    BY <1>3, Positive
  <2>4. QED
    BY <2>1, <2>2, <2>3, Zenon
<1>5. CASE w # v
  <2>1. start <= w * W + b
    BY <1>1, <1>2, <1>3, <1>5
  <2>2. SeenBits(g, start, w) = g[w]
    BY <1>1, <1>5, Zenon DEF SeenBits
  <2>3. QED
    BY <2>1, <2>2, Zenon
<1>6. QED
  BY <1>4, <1>5

\* A search finds the first cid at or after start.
LEMMA SearchFirst ==
  ASSUME NEW start \in Nat, NEW hi \in Nat, start < hi,
         (hi - 1) \div W - start \div W < CMASK_MAX_WORDS,
         NEW S, NEW g, HasCids(g, S, start, hi), NEW none
  PROVE  SearchIn(start, hi, none, g) = FirstOf({c \in S : c >= start}, none)
<1>1. PICK v \in Nat, x \in Bits : v = start \div W /\ x = start % W /\ start = v * W + x
  BY Split
<1>2. hi - 1 \in Nat
  OBVIOUS
<1>3. PICK u \in Nat, y \in Bits : u = (hi - 1) \div W /\ y = (hi - 1) % W /\ hi - 1 = u * W + y
  BY <1>2, Split
<1>4. WordsOf(start, hi) = v .. u
  <2>1. Min({u, v + CMASK_MAX_WORDS - 1}) = u
    BY <1>1, <1>3, MinMaxPair, Positive
  <2>2. QED
    BY <1>1, <1>3, <2>1, Zenon DEF WordsOf
<1>5. g \in [v .. u -> SUBSET Bits]
  BY <1>4, Zenon DEF HasCids
<1>6. PICK hits : hits = {w \in WordsOf(start, hi) : SeenBits(g, start, w) # {}}
  OBVIOUS
<1>7. PICK T : T = {c \in S : c >= start}
  OBVIOUS
<1>8. T \subseteq Nat /\ \A c \in T : c \in S /\ start <= c /\ c < hi
  BY <1>7 DEF HasCids
<1>9. ASSUME NEW w \in hits
      PROVE  /\ w \in WordsOf(start, hi) /\ w \in Nat /\ start \div W <= w
             /\ SeenBits(g, start, w) # {} /\ SeenBits(g, start, w) \subseteq Bits
  <2>1. w \in WordsOf(start, hi) /\ SeenBits(g, start, w) # {}
    BY <1>6, Zenon
  <2>2. w \in Nat /\ v <= w /\ w \in v .. u
    BY <1>4, <2>1
  <2>3. g[w] \in SUBSET Bits
    BY <1>5, <2>2, Zenon
  <2>4. SeenBits(g, start, w) \subseteq Bits
    BY <2>3, Zenon DEF SeenBits
  <2>5. QED
    BY <1>1, <2>1, <2>2, <2>4, Zenon
<1>10. ASSUME NEW c \in T
       PROVE  \E w \in hits, b \in Bits : c = w * W + b /\ b \in SeenBits(g, start, w)
  <2>1. c \in Nat /\ c \in S /\ start <= c /\ c < hi
    BY <1>8
  <2>2. PICK w \in Nat, b \in Bits : w = c \div W /\ c = w * W + b
    BY <2>1, Split
  <2>3. v < w \/ (v = w /\ x <= b)
    BY <1>1, <2>1, <2>2, CidOrder
  <2>4. w < u \/ (w = u /\ b <= y)
    <3>1. c <= hi - 1
      BY <2>1
    <3>2. QED
      BY <1>3, <2>2, <3>1, CidOrder
  <2>5. w \in WordsOf(start, hi) /\ v <= w
    BY <1>4, <2>3, <2>4
  <2>6. b \in g[w]
    BY <2>1, <2>2, <2>5, Zenon DEF HasCids
  <2>7. start \div W <= w /\ start <= w * W + b
    BY <1>1, <2>1, <2>2, <2>5, Zenon
  <2>8. b \in SeenBits(g, start, w)
    BY <2>5, <2>6, <2>7, SeenBit
  <2>9. w \in hits
    BY <1>6, <2>5, <2>8, Zenon
  <2>10. QED
    BY <2>2, <2>8, <2>9, Zenon
<1>11. CASE hits = {}
  <2>1. T = {}
    BY <1>10, <1>11, Zenon
  <2>2. SearchIn(start, hi, none, g) = none
    BY <1>6, <1>11, Zenon DEF SearchIn
  <2>3. QED
    BY <1>7, <2>1, <2>2, Zenon DEF FirstOf
<1>12. CASE hits # {}
  <2>1. PICK w : w = Min(hits) /\ w \in hits /\ \A z \in hits : w <= z
    <3>1. hits \in SUBSET Nat
      BY <1>9, Zenon
    <3>2. QED
      BY <1>12, <3>1, MinOf, Zenon
  <2>2. /\ w \in WordsOf(start, hi) /\ w \in Nat /\ start \div W <= w
        /\ SeenBits(g, start, w) # {} /\ SeenBits(g, start, w) \subseteq Bits
    BY <1>9, <2>1, Zenon
  <2>3. PICK b : /\ b = Min(SeenBits(g, start, w)) /\ b \in SeenBits(g, start, w)
                 /\ \A z \in SeenBits(g, start, w) : b <= z
    <3>1. SeenBits(g, start, w) \in SUBSET Nat
      BY <2>2, Positive DEF Bits
    <3>2. QED
      BY <2>2, <3>1, MinOf, Zenon
  <2>4. b \in Bits /\ b \in g[w] /\ start <= w * W + b
    <3>1. b \in Bits
      BY <2>2, <2>3, Zenon
    <3>2. QED
      BY <2>2, <2>3, <3>1, SeenBit
  <2>5. PICK f \in Nat : f = w * W + b
    BY <2>2, <2>4, DivOf
  <2>6. ASSUME NEW c \in T PROVE f <= c
    <3>1. PICK z \in hits, a \in Bits : c = z * W + a /\ a \in SeenBits(g, start, z)
      BY <1>10, Zenon
    <3>2. z \in Nat /\ w <= z
      BY <1>9, <2>1, <3>1, Zenon
    <3>3. w = z => b <= a
      BY <2>3, <3>1, Zenon
    <3>4. w < z \/ (w = z /\ b <= a)
      BY <2>2, <3>2, <3>3
    <3>5. w * W + b <= z * W + a
      BY <2>2, <2>4, <3>1, <3>2, <3>4, CidOrder
    <3>6. QED
      BY <2>5, <3>1, <3>5, Zenon
  <2>7. SearchIn(start, hi, none, g) = IF f >= hi THEN none ELSE f
    BY <1>6, <1>12, <2>1, <2>3, <2>5, Zenon DEF SearchIn
  <2>8. CASE f >= hi
    <3>1. T = {}
      <4>1. SUFFICES ASSUME NEW c \in T PROVE FALSE
        BY Zenon
      <4>2. c \in Nat /\ c < hi /\ f <= c
        BY <1>8, <2>6
      <4>3. QED
        BY <2>5, <2>8, <4>2
    <3>2. QED
      BY <1>7, <2>7, <2>8, <3>1, Zenon DEF FirstOf
  <2>9. CASE ~ (f >= hi)
    <3>1. w * W + b < hi
      BY <2>5, <2>9
    <3>2. f \in S
      BY <2>2, <2>4, <2>5, <3>1, Zenon DEF HasCids
    <3>3. f \in T
      BY <1>7, <2>4, <2>5, <3>2
    <3>4. Min(T) = f
      BY <1>8, <2>6, <3>3, MinIs
    <3>5. QED
      BY <1>7, <2>7, <2>9, <3>3, <3>4, Zenon DEF FirstOf
  <2>10. QED
    BY <2>8, <2>9, Zenon
<1>13. QED
  BY <1>11, <1>12, Zenon

\* The next cid of a mask.
LEMMA NextSet ==
  ASSUME NEW m, IsMask(m), NEW A, Represents(m, A), NEW s \in Nat
  PROVE  cmask_next_set(m, s) = FirstOf({c \in A : c >= s}, cmask_end(m))
<1>0. m.base \in Nat /\ cmask_end(m) \in Nat /\ m.base \in Int /\ s \in Int
  BY FrameFacts
<1>1. /\ m.base \in Nat /\ cmask_end(m) \in Nat /\ wbase(m) \in Nat
      /\ m.bits \in [0 .. m.alloc_words - 1 -> SUBSET Bits]
  BY FrameFacts
<1>2. A \subseteq RangeOf(m) /\ \A c \in A : c \in Nat /\ m.base <= c /\ c < cmask_end(m)
  BY <1>1 DEF Represents, RangeOf
<1>3. PICK start \in Nat : start = ClampLo(m, s) /\ m.base <= start
                           /\ start = IF s >= m.base THEN s ELSE m.base
  <2>1. ClampLo(m, s) = IF s >= m.base THEN s ELSE m.base
    BY <1>0, MinMaxPair, Zenon DEF ClampLo
  <2>2. QED
    BY <1>0, <2>1
<1>4. PICK hi \in Nat : hi = cmask_end(m)
  BY <1>1
<1>5. {c \in A : c >= s} = {c \in A : c >= start}
  BY <1>1, <1>2, <1>3
<1>6. CASE start >= hi
  <2>1. {c \in A : c >= start} = {}
    BY <1>2, <1>4, <1>6
  <2>2. cmask_next_set(m, s) = cmask_end(m)
    BY <1>3, <1>4, <1>6, Zenon DEF cmask_next_set
  <2>3. QED
    BY <1>5, <2>1, <2>2, Zenon DEF FirstOf
<1>7. CASE start < hi
  <2>1. /\ (hi - 1) \div W - start \div W < CMASK_MAX_WORDS
        /\ \A w \in WordsOf(start, hi) : w \in Nat /\ w - wbase(m) \in 0 .. cmask_nr_words(m) - 1
    <3>1. hi <= cmask_end(m)
      BY <1>4
    <3>2. QED
      BY <1>3, <1>7, <3>1, SubRange
  <2>2. cmask_nr_words(m) \in Nat /\ cmask_nr_words(m) <= m.alloc_words /\ m.alloc_words \in Nat
    BY FrameFacts
  <2>3. \A w \in WordsOf(start, hi) : Word(m, w) \in SUBSET Bits
    <3>1. \A w \in WordsOf(start, hi) : w - wbase(m) \in 0 .. m.alloc_words - 1
      BY <2>1, <2>2
    <3>2. QED
      BY <1>1, <3>1 DEF Word
  <2> DEFINE g == [w \in WordsOf(start, hi) |-> Word(m, w)]
  <2>4. HasCids(g, A, start, hi)
    <3>1. g \in [WordsOf(start, hi) -> SUBSET Bits] /\ \A w \in WordsOf(start, hi) : g[w] = Word(m, w)
      BY <2>3
    <3> HIDE DEF g
    <3>2. ASSUME NEW w \in WordsOf(start, hi), NEW b \in Bits, start <= w * W + b, w * W + b < hi
          PROVE  b \in g[w] <=> w * W + b \in A
      <4>1. w \in Nat
        BY <2>1
      <4>2. w * W + b \in Nat
        BY <4>1, DivOf
      <4>3. w * W + b \in RangeOf(m)
        <5>1. PICK c \in Nat : c = w * W + b
          BY <4>2
        <5>2. c \in RangeOf(m)
          BY <1>1, <1>3, <1>4, <3>2, <5>1 DEF RangeOf
        <5>3. QED
          BY <5>1, <5>2, Zenon
      <4>4. b \in Word(m, w) <=> w * W + b \in A
        BY <4>1, <4>3, WordBit
      <4>5. QED
        BY <3>1, <4>4, Zenon
    <3>3. \A c \in A : c \in Nat /\ c < hi
      BY <1>2, <1>4
    <3>4. QED
      BY <3>1, <3>2, <3>3, Zenon DEF HasCids
  <2>5. SearchIn(start, hi, hi, g) = FirstOf({c \in A : c >= start}, hi)
    <3> HIDE DEF g
    <3>1. QED
      BY <1>7, <2>1, <2>4, SearchFirst
  <2>6. cmask_next_set(m, s) = SearchIn(start, hi, hi, g)
    <3> DEFINE From(w) == IF w = start \div W THEN Word(m, w) \cap GENMASK(W - 1, start % W)
                          ELSE Word(m, w)
    <3>1. PICK hits : hits = {w \in WordsOf(start, hi) : From(w) # {}}
      OBVIOUS
    <3>2. \A w \in WordsOf(start, hi) : SeenBits(g, start, w) = From(w)
      BY Zenon DEF SeenBits
    <3> HIDE DEF g
    <3>3. hits = {w \in WordsOf(start, hi) : SeenBits(g, start, w) # {}}
      <4> HIDE DEF From
      <4>1. QED
        BY <3>1, <3>2, Zenon
    <3>4. cmask_next_set(m, s) =
            IF hits = {} \/ Min(hits) * W + Min(From(Min(hits))) >= hi THEN hi
            ELSE Min(hits) * W + Min(From(Min(hits)))
      <4>1. ~ (ClampLo(m, s) >= cmask_end(m))
        BY <1>3, <1>4, <1>7
      <4>2. QED
        BY <1>3, <1>4, <3>1, <4>1, Zenon DEF cmask_next_set, Search, ctzll
    <3> HIDE DEF From
    <3>5. SearchIn(start, hi, hi, g) =
            IF hits = {} \/ Min(hits) * W + Min(SeenBits(g, start, Min(hits))) >= hi THEN hi
            ELSE Min(hits) * W + Min(SeenBits(g, start, Min(hits)))
      BY <3>3, Zenon DEF SearchIn
    <3>6. CASE hits = {}
      BY <3>4, <3>5, <3>6, Zenon
    <3>7. CASE hits # {}
      <4>1. hits \in SUBSET Nat
        BY <2>1, <3>1
      <4>2. Min(hits) \in hits
        BY <3>7, <4>1, MinOf
      <4>3. SeenBits(g, start, Min(hits)) = From(Min(hits))
        BY <3>1, <3>2, <4>2, Zenon
      <4>4. QED
        BY <3>4, <3>5, <4>3, Zenon
    <3>8. QED
      BY <3>6, <3>7, Zenon
  <2>7. QED
    BY <1>4, <1>5, <2>5, <2>6, Zenon
<1>8. QED
  BY <1>6, <1>7

\* The cids that all the masks of a set have.
CommonOf(ms) == {c \in Nat : \A m \in ms : c \in SetOf(m)}

\* [lo, hi) is what the ranges of the masks of ms have in common.
CommonRange(ms, lo, hi) ==
  /\ lo = Max({m.base : m \in ms}) /\ hi = Min({cmask_end(m) : m \in ms})
  /\ lo \in Nat /\ hi \in Nat
  /\ \A m \in ms : m.base <= lo /\ hi <= cmask_end(m)
  /\ \A c \in Int : lo <= c /\ c < hi <=> \A m \in ms : c \in RangeOf(m)

\* The next cid that all of them have.
LEMMA NextAnd ==
  ASSUME NEW ms, ms # {}, \A m \in ms : IsMask(m) /\ Represents(m, SetOf(m)),
         NEW lo, NEW hi, CommonRange(ms, lo, hi), NEW s \in Nat, NEW none
  PROVE  next_and(ms, s, none) = FirstOf({c \in CommonOf(ms) : c >= s}, none)
<1>1. lo \in Nat /\ hi \in Nat /\ lo = Max({m.base : m \in ms}) /\ hi = Min({cmask_end(m) : m \in ms})
  BY Zenon DEF CommonRange
<1>0. lo \in Nat /\ hi \in Nat /\ lo \in Int /\ s \in Int
  BY <1>1
<1>2. PICK S : S = CommonOf(ms)
  OBVIOUS
<1>3. \A c \in S : c \in Nat /\ lo <= c /\ c < hi
  <2>1. \A m \in ms : SetOf(m) \subseteq RangeOf(m)
    BY Zenon DEF SetOf
  <2>2. \A c \in S : c \in Nat /\ \A m \in ms : c \in RangeOf(m)
    BY <1>2, <2>1, Zenon DEF CommonOf
  <2>3. \A c \in Nat : c \in Int
    OBVIOUS
  <2>4. QED
    BY <2>2, <2>3, Zenon DEF CommonRange
<1>4. PICK start \in Nat : start = Max({s, lo}) /\ lo <= start
                           /\ start = IF s >= lo THEN s ELSE lo
  <2>1. Max({s, lo}) = IF s >= lo THEN s ELSE lo
    BY <1>0, MinMaxPair, Zenon
  <2>2. QED
    BY <1>0, <2>1
<1>5. {c \in S : c >= s} = {c \in S : c >= start}
  <2>1. \A c \in S : c >= s <=> c >= start
    BY <1>0, <1>3, <1>4
  <2>2. QED
    BY <2>1, Zenon
<1>6. CASE start >= hi
  <2>1. {c \in S : c >= start} = {}
    <3>1. \A c \in S : ~ (c >= start)
      BY <1>0, <1>3, <1>6
    <3>2. QED
      BY <3>1, Zenon
  <2>2. next_and(ms, s, none) = none
    BY <1>1, <1>4, <1>6, Zenon DEF next_and
  <2>3. QED
    BY <1>2, <1>5, <2>1, <2>2, Zenon DEF FirstOf
<1>7. CASE start < hi
  <2>1. /\ (hi - 1) \div W - start \div W < CMASK_MAX_WORDS
        /\ \A w \in WordsOf(start, hi) : w \in Nat
    <3>1. PICK m \in ms : IsMask(m) /\ m.base <= lo /\ hi <= cmask_end(m)
      BY Zenon DEF CommonRange
    <3>2. m.base <= start
      BY <1>1, <1>4, <3>1, FrameFacts
    <3>3. QED
      BY <1>1, <1>7, <3>1, <3>2, SubRange
  <2> DEFINE All(w) == {b \in Bits : \A m \in ms : b \in Word(m, w)}
             g == [w \in WordsOf(start, hi) |-> All(w)]
  <2>2. HasCids(g, S, start, hi)
    <3>1. g \in [WordsOf(start, hi) -> SUBSET Bits] /\ \A w \in WordsOf(start, hi) : g[w] = All(w)
      OBVIOUS
    <3> HIDE DEF g
    <3>2. ASSUME NEW w \in WordsOf(start, hi), NEW b \in Bits, start <= w * W + b, w * W + b < hi
          PROVE  b \in g[w] <=> w * W + b \in S
      <4>1. w \in Nat
        BY <2>1
      <4>2. PICK c \in Nat : c = w * W + b
        BY <4>1, DivOf
      <4>3. lo <= c /\ c < hi /\ c \in Int
        BY <1>1, <1>4, <3>2, <4>2
      <4>4. \A m \in ms : c \in RangeOf(m)
        BY <4>3, Zenon DEF CommonRange
      <4>5. ASSUME NEW m \in ms
            PROVE  b \in Word(m, w) <=> c \in SetOf(m)
        <5>1. w * W + b \in RangeOf(m)
          BY <4>2, <4>4, Zenon
        <5>2. IsMask(m) /\ Represents(m, SetOf(m))
          OBVIOUS
        <5>3. b \in Word(m, w) <=> w * W + b \in SetOf(m)
          BY <4>1, <5>1, <5>2, WordBit
        <5>4. QED
          BY <4>2, <5>3, Zenon
      <4>6. b \in g[w] <=> \A m \in ms : b \in Word(m, w)
        BY <3>1, Zenon
      <4>7. c \in S <=> \A m \in ms : c \in SetOf(m)
        BY <1>2, Zenon DEF CommonOf
      <4>8. QED
        BY <4>2, <4>5, <4>6, <4>7, Zenon
    <3>3. QED
      BY <1>3, <3>1, <3>2, Zenon DEF HasCids
  <2>3. SearchIn(start, hi, none, g) = FirstOf({c \in S : c >= start}, none)
    <3> HIDE DEF g
    <3>1. QED
      BY <1>1, <1>7, <2>1, <2>2, SearchFirst
  <2>4. next_and(ms, s, none) = SearchIn(start, hi, none, g)
    <3> DEFINE From(w) == IF w = start \div W THEN All(w) \cap GENMASK(W - 1, start % W)
                          ELSE All(w)
    <3>1. PICK hits : hits = {w \in WordsOf(start, hi) : From(w) # {}}
      OBVIOUS
    <3>2. \A w \in WordsOf(start, hi) : SeenBits(g, start, w) = From(w)
      <4> HIDE DEF All
      <4>1. QED
        BY Zenon DEF SeenBits
    <3> HIDE DEF g
    <3>3. hits = {w \in WordsOf(start, hi) : SeenBits(g, start, w) # {}}
      <4> HIDE DEF From
      <4>1. QED
        BY <3>1, <3>2, Zenon
    <3>4. next_and(ms, s, none) =
            IF hits = {} \/ Min(hits) * W + Min(From(Min(hits))) >= hi THEN none
            ELSE Min(hits) * W + Min(From(Min(hits)))
      <4>1. ~ (lo >= hi \/ start >= hi)
        BY <1>1, <1>4, <1>7
      <4>2. QED
        BY <1>1, <1>4, <3>1, <4>1, Zenon DEF next_and, Search, ctzll
    <3> HIDE DEF From
    <3>5. SearchIn(start, hi, none, g) =
            IF hits = {} \/ Min(hits) * W + Min(SeenBits(g, start, Min(hits))) >= hi THEN none
            ELSE Min(hits) * W + Min(SeenBits(g, start, Min(hits)))
      BY <3>3, Zenon DEF SearchIn
    <3>6. CASE hits = {}
      BY <3>4, <3>5, <3>6, Zenon
    <3>7. CASE hits # {}
      <4>1. hits \in SUBSET Nat
        BY <2>1, <3>1
      <4>2. Min(hits) \in hits
        BY <3>7, <4>1, MinOf
      <4>3. SeenBits(g, start, Min(hits)) = From(Min(hits))
        BY <3>1, <3>2, <4>2, Zenon
      <4>4. QED
        BY <3>4, <3>5, <4>3, Zenon
    <3>8. QED
      BY <3>6, <3>7, Zenon
  <2>5. QED
    BY <1>2, <1>5, <2>3, <2>4, Zenon
<1>8. QED
  BY <1>1, <1>4, <1>6, <1>7

\* The largest is the one that none exceeds.
LEMMA MaxIs ==
  ASSUME NEW S \in SUBSET Int, NEW m \in S, \A x \in S : x <= m
  PROVE  Max(S) = m
<1>1. Max(S) \in S /\ \A y \in S : Max(S) >= y
  <2>1. \A y \in S : m >= y
    OBVIOUS
  <2>2. QED
    BY <2>1, Zenon DEF Max
<1>2. Max(S) >= m /\ Max(S) <= m /\ Max(S) \in Int /\ m \in Int
  BY <1>1
<1>3. QED
  BY <1>2

\* The latest beginning and the earliest end bound the common range.
LEMMA CommonIs ==
  ASSUME NEW ms, NEW p \in ms, NEW q \in ms, \A m \in ms : IsMask(m),
         \A m \in ms : m.base <= p.base /\ cmask_end(q) <= cmask_end(m)
  PROVE  CommonRange(ms, p.base, cmask_end(q))
<1>1. \A m \in ms : m.base \in Nat /\ cmask_end(m) \in Nat
  BY FrameFacts
<1>2. PICK B : B = {m.base : m \in ms}
  OBVIOUS
<1>3. PICK E : E = {cmask_end(m) : m \in ms}
  OBVIOUS
<1>4. Max(B) = p.base
  <2>1. B \in SUBSET Int /\ p.base \in B /\ \A x \in B : x <= p.base
    BY <1>1, <1>2
  <2>2. QED
    BY <2>1, MaxIs
<1>5. Min(E) = cmask_end(q)
  <2>1. E \in SUBSET Nat /\ cmask_end(q) \in E /\ \A x \in E : cmask_end(q) <= x
    BY <1>1, <1>3
  <2>2. QED
    BY <2>1, MinIs
<1>6. \A c \in Int : p.base <= c /\ c < cmask_end(q) <=> \A m \in ms : c \in RangeOf(m)
  <2>1. SUFFICES ASSUME NEW c \in Int
                 PROVE  p.base <= c /\ c < cmask_end(q) <=> \A m \in ms : c \in RangeOf(m)
    OBVIOUS
  <2>2. \A m \in ms : c \in RangeOf(m) <=> m.base <= c /\ c < cmask_end(m)
    BY <1>1 DEF RangeOf
  <2>3. \A m \in ms : p.base <= c => m.base <= c
    BY <1>1
  <2>4. \A m \in ms : c < cmask_end(q) => c < cmask_end(m)
    BY <1>1
  <2>5. QED
    BY <2>2, <2>3, <2>4, Zenon
<1>7. QED
  BY <1>1, <1>2, <1>3, <1>4, <1>5, <1>6, Zenon DEF CommonRange

\* Of two or three masks, one begins last.
LEMMA LastBase ==
  ASSUME NEW a, NEW b, NEW c, IsMask(a), IsMask(b), IsMask(c)
  PROVE  \E p \in {a, b, c} : \A m \in {a, b, c} : m.base <= p.base
<1>1. a.base \in Nat /\ b.base \in Nat /\ c.base \in Nat
  BY FrameFacts
<1>2. \/ b.base <= a.base /\ c.base <= a.base
      \/ a.base <= b.base /\ c.base <= b.base
      \/ a.base <= c.base /\ b.base <= c.base
  BY <1>1
<1>3. a.base <= a.base /\ b.base <= b.base /\ c.base <= c.base
  BY <1>1
<1>4. QED
  BY <1>2, <1>3, Zenon

\* And one ends first.
LEMMA FirstEnd ==
  ASSUME NEW a, NEW b, NEW c, IsMask(a), IsMask(b), IsMask(c)
  PROVE  \E q \in {a, b, c} : \A m \in {a, b, c} : cmask_end(q) <= cmask_end(m)
<1>1. cmask_end(a) \in Nat /\ cmask_end(b) \in Nat /\ cmask_end(c) \in Nat
  BY FrameFacts
<1>2. \/ cmask_end(a) <= cmask_end(b) /\ cmask_end(a) <= cmask_end(c)
      \/ cmask_end(b) <= cmask_end(a) /\ cmask_end(b) <= cmask_end(c)
      \/ cmask_end(c) <= cmask_end(a) /\ cmask_end(c) <= cmask_end(b)
  BY <1>1
<1>3. cmask_end(a) <= cmask_end(a) /\ cmask_end(b) <= cmask_end(b) /\ cmask_end(c) <= cmask_end(c)
  BY <1>1
<1>4. QED
  BY <1>2, <1>3, Zenon

\* The words are those of the set that cmask_test tells.
LEMMA RepresentsItsSet ==
  ASSUME NEW m, IsMask(m), NEW S, Represents(m, S)
  PROVE  Represents(m, SetOf(m))
<1>1. SetOf(m) = S
  BY SetOfRepresented
<1>2. QED
  BY <1>1, Zenon

\* The next cid that three masks have; b and c may be the same.
LEMMA NextAndOfThree ==
  ASSUME NEW a, NEW b, NEW c, IsMask(a), IsMask(b), IsMask(c), NEW A, NEW B, NEW C,
         Represents(a, A), Represents(b, B), Represents(c, C), NEW s \in Nat, NEW none
  PROVE  next_and({a, b, c}, s, none) = FirstOf({d \in A \cap B \cap C : d >= s}, none)
<1>1. PICK ms : ms = {a, b, c}
  OBVIOUS
<1>2. SetOf(a) = A /\ SetOf(b) = B /\ SetOf(c) = C
  BY SetOfRepresented
<1>3. \A m \in ms : IsMask(m) /\ Represents(m, SetOf(m))
  BY <1>1, <1>2, Zenon
<1>4. PICK p \in ms : \A m \in ms : m.base <= p.base
  <2>1. \E p \in {a, b, c} : \A m \in {a, b, c} : m.base <= p.base
    BY LastBase
  <2>2. QED
    BY <1>1, <2>1, Zenon
<1>5. PICK q \in ms : \A m \in ms : cmask_end(q) <= cmask_end(m)
  <2>1. \E q \in {a, b, c} : \A m \in {a, b, c} : cmask_end(q) <= cmask_end(m)
    BY FirstEnd
  <2>2. QED
    BY <1>1, <2>1, Zenon
<1>6. CommonRange(ms, p.base, cmask_end(q))
  BY <1>3, <1>4, <1>5, CommonIs, Zenon
<1>7. ms # {}
  BY <1>1
<1>8. next_and(ms, s, none) = FirstOf({d \in CommonOf(ms) : d >= s}, none)
  BY <1>3, <1>6, <1>7, NextAnd, Zenon
<1>9. CommonOf(ms) = A \cap B \cap C
  <2>1. A \subseteq Nat
    <3>1. A \subseteq RangeOf(a)
      BY DEF Represents
    <3>2. RangeOf(a) \subseteq Nat
      BY FrameFacts DEF RangeOf
    <3>3. QED
      BY <3>1, <3>2, Zenon
  <2>2. \A d : (\A m \in ms : d \in SetOf(m)) <=> d \in A /\ d \in B /\ d \in C
    BY <1>1, <1>2, Zenon
  <2>3. QED
    BY <2>1, <2>2, Zenon DEF CommonOf
<1>10. QED
  BY <1>1, <1>8, <1>9, Zenon

\* The first of the cids from s on, else the first of all, as the wrapping
\* searches put it together from two searches.
LEMMA WrapFirst ==
  ASSUME NEW S \in SUBSET Nat, NEW lo \in Nat, NEW e \in Nat, NEW s \in Nat,
         \A c \in S : lo <= c /\ c < e, NEW x, NEW y,
         x = FirstOf({c \in S : c >= s}, e), y = FirstOf({c \in S : c >= lo}, e)
  PROVE  (IF x < e \/ s <= lo THEN x ELSE IF y < s THEN y ELSE e) = FirstAround(S, s, e)
<1>1. {c \in S : c >= lo} = S
  OBVIOUS
<1>2. y = FirstOf(S, e)
  BY <1>1, Zenon
<1>3. PICK T : T = {c \in S : c >= s}
  OBVIOUS
<1>4. CASE T # {}
  <2>1. T \in SUBSET Nat /\ x = Min(T)
    BY <1>3, <1>4 DEF FirstOf
  <2>2. x \in T
    BY <1>4, <2>1, MinOf
  <2>3. x < e
    BY <1>3, <2>2
  <2>4. \E c \in S : c >= s
    BY <1>3, <1>4, Zenon
  <2>5. FirstAround(S, s, e) = x
    BY <1>3, <2>4, Zenon DEF FirstAround
  <2>6. QED
    BY <2>3, <2>5, Zenon
<1>5. CASE T = {}
  <2>0. x = e
    BY <1>3, <1>5, Zenon DEF FirstOf
  <2>1. x = e /\ ~ (x < e)
    BY <2>0
  <2>2. ~ \E c \in S : c >= s
    BY <1>3, <1>5, Zenon
  <2>3. FirstAround(S, s, e) = y
    BY <1>2, <2>2, Zenon DEF FirstAround
  <2>4. CASE S = {}
    <3>1. y = e
      BY <1>2, <2>4, Zenon DEF FirstOf
    <3>2. QED
      BY <2>1, <2>3, <3>1, Zenon
  <2>5. CASE S # {}
    <3>1. y = Min(S)
      BY <1>2, <2>5, Zenon DEF FirstOf
    <3>2. y \in S
      BY <2>5, <3>1, MinOf
    <3>3. y \in Nat /\ lo <= y /\ y < s
      BY <2>2, <3>2
    <3>4. ~ (s <= lo)
      BY <3>3
    <3>5. QED
      BY <2>1, <2>3, <3>3, <3>4, Zenon
  <2>6. QED
    BY <2>4, <2>5
<1>6. QED
  BY <1>4, <1>5

\* What is set is a natural number of the range.
LEMMA SetInRange ==
  ASSUME NEW m, IsMask(m), NEW A, Represents(m, A)
  PROVE  /\ A \in SUBSET Nat /\ m.base \in Nat /\ cmask_end(m) \in Nat
         /\ \A c \in A : m.base <= c /\ c < cmask_end(m)
<1>1. m.base \in Nat /\ cmask_end(m) \in Nat
  BY FrameFacts
<1>2. A \subseteq RangeOf(m)
  BY DEF Represents
<1>3. QED
  BY <1>1, <1>2 DEF RangeOf

\* The wrapping search of a mask.
LEMMA NextSetWrap ==
  ASSUME NEW m, IsMask(m), NEW A, Represents(m, A), NEW s \in Nat
  PROVE  cmask_next_set_wrap(m, s) = FirstAround(A, s, cmask_end(m))
<1>1. /\ A \in SUBSET Nat /\ m.base \in Nat /\ cmask_end(m) \in Nat
      /\ \A c \in A : m.base <= c /\ c < cmask_end(m)
  BY SetInRange
<1>2. PICK x : x = cmask_next_set(m, s) /\ x = FirstOf({c \in A : c >= s}, cmask_end(m))
  BY NextSet, Zenon
<1>3. PICK y : y = cmask_next_set(m, m.base) /\ y = FirstOf({c \in A : c >= m.base}, cmask_end(m))
  BY <1>1, NextSet, Zenon
<1>4. cmask_next_set_wrap(m, s) =
        IF x < cmask_end(m) \/ s <= m.base THEN x ELSE IF y < s THEN y ELSE cmask_end(m)
  BY <1>2, <1>3, Zenon DEF cmask_next_set_wrap, wrap
<1>5. QED
  <2>1. (IF x < cmask_end(m) \/ s <= m.base THEN x ELSE IF y < s THEN y ELSE cmask_end(m))
          = FirstAround(A, s, cmask_end(m))
    BY <1>1, <1>2, <1>3, WrapFirst
  <2>2. QED
    BY <1>4, <2>1

\* The next cid that two masks have.
LEMMA NextAndSet ==
  ASSUME NEW a, NEW b, IsMask(a), IsMask(b), NEW A, NEW B,
         Represents(a, A), Represents(b, B), NEW s \in Nat
  PROVE  cmask_next_and_set(a, b, s) = FirstOf({c \in A \cap B : c >= s}, cmask_end(a))
<1>1. next_and({a, b, b}, s, cmask_end(a)) = FirstOf({d \in A \cap B \cap B : d >= s}, cmask_end(a))
  BY NextAndOfThree
<1>2. {a, b, b} = {a, b} /\ A \cap B \cap B = A \cap B
  OBVIOUS
<1>3. QED
  BY <1>1, <1>2, Zenon DEF cmask_next_and_set

\* Their wrapping search.
LEMMA NextAndSetWrap ==
  ASSUME NEW a, NEW b, IsMask(a), IsMask(b), NEW A, NEW B,
         Represents(a, A), Represents(b, B), NEW s \in Nat
  PROVE  cmask_next_and_set_wrap(a, b, s) = FirstAround(A \cap B, s, cmask_end(a))
<1>1. /\ A \in SUBSET Nat /\ a.base \in Nat /\ cmask_end(a) \in Nat
      /\ \A c \in A : a.base <= c /\ c < cmask_end(a)
  BY SetInRange
<1>2. PICK S : S = A \cap B /\ S \in SUBSET Nat /\ \A c \in S : a.base <= c /\ c < cmask_end(a)
  BY <1>1
<1>3. PICK x : x = cmask_next_and_set(a, b, s) /\ x = FirstOf({c \in S : c >= s}, cmask_end(a))
  <2>1. cmask_next_and_set(a, b, s) = FirstOf({c \in A \cap B : c >= s}, cmask_end(a))
    BY NextAndSet
  <2>2. QED
    BY <1>2, <2>1, Zenon
<1>4. PICK y : y = cmask_next_and_set(a, b, a.base)
               /\ y = FirstOf({c \in S : c >= a.base}, cmask_end(a))
  <2>1. cmask_next_and_set(a, b, a.base) = FirstOf({c \in A \cap B : c >= a.base}, cmask_end(a))
    BY <1>1, NextAndSet
  <2>2. QED
    BY <1>2, <2>1, Zenon
<1>5. cmask_next_and_set_wrap(a, b, s) =
        IF x < cmask_end(a) \/ s <= a.base THEN x ELSE IF y < s THEN y ELSE cmask_end(a)
  BY <1>3, <1>4, Zenon DEF cmask_next_and_set_wrap, wrap
<1>6. QED
  <2>1. (IF x < cmask_end(a) \/ s <= a.base THEN x ELSE IF y < s THEN y ELSE cmask_end(a))
          = FirstAround(S, s, cmask_end(a))
    BY <1>1, <1>2, <1>3, <1>4, WrapFirst
  <2>2. QED
    BY <1>2, <1>5, <2>1

\* The same of three masks.
LEMMA NextAnd2Set ==
  ASSUME NEW a, NEW b, NEW c, IsMask(a), IsMask(b), IsMask(c), NEW A, NEW B, NEW C,
         Represents(a, A), Represents(b, B), Represents(c, C), NEW s \in Nat
  PROVE  /\ cmask_next_and2_set(a, b, c, s) =
              FirstOf({d \in A \cap B \cap C : d >= s}, cmask_end(a))
         /\ cmask_next_and2_set_wrap(a, b, c, s) = FirstAround(A \cap B \cap C, s, cmask_end(a))
<1>1. /\ A \in SUBSET Nat /\ a.base \in Nat /\ cmask_end(a) \in Nat
      /\ \A d \in A : a.base <= d /\ d < cmask_end(a)
  BY SetInRange
<1>2. PICK S : S = A \cap B \cap C /\ S \in SUBSET Nat
               /\ \A d \in S : a.base <= d /\ d < cmask_end(a)
  BY <1>1
<1>3. \A t \in Nat : cmask_next_and2_set(a, b, c, t) = FirstOf({d \in S : d >= t}, cmask_end(a))
  <2>1. ASSUME NEW t \in Nat
        PROVE  next_and({a, b, c}, t, cmask_end(a)) =
                 FirstOf({d \in A \cap B \cap C : d >= t}, cmask_end(a))
    BY NextAndOfThree
  <2>2. QED
    BY <1>2, <2>1, Zenon DEF cmask_next_and2_set
<1>4. PICK x : x = cmask_next_and2_set(a, b, c, s) /\ x = FirstOf({d \in S : d >= s}, cmask_end(a))
  BY <1>3, Zenon
<1>5. PICK y : y = cmask_next_and2_set(a, b, c, a.base)
               /\ y = FirstOf({d \in S : d >= a.base}, cmask_end(a))
  BY <1>1, <1>3, Zenon
<1>6. cmask_next_and2_set_wrap(a, b, c, s) =
        IF x < cmask_end(a) \/ s <= a.base THEN x ELSE IF y < s THEN y ELSE cmask_end(a)
  BY <1>4, <1>5, Zenon DEF cmask_next_and2_set_wrap, wrap
<1>7. cmask_next_and2_set_wrap(a, b, c, s) = FirstAround(S, s, cmask_end(a))
  <2>1. (IF x < cmask_end(a) \/ s <= a.base THEN x ELSE IF y < s THEN y ELSE cmask_end(a))
          = FirstAround(S, s, cmask_end(a))
    BY <1>1, <1>2, <1>4, <1>5, WrapFirst
  <2>2. QED
    BY <1>6, <2>1
<1>8. QED
  BY <1>2, <1>3, <1>7, Zenon

-----------------------------------------------------------------------------
(* Frames                                                                  *)

\* A range that fits its storage makes a mask.
LEMMA NewFrame ==
  ASSUME NEW b \in Nat, NEW n \in Nat, NEW a \in Nat,
         Span(b, n) <= a, Span(b, n) <= CMASK_MAX_WORDS,
         NEW f \in [0 .. a - 1 -> SUBSET Bits], NEW m,
         m = [base |-> b, nr_cids |-> n, alloc_words |-> a, bits |-> f]
  PROVE  /\ IsMask(m) /\ cmask_nr_words(m) = Span(b, n)
         /\ m.base = b /\ m.nr_cids = n /\ m.alloc_words = a /\ m.bits = f
<1>1. m.base = b /\ m.nr_cids = n /\ m.alloc_words = a /\ m.bits = f
  OBVIOUS
<1>2. cmask_nr_words(m) = Span(b, n)
  <2>1. wbase(m) = b \div W /\ cmask_end(m) = b + n
    BY <1>1, Zenon DEF cmask_end, wbase
  <2>2. cmask_nr_words(m) = IF n = 0 THEN 0 ELSE (b + n - 1) \div W - b \div W + 1
    BY <1>1, <2>1 DEF cmask_nr_words
  <2>3. QED
    BY <2>2, Zenon DEF Span
<1>3. Frame(m)
  BY <1>1, <1>2, Zenon DEF Frame
<1>4. m = [base |-> m.base, nr_cids |-> m.nr_cids, alloc_words |-> m.alloc_words, bits |-> m.bits]
  BY <1>1
<1>5. m.bits \in [0 .. m.alloc_words - 1 -> SUBSET Bits]
  BY <1>1, Zenon
<1>6. QED
  BY <1>1, <1>2, <1>3, <1>4, <1>5, Zenon DEF IsMask

\* A mask is begun with no bits, or refused for lack of storage.
LEMMA InitSet ==
  ASSUME NEW m, NEW b \in Nat, NEW n \in Nat, NEW a \in Nat, n <= a,
         Span(b, n) <= CMASK_MAX_WORDS
  PROVE  /\ IsMask(cmask_init(m, b, n, a)) /\ Represents(cmask_init(m, b, n, a), {})
         /\ cmask_init(m, b, n, a).base = b /\ cmask_init(m, b, n, a).nr_cids = n
         /\ cmask_init(m, b, n, a).alloc_words = CMASK_NR_WORDS(a)
<1>1. PICK aw \in Nat : aw = CMASK_NR_WORDS(a) /\ Span(b, n) <= aw
  <2>1. CMASK_NR_WORDS(n) \in Nat /\ CMASK_NR_WORDS(n) <= CMASK_NR_WORDS(a)
        /\ CMASK_NR_WORDS(a) \in Nat
    BY NrWordsMono
  <2>2. Span(b, n) \in Nat /\ Span(b, n) <= CMASK_NR_WORDS(n)
    BY SpanBound
  <2>3. QED
    BY <2>1, <2>2
<1>2. PICK f : f = [k \in 0 .. aw - 1 |-> {}]
  OBVIOUS
<1>3. f \in [0 .. aw - 1 -> SUBSET Bits] /\ \A k \in 0 .. aw - 1 : f[k] = {}
  BY <1>2
<1>4. PICK x : x = [base |-> b, nr_cids |-> n, alloc_words |-> aw, bits |-> f]
  OBVIOUS
<1>5. ~ (n > a)
  OBVIOUS
<1>6. x = cmask_init(m, b, n, a)
  BY <1>1, <1>2, <1>4, <1>5, Zenon DEF cmask_init
<1>7. /\ IsMask(x) /\ cmask_nr_words(x) = Span(b, n)
      /\ x.base = b /\ x.nr_cids = n /\ x.alloc_words = aw /\ x.bits = f
  BY <1>1, <1>3, <1>4, NewFrame
<1>8. \A k \in 0 .. cmask_nr_words(x) - 1 : x.bits[k] = {}
  <2>1. \A k \in 0 .. cmask_nr_words(x) - 1 : k \in 0 .. aw - 1
    BY <1>7, FrameFacts
  <2>2. QED
    BY <1>3, <1>7, <2>1, Zenon
<1>9. Represents(x, {})
  BY <1>8, Zenon DEF Represents
<1>10. QED
  BY <1>1, <1>6, <1>7, <1>9, Zenon

\* The last word of a range, counted from its first.
LEMMA LastWord ==
  ASSUME NEW b \in Nat, NEW n \in Nat, n > 0
  PROVE  /\ ((b % W) + n - 1) \div W = Span(b, n) - 1
         /\ Span(b, n) \in Nat /\ Span(b, n) > 0
<1>1. PICK q \in Nat, r \in Bits : q = b \div W /\ r = b % W /\ b = q * W + r
  BY Split
<1>2. r \in Nat /\ r + n - 1 \in Nat
  BY Positive DEF Bits
<1>3. PICK d \in Nat, t \in Bits : d = (r + n - 1) \div W /\ r + n - 1 = d * W + t
  BY <1>2, Split
<1>4. (q + d) * W = q * W + d * W /\ q * W \in Int /\ d * W \in Int /\ t \in Int
  BY Distribute, Positive DEF Bits
<1>5. b + n - 1 = (q + d) * W + t
  BY <1>1, <1>2, <1>3, <1>4
<1>6. q + d \in Nat
  OBVIOUS
<1>7. (b + n - 1) \div W = q + d
  BY <1>5, <1>6, DivOf
<1>8. Span(b, n) = q + d - q + 1
  BY <1>1, <1>7 DEF Span
<1>9. Span(b, n) = d + 1
  BY <1>8
<1>10. ((b % W) + n - 1) \div W = d
  BY <1>1, <1>3, Zenon
<1>11. QED
  BY <1>9, <1>10

\* A new frame keeps the storage.  Its first and last words are cleared, and
\* the words between them have no padding.
LEMMA ReframeMask ==
  ASSUME NEW m, IsMask(m), NEW b \in Nat, NEW n \in Nat, CMASK_NR_WORDS(n) <= m.alloc_words,
         m.alloc_words <= CMASK_MAX_WORDS, NEW x, x = cmask_reframe(m, b, n)
  PROVE  /\ IsMask(x) /\ x.base = b /\ x.nr_cids = n /\ x.alloc_words = m.alloc_words
         /\ Represents(x, SetOf(x))
<1>1. PICK a \in Nat : a = m.alloc_words
  BY FrameFacts
<1>2. m.bits \in [0 .. a - 1 -> SUBSET Bits]
  BY <1>1, FrameFacts
<1>3. Span(b, n) \in Nat /\ Span(b, n) <= a /\ Span(b, n) <= CMASK_MAX_WORDS
  <2>1. Span(b, n) \in Nat /\ Span(b, n) <= CMASK_NR_WORDS(n) /\ CMASK_NR_WORDS(n) \in Nat
    <3>1. CMASK_NR_WORDS(n) \in Nat
      BY NrWordsMono
    <3>2. QED
      BY <3>1, SpanBound
  <2>2. QED
    BY <1>1, <2>1, Positive
<1>4. PICK lw : lw = ((b % W) + n - 1) \div W
  OBVIOUS
<1>5. PICK f : f = IF n = 0 THEN m.bits ELSE [m.bits EXCEPT ![0] = {}, ![lw] = {}]
  OBVIOUS
<1>6. f \in [0 .. a - 1 -> SUBSET Bits]
  BY <1>2, <1>5
<1>7. x = cmask_reframe(m, b, n)
  OBVIOUS
<1>8. x = [base |-> b, nr_cids |-> n, alloc_words |-> a, bits |-> f]
  <2>1. ~ (CMASK_NR_WORDS(n) > m.alloc_words)
    <3>1. CMASK_NR_WORDS(n) \in Nat
      BY NrWordsMono
    <3>2. QED
      BY <1>1, <3>1
  <2>2. x = [m EXCEPT !.base = b, !.nr_cids = n, !.bits = f]
    BY <1>4, <1>5, <1>7, <2>1, Zenon DEF cmask_reframe
  <2>3. PICK b0, n0, f0 : m = [base |-> b0, nr_cids |-> n0, alloc_words |-> a, bits |-> f0]
    BY <1>1, Zenon DEF IsMask
  <2>4. QED
    BY <2>2, <2>3
<1>9. /\ IsMask(x) /\ cmask_nr_words(x) = Span(b, n)
      /\ x.base = b /\ x.nr_cids = n /\ x.alloc_words = a /\ x.bits = f
  BY <1>3, <1>6, <1>8, NewFrame
<1>10. OwnWords(x) = 0 .. Span(b, n) - 1
  BY <1>9, FrameFacts
<1>11. ASSUME NEW k \in OwnWords(x)
       PROVE  Shift(x.bits[k], k + wbase(x)) \subseteq RangeOf(x)
  <2>1. k \in 0 .. Span(b, n) - 1 /\ n > 0
    <3>1. k \in 0 .. Span(b, n) - 1
      BY <1>10, Zenon
    <3>2. Span(b, n) # 0
      BY <1>3, <3>1
    <3>3. n # 0
      BY <3>2, Zenon DEF Span
    <3>4. QED
      BY <3>1, <3>3
  <2>2. lw = Span(b, n) - 1
    BY <1>4, <2>1, LastWord
  <2>3. CASE k = 0 \/ k = lw
    <3>1. f[k] = {}
      BY <1>2, <1>3, <1>5, <2>1, <2>2, <2>3
    <3>2. QED
      BY <1>9, <3>1 DEF Shift
  <2>4. CASE k # 0 /\ k # lw
    <3>1. ASSUME NEW i \in Bits PROVE CidAt(x, k, i) \in RangeOf(x)
      <4>1. k \in 0 .. cmask_nr_words(x) - 1 /\ k # cmask_nr_words(x) - 1
        BY <1>9, <2>1, <2>2, <2>4, Zenon
      <4>2. QED
        BY <1>9, <2>4, <4>1, FillBit
    <3>2. x.bits[k] \subseteq Bits
      <4>1. k \in 0 .. a - 1
        BY <1>3, <2>1
      <4>2. QED
        BY <1>6, <1>9, <4>1
    <3>3. \A i \in x.bits[k] : (k + wbase(x)) * W + i \in RangeOf(x)
      BY <3>1, <3>2, Zenon DEF CidAt
    <3>4. QED
      BY <3>3, Zenon DEF Shift
  <2>5. QED
    BY <2>3, <2>4, Zenon
<1>12. Represents(x, SetOf(x))
  BY <1>9, <1>11, RepresentsSetOf, Zenon
<1>13. QED
  BY <1>1, <1>7, <1>9, <1>12, Zenon

-----------------------------------------------------------------------------
(* The invariant                                                           *)

\* A mask as the actions leave it: within the bounds, all of its storage, and
\* no bit in the words of its range that is not of a cid of the range.
Good(m) ==
  /\ IsMask(m) /\ Represents(m, SetOf(m))
  /\ m.base \in Bases /\ m.nr_cids \in Sizes /\ m.alloc_words = CMASK_NR_WORDS(ALLOC_CIDS)

\* Every mask is one, and the rotor is a cid.
CmaskInv ==
  /\ mask = [n \in Masks |-> mask[n]]
  /\ \A n \in Masks : Good(mask[n])
  /\ rotor \in Cids

\* A change within the frame.
LEMMA Changed ==
  ASSUME NEW m, Good(m), NEW x, SameFrame(x, m), NEW S, Represents(x, S)
  PROVE  Good(x) /\ SetOf(x) = S
<1>1. IsMask(x)
  BY DEF SameFrame
<1>2. SetOf(x) = S
  BY <1>1, SetOfRepresented
<1>3. QED
  BY <1>1, <1>2, Zenon DEF Good, SameFrame

\* The cids of a range are of all the cids.
LEMMA GoodRange ==
  ASSUME NEW m, Good(m)
  PROVE  RangeOf(m) \subseteq Cids
<1>1. m.base \in Nat /\ m.base <= MaxBase /\ m.nr_cids \in Nat /\ m.nr_cids <= ALLOC_CIDS
  BY Positive DEF Good, Bases, Sizes
<1>2. QED
  BY <1>1, Positive DEF RangeOf, cmask_end, Cids

\* What the changes of a mask make of its set.
LEMMA Changes ==
  ASSUME NEW m, Good(m)
  PROVE  /\ Good(cmask_zero(m)) /\ SetOf(cmask_zero(m)) = {}
         /\ Good(cmask_fill(m)) /\ SetOf(cmask_fill(m)) = RangeOf(m)
         /\ \A c \in Cids :
              /\ Good(cmask_set(c, m)) /\ SetOf(cmask_set(c, m)) = SetOf(m) \cup ({c} \cap RangeOf(m))
              /\ Good(cmask_clear(c, m)) /\ SetOf(cmask_clear(c, m)) = SetOf(m) \ {c}
         /\ \A cpus \in SUBSET DOMAIN cpu_to_cid :
              /\ Good(cmask_from_cpumask(m, cpus))
              /\ SetOf(cmask_from_cpumask(m, cpus)) =
                   {cpu_to_cid[cpu] : cpu \in cpus} \cap RangeOf(m)
<1>1. IsMask(m) /\ Represents(m, SetOf(m))
  BY DEF Good
<1>2. Good(cmask_zero(m)) /\ SetOf(cmask_zero(m)) = {}
  BY <1>1, ZeroSet, Changed, Zenon
<1>3. Good(cmask_fill(m)) /\ SetOf(cmask_fill(m)) = RangeOf(m)
  BY <1>1, FillSet, Changed, Zenon
<1>4. ASSUME NEW c \in Cids
      PROVE  /\ Good(cmask_set(c, m)) /\ SetOf(cmask_set(c, m)) = SetOf(m) \cup ({c} \cap RangeOf(m))
             /\ Good(cmask_clear(c, m)) /\ SetOf(cmask_clear(c, m)) = SetOf(m) \ {c}
  <2>1. c \in Int
    BY DEF Cids
  <2>2. QED
    BY <1>1, <2>1, SetSet, ClearSet, Changed, Zenon
<1>5. ASSUME NEW cpus \in SUBSET DOMAIN cpu_to_cid
      PROVE  /\ Good(cmask_from_cpumask(m, cpus))
             /\ SetOf(cmask_from_cpumask(m, cpus)) =
                  {cpu_to_cid[cpu] : cpu \in cpus} \cap RangeOf(m)
  BY <1>1, FromCpumaskSet, Changed, Zenon
<1>6. QED
  BY <1>2, <1>3, <1>4, <1>5, Zenon

\* And those of a range of cids.
LEMMA RangeChanges ==
  ASSUME NEW m, Good(m), NEW c \in Cids, NEW nr \in Sizes
  PROVE  /\ Good(cmask_set_range(m, c, nr))
         /\ SetOf(cmask_set_range(m, c, nr)) = SetOf(m) \cup ((c .. c + nr - 1) \cap RangeOf(m))
         /\ Good(cmask_clear_range(m, c, nr))
         /\ SetOf(cmask_clear_range(m, c, nr)) = SetOf(m) \ (c .. c + nr - 1)
<1>1. IsMask(m) /\ Represents(m, SetOf(m))
  BY DEF Good
<1>2. c \in Nat /\ nr \in Nat
  BY Positive DEF Cids, Sizes
<1>3. QED
  BY <1>1, <1>2, SetRangeSet, ClearRangeSet, Changed, Zenon

\* What the operations of two masks make of their sets.
LEMMA OpChanges ==
  ASSUME NEW m, Good(m), NEW n, Good(n), NEW op \in Ops
  PROVE  /\ Good(cmask_op(m, n, op))
         /\ SetOf(cmask_op(m, n, op)) = OpResult(SetOf(m), SetOf(n), RangeOf(m), RangeOf(n), op)
<1>1. IsMask(m) /\ Represents(m, SetOf(m)) /\ IsMask(n) /\ Represents(n, SetOf(n))
  BY DEF Good
<1>2. QED
  BY <1>1, OpSet, Changed, Zenon

\* A mask that is begun, and one that is refused.
LEMMA InitGood ==
  ASSUME NEW m, NEW b \in Bases, NEW n \in Nat, n <= ALLOC_CIDS \/ Good(m)
  PROVE  Good(cmask_init(m, b, n, ALLOC_CIDS))
<1>1. b \in Nat
  BY Positive DEF Bases
<1>2. CASE n <= ALLOC_CIDS
  <2>1. n \in Sizes
    BY <1>2, Positive DEF Sizes
  <2>2. Span(b, n) <= CMASK_MAX_WORDS
    <3>1. Span(b, n) \in Nat /\ Span(b, n) <= CMASK_NR_WORDS(n)
      BY <1>1, SpanBound
    <3>2. CMASK_NR_WORDS(n) \in Nat /\ CMASK_NR_WORDS(n) <= CMASK_NR_WORDS(ALLOC_CIDS)
      BY <1>2, Positive, NrWordsMono
    <3>3. CMASK_NR_WORDS(ALLOC_CIDS) \in Nat /\ CMASK_NR_WORDS(ALLOC_CIDS) <= CMASK_MAX_WORDS
      <4>1. CMASK_NR_WORDS(ALLOC_CIDS) \in Nat
        BY Positive, NrWordsMono
      <4>2. QED
        BY <4>1, CmaskAssumption
    <3>4. QED
      BY <3>1, <3>2, <3>3, Positive
  <2>3. PICK x : x = cmask_init(m, b, n, ALLOC_CIDS)
    OBVIOUS
  <2>4. /\ IsMask(x) /\ Represents(x, {}) /\ x.base = b /\ x.nr_cids = n
        /\ x.alloc_words = CMASK_NR_WORDS(ALLOC_CIDS)
    BY <1>1, <1>2, <2>2, <2>3, Positive, InitSet
  <2>5. Represents(x, SetOf(x))
    BY <2>4, RepresentsItsSet, Zenon
  <2>6. QED
    BY <2>1, <2>3, <2>4, <2>5, Zenon DEF Good
<1>3. CASE ~ (n <= ALLOC_CIDS)
  <2>1. n > ALLOC_CIDS
    BY <1>3, Positive
  <2>2. cmask_init(m, b, n, ALLOC_CIDS) = m
    BY <2>1, Zenon DEF cmask_init
  <2>3. QED
    BY <1>3, <2>2, Zenon
<1>4. QED
  BY <1>2, <1>3, Zenon

\* More cids than there is storage for need more words.
LEMMA TooLarge == CMASK_NR_WORDS(ALLOC_CIDS + W) > CMASK_NR_WORDS(ALLOC_CIDS)
<1>1. PICK q \in Nat, r \in Bits :
        q = (ALLOC_CIDS + W - 1) \div W /\ ALLOC_CIDS + W - 1 = q * W + r
  <2>1. ALLOC_CIDS + W - 1 \in Nat
    BY Positive
  <2>2. QED
    BY <2>1, Split
<1>2. q + 1 \in Nat /\ (q + 1) * W = q * W + 1 * W /\ q * W \in Int /\ 1 * W = W
  BY Distribute, Positive
<1>3. ALLOC_CIDS + W + W - 1 = (q + 1) * W + r
  BY <1>1, <1>2, Positive DEF Bits
<1>4. (ALLOC_CIDS + W + W - 1) \div W = q + 1
  BY <1>2, <1>3, DivOf
<1>5. QED
  BY <1>1, <1>4 DEF CMASK_NR_WORDS

\* A mask with a new frame, or refused.
LEMMA ReframeGood ==
  ASSUME NEW m, Good(m), NEW b \in Bases, NEW n \in Sizes \cup {ALLOC_CIDS + W}
  PROVE  Good(cmask_reframe(m, b, n))
<1>1. b \in Nat /\ n \in Nat
  BY Positive DEF Bases, Sizes
<1>2. IsMask(m) /\ m.alloc_words = CMASK_NR_WORDS(ALLOC_CIDS)
  BY DEF Good
<1>3. CASE CMASK_NR_WORDS(n) > m.alloc_words
  BY <1>3, Zenon DEF cmask_reframe
<1>4. CASE ~ (CMASK_NR_WORDS(n) > m.alloc_words)
  <2>1. n \in Sizes
    BY <1>2, <1>4, TooLarge, Zenon
  <2>2. m.alloc_words \in Nat /\ CMASK_NR_WORDS(n) \in Nat
    BY <1>1, <1>2, FrameFacts, NrWordsMono
  <2>3. CMASK_NR_WORDS(n) <= m.alloc_words
    BY <1>4, <2>2
  <2>4. m.alloc_words <= CMASK_MAX_WORDS
    BY <1>2, <2>2, CmaskAssumption
  <2>5. PICK x : x = cmask_reframe(m, b, n)
    OBVIOUS
  <2>6. /\ IsMask(x) /\ x.base = b /\ x.nr_cids = n /\ x.alloc_words = m.alloc_words
        /\ Represents(x, SetOf(x))
    BY <1>1, <1>2, <2>3, <2>4, <2>5, ReframeMask
  <2>7. QED
    BY <1>2, <2>1, <2>5, <2>6, Zenon DEF Good
<1>5. QED
  BY <1>3, <1>4, Zenon

\* The first of a set around is of the set.
LEMMA AroundIn ==
  ASSUME NEW S \in SUBSET Nat, S # {}, NEW s, NEW e
  PROVE  FirstAround(S, s, e) \in S
<1>1. PICK T : T = IF \E c \in S : c >= s THEN {c \in S : c >= s} ELSE S
  OBVIOUS
<1>2. T # {} /\ T \subseteq S
  BY <1>1, Zenon
<1>3. Min(T) \in T
  BY <1>2, MinOf, Zenon
<1>4. FirstAround(S, s, e) = Min(T)
  BY <1>1, <1>2, Zenon DEF FirstAround, FirstOf
<1>5. QED
  BY <1>2, <1>3, <1>4, Zenon

\* Where a pick leaves the rotor.
LEMMA PickMoves ==
  ASSUME NEW S \in SUBSET Cids, NEW e \in Nat, NEW s, NEW p, p = FirstAround(S, s, e), p < e
  PROVE  p \in Cids
<1>1. S \in SUBSET Nat
  BY DEF Cids
<1>2. CASE S = {}
  <2>1. p = e
    BY <1>2, Zenon DEF FirstAround, FirstOf
  <2>2. QED
    BY <2>1
<1>3. CASE S # {}
  BY <1>1, <1>3, AroundIn, Zenon
<1>4. QED
  BY <1>2, <1>3

\* A change of one mask.
LEMMA BecomesGood ==
  ASSUME CmaskInv, NEW n \in Masks, NEW m, Good(m), Becomes(n, m)
  PROVE  CmaskInv'
<1>1. mask' = [mask EXCEPT ![n] = m] /\ rotor' = rotor
  BY DEF Becomes
<1>2. DOMAIN mask = Masks /\ rotor \in Cids /\ \A x \in Masks : Good(mask[x])
  BY DEF CmaskInv
<1>3. mask' = [x \in Masks |-> mask'[x]]
  BY <1>1, <1>2
<1>4. \A x \in Masks : mask'[x] = IF x = n THEN m ELSE mask[x]
  BY <1>1, <1>2
<1>5. \A x \in Masks : Good(mask'[x])
  BY <1>2, <1>4, Zenon
<1>6. rotor' \in Cids
  BY <1>1, <1>2
<1>7. (\A x \in Masks : Good(mask[x]))'
  BY <1>5, Zenon DEF Good, IsMask, Represents, Frame, SetOf, RangeOf
<1>8. QED
  BY <1>3, <1>6, <1>7, Zenon DEF CmaskInv

\* The invariant holds initially.
LEMMA InitInv == Init => CmaskInv
<1>1. SUFFICES ASSUME Init PROVE CmaskInv
  OBVIOUS
<1>2. mask = [n \in Masks |-> cmask_init(Blank, MaxBase, ALLOC_CIDS - 1, ALLOC_CIDS)] /\ rotor = 0
  BY <1>1 DEF Init
<1>3. MaxBase \in Bases /\ ALLOC_CIDS - 1 \in Nat /\ ALLOC_CIDS - 1 <= ALLOC_CIDS
  BY Positive DEF Bases
<1>4. Good(cmask_init(Blank, MaxBase, ALLOC_CIDS - 1, ALLOC_CIDS))
  BY <1>3, InitGood, Zenon
<1>5. \A n \in Masks : Good(mask[n])
  BY <1>2, <1>4, Zenon
<1>6. mask = [n \in Masks |-> mask[n]]
  BY <1>2
<1>7. rotor \in Cids
  BY <1>2, Positive DEF Cids
<1>8. QED
  BY <1>5, <1>6, <1>7, Zenon DEF CmaskInv

\* Where the rotor may be after a pick.
LEMMA RotorMoves ==
  ASSUME CmaskInv, NEW n \in Masks, NEW o \in Masks, NEW p,
         \/ p = cmask_next_set_wrap(mask[n], RotorStart)
         \/ p = cmask_next_and_set_wrap(mask[n], mask[o], RotorStart),
         p < cmask_end(mask[n])
  PROVE  p \in Cids
<1>1. PICK a, b : a = mask[n] /\ b = mask[o]
  OBVIOUS
<1>2. Good(a) /\ Good(b)
  BY <1>1, Zenon DEF CmaskInv
<1>3. IsMask(a) /\ Represents(a, SetOf(a)) /\ IsMask(b) /\ Represents(b, SetOf(b))
  BY <1>2, Zenon DEF Good
<1>4. RotorStart \in Nat
  BY DEF CmaskInv, Cids, RotorStart
<1>5. SetOf(a) \subseteq Cids
  BY <1>2, GoodRange, Zenon DEF SetOf
<1>6. SetOf(a) \cap SetOf(b) \subseteq Cids
  BY <1>5, Zenon
<1>7. cmask_end(a) \in Nat
  BY <1>3, FrameFacts
<1>8. CASE p = cmask_next_set_wrap(mask[n], RotorStart)
  <2>1. p = FirstAround(SetOf(a), RotorStart, cmask_end(a))
    BY <1>1, <1>3, <1>4, <1>8, NextSetWrap, Zenon
  <2>2. QED
    BY <1>1, <1>5, <1>7, <2>1, PickMoves, Zenon
<1>9. CASE p = cmask_next_and_set_wrap(mask[n], mask[o], RotorStart)
  <2>1. p = FirstAround(SetOf(a) \cap SetOf(b), RotorStart, cmask_end(a))
    <3>1. cmask_next_and_set_wrap(a, b, RotorStart) =
            FirstAround(SetOf(a) \cap SetOf(b), RotorStart, cmask_end(a))
      BY <1>3, <1>4, NextAndSetWrap
    <3>2. QED
      BY <1>1, <1>9, <3>1, Zenon
  <2>2. QED
    BY <1>1, <1>6, <1>7, <2>1, PickMoves, Zenon
<1>10. QED
  BY <1>8, <1>9

\* Every step keeps it.
LEMMA NextInv == CmaskInv /\ [Next]_vars => CmaskInv'
<1>1. SUFFICES ASSUME CmaskInv, [Next]_vars PROVE CmaskInv'
  OBVIOUS
<1>2. \A n \in Masks : Good(mask[n])
  BY <1>1 DEF CmaskInv
<1>3. Scratch \subseteq Masks
  BY Positive
<1>4. CASE UNCHANGED vars
  <2>1. mask' = mask /\ rotor' = rotor
    BY <1>4 DEF vars
  <2>2. QED
    BY <1>1, <2>1, Zenon DEF CmaskInv, Good, IsMask, Represents, Frame, SetOf, RangeOf
<1>5. ASSUME NEW n \in Masks, Set(n) PROVE CmaskInv'
  <2>1. PICK c \in Cids : Becomes(n, cmask_set(c, mask[n]))
    BY <1>5, Zenon DEF Set
  <2>2. Good(cmask_set(c, mask[n]))
    BY <1>2, Changes, Zenon
  <2>3. QED
    BY <1>1, <2>1, <2>2, BecomesGood, Zenon
<1>6. ASSUME NEW n \in Masks, Clear(n) PROVE CmaskInv'
  <2>1. PICK c \in Cids : Becomes(n, cmask_clear(c, mask[n]))
    BY <1>6, Zenon DEF Clear
  <2>2. Good(cmask_clear(c, mask[n]))
    BY <1>2, Changes, Zenon
  <2>3. QED
    BY <1>1, <2>1, <2>2, BecomesGood, Zenon
<1>7. ASSUME NEW n \in Scratch, SetRange(n) PROVE CmaskInv'
  <2>1. PICK c \in Cids, nr \in Sizes : Becomes(n, cmask_set_range(mask[n], c, nr))
    BY <1>7, Zenon DEF SetRange
  <2>2. Good(cmask_set_range(mask[n], c, nr))
    BY <1>2, <1>3, RangeChanges, Zenon
  <2>3. QED
    BY <1>1, <1>3, <2>1, <2>2, BecomesGood, Zenon
<1>8. ASSUME NEW n \in Scratch, ClearRange(n) PROVE CmaskInv'
  <2>1. PICK c \in Cids, nr \in Sizes : Becomes(n, cmask_clear_range(mask[n], c, nr))
    BY <1>8, Zenon DEF ClearRange
  <2>2. Good(cmask_clear_range(mask[n], c, nr))
    BY <1>2, <1>3, RangeChanges, Zenon
  <2>3. QED
    BY <1>1, <1>3, <2>1, <2>2, BecomesGood, Zenon
<1>9. ASSUME NEW n \in Scratch, Zero(n) PROVE CmaskInv'
  BY <1>1, <1>2, <1>3, <1>9, Changes, BecomesGood, Zenon DEF Zero
<1>10. ASSUME NEW n \in Scratch, Fill(n) PROVE CmaskInv'
  BY <1>1, <1>2, <1>3, <1>10, Changes, BecomesGood, Zenon DEF Fill
<1>11. ASSUME NEW n \in Scratch, FromCpumask(n) PROVE CmaskInv'
  <2>1. PICK cpus \in SUBSET DOMAIN cpu_to_cid : Becomes(n, cmask_from_cpumask(mask[n], cpus))
    BY <1>11, Zenon DEF FromCpumask
  <2>2. Good(cmask_from_cpumask(mask[n], cpus))
    BY <1>2, <1>3, Changes, Zenon
  <2>3. QED
    BY <1>1, <1>3, <2>1, <2>2, BecomesGood, Zenon
<1>12. ASSUME NEW n \in Scratch, InitMask(n) PROVE CmaskInv'
  <2>1. PICK b \in Bases, nr \in Sizes \cup {ALLOC_CIDS + 1} :
          Becomes(n, cmask_init(mask[n], b, nr, ALLOC_CIDS))
    BY <1>12, Zenon DEF InitMask
  <2>2. nr \in Nat
    BY Positive DEF Sizes
  <2>3. Good(cmask_init(mask[n], b, nr, ALLOC_CIDS))
    BY <1>2, <1>3, <2>2, InitGood, Zenon
  <2>4. QED
    BY <1>1, <1>3, <2>1, <2>3, BecomesGood, Zenon
<1>13. ASSUME NEW n \in Scratch, Reframe(n) PROVE CmaskInv'
  <2>1. PICK b \in Bases, nr \in Sizes \cup {ALLOC_CIDS + W} :
          Becomes(n, cmask_reframe(mask[n], b, nr))
    BY <1>13, Zenon DEF Reframe
  <2>2. Good(cmask_reframe(mask[n], b, nr))
    BY <1>2, <1>3, ReframeGood, Zenon
  <2>3. QED
    BY <1>1, <1>3, <2>1, <2>2, BecomesGood, Zenon
<1>14. ASSUME NEW d \in Scratch, NEW s \in Masks, Combine(d, s) PROVE CmaskInv'
  <2>1. PICK op \in Ops : Becomes(d, cmask_op(mask[d], mask[s], op))
    BY <1>14, Zenon DEF Combine, Ops
  <2>2. Good(cmask_op(mask[d], mask[s], op))
    BY <1>2, <1>3, OpChanges, Zenon
  <2>3. QED
    BY <1>1, <1>3, <2>1, <2>2, BecomesGood, Zenon
<1>15. ASSUME NEW n \in Masks, NEW o \in Masks, NEW p,
              \/ p = cmask_next_set_wrap(mask[n], RotorStart)
              \/ p = cmask_next_and_set_wrap(mask[n], mask[o], RotorStart),
              mask' = mask, rotor' = IF p < cmask_end(mask[n]) THEN p ELSE rotor
       PROVE  CmaskInv'
  <2>1. rotor \in Cids
    BY <1>1 DEF CmaskInv
  <2>2. p < cmask_end(mask[n]) => p \in Cids
    BY <1>1, <1>15, RotorMoves, Zenon
  <2>3. rotor' \in Cids
    BY <1>15, <2>1, <2>2, Zenon
  <2>4. QED
    BY <1>1, <1>15, <2>3, Zenon DEF CmaskInv, Good, IsMask, Represents, Frame, SetOf, RangeOf
<1>16. ASSUME NEW n \in Masks, cmask_any_distribute(n) PROVE CmaskInv'
  <2>1. PICK p : p = cmask_next_set_wrap(mask[n], RotorStart)
    OBVIOUS
  <2>2. mask' = mask /\ rotor' = IF p < cmask_end(mask[n]) THEN p ELSE rotor
    BY <1>16, <2>1, Zenon DEF cmask_any_distribute
  <2>3. QED
    BY <1>15, <2>1, <2>2, Zenon
<1>17. ASSUME NEW n \in Scratch, NEW o \in Masks, cmask_any_and_distribute(n, o) PROVE CmaskInv'
  <2>1. PICK p : p = cmask_next_and_set_wrap(mask[n], mask[o], RotorStart)
    OBVIOUS
  <2>2. mask' = mask /\ rotor' = IF p < cmask_end(mask[n]) THEN p ELSE rotor
    BY <1>17, <2>1, Zenon DEF cmask_any_and_distribute
  <2>3. QED
    BY <1>3, <1>15, <2>1, <2>2, Zenon
<1>18. QED
  BY <1>1, <1>4, <1>5, <1>6, <1>7, <1>8, <1>9, <1>10, <1>11, <1>12, <1>13, <1>14, <1>16, <1>17,
     Zenon DEF Next

\* The invariant of the masks is one of the specification.
LEMMA CmaskInvariant == Spec => []CmaskInv
BY InitInv, NextInv, PTL DEF Spec

-----------------------------------------------------------------------------
(* Theorems                                                                *)

\* Every variable has its type, and no operation reaches past the storage of a
\* mask: the words of its range are within it.
THEOREM CmaskTypeOK == Spec => []TypeOK
<1>1. CmaskInv => TypeOK
  <2>1. SUFFICES ASSUME CmaskInv PROVE TypeOK
    OBVIOUS
  <2>2. ASSUME NEW n \in Masks
        PROVE  /\ mask[n].bits \in [0 .. mask[n].alloc_words - 1 -> SUBSET Bits]
               /\ cmask_nr_words(mask[n]) <= mask[n].alloc_words
    BY <2>1, Zenon DEF CmaskInv, Good, IsMask, Frame
  <2>3. rotor \in Cids
    BY <2>1 DEF CmaskInv
  <2>4. QED
    BY <2>2, <2>3, Zenon DEF TypeOK
<1>2. QED
  BY <1>1, CmaskInvariant, PTL

\* "Padding bits are kept clear by all cmask helpers."
THEOREM CmaskPaddingClear == Spec => []PaddingClear
<1>1. CmaskInv => PaddingClear
  <2>1. SUFFICES ASSUME CmaskInv PROVE PaddingClear
    OBVIOUS
  <2>2. ASSUME NEW n \in Masks, NEW k \in OwnWords(mask[n])
        PROVE  Shift(mask[n].bits[k], k + wbase(mask[n])) \subseteq RangeOf(mask[n])
    <3>1. IsMask(mask[n]) /\ Represents(mask[n], SetOf(mask[n]))
      BY <2>1, Zenon DEF CmaskInv, Good
    <3>2. QED
      BY <3>1, PaddingOfRepresented
  <2>3. QED
    BY <2>2, Zenon DEF PaddingClear
<1>2. QED
  BY <1>1, CmaskInvariant, PTL

\* What each change does word by word is what it means for the set of cids: it
\* changes nothing outside of its range, and an operation of two masks nothing
\* outside of what both ranges have.
THEOREM CmaskChangesExact == Spec => []ChangesExact
<1>1. CmaskInv => ChangesExact
  <2>1. SUFFICES ASSUME CmaskInv PROVE ChangesExact
    OBVIOUS
  <2>2. SUFFICES ASSUME NEW x \in Masks, NEW y \in Masks
                 PROVE  ChangesOf(mask[x]) /\ ChangesBy(mask[x], mask[y])
    BY Zenon DEF ChangesExact
  <2> DEFINE a == mask[x]
             b == mask[y]
  <2>4. Good(a) /\ Good(b)
    BY <2>1, Zenon DEF CmaskInv
  <2>5. SetOf(a) \in SUBSET RangeOf(a) /\ SetOf(b) \in SUBSET RangeOf(b)
    BY DEF SetOf
  <2>6. /\ SetOf(cmask_op(a, b, "AND")) = OpResult(SetOf(a), SetOf(b), RangeOf(a), RangeOf(b), "AND")
        /\ SetOf(cmask_op(a, b, "OR")) = OpResult(SetOf(a), SetOf(b), RangeOf(a), RangeOf(b), "OR")
        /\ SetOf(cmask_op(a, b, "COPY")) = OpResult(SetOf(a), SetOf(b), RangeOf(a), RangeOf(b), "COPY")
        /\ SetOf(cmask_op(a, b, "ANDNOT")) =
             OpResult(SetOf(a), SetOf(b), RangeOf(a), RangeOf(b), "ANDNOT")
    BY <2>4, OpChanges, Zenon DEF Ops
  <2>7. /\ SetOf(cmask_op(a, b, "AND"))
             = (SetOf(a) \ (RangeOf(a) \cap RangeOf(b))) \cup (SetOf(a) \cap SetOf(b))
        /\ SetOf(cmask_op(a, b, "OR")) = SetOf(a) \cup (SetOf(b) \cap RangeOf(a))
        /\ SetOf(cmask_op(a, b, "COPY")) =
             (SetOf(a) \ (RangeOf(a) \cap RangeOf(b))) \cup (SetOf(b) \cap RangeOf(a))
        /\ SetOf(cmask_op(a, b, "ANDNOT")) = SetOf(a) \ SetOf(b)
    <3>1. PICK A, B, R, Q : A = SetOf(a) /\ B = SetOf(b) /\ R = RangeOf(a) /\ Q = RangeOf(b)
      OBVIOUS
    <3>2. A \in SUBSET R /\ B \in SUBSET Q
      BY <2>5, <3>1, Zenon
    <3>3. /\ OpResult(A, B, R, Q, "AND") = (A \ (R \cap Q)) \cup (A \cap B)
          /\ OpResult(A, B, R, Q, "OR") = A \cup (B \cap R)
          /\ OpResult(A, B, R, Q, "COPY") = (A \ (R \cap Q)) \cup (B \cap R)
          /\ OpResult(A, B, R, Q, "ANDNOT") = A \ B
      BY <3>2 DEF OpResult
    <3>4. QED
      BY <2>6, <3>1, <3>3, Zenon
  <2>8. SetOf(cmask_zero(a)) = {} /\ SetOf(cmask_fill(a)) = RangeOf(a)
    BY <2>4, Changes, Zenon
  <2>9. ASSUME NEW c \in Cids
        PROVE  /\ SetOf(cmask_set(c, a)) = SetOf(a) \cup ({c} \cap RangeOf(a))
               /\ SetOf(cmask_clear(c, a)) = SetOf(a) \ {c}
    BY <2>4, Changes, Zenon
  <2>10. ASSUME NEW c \in Cids, NEW nr \in Sizes
         PROVE  /\ SetOf(cmask_set_range(a, c, nr)) =
                     SetOf(a) \cup ((c .. c + nr - 1) \cap RangeOf(a))
                /\ SetOf(cmask_clear_range(a, c, nr)) = SetOf(a) \ (c .. c + nr - 1)
    BY <2>4, RangeChanges, Zenon
  <2>11. ASSUME NEW cpus \in SUBSET DOMAIN cpu_to_cid
         PROVE  SetOf(cmask_from_cpumask(a, cpus)) =
                  {cpu_to_cid[cpu] : cpu \in cpus} \cap RangeOf(a)
    BY <2>4, Changes, Zenon
  <2>12. ChangesOf(a)
    BY <2>8, <2>9, <2>10, <2>11, Zenon DEF ChangesOf
  <2>13. ChangesBy(a, b)
    BY <2>7, Zenon DEF ChangesBy
  <2>14. QED
    BY <2>12, <2>13, Zenon
<1>2. QED
  BY <1>1, CmaskInvariant, PTL

-----------------------------------------------------------------------------
(* Successive picks                                                        *)

\* P is what lies in C from one cid of it around to r.
Run(P, C, r) ==
  \E f \in P : \/ f <= r /\ P = {c \in C : f <= c /\ c <= r}
               \/ f > r /\ P = {c \in C : f <= c \/ c <= r}

\* p is the first of C above r or, with none above, the first of all.
After(p, C, r) ==
  \/ p > r /\ \A c \in C : c <= r \/ p <= c
  \/ \A c \in C : c <= r /\ p <= c

\* The pick after r is the first above it or, with none above, the first of all.
LEMMA PickAfter ==
  ASSUME NEW C \in SUBSET Nat, C # {}, NEW r \in Nat, NEW e, NEW p, p = FirstAround(C, r + 1, e)
  PROVE  p \in C /\ After(p, C, r)
<1>1. PICK T : T = {c \in C : c >= r + 1}
  OBVIOUS
<1>2. T \in SUBSET Nat
  BY <1>1
<1>3. CASE T # {}
  <2>1. \E c \in C : c >= r + 1
    BY <1>1, <1>3, Zenon
  <2>2. p = Min(T)
    BY <1>1, <1>3, <2>1, Zenon DEF FirstAround, FirstOf
  <2>3. p \in T /\ \A c \in T : p <= c
    <3>1. Min(T) \in T /\ \A c \in T : Min(T) <= c
      BY <1>2, <1>3, MinOf
    <3>2. QED
      BY <2>2, <3>1, Zenon
  <2>4. p \in C /\ p > r
    BY <1>1, <2>3
  <2>5. \A c \in C : c <= r \/ p <= c
    BY <1>1, <2>3
  <2>6. QED
    BY <2>4, <2>5, Zenon DEF After
<1>4. CASE T = {}
  <2>1. ~ \E c \in C : c >= r + 1
    BY <1>1, <1>4, Zenon
  <2>2. p = Min(C)
    BY <2>1, Zenon DEF FirstAround, FirstOf
  <2>3. p \in C /\ \A c \in C : p <= c
    BY <2>2, MinOf, Zenon
  <2>4. \A c \in C : c <= r
    BY <2>1
  <2>5. QED
    BY <2>3, <2>4, Zenon DEF After
<1>5. QED
  BY <1>3, <1>4, Zenon

\* A pick continues the run, and is one of the run only when that is complete.
LEMMA RunGrows ==
  ASSUME NEW C \in SUBSET Nat, NEW P, NEW r \in Nat, NEW p \in C, P = {} \/ Run(P, C, r),
         After(p, C, r)
  PROVE  /\ p \in P => P = C
         /\ Run(IF P = C THEN {p} ELSE P \cup {p}, C, p)
<1>1. {p} = {c \in C : p <= c /\ c <= p} /\ p <= p
  <2>1. p \in Nat /\ \A c \in C : c = p <=> p <= c /\ c <= p
    OBVIOUS
  <2>2. p <= p
    BY <2>1
  <2>3. QED
    BY <2>1, <2>2, Zenon
<1>2. Run({p}, C, p)
  <2>1. p \in {p}
    OBVIOUS
  <2>2. QED
    BY <1>1, <2>1, Zenon DEF Run
<1>3. CASE P = C
  BY <1>2, <1>3, Zenon
<1>4. CASE P = {} /\ P # C
  <2>1. P \cup {p} = {p} /\ p \notin P
    BY <1>4
  <2>2. QED
    BY <1>2, <1>4, <2>1, Zenon
<1>5. CASE P # {} /\ P # C
  <2>1. PICK f \in P : \/ f <= r /\ P = {c \in C : f <= c /\ c <= r}
                       \/ f > r /\ P = {c \in C : f <= c \/ c <= r}
    BY <1>5, Zenon DEF Run
  <2>2. f \in C /\ f \in Nat /\ p \in Nat /\ P \subseteq C
    BY <2>1
  <2>3. PICK Q : Q = P \cup {p}
    OBVIOUS
  <2>4. f \in Q
    BY <2>1, <2>3
  <2>5. CASE f <= r /\ P = {c \in C : f <= c /\ c <= r}
    <3>1. CASE p > r /\ \A c \in C : c <= r \/ p <= c
      <4>1. p \notin P
        BY <2>5, <3>1
      <4>2. f <= p /\ Q = {c \in C : f <= c /\ c <= p}
        <5>1. f <= p
          BY <2>2, <2>5, <3>1
        <5>2. \A c \in C : c \in P \/ c = p <=> f <= c /\ c <= p
          BY <2>2, <2>5, <3>1
        <5>3. QED
          BY <2>2, <2>3, <5>1, <5>2
      <4>3. Run(Q, C, p)
        BY <2>4, <4>2, Zenon DEF Run
      <4>4. QED
        BY <1>5, <2>3, <4>1, <4>3, Zenon
    <3>2. CASE \A c \in C : c <= r /\ p <= c
      <4>1. p < f
        <5>1. SUFFICES ASSUME ~ (p < f) PROVE FALSE
          OBVIOUS
        <5>2. \A c \in C : f <= c /\ c <= r
          BY <2>2, <3>2, <5>1
        <5>3. P = C
          BY <2>5, <5>2
        <5>4. QED
          BY <1>5, <5>3
      <4>2. p \notin P
        BY <2>2, <2>5, <4>1
      <4>3. f > p /\ Q = {c \in C : f <= c \/ c <= p}
        <5>1. f > p
          BY <2>2, <4>1
        <5>2. \A c \in C : c \in P \/ c = p <=> f <= c \/ c <= p
          BY <2>2, <2>5, <3>2
        <5>3. QED
          BY <2>2, <2>3, <5>1, <5>2
      <4>4. Run(Q, C, p)
        BY <2>4, <4>3, Zenon DEF Run
      <4>5. QED
        BY <1>5, <2>3, <4>2, <4>4, Zenon
    <3>3. QED
      BY <3>1, <3>2, Zenon DEF After
  <2>6. CASE f > r /\ P = {c \in C : f <= c \/ c <= r}
    <3>1. p > r /\ \A c \in C : c <= r \/ p <= c
      BY <2>2, <2>6 DEF After
    <3>2. p < f
      <4>1. SUFFICES ASSUME ~ (p < f) PROVE FALSE
        OBVIOUS
      <4>2. \A c \in C : f <= c \/ c <= r
        BY <2>2, <3>1, <4>1
      <4>3. P = C
        BY <2>6, <4>2
      <4>4. QED
        BY <1>5, <4>3
    <3>3. p \notin P
      BY <2>2, <2>6, <3>1, <3>2
    <3>4. f > p /\ Q = {c \in C : f <= c \/ c <= p}
      <4>1. f > p
        BY <2>2, <3>2
      <4>2. \A c \in C : c \in P \/ c = p <=> f <= c \/ c <= p
        BY <2>2, <2>6, <3>1, <3>2
      <4>3. QED
        BY <2>2, <2>3, <4>1, <4>2
    <3>5. Run(Q, C, p)
      BY <2>4, <3>4, Zenon DEF Run
    <3>6. QED
      BY <1>5, <2>3, <3>3, <3>5, Zenon
  <2>7. QED
    BY <2>1, <2>5, <2>6, Zenon
<1>6. QED
  BY <1>3, <1>4, <1>5

\* What was picked in a row from a mask is a run that ends at the rotor.
RunInv ==
  /\ repeated = FALSE
  /\ \A n \in Masks : picked[n] = {} \/ Run(picked[n], SetOf(mask[n]), rotor)

\* The choice of a pick is what the mask has set.
LEMMA ChoiceIs ==
  ASSUME NEW m, Good(m)
  PROVE  {c \in Cids : cmask_test(c, m)} = SetOf(m) /\ SetOf(m) \in SUBSET Nat
         /\ \A c \in SetOf(m) : c < cmask_end(m)
<1>1. m.base \in Nat /\ cmask_end(m) \in Nat
  BY FrameFacts DEF Good
<1>2. \A c \in Cids : Contains(c, m) => c \in RangeOf(m)
  BY <1>1 DEF Contains, RangeOf, Cids
<1>3. \A c \in Cids : cmask_test(c, m) => c \in RangeOf(m)
  BY <1>2, Zenon DEF cmask_test
<1>4. RangeOf(m) \subseteq Cids
  BY GoodRange
<1>5. {c \in Cids : cmask_test(c, m)} = SetOf(m)
  BY <1>3, <1>4, Zenon DEF SetOf
<1>6. SetOf(m) \in SUBSET Nat /\ \A c \in SetOf(m) : c < cmask_end(m)
  BY <1>1 DEF SetOf, RangeOf
<1>7. QED
  BY <1>5, <1>6, Zenon

\* Every step keeps it: a change begins anew, a pick continues its own run and
\* ends those of the other masks.
LEMMA RunStep == CmaskInv /\ RunInv /\ [Next]_vars => RunInv'
<1>1. SUFFICES ASSUME CmaskInv, RunInv, [Next]_vars PROVE RunInv'
  OBVIOUS
<1>2. repeated = FALSE
  BY <1>1 DEF RunInv
<1>3. Scratch \subseteq Masks
  BY Positive
<1>4. ASSUME \A x \in Masks : picked'[x] = {}, repeated' = repeated PROVE RunInv'
  <2>1. repeated' = FALSE
    BY <1>2, <1>4
  <2>2. QED
    BY <1>4, <2>1, Zenon DEF RunInv
<1>5. ASSUME NEW n, NEW m, Becomes(n, m) PROVE RunInv'
  <2>1. picked' = [x \in Masks |-> {}] /\ repeated' = repeated
    BY <1>5 DEF Becomes
  <2>2. \A x \in Masks : picked'[x] = {}
    BY <2>1
  <2>3. QED
    BY <1>4, <2>1, <2>2, Zenon
<1>6. CASE UNCHANGED vars
  <2>1. mask' = mask /\ rotor' = rotor /\ picked' = picked /\ repeated' = repeated
    BY <1>6 DEF vars
  <2>2. QED
    BY <1>1, <2>1, Zenon DEF RunInv, SetOf, RangeOf, Run
<1>7. ASSUME NEW n \in Masks, cmask_any_distribute(n) PROVE RunInv'
  <2>1. PICK m, C, p, P : /\ m = mask[n] /\ C = SetOf(m) /\ P = picked[n]
                          /\ p = cmask_next_set_wrap(m, RotorStart)
    OBVIOUS
  <2>2. Good(m)
    BY <1>1, <2>1, Zenon DEF CmaskInv
  <2>3. /\ {c \in Cids : cmask_test(c, m)} = C /\ C \in SUBSET Nat
        /\ \A c \in C : c < cmask_end(m)
    BY <2>1, <2>2, ChoiceIs, Zenon
  <2>4. /\ mask' = mask /\ rotor' = IF p < cmask_end(m) THEN p ELSE rotor
        /\ picked' = [x \in Masks |->
             IF x # n \/ C = {} THEN {} ELSE IF P = C THEN {p} ELSE P \cup {p}]
        /\ repeated' = (repeated \/ (p \in P /\ P # C))
    BY <1>7, <2>1, <2>3, Zenon DEF cmask_any_distribute
  <2>5. rotor \in Nat /\ RotorStart = rotor + 1 /\ RotorStart \in Nat
    BY <1>1 DEF CmaskInv, Cids, RotorStart
  <2>6. p = FirstAround(C, rotor + 1, cmask_end(m))
    BY <2>1, <2>2, <2>5, NextSetWrap, Zenon DEF Good
  <2>7. P = {} \/ Run(P, C, rotor)
    BY <1>1, <2>1, Zenon DEF RunInv
  <2>8. CASE C = {}
    <3>1. P = {}
      BY <2>7, <2>8, Zenon DEF Run
    <3>2. repeated' = repeated
      BY <2>4, <3>1, <1>2
    <3>3. \A x \in Masks : picked'[x] = {}
      BY <2>4, <2>8, Zenon
    <3>4. QED
      BY <1>4, <3>2, <3>3, Zenon
  <2>9. CASE C # {}
    <3>1. p \in C /\ After(p, C, rotor)
      BY <2>3, <2>5, <2>6, <2>9, PickAfter, Zenon
    <3>2. PICK Q : Q = IF P = C THEN {p} ELSE P \cup {p}
      OBVIOUS
    <3>3. (p \in P => P = C) /\ Run(Q, C, p)
      BY <2>3, <2>5, <2>7, <3>1, <3>2, RunGrows, Zenon
    <3>4. rotor' = p
      BY <2>3, <2>4, <3>1, Zenon
    <3>5. repeated' = FALSE
      BY <1>2, <2>4, <3>3
    <3>6. \A x \in Masks : picked'[x] = IF x # n THEN {} ELSE Q
      BY <2>4, <2>9, <3>2, Zenon
    <3>7. SetOf(mask'[n]) = C
      BY <2>1, <2>4, Zenon
    <3>8. \A x \in Masks : picked'[x] = {} \/ Run(picked'[x], SetOf(mask'[x]), rotor')
      BY <3>3, <3>4, <3>6, <3>7, Zenon
    <3>9. QED
      BY <3>5, <3>8, Zenon DEF RunInv, SetOf, RangeOf, Run
  <2>10. QED
    BY <2>8, <2>9, Zenon
<1>8. ASSUME NEW n, NEW o, cmask_any_and_distribute(n, o) PROVE RunInv'
  <2>1. picked' = [x \in Masks |-> {}] /\ repeated' = repeated
    BY <1>8 DEF cmask_any_and_distribute
  <2>2. \A x \in Masks : picked'[x] = {}
    BY <2>1
  <2>3. QED
    BY <1>4, <2>1, <2>2, Zenon
<1>9. ASSUME NEW n \in Masks,
             Set(n) \/ Clear(n) \/ SetRange(n) \/ ClearRange(n) \/ Zero(n) \/ Fill(n)
             \/ FromCpumask(n) \/ InitMask(n) \/ Reframe(n)
      PROVE  RunInv'
  BY <1>5, <1>9, Zenon DEF Set, Clear, SetRange, ClearRange, Zero, Fill, FromCpumask, InitMask, Reframe
<1>10. ASSUME NEW d, NEW s, Combine(d, s) PROVE RunInv'
  BY <1>5, <1>10, Zenon DEF Combine
<1>11. QED
  BY <1>1, <1>3, <1>6, <1>7, <1>8, <1>9, <1>10, Zenon DEF Next

\* "Successive picks rotate through the set cids": from a mask that does not
\* change in between, cmask_any_distribute picks none again before all the others.
THEOREM CmaskRotates == Spec => []Rotates
<1>1. Init => RunInv
  BY DEF Init, RunInv
<1>2. RunInv => Rotates
  BY DEF RunInv, Rotates
<1>3. QED
  BY <1>1, <1>2, RunStep, CmaskInvariant, PTL DEF Spec

-----------------------------------------------------------------------------
(* Questions                                                               *)

\* No bits in the words of the range: no cids.
LEMMA EmptyIs ==
  ASSUME NEW m, IsMask(m), NEW A, Represents(m, A)
  PROVE  cmask_empty(m) <=> A = {}
<1>1. OwnWords(m) = 0 .. cmask_nr_words(m) - 1
  BY FrameFacts
<1>2. ASSUME cmask_empty(m), NEW c \in A PROVE FALSE
  <2>1. c \in RangeOf(m)
    BY Zenon DEF Represents
  <2>2. /\ c \div W - wbase(m) \in 0 .. cmask_nr_words(m) - 1 /\ c % W \in Bits
        /\ CidAt(m, c \div W - wbase(m), c % W) = c
    BY <2>1, CidWord, Zenon
  <2>3. c % W \in m.bits[c \div W - wbase(m)]
    BY <2>2, Zenon DEF Represents
  <2>4. QED
    BY <1>1, <1>2, <2>2, <2>3, Zenon DEF cmask_empty
<1>3. ASSUME A = {}, NEW k \in OwnWords(m) PROVE m.bits[k] = {}
  <2>1. k \in 0 .. cmask_nr_words(m) - 1
    BY <1>1, Zenon
  <2>2. k \in 0 .. m.alloc_words - 1 /\ m.bits \in [0 .. m.alloc_words - 1 -> SUBSET Bits]
    BY <2>1, FrameFacts
  <2>3. m.bits[k] \subseteq Bits
    BY <2>2
  <2>4. QED
    BY <1>3, <2>1, <2>3, Zenon DEF Represents
<1>4. QED
  BY <1>2, <1>3, Zenon DEF cmask_empty

\* The same words of the same range: the same cids.
LEMMA EqualIs ==
  ASSUME NEW a, NEW b, IsMask(a), IsMask(b), NEW A, NEW B, Represents(a, A), Represents(b, B)
  PROVE  cmask_equal(a, b) <=> RangeOf(a) = RangeOf(b) /\ A = B /\ a.base = b.base
<1>1. /\ OwnWords(a) = 0 .. cmask_nr_words(a) - 1
      /\ a.base \in Nat /\ a.nr_cids \in Nat /\ b.base \in Nat /\ b.nr_cids \in Nat
      /\ cmask_end(a) = a.base + a.nr_cids /\ cmask_end(b) = b.base + b.nr_cids
  BY FrameFacts
<1>2. ASSUME a.base = b.base, a.nr_cids = b.nr_cids
      PROVE  cmask_equal(a, b) <=> A = B
  <2>1. /\ RangeOf(a) = RangeOf(b) /\ cmask_nr_words(a) = cmask_nr_words(b)
        /\ \A k, i : CidAt(a, k, i) = CidAt(b, k, i)
    BY <1>2, FrameSame, Zenon
  <2>2. cmask_equal(a, b) <=> \A k \in 0 .. cmask_nr_words(a) - 1 : a.bits[k] = b.bits[k]
    BY <1>1, <1>2, Zenon DEF cmask_equal
  <2>3. ASSUME A = B, NEW k \in 0 .. cmask_nr_words(a) - 1 PROVE a.bits[k] = b.bits[k]
    <3>1. a.bits[k] \subseteq Bits
      <4>1. k \in 0 .. a.alloc_words - 1 /\ a.bits \in [0 .. a.alloc_words - 1 -> SUBSET Bits]
        BY FrameFacts
      <4>2. QED
        BY <4>1
    <3>2. b.bits[k] \subseteq Bits
      <4>1. k \in 0 .. cmask_nr_words(b) - 1
        BY <2>1, Zenon
      <4>2. k \in 0 .. b.alloc_words - 1 /\ b.bits \in [0 .. b.alloc_words - 1 -> SUBSET Bits]
        BY <4>1, FrameFacts
      <4>3. QED
        BY <4>2
    <3>3. \A i \in Bits : i \in a.bits[k] <=> CidAt(a, k, i) \in A
      BY Zenon DEF Represents
    <3>4. \A i \in Bits : i \in b.bits[k] <=> CidAt(a, k, i) \in A
      BY <2>1, <2>3, Zenon DEF Represents
    <3>5. QED
      BY <3>1, <3>2, <3>3, <3>4, Zenon
  <2>4. ASSUME \A k \in 0 .. cmask_nr_words(a) - 1 : a.bits[k] = b.bits[k]
        PROVE  A = B
    <3>1. ASSUME NEW c \in RangeOf(a) PROVE c \in A <=> c \in B
      <4>1. PICK k, i : k = c \div W - wbase(a) /\ i = c % W
        OBVIOUS
      <4>2. k \in 0 .. cmask_nr_words(a) - 1 /\ i \in Bits /\ CidAt(a, k, i) = c
        BY <4>1, CidWord, Zenon
      <4>3. i \in a.bits[k] <=> c \in A
        BY <4>2, Zenon DEF Represents
      <4>4. i \in b.bits[k] <=> c \in B
        BY <2>1, <4>2, Zenon DEF Represents
      <4>5. QED
        BY <2>4, <4>2, <4>3, <4>4, Zenon
    <3>2. A \subseteq RangeOf(a) /\ B \subseteq RangeOf(a)
      BY <2>1, Zenon DEF Represents
    <3>3. QED
      BY <3>1, <3>2, Zenon
  <2>5. QED
    BY <2>2, <2>3, <2>4, Zenon
<1>3. ASSUME a.base = b.base PROVE RangeOf(a) = RangeOf(b) <=> a.nr_cids = b.nr_cids
  <2>1. \A c \in Int : c \in RangeOf(a) <=> a.base <= c /\ c < a.base + a.nr_cids
    BY <1>1 DEF RangeOf
  <2>2. \A c \in Int : c \in RangeOf(b) <=> a.base <= c /\ c < a.base + b.nr_cids
    BY <1>1, <1>3 DEF RangeOf
  <2>3. ASSUME RangeOf(a) = RangeOf(b) PROVE a.nr_cids = b.nr_cids
    <3>1. \A c \in Int : a.base <= c => (c < a.base + a.nr_cids <=> c < a.base + b.nr_cids)
      BY <2>1, <2>2, <2>3
    <3>2. a.base + a.nr_cids \in Int /\ a.base + b.nr_cids \in Int
          /\ a.base <= a.base + a.nr_cids /\ a.base <= a.base + b.nr_cids
      BY <1>1
    <3>3. ~ (a.base + a.nr_cids < a.base + b.nr_cids) /\ ~ (a.base + b.nr_cids < a.base + a.nr_cids)
      BY <1>1, <3>1, <3>2
    <3>4. QED
      BY <1>1, <3>3
  <2>4. ASSUME a.nr_cids = b.nr_cids PROVE RangeOf(a) = RangeOf(b)
    BY <1>3, <2>4, Zenon DEF RangeOf, cmask_end
  <2>5. QED
    BY <2>3, <2>4
<1>4. cmask_equal(a, b) => a.base = b.base /\ a.nr_cids = b.nr_cids
  BY DEF cmask_equal
<1>5. QED
  BY <1>2, <1>3, <1>4, Zenon

\* The first of a set is below a bound if any of it is.
LEMMA FirstBelow ==
  ASSUME NEW T \in SUBSET Nat, NEW e \in Nat, NEW x \in Nat, x <= e
  PROVE  FirstOf(T, e) < x <=> \E c \in T : c < x
<1>1. CASE T = {}
  <2>1. FirstOf(T, e) = e
    BY <1>1, Zenon DEF FirstOf
  <2>2. QED
    BY <1>1, <2>1
<1>2. CASE T # {}
  <2>1. FirstOf(T, e) = Min(T)
    BY <1>2, Zenon DEF FirstOf
  <2>2. Min(T) \in T /\ \A c \in T : Min(T) <= c
    BY <1>2, MinOf
  <2>3. PICK q \in T : q = FirstOf(T, e) /\ \A c \in T : q <= c
    BY <2>1, <2>2, Zenon
  <2>4. q < x <=> \E c \in T : c < x
    BY <2>3
  <2>5. QED
    BY <2>3, <2>4, Zenon
<1>3. QED
  BY <1>1, <1>2

\* The words of a part of the range have the bits of the cids of the set.
LEMMA PartWord ==
  ASSUME NEW m, IsMask(m), NEW A, Represents(m, A), NEW lo \in Nat, NEW hi \in Nat,
         m.base <= lo, lo < hi, hi <= cmask_end(m), NEW w \in WordsOf(lo, hi)
  PROVE  /\ w \in Nat /\ Word(m, w) \subseteq Bits
         /\ \A b \in Bits : b \in Word(m, w) <=> w * W + b \in A
<1>1. w \in Nat /\ w - wbase(m) \in 0 .. cmask_nr_words(m) - 1
  BY SubRange
<1>2. PICK k : k = w - wbase(m) /\ k \in 0 .. cmask_nr_words(m) - 1
  BY <1>1
<1>3. k \in 0 .. m.alloc_words - 1 /\ wbase(m) \in Nat
      /\ m.bits \in [0 .. m.alloc_words - 1 -> SUBSET Bits]
  BY <1>2, FrameFacts
<1>4. k + wbase(m) = w
  BY <1>1, <1>2, <1>3
<1>5. Word(m, w) = m.bits[k]
  BY <1>2, Zenon DEF Word
<1>6. Word(m, w) \subseteq Bits
  BY <1>3, <1>5
<1>7. \A b \in Bits : b \in Word(m, w) <=> w * W + b \in A
  BY <1>2, <1>4, <1>5, Zenon DEF Represents, CidAt
<1>8. QED
  BY <1>1, <1>6, <1>7

\* A cid of a part of the range, by its word and bit.
LEMMA PartCid ==
  ASSUME NEW m, IsMask(m), NEW lo \in Nat, NEW hi \in Nat,
         m.base <= lo, lo < hi, hi <= cmask_end(m), NEW c \in Nat, lo <= c, c < hi
  PROVE  \E w \in WordsOf(lo, hi), b \in Bits : c = w * W + b /\ b \in RangeMask(w, lo, hi)
<1>1. (hi - 1) \div W - lo \div W < CMASK_MAX_WORDS
  BY SubRange
<1>2. PICK w \in Nat, b \in Bits : c = w * W + b
  BY Split
<1>3. lo <= w * W + b /\ w * W + b < hi
  BY <1>2, Zenon
<1>4. w \in WordsOf(lo, hi) /\ b \in RangeMask(w, lo, hi)
  BY <1>1, <1>3, RangeBit
<1>5. QED
  BY <1>2, <1>4, Zenon

\* And back.
LEMMA PartCidBack ==
  ASSUME NEW m, IsMask(m), NEW lo \in Nat, NEW hi \in Nat,
         m.base <= lo, lo < hi, hi <= cmask_end(m),
         NEW w \in WordsOf(lo, hi), NEW b \in RangeMask(w, lo, hi)
  PROVE  b \in Bits /\ w \in Nat /\ w * W + b \in Nat /\ lo <= w * W + b /\ w * W + b < hi
<1>1. /\ (hi - 1) \div W - lo \div W < CMASK_MAX_WORDS
      /\ w \in Nat
  BY SubRange
<1>2. b \in Bits
  BY RangeMaskType
<1>3. w * W + b \in Nat
  BY <1>1, <1>2, DivOf
<1>4. lo <= w * W + b /\ w * W + b < hi
  BY <1>1, <1>2, RangeBit
<1>5. QED
  BY <1>1, <1>2, <1>3, <1>4, Zenon

\* All the cids of a range, as far as the mask has them, are set.
LEMMA FullRangeIs ==
  ASSUME NEW m, IsMask(m), NEW A, Represents(m, A), NEW s \in Nat, NEW nr \in Nat
  PROVE  cmask_full_range(m, s, nr) <=> (s .. s + nr - 1) \cap RangeOf(m) \subseteq A
<1>1. PICK lo \in Nat, hi \in Nat :
        /\ lo = ClampLo(m, s) /\ hi = ClampHi(m, s, nr)
        /\ m.base <= lo /\ hi <= cmask_end(m)
        /\ \A c \in Int : lo <= c /\ c < hi <=> c \in (s .. s + nr - 1) \cap RangeOf(m)
  BY Clamped, Zenon
<1>2. cmask_full_range(m, s, nr) <=>
        lo >= hi \/ \A w \in WordsOf(lo, hi) : RangeMask(w, lo, hi) \subseteq Word(m, w)
  BY <1>1, Zenon DEF cmask_full_range
<1>3. CASE lo >= hi
  <2>1. (s .. s + nr - 1) \cap RangeOf(m) = {}
    BY <1>1, <1>3
  <2>2. QED
    BY <1>2, <1>3, <2>1
<1>4. CASE lo < hi
  <2>1. ~ (lo >= hi)
    BY <1>4
  <2>2. ASSUME NEW c, \A w \in WordsOf(lo, hi) : RangeMask(w, lo, hi) \subseteq Word(m, w),
               c \in (s .. s + nr - 1) \cap RangeOf(m)
        PROVE  c \in A
    <3>1. c \in Nat /\ lo <= c /\ c < hi
      BY <1>1, <2>2
    <3>2. PICK w \in WordsOf(lo, hi), b \in Bits : c = w * W + b /\ b \in RangeMask(w, lo, hi)
      BY <1>1, <1>4, <3>1, PartCid
    <3>3. b \in Word(m, w)
      BY <2>2, <3>2, Zenon
    <3>4. \A i \in Bits : i \in Word(m, w) <=> w * W + i \in A
      BY <1>1, <1>4, <3>2, PartWord
    <3>5. QED
      BY <3>2, <3>3, <3>4, Zenon
  <2>3. ASSUME (s .. s + nr - 1) \cap RangeOf(m) \subseteq A,
               NEW w \in WordsOf(lo, hi), NEW b \in RangeMask(w, lo, hi)
        PROVE  b \in Word(m, w)
    <3>1. b \in Bits /\ w * W + b \in Nat /\ lo <= w * W + b /\ w * W + b < hi
      BY <1>1, <1>4, PartCidBack
    <3>2. PICK c \in Nat : c = w * W + b /\ lo <= c /\ c < hi
      BY <3>1, Zenon
    <3>3. c \in Int
      BY <3>2
    <3>4. c \in A
      BY <1>1, <2>3, <3>2, <3>3, Zenon
    <3>5. \A i \in Bits : i \in Word(m, w) <=> w * W + i \in A
      BY <1>1, <1>4, PartWord
    <3>6. QED
      BY <3>1, <3>2, <3>4, <3>5, Zenon
  <2>4. QED
    BY <1>2, <2>1, <2>2, <2>3, Zenon
<1>5. QED
  BY <1>1, <1>3, <1>4

\* A bit that two masks have within both ranges is a cid both have.
LEMMA IntersectsIs ==
  ASSUME NEW a, NEW b, IsMask(a), IsMask(b), NEW A, NEW B, Represents(a, A), Represents(b, B)
  PROVE  cmask_intersects(a, b) <=> A \cap B # {}
<1>1. PICK lo \in Nat, hi \in Nat :
        /\ lo = Max({a.base, b.base}) /\ hi = Min({cmask_end(a), cmask_end(b)})
        /\ a.base <= lo /\ hi <= cmask_end(a) /\ b.base <= lo /\ hi <= cmask_end(b)
        /\ \A c \in Int : lo <= c /\ c < hi <=> c \in RangeOf(a) \cap RangeOf(b)
  BY Overlap, Zenon
<1>2. A \subseteq RangeOf(a) /\ B \subseteq RangeOf(b) /\ A \subseteq Nat
  BY SetInRange DEF Represents
<1>3. cmask_intersects(a, b) <=> lo < hi /\ \E w \in WordsOf(lo, hi) :
        Word(a, w) \cap Word(b, w) \cap RangeMask(w, lo, hi) # {}
  BY <1>1, Zenon DEF cmask_intersects
<1>4. ASSUME cmask_intersects(a, b) PROVE A \cap B # {}
  <2>1. lo < hi
    BY <1>3, <1>4, Zenon
  <2>2. PICK w \in WordsOf(lo, hi) : Word(a, w) \cap Word(b, w) \cap RangeMask(w, lo, hi) # {}
    BY <1>3, <1>4, Zenon
  <2>3. PICK i : i \in Word(a, w) /\ i \in Word(b, w)
    BY <2>2, Zenon
  <2>4. Word(a, w) \subseteq Bits /\ \A j \in Bits : j \in Word(a, w) <=> w * W + j \in A
    BY <1>1, <2>1, <2>2, PartWord
  <2>5. \A j \in Bits : j \in Word(b, w) <=> w * W + j \in B
    BY <1>1, <2>1, <2>2, PartWord
  <2>6. w * W + i \in A /\ w * W + i \in B
    BY <2>3, <2>4, <2>5, Zenon
  <2>7. QED
    BY <2>6, Zenon
<1>5. ASSUME NEW c \in A \cap B PROVE cmask_intersects(a, b)
  <2>1. c \in Nat /\ c \in Int /\ c \in RangeOf(a) \cap RangeOf(b)
    BY <1>2
  <2>2. lo <= c /\ c < hi
    BY <1>1, <2>1, Zenon
  <2>3. lo < hi
    BY <2>1, <2>2
  <2>4. PICK w \in WordsOf(lo, hi), i \in Bits : c = w * W + i /\ i \in RangeMask(w, lo, hi)
    BY <1>1, <2>1, <2>2, <2>3, PartCid
  <2>5. \A j \in Bits : j \in Word(a, w) <=> w * W + j \in A
    BY <1>1, <2>3, <2>4, PartWord
  <2>6. \A j \in Bits : j \in Word(b, w) <=> w * W + j \in B
    BY <1>1, <2>3, <2>4, PartWord
  <2>7. i \in Word(a, w) /\ i \in Word(b, w)
    BY <2>4, <2>5, <2>6, <1>5, Zenon
  <2>8. QED
    BY <1>3, <2>3, <2>4, <2>7, Zenon
<1>6. QED
  BY <1>4, <1>5, Zenon

\* Nothing beside the range of b, and in the words of both nothing that b has not.
LEMMA SubsetIs ==
  ASSUME NEW a, NEW b, IsMask(a), IsMask(b), NEW A, NEW B, Represents(a, A), Represents(b, B)
  PROVE  cmask_subset(a, b) <=> A \subseteq B
<1>1. PICK lo \in Nat, hi \in Nat :
        /\ lo = Max({a.base, b.base}) /\ hi = Min({cmask_end(a), cmask_end(b)})
        /\ a.base <= lo /\ hi <= cmask_end(a) /\ b.base <= lo /\ hi <= cmask_end(b)
        /\ \A c \in Int : lo <= c /\ c < hi <=> c \in RangeOf(a) \cap RangeOf(b)
  BY Overlap, Zenon
<1>2. /\ A \in SUBSET Nat /\ a.base \in Nat /\ cmask_end(a) \in Nat
      /\ \A c \in A : a.base <= c /\ c < cmask_end(a)
  BY SetInRange
<1>3. /\ b.base \in Nat /\ cmask_end(b) \in Nat
      /\ \A c \in B : b.base <= c /\ c < cmask_end(b)
  BY SetInRange
<1>4. PICK below : below = (/\ a.base < b.base
                            /\ cmask_next_set(a, a.base) < Min({b.base, cmask_end(a)}))
  OBVIOUS
<1>5. PICK above : above = (/\ cmask_end(a) > cmask_end(b)
                            /\ cmask_next_set(a, Max({a.base, cmask_end(b)})) < cmask_end(a))
  OBVIOUS
<1>6. cmask_subset(a, b) <=>
        /\ ~ below /\ ~ above
        /\ lo < hi => \A w \in WordsOf(lo, hi) : Word(a, w) \subseteq Word(b, w)
  BY <1>1, <1>4, <1>5, Zenon DEF cmask_subset
<1>7. below <=> \E c \in A : c < b.base
  <2>1. PICK x \in Nat : x = Min({b.base, cmask_end(a)}) /\ x <= cmask_end(a) /\ x <= b.base
                         /\ (x = b.base \/ x = cmask_end(a))
    <3>1. Min({b.base, cmask_end(a)}) = IF b.base <= cmask_end(a) THEN b.base ELSE cmask_end(a)
      <4>1. b.base \in Int /\ cmask_end(a) \in Int
        BY <1>2, <1>3
      <4>2. QED
        BY <4>1, MinMaxPair, Zenon
    <3>2. QED
      BY <1>2, <1>3, <3>1
  <2>2. cmask_next_set(a, a.base) = FirstOf({c \in A : c >= a.base}, cmask_end(a))
    BY <1>2, NextSet
  <2>3. {c \in A : c >= a.base} = A
    BY <1>2
  <2>4. cmask_next_set(a, a.base) < x <=> \E c \in A : c < x
    BY <1>2, <2>1, <2>2, <2>3, FirstBelow, Zenon
  <2>5. \A c \in A : c < x <=> c < b.base
    BY <1>2, <1>3, <2>1
  <2>6. (\E c \in A : c < b.base) => a.base < b.base
    BY <1>2, <1>3
  <2>7. QED
    BY <1>4, <2>1, <2>4, <2>5, <2>6, Zenon
<1>8. above <=> \E c \in A : c >= cmask_end(b)
  <2>1. PICK x \in Nat : x = Max({a.base, cmask_end(b)}) /\ a.base <= x /\ cmask_end(b) <= x
                         /\ (x = a.base \/ x = cmask_end(b))
    <3>1. Max({a.base, cmask_end(b)}) = IF a.base >= cmask_end(b) THEN a.base ELSE cmask_end(b)
      <4>1. a.base \in Int /\ cmask_end(b) \in Int
        BY <1>2, <1>3
      <4>2. QED
        BY <4>1, MinMaxPair, Zenon
    <3>2. QED
      BY <1>2, <1>3, <3>1
  <2>2. cmask_next_set(a, x) = FirstOf({c \in A : c >= x}, cmask_end(a))
    BY <2>1, NextSet
  <2>3. PICK T : T = {c \in A : c >= x} /\ T \in SUBSET Nat
    BY <1>2
  <2>4. cmask_next_set(a, x) < cmask_end(a) <=> \E c \in T : c < cmask_end(a)
    <3>1. cmask_end(a) <= cmask_end(a)
      BY <1>2
    <3>2. QED
      BY <1>2, <2>2, <2>3, <3>1, FirstBelow, Zenon
  <2>5. \A c \in A : c >= x <=> c >= cmask_end(b)
    BY <1>2, <1>3, <2>1
  <2>6. (\E c \in A : c >= cmask_end(b)) => cmask_end(a) > cmask_end(b)
    BY <1>2, <1>3
  <2>7. QED
    BY <1>2, <1>5, <2>1, <2>3, <2>4, <2>5, <2>6, Zenon
<1>9. ASSUME A \subseteq B PROVE cmask_subset(a, b)
  <2>1. ~ below /\ ~ above
    BY <1>2, <1>3, <1>7, <1>8, <1>9
  <2>2. ASSUME lo < hi, NEW w \in WordsOf(lo, hi) PROVE Word(a, w) \subseteq Word(b, w)
    <3>1. Word(a, w) \subseteq Bits /\ \A j \in Bits : j \in Word(a, w) <=> w * W + j \in A
      BY <1>1, <2>2, PartWord
    <3>2. \A j \in Bits : j \in Word(b, w) <=> w * W + j \in B
      BY <1>1, <2>2, PartWord
    <3>3. QED
      BY <1>9, <3>1, <3>2, Zenon
  <2>3. QED
    BY <1>6, <2>1, <2>2, Zenon
<1>10. ASSUME cmask_subset(a, b), NEW c \in A PROVE c \in B
  <2>1. ~ below /\ ~ above
    BY <1>6, <1>10, Zenon
  <2>2. c \in Nat /\ c \in Int /\ ~ (c < b.base) /\ ~ (c >= cmask_end(b))
    BY <1>2, <1>7, <1>8, <2>1
  <2>3. c \in RangeOf(b)
    BY <1>3, <2>2 DEF RangeOf
  <2>4. c \in RangeOf(a)
    BY Zenon DEF Represents
  <2>5. lo <= c /\ c < hi
    BY <1>1, <2>2, <2>3, <2>4, Zenon
  <2>6. lo < hi
    BY <2>2, <2>5
  <2>7. PICK w \in WordsOf(lo, hi), i \in Bits : c = w * W + i /\ i \in RangeMask(w, lo, hi)
    BY <1>1, <2>2, <2>5, <2>6, PartCid
  <2>8. \A j \in Bits : j \in Word(a, w) <=> w * W + j \in A
    BY <1>1, <2>6, <2>7, PartWord
  <2>9. \A j \in Bits : j \in Word(b, w) <=> w * W + j \in B
    BY <1>1, <2>6, <2>7, PartWord
  <2>10. Word(a, w) \subseteq Word(b, w)
    BY <1>6, <1>10, <2>6, <2>7, Zenon
  <2>11. QED
    BY <1>10, <2>7, <2>8, <2>9, <2>10, Zenon
<1>11. QED
  BY <1>9, <1>10, Zenon

\* The bits of a word that a range has.
LEMMA RangeWordBit ==
  ASSUME NEW m, IsMask(m), NEW k \in Nat, NEW s \in Nat, NEW nr \in Nat, NEW b \in Bits
  PROVE  b \in cmask_range_word(m, k, s, nr) <=> CidAt(m, k, b) \in s .. s + nr - 1
<1>1. PICK wlo \in Nat : wlo = (wbase(m) + k) * W /\ CidAt(m, k, b) = wlo + b
  <2>1. wbase(m) \in Nat
    BY FrameFacts
  <2>2. wbase(m) + k \in Nat /\ wbase(m) + k = k + wbase(m)
    BY <2>1
  <2>3. (wbase(m) + k) * W \in Nat
    BY <2>2, Positive
  <2>4. CidAt(m, k, b) = (wbase(m) + k) * W + b
    BY <2>2, Zenon DEF CidAt
  <2>5. QED
    BY <2>3, <2>4, Zenon
<1>2. b \in Int /\ 0 <= b /\ b < W /\ W \in Nat
  BY Positive DEF Bits
<1>3. PICK lo \in Int : lo = Max({s, wlo}) /\ lo = IF s >= wlo THEN s ELSE wlo
  <2>1. s \in Int /\ wlo \in Int
    OBVIOUS
  <2>2. Max({s, wlo}) = IF s >= wlo THEN s ELSE wlo
    BY <2>1, MinMaxPair, Zenon
  <2>3. QED
    BY <2>1, <2>2
<1>4. PICK hi \in Int : hi = Min({s + nr, wlo + W}) /\ hi = IF s + nr <= wlo + W THEN s + nr ELSE wlo + W
  <2>1. s + nr \in Int /\ wlo + W \in Int
    BY <1>2
  <2>2. Min({s + nr, wlo + W}) = IF s + nr <= wlo + W THEN s + nr ELSE wlo + W
    BY <2>1, MinMaxPair, Zenon
  <2>3. QED
    BY <2>1, <2>2
<1>5. cmask_range_word(m, k, s, nr) = IF lo >= hi THEN {} ELSE lo - wlo .. hi - wlo - 1
  BY <1>1, <1>3, <1>4, Zenon DEF cmask_range_word, GENMASK
<1>6. b \in cmask_range_word(m, k, s, nr) <=> s <= wlo + b /\ wlo + b < s + nr
  <2>1. CASE lo >= hi
    BY <1>1, <1>2, <1>3, <1>4, <1>5, <2>1
  <2>2. CASE ~ (lo >= hi)
    <3>1. cmask_range_word(m, k, s, nr) = lo - wlo .. hi - wlo - 1
      BY <1>5, <2>2, Zenon
    <3>2. b \in lo - wlo .. hi - wlo - 1 <=> lo <= wlo + b /\ wlo + b < hi
      BY <1>1, <1>2, <1>3, <1>4
    <3>3. lo <= wlo + b <=> s <= wlo + b
      BY <1>1, <1>2, <1>3
    <3>4. wlo + b < hi <=> wlo + b < s + nr
      BY <1>1, <1>2, <1>4
    <3>5. QED
      BY <3>1, <3>2, <3>3, <3>4, Zenon
  <2>3. QED
    BY <2>1, <2>2, Zenon
<1>7. QED
  BY <1>1, <1>2, <1>6

\* The cids of the words of a mask, cut to a range.
RangeWords(m, s, nr) ==
  UNION {Shift(cmask_word(m, k) \cap cmask_range_word(m, k, s, nr), k + wbase(m))
           : k \in 0 .. m.alloc_words}

\* The words of a mask cut to a range have its cids that are in the range.
LEMMA RangeWordsAre ==
  ASSUME NEW m, IsMask(m), NEW A, Represents(m, A), NEW s \in Nat, NEW nr \in Nat
  PROVE  A \cap (s .. s + nr - 1) = RangeWords(m, s, nr)
<1>1. /\ m.alloc_words \in Nat /\ wbase(m) \in Nat /\ cmask_nr_words(m) \in Nat
      /\ cmask_nr_words(m) <= m.alloc_words /\ m.bits \in [0 .. m.alloc_words - 1 -> SUBSET Bits]
  BY FrameFacts
<1>2. PICK R : R = s .. s + nr - 1
  OBVIOUS
<1>3. PICK U : U = UNION {Shift(cmask_word(m, k) \cap cmask_range_word(m, k, s, nr), k + wbase(m))
                            : k \in 0 .. m.alloc_words}
  OBVIOUS
<1>4. ASSUME NEW c \in A \cap R PROVE c \in U
  <2>1. c \in RangeOf(m)
    BY Zenon DEF Represents
  <2>2. PICK k, b : k = c \div W - wbase(m) /\ b = c % W
    OBVIOUS
  <2>3. k \in 0 .. cmask_nr_words(m) - 1 /\ b \in Bits /\ CidAt(m, k, b) = c
    BY <2>1, <2>2, CidWord, Zenon
  <2>4. b \in m.bits[k]
    BY <1>4, <2>3, Zenon DEF Represents
  <2>5. k \in Nat /\ ~ (k >= cmask_nr_words(m)) /\ k \in 0 .. m.alloc_words
    BY <1>1, <2>3
  <2>6. b \in cmask_word(m, k)
    BY <2>4, <2>5, Zenon DEF cmask_word
  <2>7. b \in cmask_range_word(m, k, s, nr)
    <3>1. CidAt(m, k, b) \in s .. s + nr - 1
      BY <1>2, <1>4, <2>3, Zenon
    <3>2. QED
      BY <2>3, <2>5, <3>1, RangeWordBit
  <2>8. c \in Shift(cmask_word(m, k) \cap cmask_range_word(m, k, s, nr), k + wbase(m))
    BY <2>3, <2>6, <2>7, Zenon DEF Shift, CidAt
  <2>9. QED
    BY <1>3, <2>5, <2>8, Zenon
<1>5. ASSUME NEW c \in U PROVE c \in A \cap R
  <2>1. PICK k \in 0 .. m.alloc_words :
          c \in Shift(cmask_word(m, k) \cap cmask_range_word(m, k, s, nr), k + wbase(m))
    BY <1>3, <1>5, Zenon
  <2>2. PICK b : /\ b \in cmask_word(m, k) /\ b \in cmask_range_word(m, k, s, nr)
                 /\ c = CidAt(m, k, b)
    BY <2>1, Zenon DEF Shift, CidAt
  <2>3. ~ (k >= cmask_nr_words(m)) /\ b \in m.bits[k]
    BY <2>2, Zenon DEF cmask_word
  <2>4. k \in 0 .. cmask_nr_words(m) - 1 /\ k \in 0 .. m.alloc_words - 1 /\ k \in Nat
    BY <1>1, <2>1, <2>3
  <2>5. b \in Bits
    BY <1>1, <2>3, <2>4
  <2>6. c \in A
    BY <2>2, <2>3, <2>4, <2>5, Zenon DEF Represents
  <2>7. CidAt(m, k, b) \in s .. s + nr - 1
    BY <2>2, <2>4, <2>5, RangeWordBit
  <2>8. QED
    BY <1>2, <2>2, <2>6, <2>7, Zenon
<1>6. A \cap R = U
  BY <1>4, <1>5, Zenon
<1>7. QED
  BY <1>2, <1>3, <1>6, Zenon DEF RangeWords

\* A sum over the words is defined.
LEMMA SumExists ==
  ASSUME NEW N \in Nat, NEW g, \A k \in 0 .. N - 1 : g[k] \in Nat
  PROVE  \E f : f = [k \in 0 .. N |-> IF k = 0 THEN 0 ELSE f[k - 1] + g[k - 1]]
<1> DEFINE Sum(f, n) == /\ f \in [0 .. n -> Nat] /\ f[0] = 0
                        /\ \A k \in 1 .. n : f[k] = f[k - 1] + g[k - 1]
           Bad == {n \in 0 .. N : ~ \E f : Sum(f, n)}
<1>1. Bad = {}
  <2>1. SUFFICES ASSUME Bad # {} PROVE FALSE
    OBVIOUS
  <2>2. Bad \in SUBSET Nat
    OBVIOUS
  <2>3. PICK n \in Bad : \A x \in Bad : n <= x
    <3> HIDE DEF Bad
    <3>1. QED
      BY <2>1, <2>2, MinOf, Zenon
  <2>4. n \in 0 .. N /\ ~ \E f : Sum(f, n)
    BY <2>3, Zenon
  <2>5. n # 0
    <3>1. SUFFICES ASSUME n = 0 PROVE FALSE
      OBVIOUS
    <3>2. PICK h : h = [k \in 0 .. 0 |-> 0]
      OBVIOUS
    <3>3. Sum(h, 0)
      BY <3>2
    <3>4. QED
      BY <2>4, <3>1, <3>3, Zenon
  <2>6. n - 1 \in 0 .. N /\ n - 1 \notin Bad /\ n \in Nat /\ n - 1 \in Nat /\ n - 1 \in 0 .. N - 1
    <3>1. n \in 0 .. N
      BY <2>4, Zenon
    <3>2. n \in Nat /\ n - 1 \in Nat /\ n - 1 \in 0 .. N /\ n - 1 \in 0 .. N - 1 /\ ~ (n <= n - 1)
      BY <2>5, <3>1
    <3>3. n - 1 \notin Bad
      BY <2>3, <3>2, Zenon
    <3>4. QED
      BY <3>2, <3>3, Zenon
  <2>7. PICK f : Sum(f, n - 1)
    BY <2>6, Zenon
  <2>8. PICK h : h = [k \in 0 .. n |-> IF k = n THEN f[n - 1] + g[n - 1] ELSE f[k]]
    OBVIOUS
  <2>9. f[n - 1] \in Nat /\ g[n - 1] \in Nat
    BY <2>6, <2>7
  <2>10. h \in [0 .. n -> Nat] /\ h[0] = 0
    BY <2>6, <2>7, <2>8, <2>9
  <2>11. \A k \in 1 .. n : h[k] = h[k - 1] + g[k - 1]
    <3>1. SUFFICES ASSUME NEW k \in 1 .. n PROVE h[k] = h[k - 1] + g[k - 1]
      OBVIOUS
    <3>2. k - 1 \in 0 .. n /\ k - 1 # n /\ k \in 0 .. n /\ (k # n => k \in 1 .. n - 1)
      BY <2>6
    <3>3. h[k - 1] = f[k - 1]
      BY <2>8, <3>2
    <3>4. h[k] = IF k = n THEN f[n - 1] + g[n - 1] ELSE f[k]
      BY <2>8, <3>2
    <3>5. QED
      BY <2>7, <3>2, <3>3, <3>4
  <2>12. Sum(h, n)
    BY <2>10, <2>11
  <2>13. QED
    BY <2>4, <2>12, Zenon
<1>2. PICK f : Sum(f, N)
  <2>1. N \in 0 .. N
    OBVIOUS
  <2>2. QED
    BY <1>1, <2>1, Zenon
<1>3. f = [k \in 0 .. N |-> f[k]]
  BY <1>2
<1>4. \A k \in 0 .. N : f[k] = IF k = 0 THEN 0 ELSE f[k - 1] + g[k - 1]
  BY <1>2
<1>5. f = [k \in 0 .. N |-> IF k = 0 THEN 0 ELSE f[k - 1] + g[k - 1]]
  <2> HIDE DEF Sum
  <2>1. QED
    BY <1>3, <1>4
<1>6. QED
  BY <1>5

\* The bits of a word are as many as its cids.
LEMMA ShiftCardinality ==
  ASSUME NEW S \in SUBSET Bits, NEW w \in Nat
  PROVE  /\ IsFiniteSet(S) /\ IsFiniteSet(Shift(S, w))
         /\ Cardinality(Shift(S, w)) = Cardinality(S) /\ Cardinality(S) \in Nat
<1>1. IsFiniteSet(S)
  <2>1. IsFiniteSet(Bits)
    BY Positive, FS_Interval DEF Bits
  <2>2. QED
    BY <2>1, FS_Subset
<1>2. PICK f : f = [b \in S |-> w * W + b]
  OBVIOUS
<1>3. f \in Bijection(S, Shift(S, w))
  <2>1. f \in [S -> Shift(S, w)]
    BY <1>2 DEF Shift
  <2>2. ASSUME NEW x \in S, NEW y \in S, f[x] = f[y] PROVE x = y
    <3>1. w * W + x = w * W + y
      BY <1>2, <2>2
    <3>2. w * W \in Int /\ x \in Int /\ y \in Int
      BY Positive DEF Bits
    <3>3. QED
      BY <3>1, <3>2
  <2>3. \A c \in Shift(S, w) : \E x \in S : f[x] = c
    BY <1>2 DEF Shift
  <2>4. QED
    BY <2>1, <2>2, <2>3 DEF Bijection, Injection, Surjection, IsInjective
<1>4. ExistsBijection(S, Shift(S, w))
  BY <1>3, Zenon DEF ExistsBijection
<1>5. IsFiniteSet(Shift(S, w)) /\ Cardinality(Shift(S, w)) = Cardinality(S)
  BY <1>1, <1>4, FS_Bijection
<1>6. Cardinality(S) \in Nat
  BY <1>1, FS_CardinalityType
<1>7. QED
  BY <1>1, <1>5, <1>6

\* The cids of the first k words.
Upto(m, A, k) == {c \in A : c < (k + wbase(m)) * W}

\* One word more has the cids of that word.
LEMMA UptoNext ==
  ASSUME NEW m, IsMask(m), NEW A, Represents(m, A), NEW k \in 0 .. cmask_nr_words(m) - 1
  PROVE  /\ Upto(m, A, k + 1) = Upto(m, A, k) \cup Shift(m.bits[k], k + wbase(m))
         /\ Upto(m, A, k) \cap Shift(m.bits[k], k + wbase(m)) = {}
<1>1. PICK v \in Nat : v = k + wbase(m) /\ v + 1 = (k + 1) + wbase(m)
  <2>1. k \in Nat /\ wbase(m) \in Nat
    BY FrameFacts
  <2>2. QED
    BY <2>1
<1>2. PICK x \in Int : x = v * W
  BY Positive
<1>3. (v + 1) * W = x + W
  BY <1>2, Positive
<1>4. m.bits[k] \subseteq Bits
  <2>1. k \in 0 .. m.alloc_words - 1 /\ m.bits \in [0 .. m.alloc_words - 1 -> SUBSET Bits]
    BY FrameFacts
  <2>2. QED
    BY <2>1
<1>5. A \subseteq Nat
  BY SetInRange
<1>6. \A b \in Bits : b \in m.bits[k] <=> x + b \in A
  BY <1>1, <1>2, Zenon DEF Represents, CidAt
<1>7. PICK U, T, S : U = Upto(m, A, k) /\ T = Upto(m, A, k + 1) /\ S = Shift(m.bits[k], k + wbase(m))
  OBVIOUS
<1>8. U = {c \in A : c < x} /\ T = {c \in A : c < x + W}
  <2>1. U = {c \in A : c < v * W} /\ T = {c \in A : c < (v + 1) * W}
    BY <1>1, <1>7, Zenon DEF Upto
  <2>2. QED
    BY <1>2, <1>3, <2>1, Zenon
<1>9. S = {x + b : b \in m.bits[k]}
  BY <1>1, <1>2, <1>7, Zenon DEF Shift
<1>10. \A c \in A : c \in S <=> x <= c /\ c < x + W
  <2>1. SUFFICES ASSUME NEW c \in A PROVE c \in S <=> x <= c /\ c < x + W
    BY Zenon
  <2>2. c \in Nat
    BY <1>5
  <2>3. ASSUME c \in S PROVE x <= c /\ c < x + W
    <3>1. PICK b \in Bits : c = x + b
      BY <1>4, <1>9, <2>3, Zenon
    <3>2. QED
      BY <3>1, Positive DEF Bits
  <2>4. ASSUME x <= c, c < x + W PROVE c \in S
    <3>1. PICK b \in Bits : c = x + b
      <4>1. c - x \in Bits /\ c = x + (c - x)
        BY <2>2, <2>4, Positive DEF Bits
      <4>2. QED
        BY <4>1, Zenon
    <3>2. b \in m.bits[k]
      BY <1>6, <3>1, Zenon
    <3>3. QED
      BY <1>9, <3>1, <3>2, Zenon
  <2>5. QED
    BY <2>3, <2>4
<1>11. S \subseteq A
  BY <1>4, <1>6, <1>9, Zenon
<1>12. \A c \in A : c < x + W <=> c < x \/ c \in S
  BY <1>5, <1>10, Positive
<1>13. T = U \cup S
  BY <1>8, <1>11, <1>12, Zenon
<1>14. \A c \in A : ~ (c < x /\ c \in S)
  BY <1>5, <1>10
<1>15. U \cap S = {}
  BY <1>8, <1>14, Zenon
<1>16. QED
  BY <1>7, <1>13, <1>15, Zenon

\* The sum over the words is the number of the cids.
LEMMA WeightIs ==
  ASSUME NEW m, IsMask(m), NEW A, Represents(m, A)
  PROVE  cmask_weight(m) = Cardinality(A)
<1>1. PICK N \in Nat : N = cmask_nr_words(m) /\ N = NrOwnWords(m)
  BY FrameFacts
<1>2. wbase(m) \in Nat /\ m.alloc_words \in Nat /\ N <= m.alloc_words
      /\ m.bits \in [0 .. m.alloc_words - 1 -> SUBSET Bits]
  BY <1>1, FrameFacts
<1>3. PICK g : g = [k \in 0 .. N - 1 |-> Cardinality(m.bits[k])]
  OBVIOUS
<1>4. \A k \in 0 .. N - 1 : g[k] = Cardinality(m.bits[k]) /\ g[k] \in Nat /\ m.bits[k] \in SUBSET Bits
  <2>1. SUFFICES ASSUME NEW k \in 0 .. N - 1
                 PROVE  g[k] = Cardinality(m.bits[k]) /\ g[k] \in Nat /\ m.bits[k] \in SUBSET Bits
    OBVIOUS
  <2>2. k \in 0 .. m.alloc_words - 1
    BY <1>2
  <2>3. m.bits[k] \in SUBSET Bits
    BY <1>2, <2>2
  <2>4. Cardinality(m.bits[k]) \in Nat
    BY <2>3, ShiftCardinality
  <2>5. QED
    BY <1>3, <2>3, <2>4
<1> DEFINE count == CHOOSE f : f = [k \in 0 .. N |-> IF k = 0 THEN 0
                                                    ELSE f[k - 1] + Cardinality(m.bits[k - 1])]
<1>5. cmask_weight(m) = count[N]
  BY <1>1, Zenon DEF cmask_weight
<1>6. count = [k \in 0 .. N |-> IF k = 0 THEN 0 ELSE count[k - 1] + Cardinality(m.bits[k - 1])]
  <2>1. PICK f : f = [k \in 0 .. N |-> IF k = 0 THEN 0 ELSE f[k - 1] + g[k - 1]]
    BY <1>4, SumExists
  <2>2. f = [k \in 0 .. N |-> IF k = 0 THEN 0 ELSE f[k - 1] + Cardinality(m.bits[k - 1])]
    <3>1. \A k \in 0 .. N : k # 0 => k - 1 \in 0 .. N - 1
      OBVIOUS
    <3>2. \A k \in 0 .. N : k # 0 => g[k - 1] = Cardinality(m.bits[k - 1])
      BY <1>4, <3>1, Zenon
    <3>3. QED
      BY <2>1, <3>2
  <2>3. QED
    BY <2>2, Zenon
<1> HIDE DEF count
<1>7. count[0] = 0 /\ \A k \in 0 .. N - 1 : count[k + 1] = count[k] + Cardinality(m.bits[k])
  BY <1>6
<1>8. ASSUME NEW k \in Nat, k <= N
      PROVE  IsFiniteSet(Upto(m, A, k)) /\ Cardinality(Upto(m, A, k)) = count[k]
  <2> DEFINE Bad == {j \in 0 .. N : ~ (/\ IsFiniteSet(Upto(m, A, j))
                                       /\ Cardinality(Upto(m, A, j)) = count[j])}
  <2>1. Bad = {}
    <3>1. SUFFICES ASSUME Bad # {} PROVE FALSE
      OBVIOUS
    <3>2. Bad \in SUBSET Nat
      OBVIOUS
    <3>3. PICK n \in Bad : \A x \in Bad : n <= x
      <4> HIDE DEF Bad
      <4>1. QED
        BY <3>1, <3>2, MinOf, Zenon
    <3>4. n \in 0 .. N /\ ~ (IsFiniteSet(Upto(m, A, n)) /\ Cardinality(Upto(m, A, n)) = count[n])
      BY <3>3, Zenon
    <3>5. n # 0
      <4>1. SUFFICES ASSUME n = 0 PROVE FALSE
        OBVIOUS
      <4>2. Upto(m, A, 0) = {}
        <5>1. \A c \in A : c \in Nat /\ m.base <= c
          BY SetInRange
        <5>2. PICK q \in Nat, r \in Bits : q = m.base \div W /\ m.base = q * W + r
          BY FrameFacts, Split
        <5>3. (0 + wbase(m)) * W = q * W
          <6>1. 0 + wbase(m) = q
            BY <1>2, <5>2 DEF wbase
          <6>2. QED
            BY <6>1, Zenon
        <5>4. q * W <= m.base /\ q * W \in Int /\ m.base \in Nat
          <6>1. m.base \in Nat
            BY FrameFacts
          <6>2. PICK y \in Int : y = q * W
            BY <5>2, Positive
          <6>3. r \in Int /\ r >= 0
            BY <5>2, Positive DEF Bits
          <6>4. m.base = y + r
            BY <5>2, <6>2, Zenon
          <6>5. y <= m.base
            BY <6>1, <6>3, <6>4
          <6>6. QED
            BY <6>1, <6>2, <6>5, Zenon
        <5>5. PICK z \in Int : z = (0 + wbase(m)) * W /\ z <= m.base
          BY <5>3, <5>4
        <5>6. \A c \in A : ~ (c < z)
          BY <5>1, <5>4, <5>5
        <5>7. QED
          BY <5>5, <5>6, Zenon DEF Upto
      <4>3. QED
        BY <1>7, <3>4, <4>1, <4>2, FS_EmptySet
    <3>6. PICK j \in Nat : j = n - 1 /\ n = j + 1 /\ j \in 0 .. N - 1 /\ j \in 0 .. N /\ ~ (n <= j)
      <4>1. n \in 0 .. N
        BY <3>4, Zenon
      <4>2. n - 1 \in Nat /\ n = (n - 1) + 1 /\ n - 1 \in 0 .. N - 1 /\ n - 1 \in 0 .. N /\ ~ (n <= n - 1)
        BY <3>5, <4>1
      <4>3. QED
        BY <4>2, Zenon
    <3>7. j \notin Bad
      BY <3>3, <3>6, Zenon
    <3>8. IsFiniteSet(Upto(m, A, j)) /\ Cardinality(Upto(m, A, j)) = count[j]
      BY <3>6, <3>7, Zenon
    <3>9. PICK S : S = Shift(m.bits[j], j + wbase(m)) /\ Upto(m, A, n) = Upto(m, A, j) \cup S
                   /\ Upto(m, A, j) \cap S = {}
      <4>1. j \in 0 .. cmask_nr_words(m) - 1
        BY <1>1, <3>6, Zenon
      <4>2. /\ Upto(m, A, j + 1) = Upto(m, A, j) \cup Shift(m.bits[j], j + wbase(m))
            /\ Upto(m, A, j) \cap Shift(m.bits[j], j + wbase(m)) = {}
        BY <4>1, UptoNext
      <4>3. QED
        BY <3>6, <4>2, Zenon
    <3>10. IsFiniteSet(S) /\ Cardinality(S) = Cardinality(m.bits[j]) /\ Cardinality(S) \in Nat
      <4>1. m.bits[j] \in SUBSET Bits
        BY <1>4, <3>6, Zenon
      <4>2. j + wbase(m) \in Nat
        BY <1>2, <3>6
      <4>3. QED
        BY <3>9, <4>1, <4>2, ShiftCardinality, Zenon
    <3>11. PICK U : U = Upto(m, A, j) /\ IsFiniteSet(U) /\ Cardinality(U) = count[j] /\ U \cap S = {}
                    /\ Upto(m, A, n) = U \cup S
      BY <3>8, <3>9, Zenon
    <3>12. IsFiniteSet(U \cup S) /\ Cardinality(U \cup S) = Cardinality(U) + Cardinality(S)
      <4>1. IsFiniteSet(U \cup S)
            /\ Cardinality(U \cup S) = Cardinality(U) + Cardinality(S) - Cardinality(U \cap S)
        BY <3>10, <3>11, FS_Union
      <4>2. Cardinality(U \cap S) = 0
        BY <3>11, FS_EmptySet
      <4>3. Cardinality(U) \in Nat
        BY <3>11, FS_CardinalityType
      <4>4. QED
        BY <3>10, <4>1, <4>2, <4>3
    <3>13. count[n] = count[j] + Cardinality(m.bits[j])
      BY <1>7, <3>6, Zenon
    <3>14. IsFiniteSet(Upto(m, A, n)) /\ Cardinality(Upto(m, A, n)) = count[n]
      BY <3>10, <3>11, <3>12, <3>13, Zenon
    <3>15. QED
      BY <3>4, <3>14, Zenon
  <2>2. k \in 0 .. N
    BY <1>8
  <2>3. QED
    BY <2>1, <2>2, Zenon
<1>9. Upto(m, A, N) = A
  <2>1. A \subseteq RangeOf(m)
    BY Zenon DEF Represents
  <2>2. ASSUME NEW c \in A PROVE c < (N + wbase(m)) * W
    <3>1. c \in RangeOf(m)
      BY <2>1, Zenon
    <3>2. c \in Nat /\ c \div W \in Nat /\ c \div W - wbase(m) \in 0 .. N - 1
      BY <1>1, <3>1, CidWord, Zenon
    <3>3. PICK q \in Nat, r \in Bits : q = c \div W /\ c = q * W + r
      BY <3>2, Split
    <3>4. q < N + wbase(m)
      BY <1>2, <3>2, <3>3
    <3>5. q * W + W <= (N + wbase(m)) * W /\ q * W \in Int /\ (N + wbase(m)) * W \in Int
      BY <1>2, <3>4, WordOrder, Positive
    <3>6. r \in Int /\ r < W
      BY Positive DEF Bits
    <3>7. QED
      BY <3>3, <3>5, <3>6, Positive
  <2>3. QED
    BY <2>2, Zenon DEF Upto
<1>10. N <= N
  OBVIOUS
<1>11. Cardinality(Upto(m, A, N)) = count[N]
  BY <1>8, <1>10, Zenon
<1>12. QED
  BY <1>5, <1>9, <1>11, Zenon

\* A range of two cids from the first spans two words at most.
LEMMA FixedSpan == Span(1, 2) <= CMASK_MAX_WORDS
<1>1. CMASK_NR_WORDS(ALLOC_CIDS) \in Nat /\ CMASK_NR_WORDS(ALLOC_CIDS) >= 2
  <2>1. PICK q \in Nat, r \in Bits :
          q = (ALLOC_CIDS + W - 1) \div W /\ ALLOC_CIDS + W - 1 = q * W + r
    <3>1. ALLOC_CIDS + W - 1 \in Nat
      BY Positive
    <3>2. QED
      BY <3>1, Split
  <2>2. q # 0
    <3>1. SUFFICES ASSUME q = 0 PROVE FALSE
      OBVIOUS
    <3>2. q * W = 0
      BY <3>1, Positive
    <3>3. QED
      BY <2>1, <3>2, Positive DEF Bits
  <2>3. QED
    BY <2>1, <2>2 DEF CMASK_NR_WORDS
<1>2. CMASK_MAX_WORDS >= 2
  BY <1>1, CmaskAssumption
<1>3. Span(1, 2) = 2 \div W - 1 \div W + 1
  BY DEF Span
<1>4. PICK v \in Nat, x \in Bits : v = 1 \div W /\ 1 = v * W + x
  BY Split
<1>5. PICK u \in Nat, y \in Bits : u = 2 \div W /\ 2 = u * W + y
  BY Split
<1>6. u <= v + 1
  <2>1. SUFFICES ASSUME v + 1 < u PROVE FALSE
    BY <1>4, <1>5
  <2>2. (v + 1) * W + W <= u * W
    BY <1>4, <1>5, <2>1, WordOrder
  <2>3. (v + 1) * W = v * W + W /\ v * W \in Int /\ u * W \in Int
    BY <1>4, <1>5, Positive
  <2>4. QED
    BY <1>4, <1>5, <2>2, <2>3, Positive DEF Bits
<1>7. QED
  BY <1>2, <1>3, <1>4, <1>5, <1>6, Positive

\* The third mask of the searches over three.
LEMMA FixedMask ==
  ASSUME NEW c, c = cmask_fill(cmask_init(Blank, 1, 2, 3))
  PROVE  IsMask(c) /\ Represents(c, RangeOf(c))
<1>1. PICK z : z = cmask_init(Blank, 1, 2, 3)
  OBVIOUS
<1>2. IsMask(z)
  BY <1>1, FixedSpan, InitSet
<1>3. SameFrame(c, z) /\ Represents(c, RangeOf(z))
  BY <1>1, <1>2, FillSet, Zenon
<1>4. IsMask(c) /\ RangeOf(c) = RangeOf(z)
  BY <1>3, FrameSame, Zenon DEF SameFrame
<1>5. QED
  BY <1>3, <1>4, Zenon

\* What each scan of the words says holds of the sets of cids: whether masks are
\* empty, equal, one within the other or overlap, how many cids they have, which
\* is the next that one, two or three of them have, with and without wrapping.
THEOREM CmaskScansExact == Spec => []ScansExact
<1>1. CmaskInv => ScansExact
  <2>1. SUFFICES ASSUME CmaskInv PROVE ScansExact
    OBVIOUS
  <2>2. ASSUME NEW a, NEW b, Good(a), Good(b)
        PROVE  /\ cmask_empty(a) <=> SetOf(a) = {}
               /\ cmask_weight(a) = Cardinality(SetOf(a))
               /\ cmask_equal(a, b) <=> (RangeOf(a) = RangeOf(b) /\ SetOf(a) = SetOf(b)
                                         /\ a.base = b.base)
               /\ cmask_subset(a, b) <=> SetOf(a) \subseteq SetOf(b)
               /\ cmask_intersects(a, b) <=> SetOf(a) \cap SetOf(b) # {}
    <3>1. IsMask(a) /\ Represents(a, SetOf(a)) /\ IsMask(b) /\ Represents(b, SetOf(b))
      BY <2>2, Zenon DEF Good
    <3>2. cmask_empty(a) <=> SetOf(a) = {}
      BY <3>1, EmptyIs, Zenon
    <3>3. cmask_weight(a) = Cardinality(SetOf(a))
      BY <3>1, WeightIs, Zenon
    <3>4. cmask_equal(a, b) <=> RangeOf(a) = RangeOf(b) /\ SetOf(a) = SetOf(b) /\ a.base = b.base
      BY <3>1, EqualIs, Zenon
    <3>5. cmask_subset(a, b) <=> SetOf(a) \subseteq SetOf(b)
      BY <3>1, SubsetIs, Zenon
    <3>6. cmask_intersects(a, b) <=> SetOf(a) \cap SetOf(b) # {}
      BY <3>1, IntersectsIs, Zenon
    <3>7. QED
      BY <3>2, <3>3, <3>4, <3>5, <3>6, Zenon
  <2>3. ASSUME NEW a, NEW b, Good(a), Good(b), NEW s \in Cids
        PROVE  /\ cmask_next_set(a, s) = FirstOf({c \in SetOf(a) : c >= s}, cmask_end(a))
               /\ cmask_next_set_wrap(a, s) = FirstAround(SetOf(a), s, cmask_end(a))
               /\ cmask_next_and_set(a, b, s) =
                    FirstOf({c \in SetOf(a) \cap SetOf(b) : c >= s}, cmask_end(a))
               /\ cmask_next_and_set_wrap(a, b, s) =
                    FirstAround(SetOf(a) \cap SetOf(b), s, cmask_end(a))
    <3>1. IsMask(a) /\ Represents(a, SetOf(a)) /\ IsMask(b) /\ Represents(b, SetOf(b)) /\ s \in Nat
      BY <2>3 DEF Good, Cids
    <3>2. cmask_next_set(a, s) = FirstOf({c \in SetOf(a) : c >= s}, cmask_end(a))
      BY <3>1, NextSet
    <3>3. cmask_next_set_wrap(a, s) = FirstAround(SetOf(a), s, cmask_end(a))
      BY <3>1, NextSetWrap, Zenon
    <3>4. cmask_next_and_set(a, b, s) =
            FirstOf({c \in SetOf(a) \cap SetOf(b) : c >= s}, cmask_end(a))
      BY <3>1, NextAndSet
    <3>5. cmask_next_and_set_wrap(a, b, s) = FirstAround(SetOf(a) \cap SetOf(b), s, cmask_end(a))
      BY <3>1, NextAndSetWrap
    <3>6. QED
      BY <3>2, <3>3, <3>4, <3>5, Zenon
  <2>4. ASSUME NEW a, Good(a), NEW s \in Cids, NEW nr \in Sizes
        PROVE  /\ cmask_full_range(a, s, nr) <=> (s .. s + nr - 1) \cap RangeOf(a) \subseteq SetOf(a)
               /\ SetOf(a) \cap (s .. s + nr - 1) =
                    UNION {Shift(cmask_word(a, k) \cap cmask_range_word(a, k, s, nr), k + wbase(a))
                             : k \in 0 .. a.alloc_words}
    <3>1. IsMask(a) /\ Represents(a, SetOf(a)) /\ s \in Nat /\ nr \in Nat
      BY <2>4, Positive DEF Good, Cids, Sizes
    <3>2. cmask_full_range(a, s, nr) <=> (s .. s + nr - 1) \cap RangeOf(a) \subseteq SetOf(a)
      BY <3>1, FullRangeIs
    <3>3. SetOf(a) \cap (s .. s + nr - 1) =
            UNION {Shift(cmask_word(a, k) \cap cmask_range_word(a, k, s, nr), k + wbase(a))
                     : k \in 0 .. a.alloc_words}
      <4>1. SetOf(a) \cap (s .. s + nr - 1) = RangeWords(a, s, nr)
        BY <3>1, RangeWordsAre
      <4>2. QED
        BY <4>1, Zenon DEF RangeWords
    <3>4. QED
      BY <3>2, <3>3, Zenon
  <2>5. ASSUME NEW a, NEW b, Good(a), Good(b), NEW s \in Cids, NEW c,
               c = cmask_fill(cmask_init(Blank, 1, 2, 3))
        PROVE  /\ cmask_next_and2_set(a, b, c, s) =
                    FirstOf({d \in SetOf(a) \cap SetOf(b) \cap RangeOf(c) : d >= s}, cmask_end(a))
               /\ cmask_next_and2_set_wrap(a, b, c, s) =
                    FirstAround(SetOf(a) \cap SetOf(b) \cap RangeOf(c), s, cmask_end(a))
    <3>1. IsMask(a) /\ Represents(a, SetOf(a)) /\ IsMask(b) /\ Represents(b, SetOf(b)) /\ s \in Nat
      BY <2>5 DEF Good, Cids
    <3>2. IsMask(c) /\ Represents(c, RangeOf(c))
      BY <2>5, FixedMask, Zenon
    <3>3. QED
      BY <3>1, <3>2, NextAnd2Set
  <2>6. SUFFICES ASSUME NEW x \in Masks, NEW y \in Masks
                 PROVE  ScansOf(mask[x]) /\ ScansOfBoth(mask[x], mask[y])
    BY Zenon DEF ScansExact
  <2> DEFINE a == mask[x]
             b == mask[y]
             c == cmask_fill(cmask_init(Blank, 1, 2, 3))
  <2>7. Good(a) /\ Good(b)
    BY <2>1, Zenon DEF CmaskInv
  <2>8. /\ cmask_empty(a) <=> SetOf(a) = {}
        /\ cmask_weight(a) = Cardinality(SetOf(a))
        /\ cmask_equal(a, b) <=> (RangeOf(a) = RangeOf(b) /\ SetOf(a) = SetOf(b)
                                  /\ a.base = b.base)
        /\ cmask_subset(a, b) <=> SetOf(a) \subseteq SetOf(b)
        /\ cmask_intersects(a, b) <=> SetOf(a) \cap SetOf(b) # {}
    <3> HIDE DEF a, b
    <3>1. QED
      BY <2>2, <2>7, Zenon
  <2>9. ASSUME NEW s \in Cids
        PROVE  /\ cmask_next_set(a, s) = FirstOf({d \in SetOf(a) : d >= s}, cmask_end(a))
               /\ cmask_next_set_wrap(a, s) = FirstAround(SetOf(a), s, cmask_end(a))
               /\ cmask_next_and_set(a, b, s) =
                    FirstOf({d \in SetOf(a) \cap SetOf(b) : d >= s}, cmask_end(a))
               /\ cmask_next_and_set_wrap(a, b, s) =
                    FirstAround(SetOf(a) \cap SetOf(b), s, cmask_end(a))
    <3> HIDE DEF a, b
    <3>1. QED
      BY <2>3, <2>7
  <2>10. ASSUME NEW s \in Cids, NEW nr \in Sizes
         PROVE  /\ cmask_full_range(a, s, nr) <=>
                     (s .. s + nr - 1) \cap RangeOf(a) \subseteq SetOf(a)
                /\ SetOf(a) \cap (s .. s + nr - 1) =
                     UNION {Shift(cmask_word(a, k) \cap cmask_range_word(a, k, s, nr), k + wbase(a))
                              : k \in 0 .. a.alloc_words}
    <3> HIDE DEF a, b
    <3>1. QED
      BY <2>4, <2>7
  <2>11. ASSUME NEW s \in Cids
         PROVE  /\ cmask_next_and2_set(a, b, c, s) =
                     FirstOf({d \in SetOf(a) \cap SetOf(b) \cap RangeOf(c) : d >= s}, cmask_end(a))
                /\ cmask_next_and2_set_wrap(a, b, c, s) =
                     FirstAround(SetOf(a) \cap SetOf(b) \cap RangeOf(c), s, cmask_end(a))
    <3> HIDE DEF a, b
    <3>1. PICK z : z = c
      OBVIOUS
    <3>2. /\ cmask_next_and2_set(a, b, z, s) =
               FirstOf({d \in SetOf(a) \cap SetOf(b) \cap RangeOf(z) : d >= s}, cmask_end(a))
          /\ cmask_next_and2_set_wrap(a, b, z, s) =
               FirstAround(SetOf(a) \cap SetOf(b) \cap RangeOf(z), s, cmask_end(a))
      BY <2>5, <2>7, <3>1
    <3>3. QED
      BY <3>1, <3>2, Zenon
  <2>12. ScansOf(a)
    BY <2>8, <2>9, <2>10, Zenon DEF ScansOf
  <2>13. ScansOfBoth(a, b)
    BY <2>8, <2>9, <2>11, Zenon DEF ScansOfBoth
  <2>14. QED
    BY <2>12, <2>13, Zenon
<1>2. QED
  BY <1>1, CmaskInvariant, PTL
=============================================================================
