--------------------------- MODULE LunarLoaderProofs ---------------------------
(***************************************************************************)
(* The loader, for every machine, kernel and MAX_CPUS: the numbers of the  *)
(* dispatch queues, the topology the scheduler runs with, the kernel it    *)
(* runs on, and how its end is understood.                                 *)
(***************************************************************************)
EXTENDS LunarLoader, FiniteSetTheorems, SequenceTheorems, WellFoundedInduction, TLAPS

-----------------------------------------------------------------------------
(* The numbers of the queues                                               *)

\* The base of each tier, from that of LC.
LEMMA BaseOf ==
  \A tier \in Tiers :
    DSQ_CPU_QUEUE_BASE[tier] = DSQ_CPU_QUEUE_BASE[LC] + (tier - 1) * MAX_CPUS
<1>1. LC \in Tiers /\ DSQ_CPU_QUEUE_BASE[LC] \in Nat /\ MAX_CPUS \in Nat
  BY TopologyAssumption DEF Tiers, LC, GREEDY
<1>2. \A tier \in Tiers : tier = LC \/ tier = INTERACTIVE \/ tier = NORMAL \/ tier = GREEDY
  BY DEF Tiers, LC, INTERACTIVE, NORMAL, GREEDY
<1> QED
  BY <1>1, <1>2, TopologyAssumption DEF LC, INTERACTIVE, NORMAL, GREEDY

\* The number of a queue gives back its tier and its cpu as long as the cpus fit
\* into the distance of the bases (get_cpu_dsq_from_type in helpers.h).
LEMMA DsqDistinct ==
  ASSUME NEW s \in Tiers, NEW t \in Tiers,
         NEW c \in 0 .. MAX_CPUS - 1, NEW d \in 0 .. MAX_CPUS - 1,
         get_cpu_dsq_from_type(s, c) = get_cpu_dsq_from_type(t, d)
  PROVE  s = t /\ c = d
<1> DEFINE b == DSQ_CPU_QUEUE_BASE[LC]
<1>1. MAX_CPUS \in Nat \ {0} /\ b \in Nat /\ s \in 1 .. 4 /\ t \in 1 .. 4
  BY TopologyAssumption DEF Tiers, LC, GREEDY
<1>2. b + (s - 1) * MAX_CPUS + c = b + (t - 1) * MAX_CPUS + d
  BY BaseOf DEF get_cpu_dsq_from_type
<1> HIDE DEF b
<1>3. (s - 1) * MAX_CPUS + c = (t - 1) * MAX_CPUS + d
  <2>1. \A i \in 1 .. 4 : (i - 1) * MAX_CPUS \in Int
    BY <1>1
  <2> QED
    BY <1>1, <1>2, <2>1
<1>4. s \in {1, 2, 3, 4} /\ t \in {1, 2, 3, 4}
  BY <1>1
<1> QED
  BY <1>1, <1>3, <1>4

\* Request i of lunar_init is for the tier i % 4 of cpu i \div 4.
LEMMA RequestParts ==
  ASSUME NEW i \in Nat
  PROVE  /\ i % 4 \in 0 .. 3 /\ i \div 4 \in Nat /\ i = 4 * (i \div 4) + (i % 4)
         /\ InitOrder[(i % 4) + 1] \in Tiers
<1>1. i % 4 \in 0 .. 3 /\ i \div 4 \in Nat /\ i = 4 * (i \div 4) + (i % 4)
  OBVIOUS
<1>2. PICK r \in 0 .. 3 : r = i % 4
  BY <1>1
<1>3. InitOrder[r + 1] \in Tiers
  BY DEF InitOrder, Tiers, LC, INTERACTIVE, NORMAL, GREEDY
<1> QED
  BY <1>1, <1>2, <1>3

\* The tiers of a cpu are different ones.
LEMMA InitOrderOnce ==
  \A q, r \in 0 .. 3 : InitOrder[q + 1] = InitOrder[r + 1] => q = r
<1>1. \A q, r \in {0, 1, 2, 3} : InitOrder[q + 1] = InitOrder[r + 1] => q = r
  BY DEF InitOrder, LC, INTERACTIVE, NORMAL, GREEDY
<1> QED
  BY <1>1

\* lunar_init creates all its queues, whatever cpus the machine has, as long as
\* there are MAX_CPUS at most: this is what setup_lunar_topology makes sure of.
THEOREM InitSucceeds ==
  \A nr \in 0 .. MAX_CPUS : lunar_init(nr)
<1> SUFFICES ASSUME NEW nr \in 0 .. MAX_CPUS, NEW i \in 0 .. 4 * nr - 1, NEW j \in 0 .. i - 1
             PROVE  Requested(j) # Requested(i)
  BY DEF lunar_init, scx_bpf_create_dsq
<1>1. i \in Nat /\ j \in Nat /\ j < i /\ MAX_CPUS \in Nat /\ i < 4 * MAX_CPUS
  BY TopologyAssumption
<1>2. PICK c, d, q, r \in Nat : c = i \div 4 /\ d = j \div 4 /\ q = i % 4 /\ r = j % 4
  BY <1>1, RequestParts
<1>3. /\ q \in 0 .. 3 /\ r \in 0 .. 3 /\ i = 4 * c + q /\ j = 4 * d + r
      /\ InitOrder[q + 1] \in Tiers /\ InitOrder[r + 1] \in Tiers
  BY <1>1, <1>2, RequestParts
<1>4. c \in 0 .. MAX_CPUS - 1 /\ d \in 0 .. MAX_CPUS - 1
  BY <1>1, <1>3
<1>5. ~ (c = d /\ q = r)
  BY <1>1, <1>3
<1>6. ~ (c = d /\ InitOrder[q + 1] = InitOrder[r + 1])
  BY <1>3, <1>5, InitOrderOnce
<1>7. /\ Requested(i) = get_cpu_dsq_from_type(InitOrder[q + 1], c)
      /\ Requested(j) = get_cpu_dsq_from_type(InitOrder[r + 1], d)
  BY <1>2 DEF Requested
<1> QED
  BY <1>3, <1>4, <1>6, <1>7, DsqDistinct

\* With more cpus it does not: the LC queue of cpu MAX_CPUS would have the number
\* of the INTERACTIVE queue of cpu 0.
THEOREM InitRefused ==
  \A nr \in Nat : nr > MAX_CPUS => ~ lunar_init(nr)
<1> SUFFICES ASSUME NEW nr \in Nat, nr > MAX_CPUS
             PROVE  ~ lunar_init(nr)
  OBVIOUS
<1>1. PICK m \in Nat \ {0} : m = MAX_CPUS
  BY TopologyAssumption
<1>2. (4 * m) % 4 = 0 /\ (4 * m) \div 4 = m /\ 2 % 4 = 2 /\ 2 \div 4 = 0
  OBVIOUS
<1>3. /\ Requested(4 * m) = get_cpu_dsq_from_type(LC, m)
      /\ Requested(2) = get_cpu_dsq_from_type(INTERACTIVE, 0)
  BY <1>2 DEF Requested, InitOrder
<1>4. get_cpu_dsq_from_type(LC, m) = get_cpu_dsq_from_type(INTERACTIVE, 0)
  BY <1>1, TopologyAssumption DEF get_cpu_dsq_from_type, Tiers, LC, INTERACTIVE, NORMAL, GREEDY
<1>5. 2 \in 0 .. 4 * m - 1 /\ 4 * m \in 0 .. 4 * nr - 1
  BY <1>1
<1> QED
  BY <1>3, <1>4, <1>5 DEF lunar_init, scx_bpf_create_dsq

-----------------------------------------------------------------------------
(* Extremes and ranks                                                      *)

\* A set of numbers has a least one.
LEMMA LeastExists ==
  ASSUME NEW S \in SUBSET Nat, S # {}
  PROVE  \E m \in S : \A x \in S : m <= x
<1>1. PICK m \in S : \A x \in S : ~ (<<x, m>> \in OpToRel(<, Nat))
  BY NatLessThanWellFounded, WFMin
<1>2. \A x \in S : ~ (x < m)
  BY <1>1, Zenon DEF OpToRel
<1> QED
  BY <1>2

\* Min of a set of numbers.
LEMMA MinOf ==
  ASSUME NEW S \in SUBSET Nat, S # {}
  PROVE  Min(S) \in S /\ \A x \in S : Min(S) <= x
BY LeastExists DEF Min

\* Max of a set of numbers with a bound.
LEMMA MaxOf ==
  ASSUME NEW n \in Nat, NEW S \in SUBSET (0 .. n), S # {}
  PROVE  Max(S) \in S /\ \A x \in S : x <= Max(S)
<1> DEFINE R == {y \in 0 .. n : n - y \in S}
<1>1. R \in SUBSET Nat /\ R # {}
  <2>1. PICK x \in S : TRUE
    OBVIOUS
  <2>2. n - x \in 0 .. n /\ n - (n - x) = x
    BY <2>1
  <2>3. n - x \in R
    BY <2>1, <2>2
  <2>4. \A y \in R : y \in Nat
    OBVIOUS
  <2> HIDE DEF R
  <2> QED
    BY <2>3, <2>4, Zenon
<1>2. PICK m \in R : \A y \in R : m <= y
  BY <1>1, LeastExists
<1>3. \A x \in S : x <= n - m
  <2> SUFFICES ASSUME NEW x \in S PROVE x <= n - m
    OBVIOUS
  <2>1. n - x \in R
    <3>1. n - x \in 0 .. n /\ n - (n - x) = x
      OBVIOUS
    <3> QED
      BY <3>1
  <2>2. m <= n - x
    BY <1>2, <2>1
  <2> QED
    BY <2>2
<1>4. \E m2 \in S : \A y \in S : m2 >= y
  <2>1. n - m \in S
    OBVIOUS
  <2> QED
    BY <1>3, <2>1
<1> QED
  BY <1>4 DEF Max

\* A function that tells the members of a finite set apart and has as many values
\* at most takes all of them.
LEMMA InjectiveOnto ==
  ASSUME NEW S, IsFiniteSet(S), NEW r \in [S -> 0 .. Cardinality(S) - 1],
         \A x, y \in S : r[x] = r[y] => x = y
  PROVE  \A i \in 0 .. Cardinality(S) - 1 : \E x \in S : r[x] = i
<1> DEFINE n == Cardinality(S)
           T == 0 .. n - 1
<1>1. n \in Nat
  BY FS_CardinalityType
<1>2. IsFiniteSet(T) /\ Cardinality(T) = n
  <2>1. IsFiniteSet(0 .. n - 1) /\ Cardinality(0 .. n - 1) = IF 0 > n - 1 THEN 0 ELSE n - 1 - 0 + 1
    BY <1>1, FS_Interval
  <2> QED
    BY <1>1, <2>1
<1>3. r \in Injection(S, T)
  BY DEF Injection, IsInjective
<1> HIDE DEF n, T
<1>4. Cardinality(S) = Cardinality(T)
  BY <1>2 DEF n
<1>5. r \in Surjection(S, T)
  BY <1>2, <1>3, <1>4, FS_Injection
<1> QED
  BY <1>5 DEF Surjection, T, n

\* The members of a finite set of numbers, one for each rank.
LEMMA RankTaken ==
  ASSUME NEW S \in SUBSET Nat, IsFiniteSet(S)
  PROVE  \A i \in 1 .. Cardinality(S) :
           \E c \in S : Cardinality({d \in S : d < c}) = i - 1
<1> DEFINE Below(c) == {d \in S : d < c}
           r == [c \in S |-> Cardinality(Below(c))]
<1>1. \A c \in S : IsFiniteSet(Below(c)) /\ Cardinality(Below(c)) \in Nat
  BY FS_Subset, FS_CardinalityType
<1>2. Cardinality(S) \in Nat
  BY FS_CardinalityType
<1>3. \A c \in S : Cardinality(Below(c)) < Cardinality(S)
  <2> SUFFICES ASSUME NEW c \in S PROVE Cardinality(Below(c)) < Cardinality(S)
    OBVIOUS
  <2>1. Below(c) \in SUBSET S /\ Below(c) # S
    OBVIOUS
  <2>2. Cardinality(Below(c)) <= Cardinality(S) /\ Cardinality(S) # Cardinality(Below(c))
    BY <2>1, FS_Subset
  <2> QED
    BY <1>1, <1>2, <2>2
<1>4. \A c, d \in S : c < d => Cardinality(Below(c)) < Cardinality(Below(d))
  <2> SUFFICES ASSUME NEW c \in S, NEW d \in S, c < d
               PROVE  Cardinality(Below(c)) < Cardinality(Below(d))
    OBVIOUS
  <2>1. c \in Below(d) /\ c \notin Below(c)
    OBVIOUS
  <2>2. \A e \in Below(c) : e \in Below(d)
    OBVIOUS
  <2> HIDE DEF Below
  <2>3. Below(c) \in SUBSET Below(d) /\ Below(d) # Below(c)
    BY <2>1, <2>2
  <2>4. Cardinality(Below(c)) <= Cardinality(Below(d)) /\ Cardinality(Below(d)) # Cardinality(Below(c))
    BY <1>1, <2>3, FS_Subset
  <2> QED
    BY <1>1, <2>4
<1> HIDE DEF Below
<1>5. r \in [S -> 0 .. Cardinality(S) - 1]
  BY <1>1, <1>2, <1>3
<1>6. \A x, y \in S : r[x] = r[y] => x = y
  <2> SUFFICES ASSUME NEW x \in S, NEW y \in S, r[x] = r[y] PROVE x = y
    OBVIOUS
  <2>1. ~ (x < y) /\ ~ (y < x)
    BY <1>1, <1>4
  <2> QED
    BY <2>1
<1> HIDE DEF r
<1>7. \A i \in 0 .. Cardinality(S) - 1 : \E x \in S : r[x] = i
  BY <1>5, <1>6, InjectiveOnto
<1> SUFFICES ASSUME NEW i \in 1 .. Cardinality(S)
             PROVE  \E c \in S : Cardinality({d \in S : d < c}) = i - 1
  OBVIOUS
<1>8. i - 1 \in 0 .. Cardinality(S) - 1
  BY <1>2
<1> QED
  BY <1>7, <1>8 DEF r, Below

-----------------------------------------------------------------------------
(* Lists of cpus                                                           *)

\* The members of two sequences together.
LEMMA ConcatSet ==
  ASSUME NEW T, NEW s \in Seq(T), NEW u \in Seq(T)
  PROVE  s \o u \in Seq(T) /\ ToSet(s \o u) = ToSet(s) \cup ToSet(u)
<1>1. /\ s \o u \in Seq(T) /\ Len(s \o u) = Len(s) + Len(u)
      /\ \A i \in 1 .. Len(s) + Len(u) : (s \o u)[i] = IF i <= Len(s) THEN s[i] ELSE u[i - Len(s)]
  BY ConcatProperties
<1>2. DOMAIN s = 1 .. Len(s) /\ DOMAIN u = 1 .. Len(u) /\ DOMAIN (s \o u) = 1 .. Len(s) + Len(u)
      /\ Len(s) \in Nat /\ Len(u) \in Nat
  BY <1>1
<1>3. \A i \in 1 .. Len(s) + Len(u) : (s \o u)[i] \in ToSet(s) \cup ToSet(u)
  <2> SUFFICES ASSUME NEW i \in 1 .. Len(s) + Len(u)
               PROVE  (s \o u)[i] \in ToSet(s) \cup ToSet(u)
    OBVIOUS
  <2>1. CASE i <= Len(s)
    BY <1>1, <1>2, <2>1 DEF ToSet
  <2>2. CASE ~ (i <= Len(s))
    <3>1. i - Len(s) \in 1 .. Len(u)
      BY <1>2, <2>2
    <3> QED
      BY <1>1, <1>2, <2>2, <3>1 DEF ToSet
  <2> QED
    BY <2>1, <2>2
<1>4. \A i \in 1 .. Len(s) : s[i] \in ToSet(s \o u)
  BY <1>1, <1>2 DEF ToSet
<1>5. \A i \in 1 .. Len(u) : u[i] \in ToSet(s \o u)
  <2> SUFFICES ASSUME NEW i \in 1 .. Len(u) PROVE u[i] \in ToSet(s \o u)
    OBVIOUS
  <2>1. /\ Len(s) + i \in 1 .. Len(s) + Len(u) /\ ~ (Len(s) + i <= Len(s))
        /\ (Len(s) + i) - Len(s) = i
    BY <1>2
  <2> QED
    BY <1>1, <1>2, <2>1 DEF ToSet
<1> QED
  BY <1>1, <1>2, <1>3, <1>4, <1>5 DEF ToSet

\* The recursive function of FlattenSeq.
Unfolds(f, seqs) ==
  f = [i \in 1 .. Len(seqs) |-> IF i = 1 THEN seqs[i] ELSE f[i - 1] \o seqs[i]]

\* The same on the first n of the sequences, which may exist for no f.
UnfoldsUpto(T, seqs, n) ==
  \E f \in [1 .. n -> Seq(T)] :
    \A i \in 1 .. n : f[i] = IF i = 1 THEN seqs[i] ELSE f[i - 1] \o seqs[i]

\* The members of the first n sequences.
MembersUpto(seqs, n) == UNION {ToSet(seqs[j]) : j \in 1 .. n}

\* There is such a function on every prefix of the sequences.
LEMMA FlattenExists ==
  ASSUME NEW T, NEW seqs \in Seq(Seq(T)), NEW N \in Nat, N <= Len(seqs)
  PROVE  UnfoldsUpto(T, seqs, N)
<1> USE DEF UnfoldsUpto
<1> DEFINE Good(f, n) == \A i \in 1 .. n : f[i] = IF i = 1 THEN seqs[i] ELSE f[i - 1] \o seqs[i]
           Bad == {n \in Nat : n <= Len(seqs) /\ ~ \E f \in [1 .. n -> Seq(T)] : Good(f, n)}
<1> SUFFICES ASSUME Bad # {} PROVE FALSE
  OBVIOUS
<1>1. PICK n \in Bad : \A x \in Bad : n <= x
  BY LeastExists
<1>2. n \in Nat /\ n <= Len(seqs) /\ ~ \E f \in [1 .. n -> Seq(T)] : Good(f, n)
  BY <1>1
<1>3. n # 0
  <2>1. [i \in 1 .. 0 |-> <<>>] \in [1 .. 0 -> Seq(T)] /\ Good([i \in 1 .. 0 |-> <<>>], 0)
    OBVIOUS
  <2> QED
    BY <1>2, <2>1
<1>4. PICK g \in [1 .. n - 1 -> Seq(T)] : Good(g, n - 1)
  <2>1. n - 1 \in Nat /\ n - 1 <= Len(seqs) /\ ~ (n <= n - 1)
    BY <1>2, <1>3
  <2> QED
    BY <1>1, <2>1
<1>5. \A i \in 1 .. n : seqs[i] \in Seq(T)
  BY <1>2
<1> DEFINE last == IF n = 1 THEN seqs[n] ELSE g[n - 1] \o seqs[n]
           f == [i \in 1 .. n |-> IF i = n THEN last ELSE g[i]]
<1>6. last \in Seq(T)
  <2>1. CASE n = 1
    BY <1>2, <1>3, <1>5, <2>1
  <2>2. CASE n # 1
    <3>1. g[n - 1] \in Seq(T) /\ seqs[n] \in Seq(T)
      BY <1>2, <1>3, <1>4, <1>5, <2>2
    <3> QED
      BY <2>2, <3>1, ConcatSet
  <2> QED
    BY <2>1, <2>2
<1>7. f \in [1 .. n -> Seq(T)]
  BY <1>2, <1>3, <1>4, <1>6
<1>8. Good(f, n)
  <2> SUFFICES ASSUME NEW i \in 1 .. n
               PROVE  f[i] = IF i = 1 THEN seqs[i] ELSE f[i - 1] \o seqs[i]
    OBVIOUS
  <2>1. i # 1 => i - 1 \in 1 .. n /\ i - 1 # n /\ f[i - 1] = g[i - 1]
    BY <1>2
  <2> HIDE DEF Good
  <2>2. CASE i = n
    BY <1>2, <2>1, <2>2
  <2>3. CASE i # n
    <3>1. i \in 1 .. n - 1 /\ f[i] = g[i]
      BY <1>2, <2>3
    <3> QED
      BY <1>4, <2>1, <3>1 DEF Good
  <2> QED
    BY <2>2, <2>3
<1> QED
  BY <1>2, <1>7, <1>8

\* There is such a function.
LEMMA UnfoldsExists ==
  ASSUME NEW T, NEW seqs \in Seq(Seq(T))
  PROVE  \E f : Unfolds(f, seqs)
<1>1. Len(seqs) \in Nat /\ Len(seqs) <= Len(seqs)
  OBVIOUS
<1>2. UnfoldsUpto(T, seqs, Len(seqs))
  BY <1>1, FlattenExists
<1>3. PICK f \in [1 .. Len(seqs) -> Seq(T)] :
        \A i \in 1 .. Len(seqs) : f[i] = IF i = 1 THEN seqs[i] ELSE f[i - 1] \o seqs[i]
  BY <1>2 DEF UnfoldsUpto
<1>4. f = [i \in 1 .. Len(seqs) |-> IF i = 1 THEN seqs[i] ELSE f[i - 1] \o seqs[i]]
  BY <1>3
<1>5. Unfolds(f, seqs)
  BY <1>4 DEF Unfolds
<1> QED
  BY <1>5

\* What it computes.
LEMMA FlattenRounds ==
  ASSUME NEW T, NEW seqs \in Seq(Seq(T)), NEW F, NEW n \in 1 .. Len(seqs), Unfolds(F, seqs)
  PROVE  F[n] \in Seq(T) /\ ToSet(F[n]) = MembersUpto(seqs, n)
<1> DEFINE N == Len(seqs)
           Upto(i) == MembersUpto(seqs, i)
           Good(i) == F[i] \in Seq(T) /\ ToSet(F[i]) = Upto(i)
           Bad == {i \in 1 .. N : ~ Good(i)}
<1>1. N \in Nat /\ \A i \in 1 .. N : seqs[i] \in Seq(T)
  OBVIOUS
<1>2. \A i \in 1 .. N : F[i] = IF i = 1 THEN seqs[i] ELSE F[i - 1] \o seqs[i]
  BY DEF Unfolds
<1> SUFFICES ASSUME Bad # {} PROVE FALSE
  OBVIOUS
<1>3. PICK m \in Bad : \A x \in Bad : m <= x
  <2>1. Bad \in SUBSET Nat
    BY <1>1
  <2> HIDE DEF Bad
  <2> QED
    BY <2>1, LeastExists
<1>4. m \in 1 .. N /\ ~ Good(m)
  BY <1>3
<1>5. CASE m = 1
  <2>1. Upto(1) = ToSet(seqs[1])
    BY DEF MembersUpto
  <2>2. F[1] = seqs[1]
    BY <1>1, <1>2, <1>4, <1>5
  <2> QED
    BY <1>1, <1>4, <1>5, <2>1, <2>2
<1>6. CASE m # 1
  <2>1. m - 1 \in 1 .. N /\ ~ (m <= m - 1)
    BY <1>1, <1>4, <1>6
  <2>2. Good(m - 1)
    BY <1>3, <2>1
  <2>3. F[m] = F[m - 1] \o seqs[m]
    BY <1>2, <1>4, <1>6
  <2>4. Upto(m) = Upto(m - 1) \cup ToSet(seqs[m])
    <3>1. 1 .. m = (1 .. m - 1) \cup {m}
      BY <1>4
    <3> QED
      BY <3>1 DEF MembersUpto
  <2>5. F[m] \in Seq(T) /\ ToSet(F[m]) = ToSet(F[m - 1]) \cup ToSet(seqs[m])
    <3>1. F[m - 1] \in Seq(T) /\ seqs[m] \in Seq(T)
      BY <1>1, <1>4, <2>2
    <3> HIDE DEF Good, Bad, Upto, N
    <3> QED
      BY <2>3, <3>1, ConcatSet
  <2> QED
    BY <1>4, <2>2, <2>4, <2>5
<1> QED
  BY <1>5, <1>6

\* FlattenSeq has the members of all its sequences.
LEMMA FlattenMembers ==
  ASSUME NEW T, NEW seqs \in Seq(Seq(T))
  PROVE  /\ FlattenSeq(seqs) \in Seq(T)
         /\ ToSet(FlattenSeq(seqs)) = MembersUpto(seqs, Len(seqs))
<1>1. FlattenSeq(seqs) =
        IF Len(seqs) = 0 THEN seqs ELSE (CHOOSE f : Unfolds(f, seqs))[Len(seqs)]
  BY DEF FlattenSeq, Unfolds
<1>2. CASE Len(seqs) = 0
  <2>1. FlattenSeq(seqs) = seqs
    BY <1>1, <1>2, Zenon
  <2>2. seqs = <<>>
    BY <1>2, EmptySeq
  <2> QED
    BY <1>2, <2>1, <2>2 DEF ToSet, MembersUpto
<1>3. CASE Len(seqs) # 0
  <2>1. PICK F : Unfolds(F, seqs) /\ FlattenSeq(seqs) = F[Len(seqs)]
    BY <1>1, <1>3, UnfoldsExists, Zenon
  <2>2. Len(seqs) \in 1 .. Len(seqs)
    BY <1>3
  <2>3. F[Len(seqs)] \in Seq(T) /\ ToSet(F[Len(seqs)]) = MembersUpto(seqs, Len(seqs))
    BY <2>1, <2>2, FlattenRounds
  <2> QED
    BY <2>1, <2>2, <2>3
<1> QED
  BY <1>2, <1>3

\* The first cpus of the ranges of a set, and the last one of a range.
Starts(S) == {c \in S : c - 1 \notin S}

RangeEnd(S, c) == Min({e \in S : e >= c /\ e + 1 \notin S})

\* A range ends, and has no holes.
LEMMA RangeInside ==
  ASSUME NEW n \in Nat, NEW S \in SUBSET (0 .. n), NEW c \in S
  PROVE  RangeEnd(S, c) \in S /\ c <= RangeEnd(S, c) /\ c .. RangeEnd(S, c) \subseteq S
<1> DEFINE E == {e \in S : e >= c /\ e + 1 \notin S}
           last == RangeEnd(S, c)
<1>0. \A x \in S : x \in Nat
  OBVIOUS
<1>1. E # {}
  <2>1. PICK m \in S : \A x \in S : x <= m
    BY MaxOf
  <2>2. m \in Nat /\ ~ (m + 1 <= m) /\ c \in Nat
    BY <1>0
  <2>3. m >= c /\ m + 1 \notin S
    BY <2>1, <2>2
  <2> QED
    BY <2>3
<1>2. last \in E /\ \A e \in E : last <= e
  BY <1>1, MinOf DEF RangeEnd
<1>3. last \in S /\ last \in Nat /\ c \in Nat /\ c <= last
  BY <1>0, <1>2
<1> HIDE DEF last
<1>4. ASSUME \E x \in c .. last : x \notin S
      PROVE  FALSE
  <2> DEFINE Hole == {x \in Nat : c <= x /\ x <= last /\ x \notin S}
  <2>1. Hole # {}
    BY <1>3, <1>4
  <2>2. PICK x \in Hole : \A y \in Hole : x <= y
    BY <2>1, LeastExists
  <2>3. x # c /\ x - 1 \in Nat /\ c <= x - 1 /\ x - 1 <= last /\ ~ (x <= x - 1)
    BY <1>3, <2>2
  <2>4. x - 1 \in S
    BY <2>2, <2>3
  <2>5. x - 1 \in E
    BY <2>2, <2>3, <2>4
  <2>6. last <= x - 1
    BY <1>2, <2>5
  <2> QED
    BY <1>3, <2>2, <2>6
<1> QED
  BY <1>3, <1>4 DEF last

\* Every cpu is in a range.
LEMMA RangeCovers ==
  ASSUME NEW n \in Nat, NEW S \in SUBSET (0 .. n), NEW c \in S
  PROVE  \E l \in Starts(S) : c \in l .. RangeEnd(S, l)
<1> DEFINE Low == {l \in Nat : l <= c /\ l .. c \subseteq S}
<1>0. \A x \in S : x \in Nat
  OBVIOUS
<1>1. c \in Nat /\ c \in Low
  OBVIOUS
<1>2. PICK l \in Low : \A x \in Low : l <= x
  BY <1>1, LeastExists
<1>3. l \in S /\ l \in Nat /\ l <= c /\ l .. c \subseteq S
  BY <1>2
<1>4. l - 1 \notin S
  <2> SUFFICES ASSUME l - 1 \in S PROVE FALSE
    OBVIOUS
  <2>1. l - 1 \in Nat /\ l - 1 <= c /\ (l - 1) .. c = {l - 1} \cup (l .. c)
    BY <1>1, <1>3
  <2>2. l - 1 \in Low
    BY <1>3, <2>1
  <2> QED
    BY <1>2, <1>3, <2>2
<1>5. RangeEnd(S, l) \in S /\ l <= RangeEnd(S, l) /\ RangeEnd(S, l) + 1 \notin S
  <2> DEFINE E == {e \in S : e >= l /\ e + 1 \notin S}
  <2>1. RangeEnd(S, l) \in S /\ l <= RangeEnd(S, l)
    BY <1>3, RangeInside
  <2>2. E # {}
    <3>1. PICK m \in S : \A x \in S : x <= m
      BY MaxOf
    <3>2. m \in Nat /\ ~ (m + 1 <= m) /\ l \in Nat
      BY <1>0, <1>3
    <3>3. m >= l /\ m + 1 \notin S
      BY <1>3, <3>1, <3>2
    <3> QED
      BY <3>3
  <2>3. RangeEnd(S, l) \in E
    BY <2>2, MinOf DEF RangeEnd
  <2> QED
    BY <2>1, <2>3
<1>6. c <= RangeEnd(S, l)
  <2>1. RangeEnd(S, l) \in Nat
    BY <1>0, <1>5
  <2>2. RangeEnd(S, l) < c => RangeEnd(S, l) + 1 \in l .. c
    BY <1>1, <1>3, <1>5, <2>1
  <2> QED
    BY <1>1, <1>3, <1>5, <2>1, <2>2
<1>7. l \in Starts(S) /\ c \in l .. RangeEnd(S, l)
  BY <1>1, <1>3, <1>4, <1>5, <1>6 DEF Starts
<1> QED
  BY <1>7

\* A cpulist has a range for each of the starts.
LEMMA ListedRanges ==
  ASSUME NEW n \in Nat, NEW S \in SUBSET (0 .. n)
  PROVE  /\ CpuList(S) \in Seq([lo : Nat, hi : Nat])
         /\ \A i \in 1 .. Len(CpuList(S)) :
              /\ CpuList(S)[i].lo \in Starts(S)
              /\ CpuList(S)[i].hi = RangeEnd(S, CpuList(S)[i].lo)
         /\ \A c \in Starts(S) : \E i \in 1 .. Len(CpuList(S)) : CpuList(S)[i].lo = c
<1> DEFINE St == Starts(S)
           N == Cardinality(St)
           Rank(c) == Cardinality({d \in St : d < c})
           Low(i) == CHOOSE c \in St : Rank(c) = i - 1
           list == [i \in 1 .. N |-> [lo |-> Low(i), hi |-> RangeEnd(S, Low(i))]]
<1>1. CpuList(S) = list
  BY DEF CpuList, Starts, RangeEnd
<1>2. (\A x \in S : x \in Nat) /\ St \in SUBSET S /\ St \in SUBSET Nat
  <2>1. \A x \in S : x \in Nat
    OBVIOUS
  <2>2. \A x \in St : x \in S
    BY DEF Starts
  <2> HIDE DEF St
  <2> QED
    BY <2>1, <2>2
<1>3. IsFiniteSet(St)
  <2>1. IsFiniteSet(0 .. n) /\ St \in SUBSET (0 .. n)
    BY <1>2, FS_Interval
  <2> QED
    BY <2>1, FS_Subset
<1>4. N \in Nat
  BY <1>3, FS_CardinalityType
<1>5. \A i \in 1 .. N : \E c \in St : Rank(c) = i - 1
  BY <1>2, <1>3, RankTaken
<1>6. \A i \in 1 .. N : Low(i) \in St /\ Rank(Low(i)) = i - 1
  <2> HIDE DEF St, Rank, N
  <2> QED
    BY <1>5
<1>7. \A c \in St : Rank(c) \in 0 .. N - 1
  <2> SUFFICES ASSUME NEW c \in St PROVE Rank(c) \in 0 .. N - 1
    OBVIOUS
  <2> DEFINE B == {d \in St : d < c}
  <2>1. B \in SUBSET St /\ c \notin B
    BY <1>2
  <2> HIDE DEF B
  <2>2. Cardinality(B) \in Nat /\ Cardinality(B) <= N /\ Cardinality(B) # N
    BY <1>3, <1>4, <2>1, FS_Subset, FS_CardinalityType
  <2> QED
    BY <1>4, <2>2 DEF B
<1>8. \A c, d \in St : Rank(c) = Rank(d) => c = d
  <2>1. ASSUME NEW c \in St, NEW d \in St, c < d
        PROVE  Rank(c) # Rank(d)
    <3> DEFINE B == {e \in St : e < c}
               C == {e \in St : e < d}
    <3>1. c \in C /\ c \notin B
      BY <1>2, <2>1
    <3>2. \A e \in B : e \in C
      BY <1>2, <2>1
    <3>3. C \in SUBSET St
      OBVIOUS
    <3> HIDE DEF B, C
    <3>4. B \in SUBSET C /\ C # B /\ IsFiniteSet(C)
      BY <1>3, <3>1, <3>2, <3>3, FS_Subset
    <3>5. Cardinality(C) # Cardinality(B)
      BY <3>4, FS_Subset
    <3> QED
      BY <3>5 DEF B, C
  <2> HIDE DEF Rank
  <2> QED
    BY <1>2, <2>1
<1> HIDE DEF St, Rank, N, Low
<1>9. \A i \in 1 .. N : Low(i) \in Nat /\ RangeEnd(S, Low(i)) \in Nat
  BY <1>2, <1>6, RangeInside
<1>10. list \in [1 .. N -> [lo : Nat, hi : Nat]]
  BY <1>9
<1>11. list \in Seq([lo : Nat, hi : Nat]) /\ Len(list) = N
  BY <1>4, <1>10
<1>12. \A i \in 1 .. N : list[i].lo = Low(i) /\ list[i].hi = RangeEnd(S, Low(i))
  OBVIOUS
<1>13. \A c \in St : \E i \in 1 .. N : Low(i) = c
  <2> SUFFICES ASSUME NEW c \in St PROVE \E i \in 1 .. N : Low(i) = c
    OBVIOUS
  <2>1. Rank(c) + 1 \in 1 .. N /\ (Rank(c) + 1) - 1 = Rank(c)
    BY <1>4, <1>7
  <2>2. Low(Rank(c) + 1) = c
    BY <1>6, <1>8, <2>1
  <2> QED
    BY <2>1, <2>2
<1> HIDE DEF list
<1>14. \A i \in 1 .. Len(list) : list[i].lo \in St /\ list[i].hi = RangeEnd(S, list[i].lo)
  BY <1>6, <1>11, <1>12
<1>15. \A c \in St : \E i \in 1 .. Len(list) : list[i].lo = c
  BY <1>11, <1>12, <1>13
<1> QED
  BY <1>1, <1>11, <1>14, <1>15 DEF St

\* What is written into a cpulist is read from it (parse_cpulist).
LEMMA ListedCpus ==
  ASSUME NEW n \in Nat, NEW S \in SUBSET (0 .. n)
  PROVE  /\ parse_cpulist(CpuList(S)) \in Seq(Nat)
         /\ ToSet(parse_cpulist(CpuList(S))) = S
<1>1. PICK list : list = CpuList(S)
  OBVIOUS
<1>2. /\ list \in Seq([lo : Nat, hi : Nat])
      /\ \A i \in 1 .. Len(list) : list[i].lo \in Starts(S) /\ list[i].hi = RangeEnd(S, list[i].lo)
      /\ \A c \in Starts(S) : \E i \in 1 .. Len(list) : list[i].lo = c
  BY <1>1, ListedRanges
<1> DEFINE Run(r) == [k \in 1 .. (r.hi - r.lo + 1) |-> r.lo + k - 1]
           runs == [i \in DOMAIN list |-> Run(list[i])]
<1>3. \A i \in 1 .. Len(list) : list[i].lo \in Nat /\ list[i].hi \in Nat
  <2>1. \A i \in 1 .. Len(list) : list[i] \in [lo : Nat, hi : Nat]
    BY <1>2, ElementOfSeq, Zenon
  <2> QED
    BY <2>1
<1>4. \A i \in 1 .. Len(list) : list[i].lo \in S /\ list[i].lo <= list[i].hi
  <2>1. \A c \in Starts(S) : c \in S /\ c <= RangeEnd(S, c)
    BY RangeInside DEF Starts
  <2> QED
    BY <1>2, <2>1
<1>5. ASSUME NEW lo \in Nat, NEW hi \in Nat, lo <= hi, NEW s,
             s = [k \in 1 .. (hi - lo + 1) |-> lo + k - 1]
      PROVE  s \in Seq(Nat) /\ ToSet(s) = lo .. hi
  <2>1. hi - lo + 1 \in Nat /\ s \in [1 .. (hi - lo + 1) -> Nat]
    BY <1>5
  <2>2. s \in Seq(Nat) /\ DOMAIN s = 1 .. (hi - lo + 1)
    BY <2>1
  <2>3. \A k \in 1 .. (hi - lo + 1) : s[k] \in lo .. hi
    BY <1>5
  <2>4. \A x \in lo .. hi : x - lo + 1 \in 1 .. (hi - lo + 1) /\ s[x - lo + 1] = x
    BY <1>5
  <2> QED
    BY <2>2, <2>3, <2>4 DEF ToSet
<1>6. \A i \in 1 .. Len(list) :
        Run(list[i]) \in Seq(Nat) /\ ToSet(Run(list[i])) = list[i].lo .. list[i].hi
  <2> SUFFICES ASSUME NEW i \in 1 .. Len(list)
               PROVE  Run(list[i]) \in Seq(Nat) /\ ToSet(Run(list[i])) = list[i].lo .. list[i].hi
    OBVIOUS
  <2>1. PICK s : s = Run(list[i])
    OBVIOUS
  <2>2. PICK lo, hi : lo = list[i].lo /\ hi = list[i].hi
    OBVIOUS
  <2>3. s \in Seq(Nat) /\ ToSet(s) = lo .. hi
    BY <1>3, <1>4, <1>5, <2>1, <2>2
  <2> HIDE DEF Run
  <2> QED
    BY <2>1, <2>2, <2>3
<1>7. parse_cpulist(CpuList(S)) = FlattenSeq(runs)
  BY <1>1 DEF parse_cpulist
<1>8. DOMAIN list = 1 .. Len(list) /\ Len(list) \in Nat
  BY <1>2
<1>9. \A i \in 1 .. Len(list) : runs[i] = Run(list[i])
  BY <1>8
<1>10. runs \in Seq(Seq(Nat)) /\ Len(runs) = Len(list)
  <2> HIDE DEF Run
  <2>1. runs \in [1 .. Len(list) -> Seq(Nat)]
    BY <1>6, <1>8
  <2> HIDE DEF runs
  <2> QED
    BY <1>8, <2>1
<1> HIDE DEF runs, Run
<1>11. FlattenSeq(runs) \in Seq(Nat) /\ ToSet(FlattenSeq(runs)) = MembersUpto(runs, Len(runs))
  BY <1>10, FlattenMembers
<1>12. \A x : x \in MembersUpto(runs, Len(runs)) <=>
              \E i \in 1 .. Len(list) : x \in list[i].lo .. list[i].hi
  BY <1>6, <1>9, <1>10 DEF MembersUpto
<1>13. \A x \in S : \E i \in 1 .. Len(list) : x \in list[i].lo .. list[i].hi
  <2> SUFFICES ASSUME NEW x \in S PROVE \E i \in 1 .. Len(list) : x \in list[i].lo .. list[i].hi
    OBVIOUS
  <2>1. PICK l \in Starts(S) : x \in l .. RangeEnd(S, l)
    BY RangeCovers
  <2>2. PICK i \in 1 .. Len(list) : list[i].lo = l
    BY <1>2
  <2> QED
    BY <1>2, <2>1, <2>2
<1>14. \A i \in 1 .. Len(list) : list[i].lo .. list[i].hi \subseteq S
  <2> SUFFICES ASSUME NEW i \in 1 .. Len(list) PROVE list[i].lo .. list[i].hi \subseteq S
    OBVIOUS
  <2>1. list[i].lo \in S /\ list[i].hi = RangeEnd(S, list[i].lo)
    BY <1>2, <1>4
  <2>2. list[i].lo .. RangeEnd(S, list[i].lo) \subseteq S
    BY <2>1, RangeInside
  <2> QED
    BY <2>1, <2>2
<1>15. MembersUpto(runs, Len(runs)) = S
  BY <1>12, <1>13, <1>14
<1> QED
  BY <1>7, <1>11, <1>15

-----------------------------------------------------------------------------
(* Cache domains                                                           *)

\* A cpu of the machine as it is told apart by read_topology while the cpus of
\* up are online.
KeyOf(m, up, c) == full_key(CpuDir(m, up, c))

\* Whether two cpus of m have their last cache in common.
SameLlc(m, c, d) ==
  LET level(x) == IF m.cache[3][x] # {} THEN 3 ELSE IF m.cache[2][x] # {} THEN 2 ELSE 0
  IN /\ m.package[c] = m.package[d]
     /\ level(c) = level(d)
     /\ level(c) # 0 => m.cache[level(c)][c] = m.cache[level(d)][d]

\* The tag of a cache that cpu c has at a level: its id, or the cpus that share it.
Tag(m, up, level, c) ==
  IF m.exports_id
    THEN [level |-> level, id |-> m.cache[level][c], shared |-> <<>>]
    ELSE [level |-> level, id |-> {}, shared |-> CpuList(Sharing(m, up, level, c))]

\* The group of a cpu at one level, while it is online.
LEMMA GroupIs ==
  ASSUME NEW m, NEW up, NEW c \in up, NEW level \in {2, 3}
  PROVE  cache_group_key(CpuDir(m, up, c), level) =
           IF m.cache[level][c] # {} THEN {Tag(m, up, level, c)} ELSE {}
<1> DEFINE Index == [id |-> IF m.exports_id THEN m.cache[level][c] ELSE {},
                     shared_cpu_list |-> CpuList(Sharing(m, up, level, c))]
           KeyFor(index) ==
             IF index.id # {} THEN [level |-> level, id |-> index.id, shared |-> <<>>]
             ELSE [level |-> level, id |-> {}, shared |-> index.shared_cpu_list]
<1>1. CpuDir(m, up, c).cache[level] = IF m.cache[level][c] # {} THEN {Index} ELSE {}
  BY DEF CpuDir
<1>2. cache_group_key(CpuDir(m, up, c), level) =
        {KeyFor(index) : index \in CpuDir(m, up, c).cache[level]}
  BY DEF cache_group_key
<1>3. m.cache[level][c] # {} => KeyFor(Index) = Tag(m, up, level, c)
  BY DEF Tag
<1> HIDE DEF Index, KeyFor
<1>4. {KeyFor(index) : index \in {Index}} = {KeyFor(Index)}
  OBVIOUS
<1>5. {KeyFor(index) : index \in {}} = {}
  OBVIOUS
<1>6. CASE m.cache[level][c] # {}
  BY <1>1, <1>2, <1>3, <1>4, <1>6
<1>7. CASE m.cache[level][c] = {}
  BY <1>1, <1>2, <1>5, <1>7
<1> QED
  BY <1>6, <1>7

\* The key of a cpu that is online.
LEMMA KeyIs ==
  ASSUME NEW m, NEW up, NEW c \in up
  PROVE  KeyOf(m, up, c) =
           <<m.package[c], IF m.cache[3][c] # {} THEN {Tag(m, up, 3, c)}
                           ELSE IF m.cache[2][c] # {} THEN {Tag(m, up, 2, c)} ELSE {NoCache}>>
<1>1. CpuDir(m, up, c).package = {m.package[c]}
  BY DEF CpuDir
<1>2. (CHOOSE p \in CpuDir(m, up, c).package : TRUE) = m.package[c]
  BY <1>1
<1>3. \A level \in {2, 3} : cache_group_key(CpuDir(m, up, c), level) =
        IF m.cache[level][c] # {} THEN {Tag(m, up, level, c)} ELSE {}
  BY GroupIs
<1>4. PICK dir : dir = CpuDir(m, up, c)
  OBVIOUS
<1>5. KeyOf(m, up, c) =
        <<m.package[c], IF cache_group_key(dir, 3) # {} THEN cache_group_key(dir, 3)
                        ELSE IF cache_group_key(dir, 2) # {} THEN cache_group_key(dir, 2)
                        ELSE {NoCache}>>
  BY <1>1, <1>2, <1>4 DEF KeyOf, full_key
<1>6. /\ cache_group_key(dir, 3) = IF m.cache[3][c] # {} THEN {Tag(m, up, 3, c)} ELSE {}
      /\ cache_group_key(dir, 2) = IF m.cache[2][c] # {} THEN {Tag(m, up, 2, c)} ELSE {}
  BY <1>3, <1>4
<1> QED
  BY <1>5, <1>6

\* Whether the tags of two cpus at a level are the same exactly for the same cache.
Tells(m, up, level, c, d) ==
  Tag(m, up, level, c) = Tag(m, up, level, d) <=> m.cache[level][c] = m.cache[level][d]

\* They do so within a package.
LEMMA TagsTell ==
  ASSUME NEW m, NEW n \in Nat, NEW up \in SUBSET (0 .. n), NEW c \in up, NEW d \in up,
         NEW level, m.package[c] = m.package[d]
  PROVE  Tells(m, up, level, c, d)
<1> USE DEF Tells
<1>1. CASE m.exports_id
  BY <1>1 DEF Tag
<1>2. CASE ~ m.exports_id
  <2> DEFINE C == Sharing(m, up, level, c)
             D == Sharing(m, up, level, d)
  <2>1. C = D <=> m.cache[level][c] = m.cache[level][d]
    BY DEF Sharing
  <2>2. C \in SUBSET (0 .. n) /\ D \in SUBSET (0 .. n)
    BY DEF Sharing
  <2> HIDE DEF C, D
  <2>3. CpuList(C) = CpuList(D) => C = D
    <3>1. ToSet(parse_cpulist(CpuList(C))) = C
      BY <2>2, ListedCpus
    <3>2. ToSet(parse_cpulist(CpuList(D))) = D
      BY <2>2, ListedCpus
    <3> QED
      BY <3>1, <3>2
  <2>4. Tag(m, up, level, c) = Tag(m, up, level, d) <=> CpuList(C) = CpuList(D)
    BY <1>2 DEF Tag, C, D
  <2> QED
    BY <2>1, <2>3, <2>4
<1> QED
  BY <1>1, <1>2

\* The level of a tag.
LEMMA TagLevel ==
  ASSUME NEW m, NEW up, NEW level, NEW c
  PROVE  Tag(m, up, level, c).level = level
BY DEF Tag

\* Two online cpus have the same key exactly if they share their last cache.
LEMMA KeysTell ==
  ASSUME NEW m, NEW n \in Nat, NEW up \in SUBSET (0 .. n), NEW c \in up, NEW d \in up
  PROVE  KeyOf(m, up, c) = KeyOf(m, up, d) <=> SameLlc(m, c, d)
<1> DEFINE Level(x) == IF m.cache[3][x] # {} THEN 3 ELSE IF m.cache[2][x] # {} THEN 2 ELSE 0
           T(x) == IF Level(x) = 0 THEN NoCache ELSE Tag(m, up, Level(x), x)
<1>1. \A x \in up : KeyOf(m, up, x) = <<m.package[x], {T(x)}>>
  <2> SUFFICES ASSUME NEW x \in up PROVE KeyOf(m, up, x) = <<m.package[x], {T(x)}>>
    OBVIOUS
  <2>1. CASE m.cache[3][x] # {}
    BY <2>1, KeyIs
  <2>2. CASE m.cache[3][x] = {} /\ m.cache[2][x] # {}
    BY <2>2, KeyIs
  <2>3. CASE m.cache[3][x] = {} /\ m.cache[2][x] = {}
    BY <2>3, KeyIs
  <2> QED
    BY <2>1, <2>2, <2>3
<1>2. SameLlc(m, c, d) <=> /\ m.package[c] = m.package[d]
                           /\ Level(c) = Level(d)
                           /\ Level(c) # 0 => m.cache[Level(c)][c] = m.cache[Level(d)][d]
  BY DEF SameLlc
<1>3. \A x : T(x).level = Level(x)
  <2> SUFFICES ASSUME NEW x PROVE T(x).level = Level(x)
    OBVIOUS
  <2> HIDE DEF Level
  <2>1. CASE Level(x) = 0
    BY <2>1 DEF NoCache
  <2>2. CASE Level(x) # 0
    BY <2>2, TagLevel
  <2> QED
    BY <2>1, <2>2
<1> HIDE DEF Level
<1>4. KeyOf(m, up, c) = KeyOf(m, up, d) <=> m.package[c] = m.package[d] /\ T(c) = T(d)
  <2> HIDE DEF T
  <2> QED
    BY <1>1
<1>5. ASSUME m.package[c] = m.package[d], Level(c) = Level(d), Level(c) # 0
      PROVE  T(c) = T(d) <=> m.cache[Level(c)][c] = m.cache[Level(d)][d]
  <2>1. T(c) = Tag(m, up, Level(c), c) /\ T(d) = Tag(m, up, Level(c), d)
    BY <1>5
  <2>2. Tag(m, up, Level(c), c) = Tag(m, up, Level(c), d) <=>
          m.cache[Level(c)][c] = m.cache[Level(c)][d]
    <3>1. Tells(m, up, Level(c), c, d)
      BY <1>5, TagsTell
    <3> QED
      BY <3>1 DEF Tells
  <2> QED
    BY <1>5, <2>1, <2>2
<1>6. Level(c) = 0 /\ Level(d) = 0 => T(c) = T(d)
  OBVIOUS
<1> HIDE DEF T
<1>7. T(c) = T(d) => Level(c) = Level(d)
  BY <1>3
<1> QED
  BY <1>2, <1>4, <1>5, <1>6, <1>7

\* The place of the first cpu of a group, and the number read_topology gives the
\* group of the i-th cpu: how many groups came before it.
FirstAt(keys, k) == Min({i \in DOMAIN keys : keys[i] = k})

Before(keys, k) == {keys[j] : j \in 1 .. (FirstAt(keys, k) - 1)}

Dense(keys, i) == Cardinality(Before(keys, keys[i]))

\* The first place of a group.
LEMMA FirstPlace ==
  ASSUME NEW N \in Nat, NEW keys, DOMAIN keys = 1 .. N, NEW i \in 1 .. N
  PROVE  /\ FirstAt(keys, keys[i]) \in 1 .. N
         /\ keys[FirstAt(keys, keys[i])] = keys[i]
         /\ \A j \in 1 .. FirstAt(keys, keys[i]) - 1 : keys[j] # keys[i]
<1> DEFINE S == {j \in DOMAIN keys : keys[j] = keys[i]}
<1>1. S \in SUBSET Nat /\ S # {} /\ FirstAt(keys, keys[i]) = Min(S)
  BY DEF FirstAt
<1>2. Min(S) \in S /\ \A x \in S : Min(S) <= x
  BY <1>1, MinOf
<1>3. PICK a : a = FirstAt(keys, keys[i])
  OBVIOUS
<1>4. a \in 1 .. N /\ keys[a] = keys[i] /\ \A x \in S : a <= x
  BY <1>1, <1>2, <1>3
<1>5. \A j \in 1 .. a - 1 : j \in 1 .. N /\ ~ (a <= j)
  BY <1>4
<1> QED
  BY <1>3, <1>4, <1>5

\* A function on 1 .. N.
IsArray(keys, N) == keys = [i \in 1 .. N |-> keys[i]]

\* The numbers of the groups are dense, and tell the groups apart.
LEMMA DenseNumbers ==
  ASSUME NEW N \in Nat, NEW keys, IsArray(keys, N)
  PROVE  /\ \A i, j \in 1 .. N : Dense(keys, i) = Dense(keys, j) <=> keys[i] = keys[j]
         /\ \A i \in 1 .. N : Dense(keys, i) \in 0 .. Cardinality(ToSet(keys)) - 1
         /\ \A x \in 0 .. Cardinality(ToSet(keys)) - 1 : \E i \in 1 .. N : Dense(keys, i) = x
<1> DEFINE V == ToSet(keys)
           B(k) == Before(keys, k)
           r == [k \in V |-> Cardinality(B(k))]
<1>1. DOMAIN keys = 1 .. N /\ V = {keys[i] : i \in 1 .. N}
  BY DEF ToSet, IsArray
<1>2. IsFiniteSet(V) /\ Cardinality(V) \in Nat
  <2>1. keys \in [1 .. N -> V] /\ \A k \in V : \E i \in 1 .. N : keys[i] = k
    BY <1>1 DEF IsArray
  <2>2. keys \in Surjection(1 .. N, V)
    BY <2>1 DEF Surjection
  <2>3. IsFiniteSet(1 .. N)
    BY FS_Interval
  <2> HIDE DEF V
  <2>4. IsFiniteSet(V)
    BY <2>2, <2>3, FS_Surjection
  <2> QED
    BY <2>4, FS_CardinalityType
<1>3. \A k \in V : /\ FirstAt(keys, k) \in 1 .. N /\ keys[FirstAt(keys, k)] = k
                   /\ \A j \in 1 .. FirstAt(keys, k) - 1 : keys[j] # k
  <2> SUFFICES ASSUME NEW i \in 1 .. N
               PROVE  /\ FirstAt(keys, keys[i]) \in 1 .. N /\ keys[FirstAt(keys, keys[i])] = keys[i]
                      /\ \A j \in 1 .. FirstAt(keys, keys[i]) - 1 : keys[j] # keys[i]
    BY <1>1
  <2> QED
    BY <1>1, FirstPlace
<1>4. \A k \in V : B(k) \in SUBSET V /\ k \notin B(k)
  <2> SUFFICES ASSUME NEW k \in V PROVE B(k) \in SUBSET V /\ k \notin B(k)
    OBVIOUS
  <2>1. PICK a : a = FirstAt(keys, k)
    OBVIOUS
  <2>2. a \in 1 .. N /\ \A j \in 1 .. a - 1 : j \in 1 .. N /\ keys[j] # k
    BY <1>3, <2>1
  <2> QED
    BY <1>1, <2>1, <2>2 DEF Before
<1>5. \A k, l \in V : FirstAt(keys, k) < FirstAt(keys, l) => B(k) \in SUBSET B(l) /\ k \in B(l)
  <2> SUFFICES ASSUME NEW k \in V, NEW l \in V, FirstAt(keys, k) < FirstAt(keys, l)
               PROVE  B(k) \in SUBSET B(l) /\ k \in B(l)
    OBVIOUS
  <2>1. PICK a, b : a = FirstAt(keys, k) /\ b = FirstAt(keys, l)
    OBVIOUS
  <2>2. a \in 1 .. N /\ b \in 1 .. N /\ a < b /\ keys[a] = k
    BY <1>3, <2>1
  <2>3. a \in 1 .. b - 1 /\ \A j \in 1 .. a - 1 : j \in 1 .. b - 1
    BY <2>2
  <2> QED
    BY <2>1, <2>2, <2>3 DEF Before
<1> HIDE DEF V, B
<1>6. \A k \in V : IsFiniteSet(B(k)) /\ Cardinality(B(k)) \in 0 .. Cardinality(V) - 1
  <2> SUFFICES ASSUME NEW k \in V
               PROVE  IsFiniteSet(B(k)) /\ Cardinality(B(k)) \in 0 .. Cardinality(V) - 1
    OBVIOUS
  <2>1. B(k) \in SUBSET V /\ V # B(k)
    BY <1>4
  <2>2. /\ IsFiniteSet(B(k)) /\ Cardinality(B(k)) <= Cardinality(V)
        /\ Cardinality(V) # Cardinality(B(k))
    BY <1>2, <2>1, FS_Subset
  <2>3. Cardinality(B(k)) \in Nat
    BY <2>2, FS_CardinalityType
  <2> QED
    BY <1>2, <2>2, <2>3
<1>7. ASSUME NEW k \in V, NEW l \in V, FirstAt(keys, k) < FirstAt(keys, l)
      PROVE  Cardinality(B(k)) # Cardinality(B(l))
  <2>1. B(k) \in SUBSET B(l) /\ B(l) # B(k)
    BY <1>4, <1>5, <1>7
  <2> QED
    BY <1>6, <2>1, FS_Subset
<1>8. \A k, l \in V : Cardinality(B(k)) = Cardinality(B(l)) => k = l
  <2> SUFFICES ASSUME NEW k \in V, NEW l \in V, Cardinality(B(k)) = Cardinality(B(l))
               PROVE  k = l
    OBVIOUS
  <2>1. ~ (FirstAt(keys, k) < FirstAt(keys, l)) /\ ~ (FirstAt(keys, l) < FirstAt(keys, k))
    BY <1>7
  <2>2. FirstAt(keys, k) = FirstAt(keys, l)
    BY <1>3, <2>1
  <2> QED
    BY <1>3, <2>2
<1>9. r \in [V -> 0 .. Cardinality(V) - 1] /\ \A k, l \in V : r[k] = r[l] => k = l
  BY <1>6, <1>8
<1> HIDE DEF r
<1>10. \A x \in 0 .. Cardinality(V) - 1 : \E k \in V : r[k] = x
  BY <1>2, <1>9, InjectiveOnto
<1>11. \A i \in 1 .. N : keys[i] \in V /\ Dense(keys, i) = r[keys[i]]
  BY <1>1 DEF Dense, r, B
<1>12. \A k \in V : \E i \in 1 .. N : keys[i] = k
  BY <1>1
<1>13. \A i, j \in 1 .. N : Dense(keys, i) = Dense(keys, j) <=> keys[i] = keys[j]
  BY <1>9, <1>11
<1>14. \A i \in 1 .. N : Dense(keys, i) \in 0 .. Cardinality(V) - 1
  BY <1>9, <1>11
<1>15. \A x \in 0 .. Cardinality(V) - 1 : \E i \in 1 .. N : Dense(keys, i) = x
  BY <1>10, <1>11, <1>12
<1> QED
  BY <1>13, <1>14, <1>15 DEF V

\* What a topology says is true of a machine m with the cpus of up online.
Describes(t, m, up) ==
  /\ {c \in DOMAIN t.cpu_online : t.cpu_online[c]} = up
  /\ \A c, d \in up : t.cpu_to_llc[c] = t.cpu_to_llc[d] <=> SameLlc(m, c, d)
  /\ {t.cpu_to_llc[c] : c \in up} = 0 .. t.nr_llcs - 1

\* The groups of the cpus of a list, and what read_topology makes of them.
KeysOf(cpus, dirs) == [i \in DOMAIN cpus |-> full_key(dirs[cpus[i]])]

Numbers(t, cpus, keys, n) ==
  /\ t.nr_cpu_ids = n
  /\ t.nr_llcs = Cardinality(ToSet(keys))
  /\ t.cpu_online = [cpu \in 0 .. n - 1 |-> cpu \in ToSet(cpus)]
  /\ t.cpu_to_llc = [cpu \in 0 .. n - 1 |->
       IF cpu \in ToSet(cpus)
         THEN Dense(keys, CHOOSE i \in DOMAIN cpus : cpus[i] = cpu) ELSE 0]

\* The parts of a topology.
LEMMA TopologyParts ==
  ASSUME NEW cpus, NEW possible, NEW dirs
  PROVE  Numbers(read_topology(cpus, possible, dirs), cpus, KeysOf(cpus, dirs),
                 nr_cpu_ids(cpus, possible))
BY DEF read_topology, Numbers, KeysOf, Dense, Before, FirstAt

\* The arrays of a topology of some cpus have room for them.
Sized(t, up) ==
  /\ t.nr_cpu_ids \in Nat /\ DOMAIN t.cpu_to_llc = 0 .. t.nr_cpu_ids - 1
  /\ \A c \in up : c \in 0 .. t.nr_cpu_ids - 1

\* The arrays of a topology that has a cpu reach just beyond its last one, also if
\* the directories of the cpus were read at another time.
LEMMA TopologySize ==
  ASSUME NEW m, NEW top \in Nat, m.cpus \in SUBSET (0 .. top), NEW up \in SUBSET m.cpus,
         NEW seq, seq = parse_cpulist(CpuList(up)),
         NEW possible \in {{}, {parse_cpulist(CpuList(m.cpus))}}, NEW dirs,
         NEW t, t = read_topology(seq, possible, dirs), t.nr_llcs > 0
  PROVE  Sized(t, up)
<1>1. PICK keys : keys = KeysOf(seq, dirs)
  OBVIOUS
<1>2. PICK n : n = nr_cpu_ids(seq, possible)
  OBVIOUS
<1> DEFINE At(cpu) == CHOOSE i \in DOMAIN seq : seq[i] = cpu
<1>3. /\ t.nr_cpu_ids = n
      /\ t.nr_llcs = Cardinality(ToSet(keys))
      /\ t.cpu_online = [cpu \in 0 .. n - 1 |-> cpu \in ToSet(seq)]
      /\ t.cpu_to_llc = [cpu \in 0 .. n - 1 |->
           IF cpu \in ToSet(seq) THEN Dense(keys, At(cpu)) ELSE 0]
  <2>1. Numbers(t, seq, keys, n)
    BY <1>1, <1>2, TopologyParts
  <2> QED
    BY <2>1 DEF Numbers
<1>4. up \in SUBSET (0 .. top)
  OBVIOUS
<1>5. seq \in Seq(Nat) /\ ToSet(seq) = up
  BY <1>4, ListedCpus
<1>6. PICK N \in Nat : N = Len(seq) /\ DOMAIN seq = 1 .. N
  BY <1>5
<1>7. up # {}
  <2> SUFFICES ASSUME up = {} PROVE FALSE
    OBVIOUS
  <2>1. ToSet(keys) = {}
    BY <1>1, <1>5, <1>6 DEF ToSet, KeysOf
  <2>2. Cardinality({}) = 0
    BY FS_EmptySet
  <2> QED
    BY <1>3, <2>1, <2>2
<1>8. n \in Nat /\ \A c \in up : c \in 0 .. n - 1
  <2>1. PICK U : U = ToSet(seq) \cup UNION {ToSet(p) : p \in possible}
    OBVIOUS
  <2>2. n = Max(U) + 1
    BY <1>2, <2>1 DEF nr_cpu_ids
  <2>3. ToSet(parse_cpulist(CpuList(m.cpus))) = m.cpus
    BY ListedCpus
  <2>4. U = up \/ U = up \cup m.cpus
    BY <1>5, <2>1, <2>3
  <2>5. U \in SUBSET (0 .. top) /\ U # {} /\ up \subseteq U
    BY <1>7, <2>4
  <2>6. Max(U) \in U /\ \A x \in U : x <= Max(U)
    BY <2>5, MaxOf
  <2>7. PICK x : x = Max(U)
    OBVIOUS
  <2>8. \A c \in U : c \in Nat
    BY <2>5
  <2>9. x \in Nat /\ \A c \in up : c \in Nat /\ c <= x
    BY <2>5, <2>6, <2>7, <2>8
  <2> QED
    BY <2>2, <2>7, <2>9
<1> QED
  BY <1>3, <1>8 DEF Sized

\* read_topology describes the machine, whatever cpus are online and whether the
\* possible cpus can be read or not.
LEMMA TopologyRead ==
  ASSUME NEW m, NEW top \in Nat, m.cpus \in SUBSET (0 .. top), NEW up \in SUBSET m.cpus,
         NEW seq, seq = parse_cpulist(CpuList(up)),
         NEW possible \in {{}, {parse_cpulist(CpuList(m.cpus))}},
         NEW dirs, \A c \in up : dirs[c] = CpuDir(m, up, c),
         NEW t, t = read_topology(seq, possible, dirs), t.nr_llcs > 0
  PROVE  Describes(t, m, up)
<1>1. PICK keys : keys = KeysOf(seq, dirs)
  OBVIOUS
<1>2. PICK n : n = nr_cpu_ids(seq, possible)
  OBVIOUS
<1> DEFINE At(cpu) == CHOOSE i \in DOMAIN seq : seq[i] = cpu
<1>3. /\ t.nr_cpu_ids = n
      /\ t.nr_llcs = Cardinality(ToSet(keys))
      /\ t.cpu_online = [cpu \in 0 .. n - 1 |-> cpu \in ToSet(seq)]
      /\ t.cpu_to_llc = [cpu \in 0 .. n - 1 |->
           IF cpu \in ToSet(seq) THEN Dense(keys, At(cpu)) ELSE 0]
  <2>1. Numbers(t, seq, keys, n)
    BY <1>1, <1>2, TopologyParts
  <2> QED
    BY <2>1 DEF Numbers
<1>4. up \in SUBSET (0 .. top)
  OBVIOUS
<1>5. seq \in Seq(Nat) /\ ToSet(seq) = up
  BY <1>4, ListedCpus
<1>6. PICK N \in Nat : N = Len(seq) /\ DOMAIN seq = 1 .. N
  BY <1>5
<1>7. (\A i \in 1 .. N : seq[i] \in up) /\ (\A c \in up : At(c) \in 1 .. N /\ seq[At(c)] = c)
  <2>1. \A i \in 1 .. N : seq[i] \in up
    BY <1>5, <1>6 DEF ToSet
  <2>2. \A c \in up : \E i \in DOMAIN seq : seq[i] = c
    BY <1>5 DEF ToSet
  <2>3. \A c \in up : At(c) \in DOMAIN seq /\ seq[At(c)] = c
    BY <2>2
  <2> QED
    BY <1>6, <2>1, <2>3
<1> HIDE DEF At
<1>8. IsArray(keys, N) /\ \A i \in 1 .. N : keys[i] = KeyOf(m, up, seq[i])
  <2>1. \A i \in 1 .. N : keys[i] = full_key(dirs[seq[i]]) /\ dirs[seq[i]] = CpuDir(m, up, seq[i])
    BY <1>1, <1>6, <1>7 DEF KeysOf
  <2> QED
    BY <1>1, <1>6, <2>1 DEF KeyOf, KeysOf, IsArray
<1>9. Sized(t, up)
  BY TopologySize
<1>10. n \in Nat /\ \A c \in up : c \in 0 .. n - 1
  BY <1>3, <1>9 DEF Sized
<1>11. {c \in DOMAIN t.cpu_online : t.cpu_online[c]} = up
  BY <1>3, <1>5, <1>10
<1>12. \A c \in up : t.cpu_to_llc[c] = Dense(keys, At(c))
  BY <1>3, <1>5, <1>10
<1>13. /\ \A i, j \in 1 .. N : Dense(keys, i) = Dense(keys, j) <=> keys[i] = keys[j]
       /\ \A i \in 1 .. N : Dense(keys, i) \in 0 .. Cardinality(ToSet(keys)) - 1
       /\ \A x \in 0 .. Cardinality(ToSet(keys)) - 1 : \E i \in 1 .. N : Dense(keys, i) = x
  BY <1>8, DenseNumbers
<1>14. \A c \in up : keys[At(c)] = KeyOf(m, up, c)
  BY <1>7, <1>8
<1>15. \A c, d \in up : t.cpu_to_llc[c] = t.cpu_to_llc[d] <=> SameLlc(m, c, d)
  <2> SUFFICES ASSUME NEW c \in up, NEW d \in up
               PROVE  t.cpu_to_llc[c] = t.cpu_to_llc[d] <=> SameLlc(m, c, d)
    OBVIOUS
  <2>1. t.cpu_to_llc[c] = t.cpu_to_llc[d] <=> keys[At(c)] = keys[At(d)]
    BY <1>7, <1>12, <1>13
  <2>2. KeyOf(m, up, c) = KeyOf(m, up, d) <=> SameLlc(m, c, d)
    BY <1>4, KeysTell
  <2> QED
    BY <1>14, <2>1, <2>2
<1>16. {t.cpu_to_llc[c] : c \in up} = 0 .. t.nr_llcs - 1
  <2>1. \A c \in up : t.cpu_to_llc[c] \in 0 .. t.nr_llcs - 1
    <3>1. \A c \in up : Dense(keys, At(c)) \in 0 .. Cardinality(ToSet(keys)) - 1
      BY <1>7, <1>13
    <3> QED
      BY <1>3, <1>12, <3>1
  <2>2. \A x \in 0 .. t.nr_llcs - 1 : \E c \in up : t.cpu_to_llc[c] = x
    <3> SUFFICES ASSUME NEW x \in 0 .. t.nr_llcs - 1 PROVE \E c \in up : t.cpu_to_llc[c] = x
      OBVIOUS
    <3>1. PICK i \in 1 .. N : Dense(keys, i) = x
      BY <1>3, <1>13
    <3>2. seq[i] \in up /\ keys[At(seq[i])] = keys[i] /\ At(seq[i]) \in 1 .. N
      BY <1>7, <1>8, <1>14
    <3>3. t.cpu_to_llc[seq[i]] = x
      BY <1>12, <1>13, <3>1, <3>2
    <3> QED
      BY <3>2, <3>3
  <2> QED
    BY <2>1, <2>2
<1> QED
  BY <1>11, <1>15, <1>16 DEF Describes

-----------------------------------------------------------------------------
(* The life of the loader                                                  *)

ECodes == {"none", "restart", "error", "unregistered"}

\* The states of the loader from the first look at the machine to the attachment.
Preparing == {"hotplug_seq", "online", "possible", "cpus", "setup", "load", "attach"}

\* Types, and what the service manager knows of the process.
LifeInv ==
  /\ machine \in Machines /\ online \subseteq machine.cpus
  /\ leaving \subseteq online /\ coming \subseteq online
  /\ kernel = "lunar" => leaving = {}
  /\ kernel \in {"default", "lunar", "disabling", "exit", "exiting"}
  /\ ecode \in ECodes
  /\ attached \in BOOLEAN
  /\ uei \in [kind : BOOLEAN, exit_code : ECodes]
  /\ pc \in Preparing \cup {"open", "poll", "report", "destroy", "main", "exit", "gone"}
  /\ result \in {"none", "Stopped", "Restart", "Failed"}
  /\ unit \in {"active", "stopping", "restarting", "inactive", "failed"}
  /\ starts \in 1 .. StartLimitBurst
  /\ unit = "restarting" => starts < StartLimitBurst
  /\ unit \in {"active", "stopping"} <=> pc # "gone"

\* What the loader knows of its scheduler: user_exit_info is written once, after
\* the scheduler is gone, and no other scheduler follows before it was read.
EndInv ==
  /\ attached => pc \in {"poll", "report", "destroy"}
  /\ pc \in {"poll", "report"} => attached
  /\ pc \in Preparing => ~ uei.kind
  /\ attached /\ uei.kind => kernel = "default" /\ uei.exit_code = ecode
  /\ attached /\ kernel = "exiting" => uei.exit_code = ecode
  /\ pc = "report" => uei.kind
  /\ pc = "destroy" /\ attached /\ result \in {"Restart", "Failed"} =>
       kernel = "default" /\ (result = "Restart" <=> ecode = "restart")

\* The order in which the machine is looked at.
LEMMA OrderOfReads ==
  /\ OpenOrder[1] = "hotplug_seq"
  /\ After("hotplug_seq") = "online" /\ After("online") = "possible"
  /\ After("possible") = "cpus" /\ After("cpus") = "setup"
  /\ ToSet(OpenOrder) = {"hotplug_seq", "online", "possible", "cpus", "setup"}
<1> DEFINE o == <<"hotplug_seq", "online", "possible", "cpus", "setup">>
           Place(l) == CHOOSE i \in DOMAIN o : o[i] = l
<1>1. DOMAIN o = {1, 2, 3, 4, 5} /\ o[1] = "hotplug_seq" /\ o[2] = "online"
      /\ o[3] = "possible" /\ o[4] = "cpus" /\ o[5] = "setup"
  OBVIOUS
<1>2. OpenOrder = o
  BY DEF OpenOrder
<1> HIDE DEF o
<1>3. Place("hotplug_seq") = 1 /\ Place("online") = 2 /\ Place("possible") = 3 /\ Place("cpus") = 4
  BY <1>1
<1>4. \A l : After(l) = o[Place(l) + 1]
  BY <1>2 DEF After
<1> HIDE DEF Place
<1>5. /\ After("hotplug_seq") = "online" /\ After("online") = "possible"
      /\ After("possible") = "cpus" /\ After("cpus") = "setup"
  BY <1>1, <1>3, <1>4
<1>6. ToSet(OpenOrder) = {"hotplug_seq", "online", "possible", "cpus", "setup"}
  BY <1>1, <1>2 DEF ToSet
<1> QED
  BY <1>1, <1>2, <1>5, <1>6

\* user_exit_info while lunar_exit writes it.
LEMMA ExitInfo ==
  ASSUME NEW u \in [kind : BOOLEAN, exit_code : ECodes], NEW code \in ECodes
  PROVE  /\ UEI_RECORD(u, code, 1) \in [kind : BOOLEAN, exit_code : ECodes]
         /\ UEI_RECORD(u, code, 1).kind = u.kind /\ UEI_RECORD(u, code, 1).exit_code = code
         /\ UEI_RECORD(u, code, 2) \in [kind : BOOLEAN, exit_code : ECodes]
         /\ UEI_RECORD(u, code, 2).kind = TRUE
         /\ UEI_RECORD(u, code, 2).exit_code = u.exit_code
<1>1. UEI_RECORD(u, code, 1) = [u EXCEPT !.exit_code = code]
  BY DEF UEI_RECORD
<1>2. UEI_RECORD(u, code, 2) = [u EXCEPT !.kind = TRUE]
  BY DEF UEI_RECORD
<1>3. /\ [u EXCEPT !.exit_code = code] \in [kind : BOOLEAN, exit_code : ECodes]
      /\ [u EXCEPT !.exit_code = code].kind = u.kind
      /\ [u EXCEPT !.exit_code = code].exit_code = code
  OBVIOUS
<1>4. /\ [u EXCEPT !.kind = TRUE] \in [kind : BOOLEAN, exit_code : ECodes]
      /\ [u EXCEPT !.kind = TRUE].kind = TRUE
      /\ [u EXCEPT !.kind = TRUE].exit_code = u.exit_code
  OBVIOUS
<1> QED
  BY <1>1, <1>2, <1>3, <1>4

\* A new skeleton has no exit info.
LEMMA NoExitInfo ==
  NoExit \in [kind : BOOLEAN, exit_code : ECodes] /\ ~ NoExit.kind
BY DEF NoExit, ECodes

\* The kernel ejects the scheduler of a process that ends.
LEMMA EndsLife ==
  ASSUME LifeInv, NEW success \in BOOLEAN, pc # "gone", Ends(success)
  PROVE  LifeInv'
<1> USE LoaderAssumption DEF LifeInv, Preparing, ECodes, world
<1>1. /\ kernel' \in {"default", "lunar", "disabling", "exit", "exiting"} /\ ecode' \in ECodes
      /\ pc' = "gone" /\ attached' = FALSE
      /\ kernel' = "lunar" => kernel = "lunar"
      /\ UNCHANGED <<machine, online, leaving, coming, result, starts>>
  BY DEF Ends
<1>2. uei' \in [kind : BOOLEAN, exit_code : ECodes]
  BY NoExitInfo DEF Ends
<1>3. /\ unit' \in {"inactive", "restarting", "failed"}
      /\ unit' = "restarting" => starts < StartLimitBurst
  BY DEF Ends
<1> QED
  BY <1>1, <1>2, <1>3

\* Every step keeps the types.
LEMMA LifeStep ==
  ASSUME LifeInv, EndInv, [Next]_vars
  PROVE  LifeInv'
<1> USE OrderOfReads, NoExitInfo, LoaderAssumption DEF LifeInv, Preparing, Goto, Return, Fault, world, kern, serv
<1>1. CASE Open
  <2>1. UNCHANGED <<machine, online, leaving, coming, kernel, ecode, attached, unit, starts>>
    BY <1>1 DEF Open
  <2>2. pc' \in {"hotplug_seq", "main"} /\ result' \in {"none", "Failed"} /\ uei' = NoExit
    BY <1>1 DEF Open
  <2> QED
    BY <1>1, <2>1, <2>2 DEF Open
<1>2. CASE scx_hotplug_seq
  BY <1>2 DEF scx_hotplug_seq
<1>3. CASE ReadOnline
  BY <1>3 DEF ReadOnline
<1>4. CASE ReadPossible
  BY <1>4 DEF ReadPossible
<1>5. CASE ReadCpu
  BY <1>5 DEF ReadCpu
<1>6. CASE setup_lunar_topology
  BY <1>6 DEF setup_lunar_topology
<1>7. CASE Load
  BY <1>7 DEF Load
<1>8. CASE Attach
  BY <1>8, ZenonT(60) DEF Attach, Enable, ECodes
<1>9. CASE Poll
  BY <1>9 DEF Poll
<1>10. CASE Report
  BY <1>10 DEF Report
<1>11. CASE Destroy
  <2>1. /\ kernel' \in {"default", "lunar", "disabling", "exit", "exiting"} /\ ecode' \in ECodes
        /\ attached' \in BOOLEAN /\ pc' \in {"destroy", "main"}
    BY <1>11 DEF Destroy, ECodes
  <2>2. UNCHANGED <<machine, online, leaving, coming, uei, result, unit, starts>>
    BY <1>11 DEF Destroy
  <2> QED
    BY <1>11, <2>1, <2>2 DEF Destroy
<1>12. CASE Main
  BY <1>12 DEF Main
<1>13. CASE ProcessEnds
  BY <1>13, EndsLife DEF ProcessEnds, Succeeds
<1>14. CASE Disable
  BY <1>14 DEF Disable
<1>15. CASE Exit
  <2>1. uei' \in [kind : BOOLEAN, exit_code : ECodes]
    <3>1. uei' \in {uei, UEI_RECORD(uei, ecode, 1), UEI_RECORD(uei, ecode, 2)}
      BY <1>15 DEF Exit
    <3>2. uei \in [kind : BOOLEAN, exit_code : ECodes] /\ ecode \in ECodes
      OBVIOUS
    <3>3. /\ UEI_RECORD(uei, ecode, 1) \in [kind : BOOLEAN, exit_code : ECodes]
          /\ UEI_RECORD(uei, ecode, 2) \in [kind : BOOLEAN, exit_code : ECodes]
      BY <3>2, ExitInfo
    <3> QED
      BY <3>1, <3>2, <3>3, Zenon
  <2>2. kernel' \in {"exiting", "default"} /\ UNCHANGED ecode
    BY <1>15 DEF Exit
  <2> QED
    BY <1>15, <2>1, <2>2 DEF Exit
<1>16. CASE ServiceRestarts
  BY <1>16 DEF ServiceRestarts
<1>17. CASE Signal
  BY <1>17 DEF Signal
<1>18. CASE ServiceStop
  BY <1>18 DEF ServiceStop
<1>19. CASE Killed
  BY <1>19, EndsLife DEF Killed
<1>20. CASE HotplugBegins \/ HotplugEnds
  <2>1. /\ online' \subseteq machine.cpus /\ machine' = machine
        /\ leaving' \subseteq online' /\ coming' \subseteq online'
        /\ kernel' = "lunar" => leaving' = {}
    BY <1>20 DEF HotplugBegins, HotplugEnds, handle_hotplug
  <2>2. /\ kernel' \in {"default", "lunar", "disabling", "exit", "exiting"} /\ ecode' \in ECodes
        /\ UNCHANGED <<attached, uei, pc, result, unit, starts>>
    BY <1>20 DEF HotplugBegins, HotplugEnds, handle_hotplug, ECodes
  <2> QED
    BY <2>1, <2>2
<1>21. CASE Eject
  BY <1>21 DEF Eject, ECodes
<1>22. CASE Over \/ UNCHANGED vars
  BY <1>22 DEF Over, vars
<1> QED
  BY <1>1, <1>2, <1>3, <1>4, <1>5, <1>6, <1>7, <1>8, <1>9, <1>10, <1>11, <1>12, <1>13, <1>14,
     <1>15, <1>16, <1>17, <1>18, <1>19, <1>20, <1>21, <1>22 DEF Next, Loader, Kernel

\* Every step keeps what the loader knows of its scheduler.
LEMMA EndStep ==
  ASSUME LifeInv, EndInv, [Next]_vars
  PROVE  EndInv'
<1> USE OrderOfReads DEF EndInv, Preparing, Goto, Return, Fault, world, kern, serv
<1>1. CASE Open
  BY <1>1, NoExitInfo DEF Open
<1>2. CASE scx_hotplug_seq
  BY <1>2 DEF scx_hotplug_seq
<1>3. CASE ReadOnline
  BY <1>3 DEF ReadOnline
<1>4. CASE ReadPossible
  BY <1>4 DEF ReadPossible
<1>5. CASE ReadCpu
  BY <1>5 DEF ReadCpu
<1>6. CASE setup_lunar_topology
  BY <1>6 DEF setup_lunar_topology
<1>7. CASE Load
  BY <1>7 DEF Load
<1>8. CASE Attach
  BY <1>8 DEF Attach, Enable
<1>9. CASE Poll
  BY <1>9 DEF Poll, PollEnds
<1>10. CASE Report
  BY <1>10 DEF Report, UEI_ECODE_RESTART
<1>11. CASE Destroy
  BY <1>11 DEF Destroy
<1>12. CASE Main
  BY <1>12 DEF Main
<1>13. CASE ProcessEnds
  BY <1>13 DEF ProcessEnds, Ends
<1>14. CASE Disable
  BY <1>14 DEF Disable
<1>15. CASE Exit
  <2>1. /\ UEI_RECORD(uei, ecode, 1).kind = uei.kind
        /\ UEI_RECORD(uei, ecode, 1).exit_code = ecode
        /\ UEI_RECORD(uei, ecode, 2).kind = TRUE
        /\ UEI_RECORD(uei, ecode, 2).exit_code = uei.exit_code
    BY ExitInfo DEF LifeInv
  <2>2. CASE kernel = "exit"
    BY <1>15, <2>1, <2>2 DEF Exit
  <2>3. CASE kernel = "exiting"
    BY <1>15, <2>1, <2>3 DEF Exit
  <2> QED
    BY <1>15, <2>2, <2>3 DEF Exit
<1>16. CASE ServiceRestarts
  BY <1>16 DEF ServiceRestarts, LifeInv
<1>17. CASE Signal
  BY <1>17 DEF Signal
<1>18. CASE ServiceStop
  BY <1>18 DEF ServiceStop
<1>19. CASE Killed
  BY <1>19 DEF Killed, Ends
<1>20. CASE HotplugBegins \/ HotplugEnds
  BY <1>20 DEF HotplugBegins, HotplugEnds, handle_hotplug
<1>21. CASE Eject
  BY <1>21 DEF Eject
<1>22. CASE Over \/ UNCHANGED vars
  BY <1>22 DEF Over, vars
<1> QED
  BY <1>1, <1>2, <1>3, <1>4, <1>5, <1>6, <1>7, <1>8, <1>9, <1>10, <1>11, <1>12, <1>13, <1>14,
     <1>15, <1>16, <1>17, <1>18, <1>19, <1>20, <1>21, <1>22 DEF Next, Loader, Kernel

-----------------------------------------------------------------------------
(* The skeleton                                                            *)

Opened == Preparing \cup {"poll", "report", "destroy"}

IsSkel(s) ==
  s = [enums |-> s.enums, hotplug_seq |-> s.hotplug_seq, online |-> s.online,
       possible |-> s.possible, dirs |-> s.dirs, topology |-> s.topology]

\* What is in the skeleton was read from the machine, at one time or another.
SkelInv ==
  /\ IsSkel(skel)
  /\ hotplug_seq \in Nat
  /\ pc \in Opened => skel.enums = SCX_ENUM_INIT(machine.os)
  /\ pc \in Opened \ {"hotplug_seq"} =>
       skel.hotplug_seq \in Nat /\ skel.hotplug_seq <= hotplug_seq
  /\ pc \in {"hotplug_seq", "online", "possible"} => skel.dirs = <<>>
  /\ pc \in {"possible", "cpus", "setup"} =>
       \E up \in SUBSET machine.cpus : skel.online = parse_cpulist(CpuList(up))
  /\ pc \in {"cpus", "setup"} => skel.possible \in {{}, {parse_cpulist(CpuList(machine.cpus))}}
  /\ pc = "setup" => ToSet(skel.online) \subseteq DOMAIN skel.dirs
  /\ DOMAIN skel.topology.cpu_to_llc \subseteq 0 .. MAX_CPUS - 1

\* As long as no hotplug has been counted since the loader looked at the count,
\* all of it was read from the machine as it still is; and a scheduler that runs
\* has seen no hotplug since.
FreshInv ==
  /\ kernel = "lunar" /\ attached => skel.hotplug_seq = hotplug_seq
  /\ skel.hotplug_seq = hotplug_seq /\ ~ early =>
       /\ pc \in {"online", "possible", "cpus", "setup", "load", "attach"} => leaving = {}
       /\ pc \in {"possible", "cpus", "setup"} /\ coming = {} =>
            /\ skel.online = parse_cpulist(CpuList(online))
            /\ \A d \in DOMAIN skel.dirs : skel.dirs[d] = CpuDir(machine, online, d)
       /\ pc \in {"load", "attach"} /\ coming = {} => Describes(skel.topology, machine, online)
       /\ kernel = "lunar" /\ attached => Describes(skel.topology, machine, online \ coming)

\* One field of a skeleton changes.
LEMMA SkelField ==
  ASSUME NEW s, IsSkel(s), NEW v
  PROVE  /\ [s EXCEPT !.hotplug_seq = v] = [enums |-> s.enums, hotplug_seq |-> v, online |-> s.online,
               possible |-> s.possible, dirs |-> s.dirs, topology |-> s.topology]
         /\ [s EXCEPT !.online = v] = [enums |-> s.enums, hotplug_seq |-> s.hotplug_seq, online |-> v,
               possible |-> s.possible, dirs |-> s.dirs, topology |-> s.topology]
         /\ [s EXCEPT !.possible = v] = [enums |-> s.enums, hotplug_seq |-> s.hotplug_seq,
               online |-> s.online, possible |-> v, dirs |-> s.dirs, topology |-> s.topology]
         /\ [s EXCEPT !.dirs = v] = [enums |-> s.enums, hotplug_seq |-> s.hotplug_seq,
               online |-> s.online, possible |-> s.possible, dirs |-> v, topology |-> s.topology]
         /\ [s EXCEPT !.enums = v] = [enums |-> v, hotplug_seq |-> s.hotplug_seq,
               online |-> s.online, possible |-> s.possible, dirs |-> s.dirs, topology |-> s.topology]
BY DEF IsSkel

\* A skeleton of given parts.
LEMMA SkelOf ==
  ASSUME NEW a, NEW b, NEW c, NEW d, NEW e, NEW f, NEW s,
         s = [enums |-> a, hotplug_seq |-> b, online |-> c, possible |-> d, dirs |-> e, topology |-> f]
  PROVE  /\ IsSkel(s) /\ s.enums = a /\ s.hotplug_seq = b /\ s.online = c /\ s.possible = d
         /\ s.dirs = e /\ s.topology = f
BY DEF IsSkel

\* The skeleton that lunar_bpf__open and SCX_ENUM_INIT leave.
LEMMA OpenSkel ==
  ASSUME NEW s, NEW v, s = NoSkel \/ s = [NoSkel EXCEPT !.enums = v]
  PROVE  /\ IsSkel(s) /\ s.dirs = <<>> /\ s.topology = NoTopology
         /\ s.hotplug_seq = 0
         /\ s = [NoSkel EXCEPT !.enums = v] => s.enums = v
         /\ DOMAIN s.topology.cpu_to_llc \subseteq 0 .. MAX_CPUS - 1
<1>1. /\ IsSkel(NoSkel) /\ NoSkel.dirs = <<>> /\ NoSkel.topology = NoTopology
      /\ NoSkel.hotplug_seq = 0
  BY SkelOf DEF NoSkel
<1>2. /\ IsSkel(s) /\ s.dirs = <<>> /\ s.topology = NoTopology /\ s.hotplug_seq = 0
      /\ s = [NoSkel EXCEPT !.enums = v] => s.enums = v
  <2>1. PICK x : x = [NoSkel EXCEPT !.enums = v]
    OBVIOUS
  <2>2. x = [enums |-> v, hotplug_seq |-> NoSkel.hotplug_seq, online |-> NoSkel.online,
             possible |-> NoSkel.possible, dirs |-> NoSkel.dirs, topology |-> NoSkel.topology]
    BY <1>1, <2>1, SkelField
  <2>3. /\ IsSkel(x) /\ x.dirs = <<>> /\ x.topology = NoTopology /\ x.hotplug_seq = 0
        /\ x.enums = v
    BY <1>1, <2>2, SkelOf
  <2> QED
    BY <1>1, <2>1, <2>3
<1>3. DOMAIN NoTopology.cpu_to_llc = {}
  BY DEF NoTopology
<1> QED
  BY <1>2, <1>3

\* The steps that change neither the skeleton nor the machine nor start a
\* scheduler.
SkelSame ==
  /\ UNCHANGED <<skel, machine, online, leaving, coming, hotplug_seq, early>>
  /\ kernel' = "lunar" /\ attached' => kernel = "lunar" /\ attached
  /\ \/ pc' = pc
     \/ pc' \in {"open", "poll", "report", "destroy", "main", "exit", "gone"}
        /\ (pc' \in Opened => pc \in Opened \ {"hotplug_seq"})
     \/ pc = "load" /\ pc' = "attach"

\* They keep what is known of it.
LEMMA SkelFrame ==
  ASSUME SkelInv, FreshInv, SkelSame
  PROVE  SkelInv' /\ FreshInv'
<1>1. SkelInv'
  BY DEF SkelInv, SkelSame, Opened, Preparing
<1>2. FreshInv'
  BY DEF FreshInv, SkelSame, Opened, Preparing
<1> QED
  BY <1>1, <1>2

\* The steps after which the process has no skeleton.
SkelGone ==
  /\ skel' = NoSkel /\ UNCHANGED <<machine, online, leaving, coming, hotplug_seq>>
  /\ pc' \in {"open", "exit", "gone"} /\ ~ attached'

\* They forget it.
LEMMA SkelForgotten ==
  ASSUME SkelInv, SkelGone
  PROVE  SkelInv' /\ FreshInv'
<1>1. IsSkel(skel)' /\ DOMAIN skel'.topology.cpu_to_llc \subseteq 0 .. MAX_CPUS - 1
      /\ skel'.hotplug_seq = 0
  BY OpenSkel DEF SkelGone, IsSkel
<1> QED
  BY <1>1 DEF SkelInv, FreshInv, SkelGone, Opened, Preparing

\* lunar_bpf__open and SCX_ENUM_INIT.
LEMMA OpenFresh ==
  ASSUME LifeInv, EndInv, SkelInv, Open
  PROVE  SkelInv' /\ FreshInv'
<1>1. PICK v : v = SCX_ENUM_INIT(machine.os)
  OBVIOUS
<1>2. skel' = [NoSkel EXCEPT !.enums = v] /\ UNCHANGED <<machine, online, leaving, coming, hotplug_seq, attached>>
      /\ pc' \in {"hotplug_seq", "main"} /\ ~ attached
  BY <1>1, OrderOfReads DEF Open, Goto, EndInv, world, kern
<1>3. PICK s : s = skel'
  OBVIOUS
<1>4. /\ IsSkel(s) /\ s.dirs = <<>> /\ s.enums = v /\ s.hotplug_seq = 0
      /\ DOMAIN s.topology.cpu_to_llc \subseteq 0 .. MAX_CPUS - 1
  BY <1>2, <1>3, OpenSkel
<1>5. SkelInv'
  BY <1>1, <1>2, <1>3, <1>4 DEF SkelInv, Opened, Preparing
<1>6. FreshInv'
  BY <1>2 DEF FreshInv
<1> QED
  BY <1>5, <1>6

\* scx_hotplug_seq: the count is read before anything else.
LEMMA SeqFresh ==
  ASSUME LifeInv, EndInv, SkelInv, scx_hotplug_seq
  PROVE  SkelInv' /\ FreshInv'
<1>1. skel' = [skel EXCEPT !.hotplug_seq = hotplug_seq]
      /\ UNCHANGED <<machine, online, leaving, coming, hotplug_seq, attached>>
      /\ early' = (leaving # {})
      /\ pc = "hotplug_seq" /\ pc' = "online" /\ ~ attached
  BY OrderOfReads DEF scx_hotplug_seq, Goto, EndInv, Preparing, world, kern
<1>2. PICK s : s = skel'
  OBVIOUS
<1>3. /\ IsSkel(s) /\ s.enums = skel.enums /\ s.hotplug_seq = hotplug_seq
      /\ s.dirs = skel.dirs /\ s.topology = skel.topology
  <2>1. s = [enums |-> skel.enums, hotplug_seq |-> hotplug_seq, online |-> skel.online,
             possible |-> skel.possible, dirs |-> skel.dirs, topology |-> skel.topology]
    BY <1>1, <1>2, SkelField DEF SkelInv
  <2> QED
    BY <2>1, SkelOf
<1>4. SkelInv'
  BY <1>1, <1>2, <1>3 DEF SkelInv, Opened, Preparing
<1>5. FreshInv'
  BY <1>1 DEF FreshInv
<1> QED
  BY <1>4, <1>5

\* read_topology: the online cpus.
LEMMA OnlineFresh ==
  ASSUME LifeInv, EndInv, SkelInv, FreshInv, ReadOnline
  PROVE  SkelInv' /\ FreshInv'
<1>1. UNCHANGED <<machine, online, leaving, coming, hotplug_seq, early, attached, kernel>> /\ pc = "online" /\ ~ attached
  BY DEF ReadOnline, EndInv, Preparing, world, kern
<1>2. CASE skel' = skel /\ pc' = "destroy"
  BY <1>1, <1>2, SkelFrame DEF SkelSame, Opened, Preparing
<1>3. CASE skel' = [skel EXCEPT !.online = parse_cpulist(CpuList(online))] /\ pc' = "possible"
  <2>1. PICK s, v : s = skel' /\ v = parse_cpulist(CpuList(online))
    OBVIOUS
  <2>2. /\ IsSkel(s) /\ s.enums = skel.enums /\ s.hotplug_seq = skel.hotplug_seq /\ s.online = v
        /\ s.dirs = skel.dirs /\ s.topology = skel.topology
    <3>1. s = [enums |-> skel.enums, hotplug_seq |-> skel.hotplug_seq, online |-> v,
               possible |-> skel.possible, dirs |-> skel.dirs, topology |-> skel.topology]
      BY <1>3, <2>1, SkelField DEF SkelInv
    <3> QED
      BY <3>1, SkelOf
  <2>3. online \in SUBSET machine.cpus
    BY DEF LifeInv
  <2>4. SkelInv'
    BY <1>1, <1>3, <2>1, <2>2, <2>3 DEF SkelInv, Opened, Preparing
  <2>5. DOMAIN skel'.dirs = {}
    BY <1>1, <2>1, <2>2 DEF SkelInv
  <2>6. FreshInv'
    BY <1>1, <1>3, <2>1, <2>2, <2>5 DEF FreshInv
  <2> QED
    BY <2>4, <2>6
<1> QED
  BY <1>2, <1>3, OrderOfReads DEF ReadOnline, Return, Goto

\* The possible cpus.
LEMMA PossibleFresh ==
  ASSUME LifeInv, EndInv, SkelInv, FreshInv, ReadPossible
  PROVE  SkelInv' /\ FreshInv'
<1>1. PICK v \in {{}, {parse_cpulist(CpuList(machine.cpus))}} : skel' = [skel EXCEPT !.possible = v]
  BY DEF ReadPossible
<1>2. UNCHANGED <<machine, online, leaving, coming, hotplug_seq, early, attached, kernel>> /\ pc = "possible" /\ ~ attached
      /\ pc' = "cpus"
  BY OrderOfReads DEF ReadPossible, Goto, EndInv, Preparing, world, kern
<1>3. PICK s : s = skel'
  OBVIOUS
<1>4. /\ IsSkel(s) /\ s.enums = skel.enums /\ s.hotplug_seq = skel.hotplug_seq
      /\ s.online = skel.online /\ s.possible = v /\ s.dirs = skel.dirs /\ s.topology = skel.topology
  <2>1. s = [enums |-> skel.enums, hotplug_seq |-> skel.hotplug_seq, online |-> skel.online,
             possible |-> v, dirs |-> skel.dirs, topology |-> skel.topology]
    BY <1>1, <1>3, SkelField DEF SkelInv
  <2> QED
    BY <2>1, SkelOf
<1>5. SkelInv'
  BY <1>1, <1>2, <1>3, <1>4 DEF SkelInv, Opened, Preparing
<1>6. FreshInv'
  BY <1>2, <1>3, <1>4 DEF FreshInv
<1> QED
  BY <1>5, <1>6

\* The directory of a cpu.
LEMMA CpuFresh ==
  ASSUME LifeInv, EndInv, SkelInv, FreshInv, ReadCpu
  PROVE  SkelInv' /\ FreshInv'
<1> DEFINE todo == ToSet(skel.online) \ DOMAIN skel.dirs
<1>1. UNCHANGED <<machine, online, leaving, coming, hotplug_seq, early, attached, kernel>> /\ pc = "cpus" /\ ~ attached
  BY DEF ReadCpu, EndInv, Preparing, world, kern
<1>2. CASE todo = {} /\ pc' = "setup" /\ skel' = skel
  <2>1. ToSet(skel.online) \subseteq DOMAIN skel.dirs
    BY <1>2
  <2>2. SkelInv'
    BY <1>1, <1>2, <2>1 DEF SkelInv, Opened, Preparing
  <2>3. FreshInv'
    BY <1>1, <1>2 DEF FreshInv
  <2> QED
    BY <2>2, <2>3
<1>3. ASSUME NEW gone \in SUBSET (leaving \cup coming), NEW c, NEW v,
             pc' = pc, skel' = [skel EXCEPT !.dirs = v],
             v = [d \in DOMAIN skel.dirs \cup {c} |->
                    IF d = c THEN CpuDir(machine, online \ gone, c) ELSE skel.dirs[d]]
      PROVE  SkelInv' /\ FreshInv'
  <2>1. PICK s : s = skel'
    OBVIOUS
  <2>2. /\ IsSkel(s) /\ s.enums = skel.enums /\ s.hotplug_seq = skel.hotplug_seq
        /\ s.online = skel.online /\ s.possible = skel.possible /\ s.dirs = v
        /\ s.topology = skel.topology
    <3>1. s = [enums |-> skel.enums, hotplug_seq |-> skel.hotplug_seq, online |-> skel.online,
               possible |-> skel.possible, dirs |-> v, topology |-> skel.topology]
      BY <1>3, <2>1, SkelField, ZenonT(60) DEF SkelInv
    <3> QED
      BY <3>1, SkelOf
  <2>3. SkelInv'
    BY <1>1, <1>3, <2>1, <2>2 DEF SkelInv, Opened, Preparing
  <2>4. ASSUME skel.hotplug_seq = hotplug_seq, ~ early, coming = {}
        PROVE  \A d \in DOMAIN v : v[d] = CpuDir(machine, online, d)
    <3>1. leaving = {} /\ \A d \in DOMAIN skel.dirs : skel.dirs[d] = CpuDir(machine, online, d)
      BY <1>1, <2>4 DEF FreshInv
    <3>2. online \ gone = online
      BY <2>4, <3>1
    <3> QED
      BY <1>3, <3>1, <3>2
  <2>5. FreshInv'
    BY <1>1, <1>3, <2>1, <2>2, <2>4 DEF FreshInv
  <2> QED
    BY <2>3, <2>5
<1>4. CASE todo = {}
  BY <1>2, <1>4, OrderOfReads DEF ReadCpu, Goto
<1>5. CASE todo # {}
  <2>1. PICK c : c = Min(todo)
    OBVIOUS
  <2>2. pc' = pc /\ \E gone \in SUBSET (leaving \cup coming) :
          skel' = [skel EXCEPT !.dirs = [d \in DOMAIN skel.dirs \cup {c} |->
                     IF d = c THEN CpuDir(machine, online \ gone, c) ELSE skel.dirs[d]]]
    BY <1>5, <2>1 DEF ReadCpu
  <2>3. PICK gone \in SUBSET (leaving \cup coming) :
          skel' = [skel EXCEPT !.dirs = [d \in DOMAIN skel.dirs \cup {c} |->
                     IF d = c THEN CpuDir(machine, online \ gone, c) ELSE skel.dirs[d]]]
    BY <2>2
  <2>4. PICK v : v = [d \in DOMAIN skel.dirs \cup {c} |->
                        IF d = c THEN CpuDir(machine, online \ gone, c) ELSE skel.dirs[d]]
    OBVIOUS
  <2> QED
    BY <1>3, <2>2, <2>3, <2>4
<1> QED
  BY <1>4, <1>5

\* What LoaderAssumption says of the cpus of the machine.
LEMMA CpusBounded ==
  ASSUME LifeInv
  PROVE  \E top \in Nat : machine.cpus \in SUBSET (0 .. top)
BY LoaderAssumption DEF LifeInv

\* setup_lunar_topology: the topology is complete, and true of the machine if no
\* hotplug was counted while it was read.
LEMMA SetupFresh ==
  ASSUME LifeInv, EndInv, SkelInv, FreshInv, setup_lunar_topology
  PROVE  SkelInv' /\ FreshInv'
<1>1. PICK t : t = read_topology(skel.online, skel.possible, skel.dirs)
  OBVIOUS
<1>2. UNCHANGED <<machine, online, leaving, coming, hotplug_seq, early, attached, kernel>> /\ pc = "setup" /\ ~ attached
  BY DEF setup_lunar_topology, EndInv, Preparing, world, kern
<1>3. CASE skel' = skel /\ pc' = "destroy"
  BY <1>2, <1>3, SkelFrame DEF SkelSame, Opened, Preparing
<1>4. CASE /\ fits_rodata(t) /\ pc' = "load"
           /\ skel' = [skel EXCEPT !.online = <<>>, !.possible = {}, !.dirs = <<>>, !.topology = t]
  <2>1. PICK s : s = skel'
    OBVIOUS
  <2>2. /\ IsSkel(s) /\ s.enums = skel.enums /\ s.hotplug_seq = skel.hotplug_seq
        /\ s.topology = t
    <3>1. s = [enums |-> skel.enums, hotplug_seq |-> skel.hotplug_seq, online |-> <<>>,
               possible |-> {}, dirs |-> <<>>, topology |-> t]
      <4>1. IsSkel(skel)
        BY DEF SkelInv
      <4> QED
        BY <1>4, <2>1, <4>1 DEF IsSkel
    <3> QED
      BY <3>1, SkelOf
  <2>3. PICK top \in Nat : machine.cpus \in SUBSET (0 .. top)
    BY CpusBounded
  <2>4. PICK up \in SUBSET machine.cpus : skel.online = parse_cpulist(CpuList(up))
    BY <1>2 DEF SkelInv
  <2>5. /\ skel.possible \in {{}, {parse_cpulist(CpuList(machine.cpus))}}
        /\ ToSet(skel.online) \subseteq DOMAIN skel.dirs
    BY <1>2 DEF SkelInv
  <2>6. t.nr_llcs > 0 /\ t.nr_cpu_ids <= MAX_CPUS
    BY <1>4 DEF fits_rodata
  <2>7. Sized(t, up)
    BY <1>1, <2>3, <2>4, <2>5, <2>6, TopologySize
  <2>8. DOMAIN t.cpu_to_llc \subseteq 0 .. MAX_CPUS - 1
    BY <2>6, <2>7, TopologyAssumption DEF Sized
  <2>9. SkelInv'
    BY <1>2, <1>4, <2>1, <2>2, <2>8 DEF SkelInv, Opened, Preparing
  <2>10. ASSUME skel.hotplug_seq = hotplug_seq, ~ early, coming = {}
         PROVE  Describes(t, machine, online)
    <3>1. /\ skel.online = parse_cpulist(CpuList(online))
          /\ \A d \in DOMAIN skel.dirs : skel.dirs[d] = CpuDir(machine, online, d)
      BY <1>2, <2>10 DEF FreshInv
    <3>2. online \in SUBSET machine.cpus
      BY DEF LifeInv
    <3>3. ToSet(skel.online) = online
      <4>1. online \in SUBSET (0 .. top)
        BY <2>3, <3>2
      <4> QED
        BY <3>1, <4>1, ListedCpus
    <3>4. \A c \in online : skel.dirs[c] = CpuDir(machine, online, c)
      BY <2>5, <3>1, <3>3
    <3> QED
      BY <1>1, <2>3, <2>5, <2>6, <3>1, <3>2, <3>4, TopologyRead
  <2>11. FreshInv'
    BY <1>2, <1>4, <2>1, <2>2, <2>10 DEF FreshInv
  <2> QED
    BY <2>9, <2>11
<1> QED
  BY <1>1, <1>3, <1>4 DEF setup_lunar_topology, Return, Goto

\* lunar_bpf__attach: the kernel lets the scheduler run only if it counted no
\* hotplug since.
LEMMA AttachFresh ==
  ASSUME LifeInv, EndInv, SkelInv, FreshInv, Attach
  PROVE  SkelInv' /\ FreshInv'
<1>1. UNCHANGED <<skel, machine, online, leaving, coming, hotplug_seq, early>> /\ pc = "attach" /\ ~ attached
  BY DEF Attach, EndInv, Preparing, world
<1>2. CASE pc' = "destroy" /\ UNCHANGED kern
  BY <1>1, <1>2, SkelFrame DEF SkelSame, Opened, Preparing, kern
<1>3. CASE Enable /\ pc' = "poll"
  <2>1. SkelInv'
    BY <1>1, <1>3 DEF SkelInv, Opened, Preparing
  <2>2. /\ kernel' = "lunar" => skel.hotplug_seq = hotplug_seq
        /\ coming = {} /\ online \ coming = online
    BY <1>3 DEF Enable
  <2>3. FreshInv'
    BY <1>1, <1>3, <2>2 DEF FreshInv
  <2> QED
    BY <2>1, <2>3
<1> QED
  BY <1>2, <1>3 DEF Attach, Return, Goto

\* A hotplug: once it is counted, what was read before is out of date and the
\* scheduler ejected.
LEMMA HotplugFresh ==
  ASSUME LifeInv, EndInv, SkelInv, FreshInv, HotplugBegins \/ HotplugEnds
  PROVE  SkelInv' /\ FreshInv'
<1>1. UNCHANGED <<skel, machine, pc, attached, early>>
  BY DEF HotplugBegins, HotplugEnds
<1>2. CASE handle_hotplug
  <2>1. hotplug_seq' = hotplug_seq + 1 /\ kernel' # "lunar"
    BY <1>2 DEF handle_hotplug
  <2>2. SkelInv'
    BY <1>1, <2>1 DEF SkelInv
  <2>3. pc \in {"online", "possible", "cpus", "setup", "load", "attach"} =>
          skel'.hotplug_seq # hotplug_seq'
    BY <1>1, <2>1 DEF SkelInv, Opened, Preparing
  <2> QED
    BY <1>1, <2>1, <2>2, <2>3 DEF FreshInv
<1>3. CASE UNCHANGED <<hotplug_seq, kernel>> /\ leaving # {} /\ leaving' = {}
  <2>1. SkelInv'
    BY <1>1, <1>3 DEF SkelInv
  <2>2. kernel # "lunar"
    BY <1>3 DEF LifeInv
  <2> QED
    BY <1>1, <1>3, <2>1, <2>2 DEF FreshInv
<1>4. ASSUME NEW c, UNCHANGED <<hotplug_seq, kernel, leaving>>, coming = {}, c \notin online,
             coming' = {c}, online' = online \cup {c}
      PROVE  SkelInv' /\ FreshInv'
  <2>1. SkelInv'
    BY <1>1, <1>4 DEF SkelInv
  <2>2. online' \ coming' = online \ coming
    BY <1>4
  <2>3. coming' # {}
    BY <1>4
  <2> QED
    BY <1>1, <1>4, <2>1, <2>2, <2>3 DEF FreshInv
<1> QED
  BY <1>2, <1>3, <1>4 DEF HotplugBegins, HotplugEnds

\* Every step keeps what is known of the skeleton.
LEMMA FreshStep ==
  ASSUME LifeInv, EndInv, SkelInv, FreshInv, [Next]_vars
  PROVE  SkelInv' /\ FreshInv'
<1> USE DEF SkelSame, SkelGone, Opened, Preparing, Goto, Return, world, kern
<1>1. CASE Open
  BY <1>1, OpenFresh
<1>2. CASE scx_hotplug_seq
  BY <1>2, SeqFresh
<1>3. CASE ReadOnline
  BY <1>3, OnlineFresh
<1>4. CASE ReadPossible
  BY <1>4, PossibleFresh
<1>5. CASE ReadCpu
  BY <1>5, CpuFresh
<1>6. CASE setup_lunar_topology
  BY <1>6, SetupFresh
<1>7. CASE Load
  BY <1>7, SkelFrame DEF Load
<1>8. CASE Attach
  BY <1>8, AttachFresh
<1>9. CASE Poll
  BY <1>9, SkelFrame DEF Poll
<1>10. CASE Report
  BY <1>10, SkelFrame DEF Report
<1>11. CASE Destroy
  BY <1>11, SkelFrame DEF Destroy
<1>12. CASE Main
  BY <1>12, SkelForgotten DEF Main, EndInv
<1>13. CASE ProcessEnds
  BY <1>13, SkelForgotten DEF ProcessEnds, Ends
<1>14. CASE Disable
  BY <1>14, SkelFrame DEF Disable
<1>15. CASE Exit
  BY <1>15, SkelFrame DEF Exit
<1>16. CASE ServiceRestarts
  BY <1>16, SkelFrame DEF ServiceRestarts
<1>17. CASE Signal
  BY <1>17, SkelFrame DEF Signal
<1>18. CASE ServiceStop
  BY <1>18, SkelFrame DEF ServiceStop
<1>19. CASE Killed
  BY <1>19, SkelForgotten DEF Killed, Ends
<1>20. CASE HotplugBegins \/ HotplugEnds
  BY <1>20, HotplugFresh
<1>21. CASE Eject
  BY <1>21, SkelFrame DEF Eject
<1>22. CASE Over \/ UNCHANGED vars
  BY <1>22, SkelFrame DEF Over, vars
<1> QED
  BY <1>1, <1>2, <1>3, <1>4, <1>5, <1>6, <1>7, <1>8, <1>9, <1>10, <1>11, <1>12, <1>13, <1>14,
     <1>15, <1>16, <1>17, <1>18, <1>19, <1>20, <1>21, <1>22 DEF Next, Loader, Kernel

-----------------------------------------------------------------------------
(* The theorems                                                            *)

\* The inductive invariant of the loader, the kernel and the service.
LoaderInv == LifeInv /\ EndInv /\ SkelInv /\ FreshInv

\* It holds when the service is started.
LEMMA LoaderInit ==
  ASSUME Init
  PROVE  LoaderInv
<1>1. LifeInv
  <2>1. /\ machine \in Machines /\ online \subseteq machine.cpus
        /\ leaving = {} /\ coming = {}
    BY LoaderAssumption DEF Init
  <2>2. uei \in [kind : BOOLEAN, exit_code : ECodes] /\ starts \in 1 .. StartLimitBurst
    BY NoExitInfo, LoaderAssumption DEF Init
  <2> QED
    BY <2>1, <2>2 DEF Init, LifeInv, ECodes, Preparing
<1>2. EndInv
  BY NoExitInfo DEF Init, EndInv, Preparing
<1>3. IsSkel(skel) /\ DOMAIN skel.topology.cpu_to_llc \subseteq 0 .. MAX_CPUS - 1
  BY OpenSkel DEF Init
<1>4. SkelInv /\ FreshInv
  BY <1>3 DEF Init, SkelInv, FreshInv, Opened, Preparing
<1> QED
  BY <1>1, <1>2, <1>4 DEF LoaderInv

\* It holds throughout: a hotplug, a stop request, a failure or a kill in between
\* any two steps of the loader included.
THEOREM LoaderInductive == Spec => []LoaderInv
<1>1. LoaderInv /\ [Next]_vars => LoaderInv'
  BY LifeStep, EndStep, FreshStep DEF LoaderInv
<1> QED
  BY <1>1, LoaderInit, PTL DEF Spec

\* Every variable has its type, and the arrays of the loaded program hold what
\* setup_lunar_topology writes to them, on every machine.
THEOREM LoaderTypeOK == Spec => []TypeOK
<1>1. LoaderInv => TypeOK
  BY OrderOfReads DEF LoaderInv, LifeInv, SkelInv, TypeOK, Preparing, ECodes
<1> QED
  BY <1>1, LoaderInductive, PTL

\* The scheduler never runs with a topology that is out of date or was torn by a
\* hotplug while read_topology went from file to file, for every machine, any set
\* of cpus and any number of hotplug events, each in its two steps, unless
\* hotplug_seq was read between the two steps of a cpu going offline.
THEOREM LoaderTopologyCurrent == Spec => []TopologyCurrent
<1> DEFINE up == online \ coming
<1>1. ASSUME LoaderInv, kernel = "lunar", attached, ~ early PROVE Describes(skel.topology, machine, up)
  BY <1>1 DEF LoaderInv, FreshInv
<1>2. \A c, d : SameLlc(machine, c, d) = ShareLlc(c, d)
  BY DEF SameLlc, ShareLlc
<1>3. ASSUME Describes(skel.topology, machine, up) PROVE TopologyCurrent
  <2>1. PICK v : v = up
    OBVIOUS
  <2>2. /\ {c \in DOMAIN skel.topology.cpu_online : skel.topology.cpu_online[c]} = v
        /\ {skel.topology.cpu_to_llc[c] : c \in v} = 0 .. skel.topology.nr_llcs - 1
    BY <1>3, <2>1 DEF Describes
  <2>3. \A c, d \in v :
          skel.topology.cpu_to_llc[c] = skel.topology.cpu_to_llc[d] <=> SameLlc(machine, c, d)
    BY <1>3, <2>1 DEF Describes
  <2>4. \A c, d \in v :
          skel.topology.cpu_to_llc[c] = skel.topology.cpu_to_llc[d] <=> ShareLlc(c, d)
    BY <1>2, <2>3, Zenon
  <2> QED
    BY <2>1, <2>2, <2>4 DEF TopologyCurrent
<1>4. LoaderInv => TopologyCurrent
  <2>1. ~ (kernel = "lunar" /\ attached /\ ~ early) => TopologyCurrent
    BY DEF TopologyCurrent
  <2> QED
    BY <1>1, <1>3, <2>1
<1> QED
  BY <1>4, LoaderInductive, PTL

\* Only lunar_bpf__attach gives the loader a scheduler.
LEMMA OnlyAttach ==
  ASSUME [Next]_vars, attached', ~ attached
  PROVE  Enable
<1> USE DEF world, kern, serv
<1>1. Attach
  BY DEF Next, Loader, Kernel, Open, scx_hotplug_seq, ReadOnline, ReadPossible, ReadCpu,
     setup_lunar_topology, Load, Poll, Report, Destroy, Main, ProcessEnds, Ends, Killed, Disable,
     Exit, HotplugBegins, HotplugEnds, ServiceRestarts, ServiceStop, Signal, Eject, Over, vars
<1> QED
  BY <1>1 DEF Attach

\* lunar_init is refused a queue exactly on a kernel with more cpus than the
\* program has room for, for every MAX_CPUS and every set of cpus.
THEOREM LoaderQueuesFit == Spec => QueuesFit
<1>1. ASSUME LoaderInv, [Next]_vars, attached', ~ attached
      PROVE  ecode' = "error" <=> Max(machine.cpus) >= MAX_CPUS
  <2>1. PICK top \in Nat : top = Max(machine.cpus)
    BY <1>1, LoaderAssumption DEF LoaderInv, LifeInv
  <2>2. Enable
    BY <1>1, OnlyAttach
  <2>3. ecode' = "error" <=> ~ lunar_init(top + 1)
    BY <2>1, <2>2 DEF Enable
  <2>4. lunar_init(top + 1) <=> top < MAX_CPUS
    <3>1. MAX_CPUS \in Nat /\ top + 1 \in Nat
      BY TopologyAssumption
    <3>2. top < MAX_CPUS => top + 1 \in 0 .. MAX_CPUS
      BY <3>1
    <3>3. ~ (top < MAX_CPUS) => top + 1 > MAX_CPUS
      BY <3>1
    <3> QED
      BY <3>1, <3>2, <3>3, InitSucceeds, InitRefused
  <2> QED
    BY <2>1, <2>3, <2>4, TopologyAssumption
<1>2. LoaderInv /\ [Next]_vars =>
        [attached' /\ ~ attached => (ecode' = "error" <=> Max(machine.cpus) >= MAX_CPUS)]_vars
  BY <1>1
<1> QED
  BY <1>2, LoaderInductive, PTL DEF Spec, QueuesFit

\* The halves of a number.
LEMMA Halves ==
  ASSUME NEW a \in Nat, NEW b \in Nat, NEW d \in Nat, d > 0, a \div d = b \div d
  PROVE  /\ a % d = b % d => a = b
         /\ a < d => b % d = b
<1>1. ASSUME a % d = b % d PROVE a = b
  BY <1>1
<1>2. ASSUME a < d PROVE b % d = b
  <2>1. a \div d = 0
    BY <1>2
  <2>2. b \div d = 0
    BY <2>1
  <2> QED
    BY <2>2
<1> QED
  BY <1>1, <1>2

\* __ENUM_set gives an enumerator its true value, or 0 where there is none to be
\* had; a value that the kernel shows half of is put together again.
LEMMA EnumsFit ==
  ASSUME NEW m \in Machines, NEW n \in EnumNames
  PROVE  \/ n \in DOMAIN m.os.val /\ __ENUM_set(m.os, n) = m.os.val[n]
         \/ /\ __ENUM_set(m.os, n) = 0
            /\ n \notin DOMAIN m.os.val \cap DOMAIN AbiVals \/ m.os.kind = "none"
                 \/ AbiVals[n] # m.os.val[n]
<1>1. __COMPAT_read_enum(m.os, n) = NoValue => __ENUM_set(m.os, n) = 0
  BY DEF __ENUM_set
<1>2. \A v : __COMPAT_read_enum(m.os, n) = {v} => __ENUM_set(m.os, n) = v
  BY DEF __ENUM_set, NoValue
<1>3. CASE m.os.kind = "none" \/ n \notin DOMAIN m.os.val
  BY <1>1, <1>3 DEF __COMPAT_read_enum
<1>4. CASE m.os.kind \notin {"none", "truncated"} /\ n \in DOMAIN m.os.val
  BY <1>2, <1>4 DEF __COMPAT_read_enum
<1>5. CASE m.os.kind = "truncated" /\ n \in DOMAIN m.os.val
  <2>1. __COMPAT_read_enum(m.os, n) = __COMPAT_recover_truncated_enum64(n, m.os.val[n] % U32)
    BY <1>5 DEF __COMPAT_read_enum
  <2>2. CASE n \notin DOMAIN AbiVals
    BY <1>1, <2>1, <2>2 DEF __COMPAT_recover_truncated_enum64
  <2>3. CASE n \in DOMAIN AbiVals
    <3>1. PICK a, v \in Nat : a = AbiVals[n] /\ v = m.os.val[n]
      BY <1>5, <2>3, LoaderAssumption, CompatAssumption
    <3>2. v \div U32 = a \div U32 /\ U32 \in Nat \ {0}
      BY <1>5, <2>3, <3>1, LoaderAssumption, CompatAssumption
    <3>4. CASE a < U32
      <4>1. v % U32 = v
        BY <3>2, <3>4, Halves
      <4> QED
        BY <1>2, <1>5, <2>1, <2>3, <3>1, <3>4, <4>1 DEF __COMPAT_recover_truncated_enum64
    <3>5. CASE ~ (a < U32) /\ a % U32 = v % U32
      <4>1. a = v
        BY <3>2, <3>5, Halves
      <4> QED
        BY <1>2, <1>5, <2>1, <2>3, <3>1, <3>5, <4>1 DEF __COMPAT_recover_truncated_enum64
    <3>6. CASE ~ (a < U32) /\ a % U32 # v % U32
      BY <1>1, <2>1, <2>3, <3>1, <3>6 DEF __COMPAT_recover_truncated_enum64
    <3> QED
      BY <3>4, <3>5, <3>6
  <2> QED
    BY <2>2, <2>3
<1> QED
  BY <1>3, <1>4, <1>5

\* The wrappers of compat.bpf.h call what the kernel has.
LEMMA CallsFit ==
  ASSUME NEW m \in Machines
  PROVE  Called(m.os) \ {"store", "nothing"} \subseteq m.os.kfuncs \ {"reenqueue_local_v1"}
<1>1. /\ {"dsq_move_to_local_v2", "dsq_move_to_local_v1", "consume"} \cap m.os.kfuncs # {}
      /\ {"dsq_insert_v2", "dsq_insert_v1", "dispatch"} \cap m.os.kfuncs # {}
      /\ {"cpu_curr", "cpu_rq"} \cap m.os.kfuncs # {}
  BY LoaderAssumption
<1>2. /\ scx_bpf_dsq_move_to_local(m.os) \in m.os.kfuncs \ {"reenqueue_local_v1"}
      /\ scx_bpf_dsq_insert(m.os) \in m.os.kfuncs \ {"reenqueue_local_v1"}
      /\ __COMPAT_scx_bpf_cpu_curr(m.os) \in m.os.kfuncs \ {"reenqueue_local_v1"}
  BY <1>1 DEF scx_bpf_dsq_move_to_local, scx_bpf_dsq_insert, __COMPAT_scx_bpf_cpu_curr
<1>3. /\ scx_bpf_task_set_slice(m.os) \in (m.os.kfuncs \ {"reenqueue_local_v1"}) \cup {"store"}
      /\ scx_bpf_reenqueue_local_from_anywhere(m.os)
           \in (m.os.kfuncs \ {"reenqueue_local_v1"}) \cup {"nothing"}
  BY DEF scx_bpf_task_set_slice, scx_bpf_reenqueue_local_from_anywhere
<1> QED
  BY <1>2, <1>3 DEF Called

\* The scheduler knows the kernel it runs on, whatever that kernel's enum values
\* are and however it shows them, as long as the build and the kernel agree on the
\* high half of what it cuts off.
THEOREM LoaderFitsKernel == Spec => []FitsKernel
<1>1. ASSUME LoaderInv, kernel = "lunar", attached PROVE FitsKernel
  <2>1. machine \in Machines /\ skel.enums = SCX_ENUM_INIT(machine.os)
    BY <1>1 DEF LoaderInv, LifeInv, EndInv, SkelInv, Opened
  <2>2. \A n \in EnumNames : skel.enums[n] = __ENUM_set(machine.os, n)
    BY <2>1 DEF SCX_ENUM_INIT
  <2>3. \A n \in EnumNames :
         \/ n \in DOMAIN machine.os.val /\ skel.enums[n] = machine.os.val[n]
         \/ /\ skel.enums[n] = 0
            /\ n \notin DOMAIN machine.os.val \cap DOMAIN AbiVals \/ machine.os.kind = "none"
                 \/ AbiVals[n] # machine.os.val[n]
    BY <2>1, <2>2, EnumsFit
  <2>4. Called(machine.os) \ {"store", "nothing"} \subseteq machine.os.kfuncs \ {"reenqueue_local_v1"}
    BY <2>1, CallsFit
  <2> QED
    BY <2>3, <2>4 DEF FitsKernel
<1>2. LoaderInv => FitsKernel
  <2>1. ~ (kernel = "lunar" /\ attached) => FitsKernel
    BY DEF FitsKernel
  <2> QED
    BY <1>1, <2>1
<1> QED
  BY <1>2, LoaderInductive, PTL

\* What the loader makes of the end of the scheduler is what the kernel said.
THEOREM LoaderEndUnderstood == Spec => []EndUnderstood
<1>1. LoaderInv => EndUnderstood
  BY DEF LoaderInv, EndInv, EndUnderstood
<1> QED
  BY <1>1, LoaderInductive, PTL
=============================================================================
