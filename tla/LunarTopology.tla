----------------------------- MODULE LunarTopology -----------------------------
(***************************************************************************)
(* What the loader of scx_lunar makes of sysfs: the cpu lists, the cache   *)
(* domains (LLCs) of the cpus, and the numbers of the dispatch queues the  *)
(* scheduler creates for them.  Pure definitions, used by LunarLoader.     *)
(*                                                                         *)
(* An optional value is a set with at most one element.                    *)
(***************************************************************************)
EXTENDS Integers, Sequences, FiniteSets, FiniteSetsExt, SequencesExt

CONSTANTS
  MAX_CPUS,
  DSQ_CPU_QUEUE_BASE   \* tier -> the number of the queue of cpu 0

LC          == 1
INTERACTIVE == 2
NORMAL      == 3
GREEDY      == 4
Tiers       == LC .. GREEDY

ASSUME TopologyAssumption ==
  /\ MAX_CPUS \in Nat \ {0}
  /\ DSQ_CPU_QUEUE_BASE \in [Tiers -> Nat]
  /\ DSQ_CPU_QUEUE_BASE[INTERACTIVE] = DSQ_CPU_QUEUE_BASE[LC] + MAX_CPUS
  /\ DSQ_CPU_QUEUE_BASE[NORMAL] = DSQ_CPU_QUEUE_BASE[INTERACTIVE] + MAX_CPUS
  /\ DSQ_CPU_QUEUE_BASE[GREEDY] = DSQ_CPU_QUEUE_BASE[NORMAL] + MAX_CPUS

-----------------------------------------------------------------------------
(* The machine, as the kernel shows it in sysfs                            *)

\* The cpulist of a set of cpus: its longest ranges, in ascending order.
CpuList(S) ==
  LET starts == {c \in S : c - 1 \notin S}
      Low(i) == CHOOSE c \in starts : Cardinality({d \in starts : d < c}) = i - 1
      End(c) == Min({e \in S : e >= c /\ e + 1 \notin S})
  IN [i \in 1 .. Cardinality(starts) |-> [lo |-> Low(i), hi |-> End(Low(i))]]

\* The cpus that share the cache of cpu c at a level: they have the same number
\* for it, which is unique only within a package.
Sharing(m, up, level, c) ==
  {d \in up : m.package[d] = m.package[c] /\ m.cache[level][d] = m.cache[level][c]}

\* The directory of cpu c while the cpus of up are online.  An offline cpu has
\* neither caches nor a package.
CpuDir(m, up, c) ==
  LET Index(level) ==
        [id |-> IF m.exports_id THEN m.cache[level][c] ELSE {},
         shared_cpu_list |-> CpuList(Sharing(m, up, level, c))]
  IN [package |-> IF c \in up THEN {m.package[c]} ELSE {},
      cache |-> [level \in {2, 3} |->
        IF c \in up /\ m.cache[level][c] # {} THEN {Index(level)} ELSE {}]]

-----------------------------------------------------------------------------
(* lunar_topology.h                                                        *)

\* The cpus of a list, one after another.
parse_cpulist(list) ==
  FlattenSeq([i \in DOMAIN list |->
    [n \in 1 .. (list[i].hi - list[i].lo + 1) |-> list[i].lo + n - 1]])

\* The group of a cpu at one level: the id of its cache, otherwise the cpus that
\* share it.
cache_group_key(dir, level) ==
  {IF index.id # {} THEN [level |-> level, id |-> index.id, shared |-> <<>>]
                    ELSE [level |-> level, id |-> {}, shared |-> index.shared_cpu_list]
     : index \in dir.cache[level]}

NoCache == [level |-> 0, id |-> {}, shared |-> <<>>]

\* The group of a cpu: its L3, its L2 if it has none, or just its package.
full_key(dir) ==
  LET package == IF dir.package # {} THEN CHOOSE p \in dir.package : TRUE ELSE 0
      keys == cache_group_key(dir, 3)
      lower == cache_group_key(dir, 2)
  IN <<package, IF keys # {} THEN keys ELSE IF lower # {} THEN lower ELSE {NoCache}>>

\* One more than the highest cpu; possible may be unreadable.
nr_cpu_ids(online, possible) ==
  Max(ToSet(online) \cup UNION {ToSet(p) : p \in possible}) + 1

\* The topology: groups are numbered in the order in which their first cpu comes.
\* dirs has what was read for each cpu of the sequence online.
read_topology(online, possible, dirs) ==
  LET keys == [i \in DOMAIN online |-> full_key(dirs[online[i]])]
      FirstAt(k) == Min({i \in DOMAIN keys : keys[i] = k})
      Dense(i) == Cardinality({keys[j] : j \in 1 .. (FirstAt(keys[i]) - 1)})
      n == nr_cpu_ids(online, possible)
      At(cpu) == CHOOSE i \in DOMAIN online : online[i] = cpu
  IN [nr_cpu_ids |-> n,
      nr_llcs    |-> Cardinality(ToSet(keys)),
      cpu_online |-> [cpu \in 0 .. n - 1 |-> cpu \in ToSet(online)],
      cpu_to_llc |-> [cpu \in 0 .. n - 1 |->
                        IF cpu \in ToSet(online) THEN Dense(At(cpu)) ELSE 0]]

\* Variant: no look at the size of the arrays.
fits_rodata_Unchecked(topo) == topo.nr_llcs > 0

\* Whether the scheduler's arrays have room for it.
fits_rodata(topo) == topo.nr_cpu_ids <= MAX_CPUS /\ topo.nr_llcs > 0

-----------------------------------------------------------------------------
(* helpers.h and lunar_init: the queues                                    *)

\* Variant: the bases are one number too close to each other.
get_cpu_dsq_from_type_Close(dsqType, cpu) == DSQ_CPU_QUEUE_BASE[dsqType] - (dsqType - LC) + cpu

get_cpu_dsq_from_type(dsqType, cpu) == DSQ_CPU_QUEUE_BASE[dsqType] + cpu

\* The tiers of a cpu in the order in which lunar_init creates their queues.
InitOrder == <<LC, NORMAL, INTERACTIVE, GREEDY>>

\* The number that lunar_init's request i asks for, counted from 0 over all cpus.
Requested(i) == get_cpu_dsq_from_type(InitOrder[(i % 4) + 1], i \div 4)

\* Request i succeeds, after those before it did: the number is not in use.
scx_bpf_create_dsq(i) == \A j \in 0 .. i - 1 : Requested(j) # Requested(i)

\* lunar_init on a kernel with nr cpu ids: it returns at the first error.
lunar_init(nr) == \A i \in 0 .. 4 * nr - 1 : scx_bpf_create_dsq(i)

===============================================================================
