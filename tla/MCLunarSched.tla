---------------------------- MODULE MCLunarSched ----------------------------
(* Instances of LunarSched for TLC: cpus, caches, affinities, tiers and      *)
(* realtime tasks of the runs.                                               *)
EXTENDS LunarSched, TLC

CONSTANTS c1, c2, c3, t1, t2, t3

OneLLC == [c \in CPUs |-> 0]
C2Apart == [c \in CPUs |-> IF c = c2 THEN 0 ELSE 1]

Everywhere == [t \in Tasks |-> CPUs]
T1Pinned == [t \in Tasks |-> IF t = t1 THEN {c1} ELSE CPUs]
Spread == [t \in Tasks |-> IF t = t1 THEN {c2, c3} ELSE {c1, c3}]

NoHigher == [c \in CPUs |-> {}]
BothOnC1 == [c \in CPUs |-> IF c = c1 THEN {Rt, PercpuRt} ELSE {}]
RtOnC1 == [c \in CPUs |-> IF c = c1 THEN {Rt} ELSE {}]
RtC1PercpuC3 ==
  [c \in CPUs |-> IF c = c1 THEN {Rt} ELSE IF c = c3 THEN {PercpuRt} ELSE {}]

OneLC == [t \in Tasks |-> IF t = t1 THEN {LC} ELSE {NORMAL}]
T2Moves == [t \in Tasks |-> IF t = t1 THEN {NORMAL} ELSE {LC, NORMAL}]
AllLC == [t \in Tasks |-> {LC}]
AllNormal == [t \in Tasks |-> {NORMAL}]
AllGreedy == [t \in Tasks |-> {GREEDY}]

Symmetry == Permutations(Tasks) \cup Permutations(CPUs)
=============================================================================
