--------------------------- MODULE MCArenaSpinLock ---------------------------
(* An instance of ArenaSpinLock: a task on each of three cpus, and an         *)
(* interrupt on the first of them that takes the same lock.                   *)
EXTENDS ArenaSpinLock, TLC

CONSTANTS t0, t1, t2, i0

WithInterrupt == t0 :> 0 @@ t1 :> 1 @@ t2 :> 2 @@ i0 :> 0
InterruptLevel == [p \in Contexts |-> IF p = i0 THEN 1 ELSE 0]

===============================================================================
