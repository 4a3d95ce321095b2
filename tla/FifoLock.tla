------------------------------- MODULE FifoLock -------------------------------
(***************************************************************************)
(* What a queued spinlock promises: one owner at a time, and the lock goes *)
(* to those who wait in the order in which they joined the line.  An       *)
(* attempt may be given up; who gives up after it joined the line leaves   *)
(* the lock "stuck": from then on the order is no longer promised,         *)
(* but there still is one owner at most.                                   *)
(***************************************************************************)
EXTENDS Naturals, Sequences

CONSTANT Contexts

VARIABLES
  owners,  \* the contexts that have the lock: one or none
  line,    \* the contexts waiting for it, in the order they joined
  stuck    \* an attempt was given up after it joined the line

vars == <<owners, line, stuck>>

Init == owners = {} /\ line = <<>> /\ stuck = FALSE

InLine(p) == \E i \in 1 .. Len(line) : line[i] = p

\* The line without p, who stands in it once at most.
Leave(p) ==
  LET at == CHOOSE i \in 1 .. Len(line) : line[i] = p
  IN IF InLine(p) THEN [i \in 1 .. Len(line) - 1 |-> line[IF i < at THEN i ELSE i + 1]]
     ELSE line

\* Nobody waits: the lock is taken on the way in.
Barge(p) ==
  /\ owners = {} /\ (line = <<>> \/ stuck)
  /\ owners' = {p} /\ UNCHANGED <<line, stuck>>

Join(p) ==
  /\ ~ InLine(p) /\ p \notin owners
  /\ line' = Append(line, p) /\ UNCHANGED <<owners, stuck>>

Grant(p) ==
  /\ owners = {}
  /\ InLine(p)
  /\ stuck \/ Head(line) = p
  /\ owners' = {p} /\ line' = Leave(p) /\ stuck' = stuck

GiveUp(p) ==
  /\ InLine(p) \/ p \in owners
  /\ line' = Leave(p) /\ owners' = owners \ {p} /\ stuck' = TRUE

Release(p) == p \in owners /\ owners' = owners \ {p} /\ UNCHANGED <<line, stuck>>

Next == \E p \in Contexts : Barge(p) \/ Join(p) \/ Grant(p) \/ GiveUp(p) \/ Release(p)

Spec == Init /\ [][Next]_vars

===============================================================================
