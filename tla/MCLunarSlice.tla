----------------------------- MODULE MCLunarSlice -----------------------------
(* Instances of LunarSlice: an LC task, a NORMAL one that INTERACTIVE      *)
(* tasks wake, and a GREEDY one; and tasks enough for three tiers to wait. *)
EXTENDS LunarSlice, TLC

CONSTANTS t1, t2, t3, t4, t5

Mixed == t1 :> {LC} @@ t2 :> {NORMAL} @@ t3 :> {GREEDY}

Wakers == t1 :> {} @@ t2 :> {INTERACTIVE} @@ t3 :> {}

Crowd == t1 :> {INTERACTIVE} @@ t2 :> {INTERACTIVE} @@ t3 :> {NORMAL} @@ t4 :> {NORMAL}
         @@ t5 :> {GREEDY}

NoWakers == [t \in Tasks |-> {}]

Budgets == (INTERACTIVE :> 1) @@ (NORMAL :> 1) @@ (GREEDY :> 1)

===============================================================================
