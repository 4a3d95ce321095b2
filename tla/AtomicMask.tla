------------------------------ MODULE AtomicMask ------------------------------
(***************************************************************************)
(* What the atomic operations on a cmask promise.  While a call is under   *)
(* way the cids it is about are set or cleared in some order, each at one  *)
(* instant, and nothing else changes.  A test answers for the instant at   *)
(* which its cid was changed.  A call may give up some of its cids.        *)
(***************************************************************************)
CONSTANTS Threads, Cids

VARIABLES
  mask,  \* the cids that are set
  call   \* thread -> its call: set or clear, with a test or not, the cids it
         \* still has to do, the answer

vars == <<mask, call>>

NoCall == [kind |-> "none", tests |-> FALSE, todo |-> {}, answer |-> FALSE]

Init == mask = {} /\ call = [t \in Threads |-> NoCall]

\* A test is about one cid, or about none of the mask.
Begin(t) ==
  /\ call[t].kind = "none"
  /\ \E k \in {"set", "clear"}, tests \in BOOLEAN, S \in SUBSET Cids :
       /\ tests => \A c, d \in S : c = d
       /\ call' = [call EXCEPT ![t] =
                     [kind |-> k, tests |-> tests, todo |-> S, answer |-> FALSE]]
  /\ mask' = mask

Parts(t) == (SUBSET call[t].todo) \ {{}}

Apply(t) ==
  \E S \in Parts(t) :
    /\ mask' = IF call[t].kind = "set" THEN mask \cup S ELSE mask \ S
    /\ call' = [call EXCEPT ![t] = [kind |-> @.kind, tests |-> @.tests, todo |-> @.todo \ S,
                                   answer |-> @.tests /\ S \subseteq mask]]

GiveUp(t) ==
  \E S \in Parts(t) :
    call' = [call EXCEPT ![t].todo = @ \ S] /\ mask' = mask

End(t) ==
  /\ call[t].kind # "none" /\ call[t].todo = {}
  /\ call' = [call EXCEPT ![t] = NoCall] /\ mask' = mask

Next == \E t \in Threads : Begin(t) \/ Apply(t) \/ GiveUp(t) \/ End(t)

Spec == Init /\ [][Next]_vars

===============================================================================
