----------------------------- MODULE MCLunarLoader -----------------------------
(* Instances of LunarLoader.                                                   *)
EXTENDS LunarLoader, TLC

Bases == LC :> 6 @@ INTERACTIVE :> 9 @@ NORMAL :> 12 @@ GREEDY :> 15

\* A value of two halves, one with only the low half, one with only the high one.
Vals == "SCX_DSQ_LOCAL" :> 6 @@ "SCX_KICK_IDLE" :> 1 @@ "SCX_DSQ_FLAG_BUILTIN" :> 4

Names == DOMAIN Vals \cup {"SCX_NEW"}

V612 == {"consume", "dispatch", "cpu_rq", "reenqueue_local_v1"}
V613 == {"dsq_move_to_local_v1", "dsq_insert_v1", "cpu_rq", "reenqueue_local_v1"}
V619 == {"dsq_move_to_local_v1", "dsq_insert_v2", "cpu_curr", "cpu_rq", "task_set_slice",
         "reenqueue_local_v1", "reenqueue_local_v2"}
V71  == {"dsq_move_to_local_v2", "dsq_insert_v2", "cpu_curr", "task_set_slice",
         "reenqueue_local_v2", "dsq_reenq"}

AKernel(kind, val, kfuncs) == [kind |-> kind, val |-> val, kfuncs |-> kfuncs]

AsBuilt == AKernel("enum64", Vals, V619)

\* Older and newer ones: without the enums, cut to the low half, with a low half
\* that has changed, with an enumerator the build does not know.
Kernels ==
  {AKernel("none", Vals, V612), AKernel("truncated", Vals, V613),
   AKernel("truncated", [Vals EXCEPT !["SCX_DSQ_LOCAL"] = 7, !["SCX_KICK_IDLE"] = 2], V619),
   AKernel("truncated", Vals @@ "SCX_NEW" :> 5, V71), AKernel("enum64", Vals @@ "SCX_NEW" :> 5, V71),
   AKernel("enum", "SCX_KICK_IDLE" :> 1, V613)}

\* Two packages with one L3 each, which have the same id.
TwoPackages ==
  [os |-> AsBuilt, cpus |-> 0 .. 2, boots |-> 0 .. 2, hotplug |-> 1 .. 2, exports_id |-> TRUE,
   package |-> 0 :> 0 @@ 1 :> 0 @@ 2 :> 1,
   cache |-> 2 :> (0 :> {0} @@ 1 :> {1} @@ 2 :> {0}) @@
             3 :> (0 :> {0} @@ 1 :> {0} @@ 2 :> {0})]

\* One package: cpus 0 and 1 with an L3, cpu 2 only with an L2; no ids.
Hybrid ==
  [os |-> AsBuilt, cpus |-> 0 .. 2, boots |-> 0 .. 2, hotplug |-> {1}, exports_id |-> FALSE,
   package |-> 0 :> 0 @@ 1 :> 0 @@ 2 :> 0,
   cache |-> 2 :> (0 :> {0} @@ 1 :> {0} @@ 2 :> {1}) @@
             3 :> (0 :> {0} @@ 1 :> {0} @@ 2 :> {})]

\* One cpu more than MAX_CPUS, offline at first, and no caches.
TooBig ==
  [os |-> AsBuilt, cpus |-> 0 .. 3, boots |-> 0 .. 2, hotplug |-> {3}, exports_id |-> TRUE,
   package |-> [c \in 0 .. 3 |-> 0],
   cache |-> [l \in {2, 3} |-> [c \in 0 .. 3 |-> {}]]]

\* One cpu, and any of the kernels.
OneCpu(k) ==
  [os |-> k, cpus |-> {0}, boots |-> {0}, hotplug |-> {}, exports_id |-> TRUE, package |-> 0 :> 0,
   cache |-> [l \in {2, 3} |-> 0 :> {0}]]

MCMachines == {TwoPackages, Hybrid, TooBig} \cup {OneCpu(k) : k \in Kernels}

===============================================================================
