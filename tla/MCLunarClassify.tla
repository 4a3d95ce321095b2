-------------------------- MODULE MCLunarClassify --------------------------
(* LunarClassify with the duties around the three caps and the crit edges. *)
EXTENDS LunarClassify

EdgeDuties == (38 .. 64) \cup (89 .. 115) \cup (806 .. 832) \cup {0, 1023}
EdgeCrits == {0, 1, 3, 5}
=============================================================================
