---------------------------- MODULE MCLunarTask ----------------------------
(* LunarTask in units of 10us: a window of 100ms, intervals of 10us to 1s. *)
EXTENDS LunarTask

\* 10us, 5ms, 120ms: shorter than a slice to longer than a window.
Gaps == {1, 500, 12000}
=============================================================================
