------------------------------ MODULE LunarCompat ------------------------------
(***************************************************************************)
(* How one build of scx_lunar runs on many kernels: the loader reads the   *)
(* kernel's enum values from its type information (BTF), and each wrapper  *)
(* of compat.bpf.h calls the variant of a kernel function that is there.   *)
(* Pure definitions, used by LunarLoader.                                  *)
(*                                                                         *)
(* A kernel is a record: kind, how its BTF encodes the scx enums ("none",  *)
(* "enum" with 4 bytes, "truncated" with 8 bytes but values cut to their   *)
(* low half, "enum64"); val, its true values by name; and kfuncs, the      *)
(* functions it has.                                                       *)
(***************************************************************************)
EXTENDS Naturals

CONSTANTS
  U32,        \* 2^32: what the low half of a value can tell apart
  EnumNames,  \* the enumerators the scheduler uses
  AbiVals     \* name -> its value in the headers of the build

ASSUME CompatAssumption ==
  /\ U32 \in Nat \ {0, 1}
  /\ DOMAIN AbiVals \subseteq EnumNames
  /\ \A n \in DOMAIN AbiVals : AbiVals[n] \in Nat

NoValue == {}

\* The value of an enumerator whose entry has only the low half: that of the
\* build if the halves agree, or no value at all.
__COMPAT_recover_truncated_enum64(name, lo32) ==
  IF name \notin DOMAIN AbiVals THEN NoValue
  ELSE IF AbiVals[name] < U32 THEN {lo32}
  ELSE IF AbiVals[name] % U32 = lo32 THEN {AbiVals[name]} ELSE NoValue

\* Variant: what the entry says.
__COMPAT_read_enum_Raw(k, name) ==
  IF k.kind = "none" \/ name \notin DOMAIN k.val THEN NoValue
  ELSE IF k.kind = "enum64" THEN {k.val[name]} ELSE {k.val[name] % U32}

\* The value of an enumerator, a set with at most one element.
__COMPAT_read_enum(k, name) ==
  IF k.kind = "none" \/ name \notin DOMAIN k.val THEN NoValue
  ELSE IF k.kind = "truncated"
    THEN __COMPAT_recover_truncated_enum64(name, k.val[name] % U32)
    ELSE {k.val[name]}

\* An enumerator without a value is 0, and the loader goes on.
__ENUM_set(k, name) ==
  LET v == __COMPAT_read_enum(k, name) IN IF v = NoValue THEN 0 ELSE CHOOSE x \in v : TRUE

SCX_ENUM_INIT(k) == [name \in EnumNames |-> __ENUM_set(k, name)]

-----------------------------------------------------------------------------
(* compat.bpf.h: the function each wrapper calls                           *)

scx_bpf_dsq_move_to_local(k) ==
  IF "dsq_move_to_local_v2" \in k.kfuncs THEN "dsq_move_to_local_v2"
  ELSE IF "dsq_move_to_local_v1" \in k.kfuncs THEN "dsq_move_to_local_v1"
  ELSE "consume"

scx_bpf_dsq_insert(k) ==
  IF "dsq_insert_v2" \in k.kfuncs THEN "dsq_insert_v2"
  ELSE IF "dsq_insert_v1" \in k.kfuncs THEN "dsq_insert_v1"
  ELSE "dispatch"

\* Without the function the slice is stored into the task.
scx_bpf_task_set_slice(k) == IF "task_set_slice" \in k.kfuncs THEN "task_set_slice" ELSE "store"

__COMPAT_scx_bpf_cpu_curr(k) == IF "cpu_curr" \in k.kfuncs THEN "cpu_curr" ELSE "cpu_rq"

\* Neither of these two is there: nothing is called, -EOPNOTSUPP.
scx_bpf_reenqueue_local_from_anywhere(k) ==
  IF "dsq_reenq" \in k.kfuncs THEN "dsq_reenq"
  ELSE IF "reenqueue_local_v2" \in k.kfuncs THEN "reenqueue_local_v2"
  ELSE "nothing"

\* The functions the scheduler calls outside of ops.cpu_release.
Called(k) ==
  {scx_bpf_dsq_move_to_local(k), scx_bpf_dsq_insert(k), scx_bpf_task_set_slice(k),
   __COMPAT_scx_bpf_cpu_curr(k), scx_bpf_reenqueue_local_from_anywhere(k)}

===============================================================================
