----------------------------- MODULE MCCmaskAtomic -----------------------------
(* An instance of CmaskAtomic.                                                 *)
EXTENDS CmaskAtomic, TLC

CONSTANTS t1, t2

Symmetry == Permutations(Threads)

===============================================================================
