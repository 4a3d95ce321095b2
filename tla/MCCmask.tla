-------------------------------- MODULE MCCmask --------------------------------
(* An instance of Cmask.                                                       *)
EXTENDS Cmask, TLC

CidOfCpu == 0 :> 2 @@ 1 :> 0 @@ 2 :> -1

===============================================================================
