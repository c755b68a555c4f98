---------------------------- MODULE MCCoupledDelete ----------------------------
(* The top model 1 holds the target 2 and an atomic model 7; the target   *)
(* holds the atomic models 3 and 6 and the coupled model 4, which holds   *)
(* the atomic model 5.                                                     *)
EXTENDS CoupledDelete

MCUp == (3 :> 2 @@ 4 :> 2 @@ 6 :> 2 @@ 5 :> 4) @@ (2 :> 1 @@ 7 :> 1)
====
