---------------------------- MODULE MCAccounting ----------------------------
(* Two jobs of a user, windows of two seconds. *)
EXTENDS Accounting, TLC

CONSTANTS j1, j2, u1

MCUserOf == (j1 :> u1) @@ (j2 :> u1)
MCNbResources == (j1 :> 1) @@ (j2 :> 2)
MCWalltime == (j1 :> 3) @@ (j2 :> 1)
=============================================================================
