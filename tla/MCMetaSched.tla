---------------------------- MODULE MCMetaSched -----------------------------
(***************************************************************************)
(* On two resources, a batch job and a reservation that may be launched    *)
(* late, with another reservation after it or a besteffort job.            *)
(***************************************************************************)
EXTENDS MetaSched, TLC

CONSTANTS r1, r2, first, second, plain, extra

TheQueue == [j \in Jobs |-> IF j = extra THEN "besteffort" ELSE "default"]
TheWidth == [j \in Jobs |-> IF j = first THEN 2 ELSE 1]
TheWalltime == [j \in Jobs |-> IF j \in {first, extra} THEN 2 ELSE 1]
TheResaStart == first :> 1 @@ second :> 4

=============================================================================
