----------------------------- MODULE MCAlmighty -----------------------------
(* Instances of Almighty for TLC. *)
EXTENDS Almighty

CONSTANTS n1, j1

=============================================================================
