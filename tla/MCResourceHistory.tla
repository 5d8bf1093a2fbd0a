------------------------- MODULE MCResourceHistory -------------------------
(***************************************************************************)
(* Two nodes with a resource each and a third that may be added, a job on  *)
(* both, and two administrators.                                           *)
(***************************************************************************)
EXTENDS ResourceHistory, TLC

CONSTANTS r1, r2, r3, j1, n1, n2, a1, a2

MCHostOf == [r \in Resources |-> IF r = r2 THEN n2 ELSE n1]

MCUses == [j \in Jobs |-> {r1, r2}]

MCInstalled == {r1, r2}

MCUptos == {0, 1, 2}

(* The last date is for what takes one act, and time *)
FewActs == clock < MaxClock \/ acts < MaxActs - 1

(* Two administrators that have the same commands *)
MCSymmetry == Permutations(Admins)

=============================================================================
