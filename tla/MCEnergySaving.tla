--------------------------- MODULE MCEnergySaving ---------------------------
(* Instances of EnergySaving for TLC. *)
EXTENDS EnergySaving

CONSTANTS n1, n2

(* n1 is in two groups, one of which keeps a node idle *)
TwoGroups == {"default", "paradent"}
Overlap == [g \in TwoGroups |-> IF g = "default" THEN Addresses ELSE {n1}]
KeepOne == [g \in TwoGroups |-> IF g = "default" THEN 1 ELSE 0]
Timeouts == [k \in {1} |-> 1]
=============================================================================
