------------------------- MODULE MCBipbipCommander -------------------------
(* Three jobs and a limit of one process: job "a" gets three commands      *)
(* (start, end of oarexec, extermination) that meet each other in the list *)
(* while the commands of "b" and "c" fill the table beyond its limit.      *)
EXTENDS BipbipCommander

MCJobs == {"a", "b", "c"}

MCJobOf == [k \in {"a1", "a2", "a3", "b1", "c1"} |->
              CASE k \in {"a1", "a2", "a3"} -> "a"
                [] k = "b1" -> "b"
                [] k = "c1" -> "c"]

MCCommands == DOMAIN MCJobOf
=============================================================================
