-------------------------- MODULE MCWalltimeChange --------------------------
(* Instances of WalltimeChange for TLC. *)
EXTENDS WalltimeChange

CONSTANTS first, batch, reserved, outer, inner

(* A job that runs and the jobs that are planned after it: a batch job and *)
(* a reservation. A container and its inner job, on other resources. A job *)
(* on two resources, reserved after it for two jobs, a second apart.       *)
Pairs == {{first, batch}, {first, reserved}, {batch, reserved}, {first, outer}}
InOuter == [j \in {inner} |-> outer]
Job(state, start, walltime) == [state |-> state, start |-> start, walltime |-> walltime]
Others == [j \in Jobs |-> Job("Over", 0, 1)]

NextJobs ==
  [Others EXCEPT ![first] = Job("Running", 0, 2), ![batch] = Job("Waiting", 3, 1),
                 ![reserved] = Job("Waiting", 5, 1)]
Contained == [Others EXCEPT ![outer] = Job("Running", 0, 3), ![inner] = Job("Running", 0, 2)]
Adjacent ==
  [Others EXCEPT ![first] = Job("Running", 0, 2), ![outer] = Job("Waiting", 4, 1),
                 ![reserved] = Job("Waiting", 5, 1)]
AllSites == {NextJobs, Contained, Adjacent}

SomeAmounts == {-1, 1, 3}
InnerSuspended == [j \in Jobs |-> IF j = inner THEN 1 ELSE 0]
=============================================================================
