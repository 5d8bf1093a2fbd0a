----------------------------- MODULE JobPromise -----------------------------
(***************************************************************************)
(* What OAR promises of a job, seen from its user: the job is pending,     *)
(* then taken by a launching process, its command is started at most once, *)
(* and once the job is over nothing happens to it any more. A job can be   *)
(* over without having been started; a launch can be given up before the   *)
(* command is started, and taken again.                                    *)
(***************************************************************************)
EXTENDS Naturals

CONSTANT Jobs

VARIABLES
  phase,      \* job -> "pending", "active" or "over"
  runs        \* job -> how many times its command was started

pvars == <<phase, runs>>

PInit ==
  /\ phase = [j \in Jobs |-> "pending"]
  /\ runs = [j \in Jobs |-> 0]

Take(j) ==
  /\ phase[j] = "pending"
  /\ phase' = [phase EXCEPT ![j] = "active"]
  /\ UNCHANGED runs

GiveUp(j) ==
  /\ phase[j] = "active"
  /\ runs[j] = 0
  /\ phase' = [phase EXCEPT ![j] = "pending"]
  /\ UNCHANGED runs

Run(j) ==
  /\ phase[j] = "active"
  /\ runs[j] = 0
  /\ runs' = [runs EXCEPT ![j] = 1]
  /\ UNCHANGED phase

Close(j) ==
  /\ phase[j] # "over"
  /\ phase' = [phase EXCEPT ![j] = "over"]
  /\ UNCHANGED runs

PNext == \E j \in Jobs : Take(j) \/ GiveUp(j) \/ Run(j) \/ Close(j)

PSpec == PInit /\ [][PNext]_pvars
=============================================================================
