--------------------------- MODULE WalltimeChange ---------------------------
(***************************************************************************)
(* The change of the walltime of a running job. oarwalltime (lib/walltime, *)
(* request) checks a demand and writes it in the table walltime_change;    *)
(* the metascheduler (kao/walltime_change) reads all the demands at once,  *)
(* then grants them one by one, with two commits for each: the demand,     *)
(* then the walltime of the job. It makes the plan afterwards.             *)
(*                                                                         *)
(* A user may write a demand at any step of the metascheduler, which may   *)
(* also be stopped between its commits. The jobs that run are followed to  *)
(* the end of their walltime; of those that wait the plan keeps a date.    *)
(***************************************************************************)
EXTENDS Integers, FiniteSets, FiniteSetsExt

CONSTANTS
  Jobs,
  Sharing,         \* the pairs of jobs with a resource in common, as sets
  Reservations,    \* jobs that are advance reservations
  Besteffort,
  InnerOf,         \* the container of each inner job
  Sites,           \* tables of jobs to begin with: job -> [state, start, walltime]
  SuspendedFor,    \* SuspendedFor[j]: how long the job was suspended
  Security,        \* SCHEDULER_JOB_SECURITY_TIME
  MaxIncrease,     \* WALLTIME_MAX_INCREASE; -1 for none
  MinForChange,    \* WALLTIME_MIN_FOR_CHANGE
  ApplyTime,       \* WALLTIME_CHANGE_APPLY_TIME
  Increment,       \* WALLTIME_INCREMENT
  MayForce,        \* are users in WALLTIME_ALLOWED_USERS_TO_FORCE?
  MayDelay,        \* are they in WALLTIME_ALLOWED_USERS_TO_DELAY_JOBS?
  EnabledThere,    \* WALLTIME_CHANGE_ENABLED where oarwalltime runs
  EnabledHere,     \* the same on the server
  Amounts,         \* the changes that are asked for
  Askers,          \* who asks: "user", "root"
  Horizon,         \* bound: the last date
  MaxRequests,     \* bound: requests
  MaxCrashes       \* bound: ends of the metascheduler before its time

ASSUME SharingAssumption ==
  Sharing \subseteq SUBSET Jobs /\ Reservations \cup Besteffort \subseteq Jobs
ASSUME ContainersAssumption == DOMAIN InnerOf \subseteq Jobs /\ \A j \in DOMAIN InnerOf : InnerOf[j] \in Jobs
ASSUME JobsAssumption ==
  /\ Sites \subseteq [Jobs -> [state : {"Waiting", "Running", "Over"}, start : Nat, walltime : Int]]
  /\ SuspendedFor \in [Jobs -> Nat]
ASSUME SettingsAssumption ==
  /\ {Security, MinForChange, ApplyTime, Increment, Horizon, MaxRequests, MaxCrashes} \subseteq Nat
  /\ MaxIncrease \in Nat \cup {-1}
  /\ Amounts \subseteq Int \ {0}

VARIABLES
  now,
  job,        \* the tables jobs, moldable_job_descriptions, gantt: [state, start, walltime]
  change,     \* walltime_change: job -> [pending, force, delay, granted]
  cmd,        \* what oarwalltime is about to write: [job, pending, force, delay], or none
  phase,      \* the metascheduler: "rest", "changes", "apply", "plan"
  readAt,     \* plt.get_time()
  todo,       \* job_wtcs: job -> what was read of it
  grant,      \* the second commit: [job, walltime, asked, delay]
  requests,   \* bounds
  crashes,
  accepted,   \* history: the increases accepted from the user of each job, in all
  given       \* history: the increases granted to each job, in all

meta == <<phase, readAt, todo, grant>>
vars == <<now, job, change, cmd, meta, requests, crashes, accepted, given>>

Nothing == [j \in {} |-> 0]
NoGrant == [job |-> 0, walltime |-> 0, asked |-> 0, delay |-> FALSE]
NoCommand == [job |-> 0, pending |-> 0, force |-> FALSE, delay |-> FALSE]

Init ==
  /\ now = 0
  /\ job \in Sites
  /\ change = Nothing
  /\ cmd = NoCommand
  /\ phase = "rest"
  /\ readAt = 0
  /\ todo = Nothing
  /\ grant = NoGrant
  /\ requests = 0
  /\ crashes = 0
  /\ accepted = [j \in Jobs |-> 0]
  /\ given = [j \in Jobs |-> 0]

Running == {j \in Jobs : job[j].state = "Running"}
Waiting == {j \in Jobs : job[j].state = "Waiting"}
Share(j, k) == j # k /\ {j, k} \in Sharing
End(j) == job[j].start + job[j].walltime + SuspendedFor[j]
Later(a, b) == IF a > b THEN a ELSE b
Sooner(a, b) == IF a < b THEN a ELSE b

-----------------------------------------------------------------------------
(* oarwalltime *)

(* For root and oar there is no limit *)
TooMuch(j, seconds) ==
  /\ MaxIncrease # -1
  /\ (IF j \in DOMAIN change THEN change[j].granted ELSE 0) + seconds > MaxIncrease

(* request: what it checks, up to the read of the table walltime_change.   *)
(* A reduction is cut to what remains.                                     *)
Request(j, seconds, who, force, delay) ==
  /\ cmd = NoCommand
  /\ requests < MaxRequests
  /\ EnabledThere = "YES"
  /\ job[j].state = "Running"
  /\ who = "user" => (force => MayForce) /\ (delay => MayDelay)
  /\ job[j].walltime >= MinForChange
  /\ j \in {InnerOf[i] : i \in DOMAIN InnerOf} => seconds > 0
  /\ LET remaining == End(j) - now
         pending == IF remaining < -seconds THEN -remaining ELSE seconds
     IN  /\ who = "user" => ~TooMuch(j, pending)
         /\ cmd' = [job |-> j, pending |-> pending, force |-> force /\ pending > 0, delay |-> delay /\ pending > 0]
         /\ accepted' = [accepted EXCEPT ![j] = @ + Later(0, pending)]
  /\ requests' = requests + 1
  /\ UNCHANGED <<now, job, change, meta, crashes, given>>

(* add_walltime_change_request, or update_walltime_change_request with no  *)
(* value for what was granted, which sets it to 0                          *)
Demand(j, pending, force, delay, granted) ==
  [i \in DOMAIN change \cup {j} |->
     IF i = j THEN [pending |-> pending, force |-> force, delay |-> delay, granted |-> granted]
     ELSE change[i]]

WriteRequest ==
  /\ cmd # NoCommand
  /\ change' = Demand(cmd.job, cmd.pending, cmd.force, cmd.delay, 0)
  /\ cmd' = NoCommand
  /\ UNCHANGED <<now, job, meta, requests, crashes, accepted, given>>

-----------------------------------------------------------------------------
(* process_walltime_change_requests *)

Snapshot(j) ==
  [start |-> job[j].start, walltime |-> job[j].walltime, pending |-> change[j].pending,
   force |-> change[j].force, delay |-> change[j].delay, granted |-> change[j].granted]

(* get_jobs_with_walltime_change: one query *)
ReadChanges ==
  /\ phase = "rest"
  /\ phase' = IF EnabledHere = "yes" THEN "changes" ELSE "plan"
  /\ readAt' = now
  /\ todo' = IF EnabledHere = "yes"
             THEN [j \in {k \in DOMAIN change \cap Running : change[k].pending # 0} |-> Snapshot(j)]
             ELSE Nothing
  /\ UNCHANGED <<now, job, change, cmd, grant, requests, crashes, accepted, given>>

(* The planned jobs that keep j from running on until a date *)
InTheWay(j, from, to, delay) ==
  {k \in Waiting : Share(j, k) /\ job[k].start > from /\ job[k].start <= to + Security
                   /\ k \notin Besteffort /\ (delay => k \in Reservations)}

(* Mutant of PossibleEnds: the last of them is looked at *)
PossibleEndsLast(j, from, to, delay) ==
  LET near == {start \in {job[k].start : k \in InTheWay(j, from, to, delay)} : to > start - Security}
  IN  IF near = {} THEN {to} ELSE {Max(near) - Security - 1}

(* get_possible_job_end_time_in_interval: a start lowers the end that has  *)
(* been found so far if it is too near. The starts are read in any order:  *)
(* after the second one, the first may be just far enough.                 *)
PossibleEnds(j, from, to, delay) ==
  LET near == {start \in {job[k].start : k \in InTheWay(j, from, to, delay)} : to > start - Security}
  IN  IF near = {} THEN {to}
      ELSE {Min(near) - Security - 1} \cup {Min(near) - Security : start \in near \cap {Min(near) + 1}}

(* Mutant of WithinContainer: the container is not looked at *)
WithinContainerNot(j, to) == to

(* An inner job ends with its container at the latest *)
WithinContainer(j, to) ==
  IF j \in DOMAIN InnerOf THEN Sooner(to, job[InnerOf[j]].start + job[InnerOf[j]].walltime) ELSE to

(* Is the demand postponed until the end of the job is near? *)
Postponed(t, end) == ~t.force /\ ApplyTime > 0 /\ end - ApplyTime - readAt > 0

Step(t) == IF ~t.force /\ Increment > 0 THEN Sooner(Increment, t.pending) ELSE t.pending

(* What may be granted of the demand that was read, 0 for nothing now *)
Fits(j, t) ==
  LET end == t.start + t.walltime + SuspendedFor[j]
      to == WithinContainer(j, end + Step(t))
      remaining == end - readAt
  IN  IF t.pending < 0 THEN {IF remaining < -t.pending THEN -remaining ELSE t.pending}
      ELSE IF Postponed(t, end) THEN {0}
      ELSE {Later(0, bound - end) : bound \in PossibleEnds(j, end, to, t.delay)}

(* get_running_job finds no row when the container is not Running *)
NoContainer(j, t) ==
  /\ t.pending > 0
  /\ ~Postponed(t, t.start + t.walltime + SuspendedFor[j])
  /\ j \in DOMAIN InnerOf
  /\ InnerOf[j] \notin Running

(* The process is over, with what it had read *)
Ends ==
  /\ phase' = "rest"
  /\ readAt' = 0
  /\ todo' = Nothing
  /\ grant' = NoGrant

Without(f, j) == [i \in DOMAIN f \ {j} |-> f[i]]

Skip(j) ==
  /\ phase = "changes"
  /\ j \in DOMAIN todo
  /\ todo[j].pending > 0
  /\ ~NoContainer(j, todo[j])
  /\ 0 \in Fits(j, todo[j])
  /\ todo' = Without(todo, j)
  /\ UNCHANGED <<now, job, change, cmd, phase, readAt, grant, requests, crashes, accepted, given>>

(* The exception ends the metascheduler; what was granted before is kept *)
Fail(j) ==
  /\ phase = "changes"
  /\ j \in DOMAIN todo
  /\ NoContainer(j, todo[j])
  /\ Ends
  /\ UNCHANGED <<now, job, change, cmd, requests, crashes, accepted, given>>

(* Mutant of Left: the demand stays as it was *)
LeftAll(t, fit) == t.pending

Left(t, fit) == t.pending - fit

(* The first commit: force and delay are reset, whatever is left *)
Grant(j) ==
  /\ phase = "changes"
  /\ j \in DOMAIN todo
  /\ LET t == todo[j]
     IN  \E fit \in Fits(j, t) :
         /\ t.pending < 0 \/ (~NoContainer(j, t) /\ fit > 0)
         /\ change' = Demand(j, Left(t, fit), FALSE, FALSE, t.granted + fit)
         /\ grant' = [job |-> j, walltime |-> t.walltime + fit, asked |-> t.pending, delay |-> t.delay]
         /\ given' = [given EXCEPT ![j] = IF t.pending > 0 THEN @ + fit ELSE @]
  /\ todo' = Without(todo, j)
  /\ phase' = "apply"
  /\ UNCHANGED <<now, job, cmd, readAt, requests, crashes, accepted>>

(* change_walltime, whatever the job has become *)
Apply ==
  /\ phase = "apply"
  /\ job' = [job EXCEPT ![grant.job].walltime = grant.walltime]
  /\ grant' = NoGrant
  /\ phase' = "changes"
  /\ UNCHANGED <<now, change, cmd, readAt, todo, requests, crashes, accepted, given>>

Planning ==
  /\ phase = "changes"
  /\ todo = Nothing
  /\ phase' = "plan"
  /\ UNCHANGED <<now, job, change, cmd, readAt, todo, grant, requests, crashes, accepted, given>>

Crash ==
  /\ phase # "rest"
  /\ crashes < MaxCrashes
  /\ crashes' = crashes + 1
  /\ Ends
  /\ UNCHANGED <<now, job, change, cmd, requests, accepted, given>>

(* The plan, made with the walltimes as they are: reservations keep their  *)
(* dates, the other jobs come after those that run (SchedulingRound).      *)
Planned(starts) ==
  [j \in Jobs |-> IF j \in DOMAIN starts THEN [job[j] EXCEPT !.start = starts[j]] ELSE job[j]]

MakePlan ==
  /\ phase = "plan"
  /\ \E starts \in [Waiting \ Reservations -> now..(Horizon + 1)] :
       /\ job' = Planned(starts)
       /\ \A k \in DOMAIN starts, j \in Running \cup Waiting :
            Share(j, k) /\ starts[k] <= Horizon =>
              \/ End(j)' + Security <= starts[k]
              \/ j \in Waiting /\ End(k)' + Security <= job'[j].start
  /\ Ends
  /\ UNCHANGED <<now, change, cmd, requests, crashes, accepted, given>>

-----------------------------------------------------------------------------
(* The jobs *)

(* A job starts at its date, on resources that are free *)
Start(k) ==
  /\ k \in Waiting
  /\ job[k].start = now
  /\ \A j \in Running : ~Share(j, k)
  /\ job' = [job EXCEPT ![k].state = "Running"]
  /\ UNCHANGED <<now, change, cmd, meta, requests, crashes, accepted, given>>

Stop(j) ==
  /\ j \in Running
  /\ job' = [job EXCEPT ![j].state = "Over"]
  /\ UNCHANGED <<now, change, cmd, meta, requests, crashes, accepted, given>>

(* Time goes on; a job is killed at most a second after its end *)
Tick ==
  /\ now < Horizon
  /\ \A j \in Running : now <= End(j)
  /\ now' = now + 1
  /\ UNCHANGED <<job, change, cmd, meta, requests, crashes, accepted, given>>

Next ==
  \/ \E j \in Jobs, seconds \in Amounts, who \in Askers, force \in BOOLEAN, delay \in BOOLEAN :
       Request(j, seconds, who, force, delay)
  \/ WriteRequest \/ ReadChanges \/ Apply \/ Planning \/ MakePlan \/ Crash \/ Tick
  \/ \E j \in Jobs : Skip(j) \/ Fail(j) \/ Grant(j) \/ Start(j) \/ Stop(j)

Spec == Init /\ [][Next]_vars

-----------------------------------------------------------------------------
(* Types of the variables *)
Read == [start : Int, walltime : Int, pending : Int, force : BOOLEAN, delay : BOOLEAN, granted : Int]

TypeOK ==
  /\ now \in 0..Horizon
  /\ job \in [Jobs -> [state : {"Waiting", "Running", "Over"}, start : Nat, walltime : Int]]
  /\ DOMAIN change \subseteq Jobs
  /\ \A j \in DOMAIN change :
       change[j] \in [pending : Int, force : BOOLEAN, delay : BOOLEAN, granted : Int]
  /\ cmd = NoCommand \/ cmd \in [job : Jobs, pending : Int, force : BOOLEAN, delay : BOOLEAN]
  /\ phase \in {"rest", "changes", "apply", "plan"}
  /\ readAt \in 0..now
  /\ DOMAIN todo \subseteq Jobs /\ \A j \in DOMAIN todo : todo[j] \in Read
  /\ grant = NoGrant \/ grant \in [job : Jobs, walltime : Int, asked : Int, delay : BOOLEAN]
  /\ (phase = "apply") = (grant # NoGrant)
  /\ requests \in 0..MaxRequests /\ crashes \in 0..MaxCrashes
  /\ accepted \in [Jobs -> Nat] /\ given \in [Jobs -> Int]

(* However the demands, the commits and the crashes interleave, the        *)
(* metascheduler never grants a job more than all its accepted demands     *)
(* together: none is granted twice, neither from a stale list nor after    *)
(* the process has been stopped between the two commits. (A reduction that *)
(* is treated after the end of the job makes it longer by what it is late: *)
(* given counts the increases that answer a demand for one.)               *)
NeverMoreThanAsked == \A j \in Jobs : given[j] <= accepted[j]

(* What is granted is bounded by what was asked, whatever a demand, a      *)
(* round and a crash leave in the two tables (lib/walltime.py, kao/        *)
(* walltime_change.py).                                                    *)
GrantsAreBounded == TypeOK /\ NeverMoreThanAsked

(* A longer walltime leaves the jobs that are planned next where they are: *)
(* reservations always, the others unless the user asked to delay them.    *)
Longer(j) == phase = "apply" /\ grant.job = j /\ grant.asked > 0 /\ job'[j].walltime > job[j].walltime

LaterJobsAreKept ==
  [][\A j, k \in Jobs :
       /\ Longer(j) /\ Share(j, k) /\ k \in Waiting \ Besteffort
       /\ job[k].start > End(j)
       /\ k \in Reservations \/ ~grant.delay
       => End(j)' + Security <= job[k].start]_vars

(* An inner job that was given time does not outlive its container, whose  *)
(* own walltime may be changed in the same round or between two rounds.    *)
InnerEndsWithin ==
  [][\A j \in DOMAIN InnerOf : Longer(j) => End(j)' <= End(InnerOf[j])']_vars

=============================================================================
