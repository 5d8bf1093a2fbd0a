----------------------------- MODULE MetaSched ------------------------------
(***************************************************************************)
(* The metascheduler (src/oar/kao/meta_sched.py, meta_schedule in its mode *)
(* "internal"), round after round. A round empties the gantt but for the   *)
(* accepted reservations, then for each queue, the higher priority first,  *)
(* plans the waiting jobs, looks at the accepted reservations that should  *)
(* have begun and at the new ones. Then either it kills besteffort jobs    *)
(* that are in the way of a job to launch, or it launches those whose date *)
(* has come, and at last it answers the oarsub that wait.                  *)
(*                                                                         *)
(* Users, nodes and jobs change the database between two steps of a round, *)
(* and a round may be cut after each: a job is accepted in two commits,    *)
(* launched in three to five, and answered before the commit that says so. *)
(* A round has one date, and time passes between rounds. The state         *)
(* toLaunch stands for all those from toLaunch to Finishing, for which the *)
(* metascheduler keeps the resources.                                      *)
(*                                                                         *)
(* Left out: timesharing, placeholders, containers, quotas, checkpoints of *)
(* besteffort jobs, external schedulers, energy saving (EnergySaving), the *)
(* changes of walltime (WalltimeChange), the search of a place among slots *)
(* (SchedulingRound).                                                      *)
(***************************************************************************)
EXTENDS Integers, FiniteSets, FiniteSetsExt

CONSTANTS
  Resources,
  First,        \* the first resource in SCHEDULER_RESOURCE_ORDER
  Failing,      \* those that may become Suspected
  Asleep,       \* those that are Absent, until they are woken up
  Jobs,
  Queue,        \* Queue[j]: "default" or "besteffort"
  Width,        \* Width[j]: how many resources it asks for
  Walltime,     \* Walltime[j]: for how long
  ResaStart,    \* the date that each advance reservation asks for
  Early,        \* the jobs that wait from the beginning
  Security,     \* SCHEDULER_JOB_SECURITY_TIME
  WaitTimeout,  \* RESERVATION_WAITING_RESOURCES_TIMEOUT
  KillBefore,   \* SCHEDULER_BESTEFFORT_KILL_DURATION_BEFORE_RESERVATION
  Horizon,      \* bound: the last date
  MaxJobs,      \* bound: the jobs that are submitted
  MaxFaults     \* bound: failures of nodes, and rounds that are cut

ASSUME ResourcesAssumption == First \in Resources /\ Failing \cup Asleep \subseteq Resources
ASSUME JobsAssumption ==
  /\ DOMAIN ResaStart \cup Early \subseteq Jobs
  /\ \A j \in Jobs : /\ Queue[j] \in {"default", "besteffort"}
                      /\ Width[j] \in 1..Cardinality(Resources) /\ Walltime[j] \in Nat \ {0}
  /\ \A j \in DOMAIN ResaStart : Queue[j] = "default" /\ ResaStart[j] \in Nat
ASSUME SettingsAssumption ==
  {Security, WaitTimeout, KillBefore, Horizon, MaxFaults} \subseteq Nat

VARIABLES
  now,
  up,        \* resources.state: "Alive", "Absent", "Suspected"
  job,       \* jobs and assigned_resources: [state, resa, start, walltime, res]
  gantt,     \* gantt_jobs_predictions and _resources: job -> [start, res]
  fragged,   \* frag_jobs
  oarsub,    \* what the oarsub of each reservation has: "none", "waits", "left", "GOOD", "BAD"
  phase,     \* of the round: "rest", "plan", "waiting", "new", "launch", "started", "answer"
  queue,     \* the queue that is treated
  seen,      \* resource_set.roid_itvs
  slots,     \* what is taken in the slots: [from, to, res, be]
  holders,   \* besteffort_rid2job: the besteffort jobs of the gantt: [job, res]
  todo,      \* the jobs that were read for the phase, and remain
  plan,      \* what is not saved yet: job -> [start, res]
  doing,     \* the job between two commits: [job, at, start]; at: the last one, start: its date as read
  fails, crashes,
  cut        \* history: the jobs that a round was doing when it was cut

world == <<now, up, fails>>
base  == <<job, gantt, fragged, oarsub>>
round == <<phase, queue, seen, slots, holders, todo, plan, doing>>
cuts  == <<crashes, cut>>
vars  == <<world, base, round, cuts>>

Nothing == [j \in {} |-> 0]
NotDoing == [job |-> 0, at |-> "none", start |-> 0]
Reservations == DOMAIN ResaStart

Init ==
  /\ now = 0
  /\ up = [r \in Resources |-> IF r \in Asleep THEN "Absent" ELSE "Alive"]
  /\ job = [j \in Jobs |-> [state |-> IF j \in Early THEN "Waiting" ELSE "none",
                            resa |-> IF j \in Reservations THEN "toSchedule" ELSE "None",
                            start |-> 0, walltime |-> Walltime[j], res |-> {}]]
  /\ gantt = Nothing
  /\ fragged = {}
  /\ oarsub = [j \in Reservations |-> IF j \in Early THEN "waits" ELSE "none"]
  /\ phase = "rest"
  /\ queue = "default"
  /\ seen = {}
  /\ slots = {}
  /\ holders = {}
  /\ todo = {}
  /\ plan = Nothing
  /\ doing = NotDoing
  /\ fails = 0
  /\ crashes = 0
  /\ cut = {}

In(state) == {j \in Jobs : job[j].state = state}
Over == In("Terminated") \cup In("Error")

(* set_job_state leaves the jobs that are over *)
SetState(jobs, state) == [j \in Jobs |-> IF j \in jobs \ Over THEN [job[j] EXCEPT !.state = state] ELSE job[j]]

Idle == doing.at = "none"
Mid(j, at) == doing.at = at /\ doing.job = j
Then(at) == [doing EXCEPT !.at = at]

-----------------------------------------------------------------------------
(* Users, jobs and nodes *)

Submit(j) ==
  /\ job[j].state = "none" /\ Cardinality(Jobs \ In("none")) < MaxJobs
  /\ j \in Reservations => ResaStart[j] > now
  /\ job' = [job EXCEPT ![j].state = "Waiting"]
  /\ oarsub' = [i \in Reservations |-> IF i = j THEN "waits" ELSE oarsub[i]]
  /\ UNCHANGED <<world, gantt, fragged, round, cuts>>

(* The user stops the oarsub that waits *)
Hangup(j) ==
  /\ oarsub[j] = "waits"
  /\ oarsub' = [oarsub EXCEPT ![j] = "left"]
  /\ UNCHANGED <<world, job, gantt, fragged, round, cuts>>

(* oardel and Leon, for a job that waits; the job that has been fragged,   *)
(* or is over, in the other states. Its dates are of no more use.          *)
Leave(j) ==
  /\ \/ job[j].state \in {"Waiting", "toLaunch"}
     \/ job[j].state = "toAckReservation" /\ j \in fragged
  /\ job' = [job EXCEPT ![j] = [state |-> IF @.state = "toLaunch" THEN "Terminated" ELSE "Error",
                               resa |-> @.resa, start |-> 0, walltime |-> Walltime[j],
                               res |-> IF @.state = "Waiting" THEN @.res ELSE {}]]
  /\ fragged' = fragged \ {j}
  /\ UNCHANGED <<world, gantt, oarsub, round, cuts>>

Fail(r) ==
  /\ r \in Failing /\ up[r] = "Alive" /\ fails + crashes < MaxFaults
  /\ up' = [up EXCEPT ![r] = "Suspected"]
  /\ fails' = fails + 1
  /\ UNCHANGED <<now, base, round, cuts>>

(* A node is repaired, or has been woken up *)
Return(r) ==
  /\ up[r] # "Alive"
  /\ up' = [up EXCEPT ![r] = "Alive"]
  /\ UNCHANGED <<now, fails, base, round, cuts>>

(* Jobs are killed at the end of their walltime *)
Tick ==
  /\ phase = "rest"
  /\ now < Horizon
  /\ \A j \in In("toLaunch") : now < job[j].start + job[j].walltime
  /\ now' = now + 1
  /\ UNCHANGED <<up, fails, base, round, cuts>>

-----------------------------------------------------------------------------
(* The beginning of a round *)

(* The resources of a ResourceSet *)
Seen == {r \in Resources : up[r] \in {"Alive", "Absent"}}

(* rid_i2o is 0, the index of the first resource, for those that are not   *)
(* in the set: the Suspected and Dead ones.                                *)
Mapped(res, set) == {IF r \in set THEN r ELSE First : r \in res}

(* save_assigns: from indices to resources; 0 for what is not in the set *)
Written(res, set) == Mapped(res, set) \cap set

(* get_waiting_moldable_of_reservations_already_scheduled *)
Kept ==
  {j \in DOMAIN gantt : /\ job[j].state \in {"Waiting", "toAckReservation"}
                        /\ job[j].resa = "Scheduled"
                        /\ gantt[j].res # {}}

(* What a job takes; its walltime has the security time at its end *)
Taken(j, start, res) ==
  [from |-> start, to |-> start + job[j].walltime + Security - 1, res |-> res, be |-> Queue[j] = "besteffort"]

(* The waiting jobs of a queue, reservations or not *)
Read(q, resa) == {j \in In("Waiting") : Queue[j] = q /\ job[j].resa = resa}

(* get_jobs_in_multiple_states: the jobs that have resources, which are    *)
(* read from their rows, and lose those that are not in the set            *)
Current == [j \in In("toLaunch") |-> [start |-> job[j].start, res |-> Written(job[j].res, Seen)]]

(* gantt_init_with_running_jobs, then get_waiting_jobs for the first queue *)
Begin ==
  /\ phase = "rest"
  /\ seen' = Seen
  /\ gantt' = [j \in Kept \cup DOMAIN Current |-> IF j \in Kept THEN gantt[j] ELSE Current[j]]
  /\ slots' = {Taken(j, gantt'[j].start, Mapped(gantt'[j].res, Seen)) : j \in DOMAIN gantt'}
  /\ holders' = {[job |-> j, res |-> Mapped(gantt'[j].res, Seen)] :
                   j \in {i \in DOMAIN gantt' : Queue[i] = "besteffort"}}
  /\ phase' = "plan"
  /\ queue' = "default"
  /\ todo' = Read("default", "None")
  /\ plan' = Nothing
  /\ UNCHANGED <<world, job, fragged, oarsub, doing, cuts>>

-----------------------------------------------------------------------------
(* The waiting jobs of a queue: internal_schedule_cycle *)

(* Besteffort jobs do not count but for their own queue *)
Blocking(s) == queue = "besteffort" \/ ~s.be

(* The resources that are free from a date to another *)
Free(from, to) ==
  seen \ UNION {s.res : s \in {t \in slots : Blocking(t) /\ t.from <= to /\ from <= t.to}}

LastDate == Horizon + 2 * MapThenSumSet(LAMBDA j : Walltime[j] + Security, Jobs)

Place(j, from) == Free(from, from + job[j].walltime + Security - 1)

Starts(j) == {from \in now..LastDate : Cardinality(Place(j, from)) >= Width[j]}

(* A job has the first place where it fits; without a place it has no row *)
Plan(j) ==
  /\ phase = "plan"
  /\ j \in todo
  /\ \/ Starts(j) = {} /\ UNCHANGED <<slots, plan>>
     \/ \E start \in {s \in Starts(j) : \A t \in Starts(j) : s <= t} :
          \E res \in kSubset(Width[j], Place(j, start)) :
            /\ slots' = slots \cup {Taken(j, start, res)}
            /\ plan' = [i \in DOMAIN plan \cup {j} |-> IF i = j THEN [start |-> start, res |-> res] ELSE plan[i]]
  /\ todo' = todo \ {j}
  /\ UNCHANGED <<world, base, phase, queue, seen, holders, doing, cuts>>

(* Mutant of Saved: the rows that were there are lost *)
SavedAlone == plan

(* save_assigns, in one transaction *)
Saved == [j \in DOMAIN gantt \cup DOMAIN plan |-> IF j \in DOMAIN plan THEN plan[j] ELSE gantt[j]]

(* get_waiting_scheduled_AR_jobs *)
Accepted(q) == {j \in Read(q, "Scheduled") : j \in DOMAIN gantt' /\ gantt'[j].res # {}}

(* There is no reservation in the queue besteffort: what follows it in the *)
(* code does nothing.                                                      *)
SavePlan ==
  /\ phase = "plan"
  /\ todo = {}
  /\ gantt' = Saved
  /\ plan' = Nothing
  /\ IF queue = "default" THEN phase' = "waiting" /\ slots' = slots /\ todo' = Accepted(queue)
                          ELSE phase' = "launch" /\ slots' = {} /\ todo' = {}
  /\ UNCHANGED <<world, job, fragged, oarsub, queue, seen, holders, doing, cuts>>

-----------------------------------------------------------------------------
(* The reservations that are accepted: handle_waiting_reservation_jobs *)

End(j, start) == start + job[j].walltime + Security

Expire(j) ==
  /\ now > End(j, gantt[j].start)
  /\ job' = SetState({j}, "Error")
  /\ UNCHANGED gantt

(* set_gantt_job_start_time *)
Moved(j, date) == [gantt EXCEPT ![j].start = date]

(* remove_gantt_resource_job removes the rows that are not in its list, a  *)
(* list of zeros: they all go. Nothing is done for an empty list.          *)
Without(j, missing) == IF missing = {} THEN gantt ELSE [gantt EXCEPT ![j].res = {}]

(* No resource is there: the date of the reservation moves *)
Delay(j) ==
  /\ now <= End(j, gantt[j].start) /\ gantt[j].start < now
  /\ Mapped(gantt[j].res, seen) \cap seen = {}
  /\ gantt' = Moved(j, now + 1)
  /\ UNCHANGED job

Missing(j) == Mapped(gantt[j].res, seen) \ seen

(* Some resources are there, since long enough: the missing ones should go *)
Reduce(j) ==
  /\ now <= End(j, gantt[j].start) /\ gantt[j].start + WaitTimeout <= now /\ gantt[j].start < now
  /\ Mapped(gantt[j].res, seen) \cap seen # {}
  /\ gantt' = Without(j, Missing(j))
  /\ UNCHANGED job

(* The message of the log adds a string and a number *)
Waits(j) ==
  /\ now <= End(j, gantt[j].start) /\ now < gantt[j].start + WaitTimeout /\ gantt[j].start < now
  /\ Mapped(gantt[j].res, seen) \cap seen # {}
  /\ Missing(j) # {}

OnTime(j) ==
  /\ now <= End(j, gantt[j].start)
  /\ \/ gantt[j].start >= now
     \/ now < gantt[j].start + WaitTimeout /\ Missing(j) = {}
  /\ UNCHANGED <<job, gantt>>

WaitingReservation(j) ==
  /\ phase = "waiting"
  /\ j \in todo
  /\ ~Waits(j)
  /\ Expire(j) \/ Delay(j) \/ Reduce(j) \/ OnTime(j)
  /\ todo' = todo \ {j}
  /\ UNCHANGED <<world, fragged, oarsub, phase, queue, seen, slots, holders, plan, doing, cuts>>

WaitingDone ==
  /\ phase = "waiting"
  /\ todo = {}
  /\ phase' = "new"
  /\ todo' = Read(queue, "toSchedule")
  /\ UNCHANGED <<world, base, queue, seen, slots, holders, plan, doing, cuts>>

-----------------------------------------------------------------------------
(* The new reservations: check_reservation_jobs *)

(* Its state alone says that it is too old *)
TooOld(j) ==
  /\ now >= ResaStart[j] + job[j].walltime + Security
  /\ job' = SetState({j}, "toError")
  /\ UNCHANGED <<slots, plan, doing>>

(* The first of two commits *)
Decided(j, state) ==
  /\ job' = SetState({j}, state)
  /\ doing' = [job |-> j, at |-> "state", start |-> 0]

From(j) == Max({ResaStart[j], now})

Room(j) == Free(From(j), From(j) + job[j].walltime)

Refuse(j) ==
  /\ now < ResaStart[j] + job[j].walltime + Security
  /\ Cardinality(Room(j)) < Width[j]
  /\ Decided(j, "toError")
  /\ UNCHANGED <<slots, plan>>

Accept(j) ==
  /\ now < ResaStart[j] + job[j].walltime + Security
  /\ \E res \in kSubset(Width[j], Room(j)) :
       /\ slots' = slots \cup {Taken(j, From(j), res)}
       /\ plan' = [i \in DOMAIN plan \cup {j} |->
                     IF i = j THEN [start |-> From(j), res |-> res] ELSE plan[i]]
  /\ Decided(j, "toAckReservation")

NewReservation(j) ==
  /\ phase = "new"
  /\ Idle /\ j \in todo
  /\ TooOld(j) \/ Refuse(j) \/ Accept(j)
  /\ todo' = todo \ {j}
  /\ UNCHANGED <<world, gantt, fragged, oarsub, phase, queue, seen, holders, cuts>>

(* set_job_resa_state *)
SetScheduled(j) ==
  /\ Mid(j, "state")
  /\ job' = [job EXCEPT ![j].resa = "Scheduled"]
  /\ doing' = NotDoing
  /\ UNCHANGED <<world, gantt, fragged, oarsub, phase, queue, seen, slots, holders, todo, plan, cuts>>

(* save_assigns for those that are accepted, then the next queue *)
SaveNew ==
  /\ phase = "new"
  /\ Idle /\ todo = {}
  /\ gantt' = Saved
  /\ plan' = Nothing
  /\ phase' = "plan"
  /\ queue' = "besteffort"
  /\ todo' = Read("besteffort", "None")
  /\ UNCHANGED <<world, job, fragged, oarsub, seen, slots, holders, doing, cuts>>

-----------------------------------------------------------------------------
(* Jobs to launch *)

AliveOf(j) == {r \in gantt[j].res : up[r] = "Alive"}

(* get_gantt_jobs_to_launch: one resource is enough *)
Ready == {j \in In("Waiting") : /\ j \in DOMAIN gantt
                                /\ gantt[j].start <= now + KillBefore
                                /\ AliveOf(j) # {}}

(* Mutant of ToKill: the jobs that are on their way are not looked at *)
ToKillNone == {}

(* check_besteffort_jobs_to_kill *)
ToKill == {h.job : h \in {x \in holders : \E j \in Ready : x.res \cap Mapped(AliveOf(j), seen) # {}}}

(* Nothing is launched when something is killed *)
Decide ==
  /\ phase = "launch"
  /\ fragged' = fragged \cup ToKill
  /\ todo' = IF ToKill # {} THEN {} ELSE {j \in Ready : gantt[j].start <= now}
  /\ phase' = "started"
  /\ seen' = {} /\ holders' = {}
  /\ UNCHANGED <<world, job, gantt, oarsub, queue, slots, plan, doing, cuts>>

(* handle_jobs_to_launch: a reservation that is late has two commits more  *)
Late(j) == job[j].resa = "Scheduled" /\ gantt[j].start < now

(* Mutant of NewWalltime: what is late is not taken off *)
NewWalltimeFull(j) == job[j].walltime + Security

(* It loses as much as it is late, but its walltime has got the security   *)
(* time.                                                                   *)
NewWalltime(j) == job[j].walltime + Security - (now - gantt[j].start)

ToDo(j) == phase = "started" /\ Idle /\ j \in todo
LaunchFrom(j, at) == [job |-> j, at |-> at, start |-> gantt[j].start]

(* What is written of a job that is over is of no use *)
WithRow(j, row) == IF j \in Over THEN job ELSE [job EXCEPT ![j] = row]

(* set_moldable_job_max_time *)
SetMaxTime(j) ==
  /\ ToDo(j) /\ Late(j)
  /\ job' = WithRow(j, [job[j] EXCEPT !.walltime = NewWalltime(j)])
  /\ doing' = LaunchFrom(j, "walltime")
  /\ UNCHANGED <<world, gantt, fragged, oarsub, phase, queue, seen, slots, holders, todo, plan, cuts>>

(* set_gantt_job_start_time *)
SetGanttStart(j) ==
  /\ Mid(j, "walltime")
  /\ gantt' = Moved(j, now)
  /\ doing' = Then("gantt")
  /\ UNCHANGED <<world, job, fragged, oarsub, phase, queue, seen, slots, holders, todo, plan, cuts>>

(* prepare_job_to_be_launched, set_job_start_time_assigned_moldable_id:    *)
(* the date of the round                                                   *)
SetStart(j) ==
  /\ \/ ToDo(j) /\ ~Late(j) /\ doing' = LaunchFrom(j, "start")
     \/ Mid(j, "gantt") /\ doing' = Then("start")
  /\ job' = WithRow(j, [job[j] EXCEPT !.start = now])
  /\ UNCHANGED <<world, gantt, fragged, oarsub, phase, queue, seen, slots, holders, todo, plan, cuts>>

(* assigned_resources may have rows of the job, from a launch that was     *)
(* cut: a row cannot be there twice.                                       *)
Duplicates(j) == Mid(j, "start") /\ job[j].res \cap gantt[j].res # {}

(* add_resource_job_pairs: the rows of the gantt are added to the job's    *)
AddPairs(j) ==
  /\ Mid(j, "start") /\ ~Duplicates(j)
  /\ job' = WithRow(j, [job[j] EXCEPT !.res = @ \cup gantt[j].res])
  /\ doing' = Then("rows")
  /\ UNCHANGED <<world, gantt, fragged, oarsub, phase, queue, seen, slots, holders, todo, plan, cuts>>

(* set_job_state *)
Launch(j) ==
  /\ Mid(j, "rows")
  /\ job' = SetState({j}, "toLaunch")
  /\ doing' = NotDoing
  /\ todo' = todo \ {j}
  /\ UNCHANGED <<world, gantt, fragged, oarsub, phase, queue, seen, slots, holders, plan, cuts>>

-----------------------------------------------------------------------------
(* Answers *)

(* Mutant of Unanswered: the refusals are left for the next round *)
UnansweredGood == In("toAckReservation")

(* get_current_not_waiting_jobs *)
Unanswered == In("toError") \cup In("toAckReservation")

Gather ==
  /\ phase = "started"
  /\ todo = {}
  /\ phase' = "answer"
  /\ todo' = Unanswered
  /\ UNCHANGED <<world, base, queue, seen, slots, holders, plan, doing, cuts>>

Tell(j, answer) == [oarsub EXCEPT ![j] = IF @ = "waits" THEN answer ELSE @]

(* Only the reservations that were Scheduled hear of a refusal *)
TellBad(j) ==
  /\ job[j].state = "toError"
  /\ oarsub' = IF job[j].resa = "Scheduled" THEN Tell(j, "BAD") ELSE oarsub

(* The list was read before: the job may have been deleted since *)
TellGood(j) ==
  /\ job[j].state # "toError" /\ oarsub[j] = "waits"
  /\ oarsub' = Tell(j, "GOOD")

(* The answer first, then set_job_state *)
Notify(j) ==
  /\ phase = "answer"
  /\ Idle /\ j \in todo
  /\ TellBad(j) \/ TellGood(j)
  /\ doing' = [job |-> j, at |-> "told", start |-> 0]
  /\ UNCHANGED <<world, job, gantt, fragged, phase, queue, seen, slots, holders, todo, plan, cuts>>

Answer(j) ==
  /\ Mid(j, "told")
  /\ job' = SetState({j}, IF job[j].state = "toError" THEN "Error" ELSE "Waiting")
  /\ doing' = NotDoing
  /\ todo' = todo \ {j}
  /\ UNCHANGED <<world, gantt, fragged, oarsub, phase, queue, seen, slots, holders, plan, cuts>>

(* Nobody is there to hear it *)
Unheard(j) ==
  /\ phase = "answer"
  /\ Idle /\ j \in todo
  /\ job[j].state # "toError" /\ oarsub[j] # "waits"
  /\ fragged' = IF j \in Over THEN fragged ELSE fragged \cup {j}
  /\ todo' = todo \ {j}
  /\ UNCHANGED <<world, job, gantt, oarsub, phase, queue, seen, slots, holders, plan, doing, cuts>>

(* What a round knows goes with it *)
Leaving ==
  /\ phase' = "rest" /\ queue' = "default"
  /\ seen' = {} /\ slots' = {} /\ holders' = {} /\ todo' = {} /\ plan' = Nothing
  /\ doing' = NotDoing

Finish ==
  /\ phase = "answer"
  /\ todo = {}
  /\ Leaving
  /\ UNCHANGED <<world, base, cuts>>

(* An exception: the message of Waits, or the rows of Duplicates *)
Raise ==
  /\ \/ phase = "waiting" /\ \E j \in todo : Waits(j)
     \/ \E j \in todo : Duplicates(j)
  /\ Leaving
  /\ UNCHANGED <<world, base, cuts>>

Crash ==
  /\ phase # "rest" /\ fails + crashes < MaxFaults
  /\ crashes' = crashes + 1
  /\ cut' = cut \cup {j \in Jobs : doing.at # "none" /\ doing.job = j}
  /\ Leaving
  /\ UNCHANGED <<world, base>>

-----------------------------------------------------------------------------
Environment ==
  \/ \E j \in Jobs : Submit(j) \/ Leave(j)
  \/ \E j \in Reservations : Hangup(j)
  \/ \E r \in Resources : Fail(r) \/ Return(r)
  \/ Tick

Round ==
  \/ Begin \/ SavePlan \/ WaitingDone \/ SaveNew \/ Decide \/ Gather \/ Finish \/ Raise
  \/ \E j \in Jobs : Plan(j) \/ WaitingReservation(j) \/ NewReservation(j) \/ SetScheduled(j)
  \/ \E j \in Jobs : SetMaxTime(j) \/ SetGanttStart(j) \/ SetStart(j) \/ AddPairs(j) \/ Launch(j)
  \/ \E j \in Jobs : Notify(j) \/ Answer(j) \/ Unheard(j)

Next == Environment \/ Round \/ Crash

Spec == Init /\ [][Next]_vars

-----------------------------------------------------------------------------
(* Properties *)

(* The tables of the gantt: the resources of a job, and its date *)
GanttJobsResource == SUBSET Resources
GanttJobsPrediction == [start : Nat, res : GanttJobsResource]

TypeOK ==
  /\ now \in 0..Horizon
  /\ \A j \in Jobs :
       /\ job[j].state \in {"none", "Waiting", "toLaunch", "toAckReservation", "toError", "Error", "Terminated"}
       /\ job[j].resa \in {"None", "toSchedule", "Scheduled"}
       /\ job[j].walltime \in Int /\ (j \notin cut => job[j].walltime \in 0..(Walltime[j] + Security))
       /\ job[j].res \subseteq Resources
       /\ (j \in DOMAIN gantt => gantt[j] \in GanttJobsPrediction)
       /\ (j \in DOMAIN plan => plan[j] \in GanttJobsPrediction)
  /\ todo \cup fragged \cup cut \cup DOMAIN gantt \cup DOMAIN plan \subseteq Jobs
  /\ plan # Nothing => phase \in {"plan", "new"}
  /\ seen \subseteq Resources
  /\ (\A s \in slots : s.res \subseteq Resources) /\ \A h \in holders : h.res \subseteq Resources

(* A reservation that is launched at its very last date has a walltime of  *)
(* zero, and its place is not kept any more.                               *)
Standing ==
  {j \in In("toLaunch") : job[j].walltime > 0 /\ now < job[j].start + job[j].walltime + Security}

(* The room of a new reservation is looked for without the security time,  *)
(* which a reservation that is launched late has in its walltime: it may   *)
(* go on, for less than this time, when the next reservation begins.       *)
Briefly(j, end, k, next) == {j, k} \subseteq Reservations /\ end < next + Security

RunsInto(j, k) == Briefly(j, job[j].start + job[j].walltime, k, job[k].start)

(* When nodes fail, reservations move in time, and a resource that a job   *)
(* does not have yet is not looked at among those of besteffort jobs. A    *)
(* reservation whose launch is cut has the security time once more, a job  *)
(* may be launched with the rows of both launches.                         *)
MayMeet(j, k) ==
  \/ RunsInto(j, k) \/ RunsInto(k, j)
  \/ {j, k} \cap cut # {}
  \/ fails > 0 /\ {j, k} \cap Reservations # {}
  \/ (fails > 0 \/ Asleep # {}) /\ Queue[j] # Queue[k]

(* Two jobs never have a resource at the same time: a job is launched when *)
(* the one it follows has ended, and when the besteffort jobs in its way,  *)
(* killed in an earlier round, are over (meta_schedule). Whatever fails,   *)
(* two jobs of a queue that are not reservations do not meet, unless the   *)
(* launch of one of the two was cut.                                       *)
OneJobPerResource ==
  \A j, k \in Standing : j # k /\ job[j].res \cap job[k].res # {} => MayMeet(j, k)

EndOf(j) == gantt[j].start + job[j].walltime

Follows(j, k) == EndOf(j) <= gantt[k].start \/ Briefly(j, EndOf(j), k, gantt[k].start)

Active == {"Waiting", "toAckReservation", "toLaunch"}

(* The jobs of the gantt that wait, launched or not, do not meet: not even *)
(* when a reservation is launched late with a walltime of its own, unless  *)
(* another one follows it, and not between two commits of its launch       *)
(* (handle_jobs_to_launch, check_reservation_jobs).                        *)
PlansDisjoint ==
  \A j, k \in {i \in DOMAIN gantt \ cut : Queue[i] = "default" /\ job[i].state \in Active} :
    j # k /\ gantt[j].res \cap gantt[k].res # {} => Follows(j, k) \/ Follows(k, j)

(* The gantt is sound: its rows name jobs and resources, and do not meet   *)
(* as long as no node fails and moves a reservation.                       *)
GanttIsSound == TypeOK /\ (fails = 0 => PlansDisjoint)

(* What oarsub has been told is granted has its place in the gantt, until  *)
(* it is launched or deleted: what check_reservation_jobs accepts is saved *)
(* before the answer, unless the round is cut in between, and no round     *)
(* takes it away, unless nodes have failed: then a reservation may be left *)
(* without a resource, and have again, after a while, those that remain.   *)
GrantedIsPlanned ==
  \A j \in Reservations :
    crashes + fails = 0 /\ oarsub[j] = "GOOD" /\ job[j].state = "Waiting" =>
      j \in DOMAIN gantt /\ gantt[j].res # {}

(* A round that is not cut leaves no reservation without an answer, but    *)
(* those whose oarsub has left, which it deletes (the answers).            *)
RoundAnswers ==
  [][Finish => \A j \in Jobs : job[j].state \in {"toAckReservation", "toError"} => j \in fragged]_vars

=============================================================================
