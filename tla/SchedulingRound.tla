-------------------------- MODULE SchedulingRound ---------------------------
(***************************************************************************)
(* One round of a scheduler for its waiting jobs (src/oar/kao/scheduling.py*)
(* and kamelot.py): the slots are split for the resources that will leave  *)
(* and for the jobs that are running or planned already, then the waiting  *)
(* jobs are treated one after the other, in whatever order the priorities  *)
(* give. A container has a slot set of its own, for its inner jobs.        *)
(*                                                                         *)
(* The request, the dependencies and the types of a job are chosen when it *)
(* is treated. Left out: timesharing and placeholders, quotas, besteffort  *)
(* jobs, containers with a name (container=name), assign and find functions*)
(***************************************************************************)
EXTENDS SlotSets

CONSTANTS
  Jobs,       \* ids of the waiting jobs
  Requests,   \* what a job may ask for: sequences of alternatives
  Security,   \* job_security_time, a part of every walltime
  Now,        \* the date of the round
  Schedules   \* what is in the gantt: [leaving, booked], sequences of jobs

ASSUME NowAssumption == Now \in 0..MaxTime

VARIABLES
  sets,    \* slots_sets: for each name, its slots and its cache
  plan,    \* the jobs treated: start, walltime, res, set and deps
  booked,  \* the jobs that were there before, with container and inner
  raised   \* what has ended the program: slots[0] read, a job without a walltime,
           \* the slots of a set that does not exist

vars == <<sets, plan, booked, raised>>

NoCache == <<>>

(* What the slots stand for *)
Free == [s \in DOMAIN sets |-> [t \in 0..MaxTime |-> FreeAt(sets[s].slots, t)]]

Table == INSTANCE Timetable WITH free <- Free

ASSUME ConstantsAssumption == Table!Sizes /\ Table!SoundRequests

ASSUME WalltimesAssumption ==
  \A rqts \in Requests : \A k \in DOMAIN rqts : rqts[k].walltime >= Security

ASSUME NamesAssumption == "default" \notin Jobs

-----------------------------------------------------------------------------
(* set_slots_with_prev_scheduled_jobs *)

(* The slots of a container that is there already; they were all empty     *)
(* since the date 1.                                                       *)
BookedContainer(job) ==
  SplitSlotsJobs(OneSlot({}, 1, MaxTime),
                 <<[job EXCEPT !.start = Max({@, Now}), !.walltime = @ - Security]>>,
                 FALSE)

(* Jobs of a set that does not exist are left aside *)
Booked(jobs, name) ==
  LET chosen[n \in 0..Len(jobs)] ==
        IF n = 0 THEN <<>>
        ELSE IF jobs[n].inner = name THEN Append(chosen[n - 1], jobs[n])
        ELSE chosen[n - 1]
  IN  chosen[Len(jobs)]

Loaded(schedule) ==
  LET containers == {job \in Range(schedule.booked) : job.container}
      default == SplitSlotsJobs(OneSlot(Resources, Now, MaxTime), schedule.leaving, TRUE)
      empty == [name \in {"default"} \cup {c.id : c \in containers} |->
                  IF name = "default" THEN default
                  ELSE BookedContainer(CHOOSE c \in containers : c.id = name)]
      split == [name \in DOMAIN empty |->
                  SplitSlotsJobs(empty[name].slots, Booked(schedule.booked, name), TRUE)]
  IN  [sets   |-> [name \in DOMAIN split |-> [slots |-> split[name].slots, cache |-> NoCache]],
       broken |-> \E name \in DOMAIN split : split[name].broken \/ empty[name].broken]

Begin(schedule) ==
  /\ sets = Loaded(schedule).sets
  /\ raised = IF Loaded(schedule).broken THEN "slots" ELSE "none"
  /\ booked = Range(schedule.booked)

(* A load that is treated well: the sets stand for what is there already.  *)
(* Not every load is: split_slots_jobs may leave the resources of a job    *)
(* free, and a container that is there keeps its whole walltime. Nothing is*)
(* said of the rounds that begin with the others.                          *)
SoundLoad(schedule) ==
  LET load == Loaded(schedule).sets
  IN  /\ \A name \in DOMAIN load :
           /\ name \notin Jobs
           /\ load[name].slots \in Seq(Slot) /\ load[name].slots # <<>>
           /\ IsPartition(load[name].slots, IF name = "default" THEN Now ELSE 1, MaxTime)
           /\ NoObstacle(load[name].slots)
      /\ \A job \in Range(schedule.booked) :
           /\ job.id \notin Jobs /\ job.inner \notin Jobs
           /\ job.start \in Int /\ job.walltime \in Nat \ {0}
           /\ job.inner \in DOMAIN load =>
                \A t \in 0..MaxTime : job.start <= t /\ t < End(job) =>
                  job.res \cap FreeAt(load[job.inner].slots, t) = {}
           /\ job.id \in DOMAIN load =>
                \A t \in 0..MaxTime : FreeAt(load[job.id].slots, t) # {} =>
                  /\ job.start <= t /\ t < End(job)
                  /\ FreeAt(load[job.id].slots, t) \subseteq job.res

ASSUME LoadsAssumption == \A schedule \in Schedules : SoundLoad(schedule)

(* What a list says of its jobs: each of them begins when the one before   *)
(* is over, or with it, and then ends no earlier.                          *)
InTurn(jobs, first) ==
  /\ jobs \in Seq(Range(jobs))
  /\ \A n \in DOMAIN jobs :
       /\ jobs[n].start \in Nat /\ jobs[n].walltime \in Nat \ {0} /\ jobs[n].res \subseteq Resources
       /\ first < End(jobs[n]) /\ End(jobs[n]) <= MaxTime
       /\ n > 1 => \/ End(jobs[n - 1]) <= jobs[n].start
                   \/ /\ Max({jobs[n - 1].start, first}) = Max({jobs[n].start, first})
                      /\ End(jobs[n - 1]) <= End(jobs[n])

(* Such loads are sound: the jobs of a set are in turn and not over, and a *)
(* container has not begun.                                                *)
IsInOrder(schedule) ==
  LET jobs == Range(schedule.booked)
      containers == {job \in jobs : job.container}
  IN  /\ schedule.booked \in Seq(jobs)
      /\ InTurn(schedule.leaving, Now) /\ InTurn(Booked(schedule.booked, "default"), Now)
      /\ \A job \in jobs :
           /\ job \in [id : {job.id}, start : Nat, walltime : Nat \ {0}, res : SUBSET Resources,
                       container : BOOLEAN, inner : {job.inner}]
           /\ job.id \notin Jobs \cup {"default"} /\ job.inner \notin Jobs
      /\ \A c \in containers :
           /\ Now <= c.start /\ Security < c.walltime /\ End(c) <= MaxTime
           /\ InTurn(Booked(schedule.booked, c.id), 1)
           /\ \A job \in jobs : job.id = c.id => job = c

Init ==
  /\ \E schedule \in Schedules : Begin(schedule)
  /\ plan = NoCache

-----------------------------------------------------------------------------
(* schedule_id_jobs_ct *)

NotPlanned(s) == [start |-> -1, walltime |-> 0, res |-> {}, set |-> s, deps |-> {}]

Planned == {j \in DOMAIN plan : plan[j].start >= 0}

Treated(j, record) ==
  plan' = [i \in DOMAIN plan \cup {j} |-> IF i = j THEN record ELSE plan[i]]

(* A dependency is not over, or has failed *)
Skip(j) ==
  /\ Treated(j, NotPlanned("none"))
  /\ UNCHANGED <<sets, booked, raised>>

(* The date from which the jobs it waits for are over *)
MinStart(deps) == Max({-1} \cup {End(plan[d]) : d \in deps})

(* Mutant of FirstSlot: the last id of the cache, whatever the request *)
FirstSlotAnyCache(set, rqt, min) ==
  IF min >= 0 THEN Follow(set.slots, 1, {i \in DOMAIN set.slots : set.slots[i].b >= min})
  ELSE IF DOMAIN set.cache # {} THEN set.cache[CHOOSE r \in DOMAIN set.cache : TRUE]
  ELSE 1

(* Where the search begins: after the dependencies, or at the slot where   *)
(* the last job with this request has been put.                            *)
FirstSlot(set, rqt, min) ==
  IF min >= 0 THEN Follow(set.slots, 1, {i \in DOMAIN set.slots : set.slots[i].b >= min})
  ELSE IF rqt \in DOMAIN set.cache THEN set.cache[rqt]
  ELSE 1

(* Where each request has found its place, but after dependencies *)
NewCache(cache, rqts, found, min) ==
  LET suits == {k \in DOMAIN rqts : found[k][1] # 0}
      place == [r \in {rqts[k] : k \in suits} |-> found[CHOOSE k \in suits : rqts[k] = r][1]]
  IN  IF min >= 0 THEN cache
      ELSE [r \in DOMAIN cache \cup DOMAIN place |->
              IF r \in DOMAIN place THEN place[r] ELSE cache[r]]

(* A job in its dependencies has no place, or is treated later: it has no  *)
(* walltime, and the program ends.                                         *)
MissingDependency(j) ==
  /\ Jobs \ (Planned \cup {j}) # {}
  /\ raised' = "walltime"
  /\ UNCHANGED <<sets, plan, booked>>

(* An inner job whose container has no slots is not skipped *)
MissingContainer(j) ==
  /\ Jobs \ (DOMAIN sets \cup {j}) # {}
  /\ raised' = "set"
  /\ UNCHANGED <<sets, plan, booked>>

(* Mutant of Inside: the inner jobs may begin before their container *)
InsideFromNow(job) ==
  [slots |-> OneSlot(job.res, Now, End(job) - Security), cache |-> NoCache]

(* The slots of a new container *)
Inside(job) ==
  [slots |-> OneSlot(job.res, job.start, End(job) - Security), cache |-> NoCache]

(* assign_resources_mld_job_split_slots, then what becomes of a container. *)
(* A container without a place ends the program, as does a job that waits  *)
(* for others if no slot begins after them.                                *)
Assign(j, s, rqts, deps, container) ==
  LET slots == sets[s].slots
      min   == MinStart(deps)
      first == [k \in DOMAIN rqts |-> FirstSlot(sets[s], rqts[k], min)]
      found == [k \in DOMAIN rqts |-> FindFrom(slots, first[k], rqts[k])]
      suits == {k \in DOMAIN rqts : found[k][1] # 0}
      finish == [k \in suits |-> slots[found[k][1]].b + rqts[k].walltime]
  IN  \/ /\ suits = {}
         /\ Treated(j, NotPlanned(s))
         /\ raised' = IF \E k \in DOMAIN rqts : first[k] = 0 THEN "slots"
                      ELSE IF container THEN "walltime" ELSE "none"
         /\ UNCHANGED <<sets, booked>>
      \/ \E k \in suits :
           /\ \A i \in suits : finish[k] < finish[i] \/ (finish[k] = finish[i] /\ k <= i)
           /\ \E res \in Solutions(Available(slots, found[k][1], found[k][2]), rqts[k]) :
                LET job == [start |-> slots[found[k][1]].b, walltime |-> rqts[k].walltime,
                            res |-> res, set |-> s, deps |-> deps]
                    split == [slots |-> Split(slots, found[k][1], found[k][2], job),
                              cache |-> NewCache(sets[s].cache, rqts, found, min)]
                IN  /\ Treated(j, job)
                    /\ sets' = [n \in DOMAIN sets \cup (IF container THEN {j} ELSE {}) |->
                                  IF n = j THEN Inside(job) ELSE IF n = s THEN split ELSE sets[n]]
           /\ UNCHANGED <<booked, raised>>

Treat(j) ==
  \/ Skip(j)
  \/ MissingDependency(j)
  \/ MissingContainer(j)
  \/ \E s \in DOMAIN sets, rqts \in Requests, deps \in SUBSET Planned, container \in BOOLEAN :
       Assign(j, s, rqts, deps, container)

Next == raised = "none" /\ \E j \in Jobs \ DOMAIN plan : Treat(j)

Spec == Init /\ [][Next]_vars

-----------------------------------------------------------------------------
(* Properties *)

Record == [start : -1..MaxTime, walltime : Nat, res : SUBSET Resources,
           set : DOMAIN sets \cup {"none"}, deps : SUBSET Jobs]

TypeOK ==
  /\ \A s \in DOMAIN sets :
       /\ sets[s].slots \in Seq(Slot)
       /\ \A r \in DOMAIN sets[s].cache : sets[s].cache[r] \in DOMAIN sets[s].slots
  /\ DOMAIN plan \subseteq Jobs
  /\ \A j \in DOMAIN plan : plan[j] \in Record
  /\ raised \in {"none", "slots", "walltime", "set"}

(* The first date of a set, and the last one *)
Span(s) ==
  CASE s = "default" -> <<Now, MaxTime>>
    [] s \in Planned -> <<plan[s].start, End(plan[s]) - Security>>
    [] OTHER         -> <<1, MaxTime>>

(* However slots are cut, they follow one another from the first date of   *)
(* the set to its last one (slot.py, split_slots).                         *)
SlotsPartitionTime == \A s \in DOMAIN sets : IsPartition(sets[s].slots, Span(s)[1], Span(s)[2])

(* The sets of slots are sound: the cache of a request names a slot that   *)
(* is there, however the list was cut since, and time has no gap.          *)
SlotsAreSound == TypeOK /\ SlotsPartitionTime

Overlap(a, b) == a.start < End(b) /\ b.start < End(a)

(* No resource of a set is given to two jobs at the same time, whether     *)
(* they are there already or come in the round (scheduling.py).            *)
NoDoubleBooking ==
  /\ Table!NoDoubleBooking
  /\ \A j \in Planned, b \in booked :
       b.inner = plan[j].set /\ Overlap(plan[j], b) => plan[j].res \cap b.res = {}

(* An inner job has its place in its container, in time as in resources,   *)
(* be the container new or there already (schedule_id_jobs_ct and          *)
(* docs/user/mechanisms.rst, Container jobs).                              *)
InnerWithinContainer ==
  /\ Table!InnerWithinContainer
  /\ \A j \in Planned, c \in booked : c.id = plan[j].set =>
       /\ plan[j].res \subseteq c.res
       /\ c.start <= plan[j].start /\ End(plan[j]) <= End(c)

(* A job begins when those it waits for are over, has the first place      *)
(* where its request fits, and no place only if there is none: neither the *)
(* cuts, nor the list, nor the cache of the last place of a request loses  *)
(* an opportunity.                                                         *)
ImplementsTimetable == Table!Spec

=============================================================================
