---------------------------- MODULE QuotasRound ----------------------------
(***************************************************************************)
(* One round of a scheduler with quotas (src/oar/kao/quotas.py, with the   *)
(* parts of slot.py and scheduling.py that only matter then): the data of  *)
(* the waiting jobs, the slots cut by the calendar, the job that is there  *)
(* already, then the waiting jobs one after the other, each at the first   *)
(* place where its resources are free and the quotas permit it.            *)
(*                                                                         *)
(* A slot has the id of the rules of the calendar (rid, -1 when it has not *)
(* been cut yet), the rules it is checked against (0 the default ones) and *)
(* its counters, kept here as the jobs that have been counted. Resources   *)
(* are all of type default.                                                *)
(*                                                                         *)
(* Left out: dependencies, containers and timesharing (SchedulingRound has *)
(* the first two); the jobs are treated by ids (no JOB_PRIORITY).          *)
(***************************************************************************)
EXTENDS SlotSets, JobData, Calendars

CONSTANTS
  Now,        \* the date of the round
  Window,     \* QUOTAS_WINDOW_TIME_LIMIT
  JobTypes,   \* Quotas.job_types but "*"
  Levels,     \* the hierarchy: for the name of a level, its blocks
  Scenarios   \* conf, the configuration (mode, rules, quotas the default rules, and
              \* calendar, periodical, oneshot and default); kinds, what has been
              \* submitted, in the order of the ids; running, the job that is there;
              \* suspected, how many resources there are but Resources and Dead ones

ASSUME NowAssumption == Now \in 0..MaxTime

ASSUME LevelsAssumption == \A name \in DOMAIN Levels : Levels[name] \in Seq(SUBSET Resources)

(* What is submitted, as its tables have it: the levels of a group with    *)
(* their numbers, and the groups of an alternative; none is empty here.    *)
JobResourceDescription == [level : DOMAIN Levels, nb : Nat \ {0}]
JobResourceGroup == [levels : Seq(JobResourceDescription) \ {<<>>}, from : SUBSET Resources]
MoldableJobDescription == [walltime : Nat \ {0}, groups : Seq(JobResourceGroup) \ {<<>>}]

ASSUME ScenariosAssumption ==
  \A s \in Scenarios : \A j \in DOMAIN s.kinds :
    s.kinds[j].description \in Seq(MoldableJobDescription) \ {<<>>}

INSTANCE Hierarchies

VARIABLES
  scenario,
  quotas,   \* default, Quotas.default_rules, and list, those of the calendar
  jobs,     \* the jobs, 0 the one that is there already
  slots,
  cal,      \* the calendar, between two questions
  cache,    \* for a request, where a job has had its place
  plan      \* start, walltime and res of the jobs treated; until, the last date of
            \* the slots that have been cut for it

vars == <<scenario, quotas, jobs, slots, cal, cache, plan>>

Ids == DOMAIN jobs \ {0}

conf == scenario.conf

calendar == Calendar(conf)

(* The rules of a set_rules: without calendar the slot keeps the default   *)
(* ones, and -1 is the last of the list.                                   *)
SetRules(rid) == IF ~conf.calendar THEN 0 ELSE IF rid = -1 THEN Len(conf.rules) ELSE rid

Rules(slot) == IF slot.rules = 0 THEN quotas.default ELSE quotas.list[slot.rules]

(* ResourceSet.nb_resources_default_not_dead and nb_resources_default; the *)
(* second is set to 1 by each resource (= +1)                              *)
NbResourcesDefaultNotDead == Cardinality(Resources) + scenario.suspected

NbResourcesDefault == 1

(* enable: what ALL stands for in the default rules *)
AllValue == IF conf.mode = "default_not_dead" THEN NbResourcesDefaultNotDead
            ELSE NbResourcesDefault

(* load_quotas_rules; ALL is for the default rules only *)
LoadQuotasRules ==
  [default |-> QuotasRulesFromJson(conf.quotas, AllValue),
   list |-> [k \in DOMAIN conf.rules |-> QuotasRulesFromJson(conf.rules[k], 0)]]

-----------------------------------------------------------------------------
(* The slots *)

(* Slot() *)
NewSlot(next, b, e, itvs) ==
  [next |-> next, b |-> b, e |-> e, itvs |-> itvs, rid |-> -1, rules |-> 0, counted |-> {}]

(* Mutant of CutSlot: the second part begins one second late *)
CutSlotLate(st, sid) ==
  LET slot == st.slots[sid]
      cut  == slot.b + st.cal.remaining
  IN  Append([st.slots EXCEPT ![sid].next = Len(st.slots) + 1, ![sid].e = cut - 1,
                              ![sid].rid = st.cal.rules, ![sid].rules = SetRules(st.cal.rules)],
             NewSlot(slot.next, cut + 1, slot.e, slot.itvs))

(* The counters of the second part begin at zero *)
CutSlot(st, sid) ==
  LET slot == st.slots[sid]
      cut  == slot.b + st.cal.remaining
  IN  Append([st.slots EXCEPT ![sid].next = Len(st.slots) + 1, ![sid].e = cut - 1,
                              ![sid].rid = st.cal.rules, ![sid].rules = SetRules(st.cal.rules)],
             NewSlot(slot.next, cut, slot.e, slot.itvs))

(* temporal_quotas_split_slot, slots and calendar together *)
RECURSIVE TemporalSplit(_, _, _)
TemporalSplit(st, sid, shape) ==
  LET duration == st.slots[sid].e - st.slots[sid].b + 1
      asked(cut) == [slots |-> cut, cal |-> NextRules(shape, st.cal, Last(cut).b)]
      further(new) == IF new.cal.remaining = 0 THEN new
                      ELSE TemporalSplit(new, Len(new.slots), shape)
  IN  IF duration <= st.cal.remaining
      THEN [st EXCEPT !.slots[sid].rid = st.cal.rules, !.slots[sid].rules = SetRules(st.cal.rules),
                      !.cal.remaining = @ - duration]
      ELSE further(asked(CutSlot(st, sid)))

(* split_slots for a job: it is counted in the slots during it, and the    *)
(* parts before and after it are new slots that set their rules. The slot  *)
(* that begins where the job ends has an empty part during it, counted too.*)
Place(old, new, path, job, id) ==
  LET cut == path \cup (DOMAIN new \ DOMAIN old)
      taken == {i \in cut :
                  \E sid \in path : /\ new[i].b = Max({old[sid].b, job.start})
                                    /\ new[i].e = Min({old[sid].e, End(job) - 1})}
      others == cut \ taken
  IN  [i \in DOMAIN new |->
         IF i \in taken THEN [new[i] EXCEPT !.counted = @ \cup {id}]
         ELSE IF i \in others THEN [new[i] EXCEPT !.rules = SetRules(new[i].rid)]
         ELSE new[i]]

-----------------------------------------------------------------------------
(* The quotas *)

(* update: the counters a job is added to *)
Keys(job) ==
  [queue : {"*", job.queue}, project : {"*", job.project},
   type : {"*"} \cup (JobTypes \cap job.types), user : {"*", job.user}]

Total(ids, amount) == FoldSet(LAMBDA j, sum : sum + amount[j], 0, ids)

(* The fields of a rule and of a counter, for a job; "/" is for any counter *)
Matches(rule, key, job) ==
  /\ rule.queue = "/" \/ (rule.queue = key.queue /\ key.queue \in {"*", job.queue})
  /\ rule.project = "/" \/ (rule.project = key.project /\ key.project \in {"*", job.project})
  /\ rule.type = key.type /\ key.type \in {"*"} \cup job.types
  /\ rule.user = "/" \/ (rule.user = key.user /\ key.user \in {"*", job.user})

Above(limit, count) == limit > -1 /\ limit < count

(* combine: the greatest of the counters of the slots *)
Combine(counted, key, amount) ==
  Max({Total({j \in counted[k] : key \in Keys(jobs[j])}, amount) : k \in DOMAIN counted})

(* combine: the works of all slots are added *)
CombineWork(counted, key, amount) ==
  LET sum[k \in 0..Len(counted)] ==
        IF k = 0 THEN 0
        ELSE sum[k - 1] + Total({j \in counted[k] : key \in Keys(jobs[j])}, amount)
  IN  sum[Len(counted)]

(* check_slots_quotas and check, for a job with nb resources *)
Permitted(ss, left, right, job, nb, walltime) ==
  LET path == Path(ss, left, right)
      counted == [k \in DOMAIN path |-> ss[path[k]].counted]
      present == UNION Range(counted)
      keys == Keys(job) \cup UNION {Keys(jobs[j]) : j \in present}
      own(key, n) == IF key \in Keys(job) THEN n ELSE 0
      res == [j \in present |-> Cardinality(plan[j].res)]
      one == [j \in present |-> 1]
      work == [j \in present |-> Cardinality(plan[j].res) * plan[j].walltime]
      refused(rule, key) ==
        /\ Matches(rule, key, job)
        /\ \/ Above(rule.res, Combine(counted, key, res) + own(key, nb))
           \/ Above(rule.jobs, Combine(counted, key, one) + own(key, 1))
           \/ Above(rule.work, CombineWork(counted, key, work) + own(key, nb * walltime))
  IN  /\ \A k \in 1..(Len(path) - 1) : ss[path[k]].rid = ss[path[k + 1]].rid
      /\ \A rule \in Rules(ss[left]), key \in keys : ~refused(rule, key)

-----------------------------------------------------------------------------
(* find_first_suitable_contiguous_slots: the search is a record [slots,    *)
(* cal, left, right, e, refused]; left is 0 when it fails.                 *)

(* The slots are long enough, without calendar *)
Wide(st, rqt) ==
  LET right == Follow(st.slots, st.right,
                      {i \in DOMAIN st.slots :
                         st.slots[i].e - st.slots[st.left].b + 1 >= rqt.walltime})
  IN  IF right = 0 THEN [st EXCEPT !.left = 0]
      ELSE [st EXCEPT !.right = right, !.e = st.slots[right].e]

(* The slot at the right has no rules yet: the calendar cuts it *)
SliceIfNeeded(st, shape) ==
  IF st.slots[st.right].rid # -1 THEN st
  ELSE LET sliced == TemporalSplit([slots |-> st.slots,
                                    cal |-> RulesAt(shape, st.slots[st.right].b)],
                                   st.right, shape)
       IN  [st EXCEPT !.slots = sliced.slots, !.cal = sliced.cal]

(* With a calendar, left moves to the slot at the right when their rules   *)
(* differ; b stays what it was for the slot at the left when it began.     *)
RECURSIVE WideByRules(_, _, _, _)
WideByRules(st, b, rqt, shape) ==
  LET same(sliced, next) == sliced.slots[st.left].rid = sliced.slots[next].rid
      further(sliced, next) ==
        IF next = 0 THEN [sliced EXCEPT !.left = 0]
        ELSE WideByRules([sliced EXCEPT !.right = next, !.e = sliced.slots[next].e,
                                        !.left = IF same(sliced, next) THEN @ ELSE next],
                         b, rqt, shape)
      after(sliced) == further(sliced, sliced.slots[st.right].next)
  IN  IF st.e - b + 1 >= rqt.walltime THEN st
      ELSE IF st.e > b + Window THEN [st EXCEPT !.left = 0]
      ELSE after(SliceIfNeeded(st, shape))

RECURSIVE Search(_, _, _, _)
Search(st, job, rqt, shape) ==
  LET wide == IF conf.calendar /\ ~job.noQuotas
              THEN WideByRules(st, st.slots[st.left].b, rqt, shape) ELSE Wide(st, rqt)
      permitted(w, res) ==
        job.noQuotas \/ Permitted(w.slots, w.left, w.right, job, Cardinality(res), rqt.walltime)
      tried(w, res) ==
        IF res # {} /\ permitted(w, res) THEN [w EXCEPT !.res = res]
        ELSE Search([w EXCEPT !.left = w.slots[w.left].next, !.refused = @ \/ res # {}],
                    job, rqt, shape)
      result(w) ==
        IF w.left = 0 THEN w
        ELSE tried(w, FindResources(Available(w.slots, w.left, w.right), rqt.groups))
  IN  IF st.left = 0 \/ st.right = 0 THEN [st EXCEPT !.left = 0] ELSE result(wide)

(* Mutant of Remember: a place that a quota has put off is remembered *)
RememberRefused(old, key, found) == IF found.left = 0 THEN old ELSE (key :> found.left) @@ old

(* The place is remembered for the next job with this request, but if a    *)
(* quota has put it off.                                                   *)
Remember(old, key, found) ==
  IF found.left = 0 \/ found.refused THEN old ELSE (key :> found.left) @@ old

(* What has been found before, and a place found for the alternative rqt *)
WithFound(st, rqt, found) ==
  LET start == found.slots[found.left].b
      place == [start |-> start, walltime |-> rqt.walltime, res |-> found.res,
                left |-> found.left, right |-> found.right]
  IN  [slots |-> found.slots, cal |-> found.cal,
       cache |-> Remember(st.cache, CacheKey(rqt), found),
       best |-> IF found.left # 0 /\ (st.best.left = 0 \/ start + rqt.walltime < End(st.best))
                THEN place ELSE st.best]

TryMoldable(st, job, rqt, shape) ==
  LET key   == CacheKey(rqt)
      first == IF key \in DOMAIN st.cache THEN st.cache[key] ELSE 1
  IN  WithFound(st, rqt,
                Search([slots |-> st.slots, cal |-> st.cal, left |-> first, right |-> first,
                        e |-> st.slots[first].e, refused |-> FALSE, res |-> {}], job, rqt, shape))

NoCal == [op |-> 1, end |-> 0, rules |-> 0, remaining |-> 0]

NotFound == [start |-> -1, walltime |-> 0, res |-> {}, left |-> 0, right |-> 0]

-----------------------------------------------------------------------------
Init ==
  /\ scenario \in Scenarios
  /\ quotas = [default |-> {}, list |-> <<>>]
  /\ jobs = <<>> /\ slots = <<>> /\ cal = NoCal /\ cache = <<>> /\ plan = <<>>

(* schedule_cycle: the slots, the calendar and the job that runs *)
CutSlots ==
  LET whole == <<NewSlot(0, Now, MaxTime, Resources)>>
  IN  IF conf.calendar
      THEN TemporalSplit([slots |-> whole, cal |-> RulesAt(calendar, Now)], 1, calendar)
      ELSE [slots |-> whole, cal |-> NoCal]

(* get_scheduled_jobs: the job that runs, if there is one. The security    *)
(* time is added to its walltime.                                          *)
Scheduled ==
  [id \in DOMAIN scenario.running |->
     LET walltime == scenario.running[id].place.walltime + Security
     IN  [scenario.running[id] EXCEPT
            !.place = [start |-> @.start, walltime |-> walltime, res |-> @.res,
                       until |-> @.start + walltime - 1]]]

(* split_slots_jobs: the last slot is the first that goes on to the end of *)
(* the job, so that one that begins there is cut as well.                  *)
WithRunning(old) ==
  LET job == Scheduled[0].place
      during == {i \in DOMAIN old : old[i].b <= End(job) /\ old[i].e >= job.start}
  IN  IF DOMAIN Scheduled = {} THEN old
      ELSE Place(old, SplitSlotsJobs(old, <<job>>, TRUE).slots, during, job, 0)

BeginWith(cut) ==
  /\ cal' = cut.cal
  /\ slots' = WithRunning(cut.slots)

(* The rules (Quotas.enable), then the slots *)
Begin ==
  /\ slots = <<>>
  /\ quotas' = LoadQuotasRules
  /\ jobs' = DataJobs(scenario.kinds) @@ [id \in DOMAIN Scheduled |-> Scheduled[id].job]
  /\ plan' = [id \in DOMAIN Scheduled |-> Scheduled[id].place]
  /\ BeginWith(CutSlots)
  /\ UNCHANGED <<scenario, cache>>

(* The last date of its time in the slots found: they may be too short     *)
Until(ss, place) == IF place.left = 0 THEN -1 ELSE Min({End(place) - 1, ss[place.right].e})

(* assign_resources_mld_job_split_slots *)
Settle(j, end) ==
  LET job == [start |-> end.best.start, walltime |-> end.best.walltime, res |-> end.best.res,
              until |-> Until(end.slots, end.best)]
  IN  /\ plan' = (j :> job) @@ plan
      /\ cal' = end.cal
      /\ cache' = end.cache
      /\ slots' = IF end.best.left = 0 THEN end.slots
                  ELSE Place(end.slots, Split(end.slots, end.best.left, end.best.right, job),
                             Range(Path(end.slots, end.best.left, end.best.right)), job, j)

Assign(j) ==
  /\ Settle(j, FoldLeft(LAMBDA st, rqt : TryMoldable(st, jobs[j], rqt, calendar),
                        [slots |-> slots, cal |-> cal, cache |-> cache, best |-> NotFound],
                        jobs[j].rqts))
  /\ UNCHANGED <<scenario, quotas, jobs>>

Next ==
  \/ Begin
  \/ Ids \ DOMAIN plan # {} /\ Assign(Min(Ids \ DOMAIN plan))

Spec == Init /\ [][Next]_vars

-----------------------------------------------------------------------------
(* Properties *)

QuotaSlot == [next : Nat, b : Nat, e : Nat, itvs : SUBSET Resources,
              rid : {-1} \cup DOMAIN conf.rules, rules : {0} \cup DOMAIN conf.rules,
              counted : SUBSET DOMAIN jobs]

TypeOK ==
  /\ slots \in Seq(QuotaSlot)
  /\ DOMAIN plan \subseteq DOMAIN jobs
  /\ \A j \in DOMAIN plan :
       plan[j] \in [start : -1..MaxTime, walltime : Nat, res : SUBSET Resources,
                    until : -1..MaxTime]
  /\ \A key \in DOMAIN cache : cache[key] \in DOMAIN slots

(* However the calendar and the jobs cut the slots, they follow one another*)
(* from now to the end (temporal_quotas_split_slot, split_slots).          *)
SlotsPartitionTime == slots = <<>> \/ IsPartition(slots, Now, MaxTime)

Placed == {j \in DOMAIN plan : plan[j].start >= 0}

(* The jobs that the slots of a date have been cut for *)
At(t) == {j \in Placed : plan[j].start <= t /\ t <= plan[j].until}

(* The end of what the calendar has cut; then the rules are not the same *)
Ruled == IF conf.calendar THEN Now - (Now % Week) + Period ELSE MaxTime + 1

RulesOf(t) == IF conf.calendar THEN quotas.list[InForce(conf, t)] ELSE quotas.default

(* The counters that a rule is about: "/" is for each user, project...     *)
About(rule, key) ==
  /\ rule.queue = key.queue \/ (rule.queue = "/" /\ key.queue # "*")
  /\ rule.project = key.project \/ (rule.project = "/" /\ key.project # "*")
  /\ rule.type = key.type
  /\ rule.user = key.user \/ (rule.user = "/" /\ key.user # "*")

(* The rules at a date permit a job with these ones *)
PermittedAt(t, j, ids, place) ==
  \A rule \in RulesOf(t) : \A key \in {k \in Keys(jobs[j]) : About(rule, k)} :
    LET counted == {i \in ids : key \in Keys(jobs[i])}
        res == [i \in counted |-> Cardinality(place[i].res)]
        work == [i \in counted |-> Cardinality(place[i].res) * place[i].walltime]
    IN  /\ ~Above(rule.res, Total(counted, res))
        /\ ~Above(rule.jobs, Cardinality(counted))
        /\ ~Above(rule.work, Total(counted, work))

(* Whatever the cuts, the cache and the periods, the slots of a job have   *)
(* one set of rules, and at none of their seconds is the job above a rule  *)
(* of that second, with the jobs that have come before it                  *)
(* (check_slots_quotas in quotas.py, the loop of scheduling.py).           *)
QuotasAreKept ==
  \A j \in Placed \ {0} : ~jobs[j].noQuotas =>
    \A t \in plan[j].start..Min({plan[j].until, Ruled - 1}) :
      /\ RulesOf(t) = RulesOf(plan[j].start)
      /\ PermittedAt(t, j, {i \in At(t) : i <= j}, plan)

(* A job has the blocks it has asked for, in each of its groups, and       *)
(* nothing that another has in the slots they are in (get_data_jobs,       *)
(* hierarchy.py).                                                          *)
AskedIsGiven ==
  \A j \in Placed \ {0} :
    /\ \E rqt \in Range(jobs[j].rqts) :
         /\ plan[j].walltime = rqt.walltime
         /\ plan[j].res \subseteq UNION {group.from : group \in Range(rqt.groups)}
         /\ \A group \in Range(rqt.groups) : Satisfies(plan[j].res \cap group.from, group)
    /\ \A i \in Placed \ {j}, t \in plan[j].start..plan[j].until :
         i \in At(t) => plan[i].res \cap plan[j].res = {}

(* The rules change at a date: the calendar has cut there *)
RulesChange(t) == t > Now /\ RulesOf(t) # RulesOf(t - 1)

(* A job has slots for the whole of its time, but one that is put by its   *)
(* rules where they change: slot_b is still the begin of the rules before  *)
(* then (the loop of scheduling.py), and its last seconds are nobody's.    *)
OnlyChangesCutShort ==
  \A j \in Placed : plan[j].until < End(plan[j]) - 1 =>
    /\ conf.calendar /\ ~jobs[j].noQuotas
    /\ RulesChange(plan[j].start) \/ End(plan[j]) > Ruled

(* The slots and the places of a round are sound, whatever the calendar    *)
(* and the jobs have cut.                                                  *)
PlacesAreSound == TypeOK /\ SlotsPartitionTime /\ AskedIsGiven /\ OnlyChangesCutShort

(* A job could be there: resources that are free, rules that permit it and *)
(* that do not change meanwhile.                                           *)
Fits(j, rqt, t) ==
  LET time == t..(t + rqt.walltime - 1)
      free == Resources \ UNION {plan[i].res : i \in UNION {At(s) : s \in time}}
      place(res) == (j :> [start |-> t, walltime |-> rqt.walltime, res |-> res]) @@ plan
  IN  \E res \in SUBSET free :
        /\ res \subseteq UNION {group.from : group \in Range(rqt.groups)}
        /\ \A group \in Range(rqt.groups) : Satisfies(res \cap group.from, group)
        /\ \/ jobs[j].noQuotas
           \/ \A s \in time : /\ RulesOf(s) = RulesOf(t)
                               /\ PermittedAt(s, j, At(s) \cup {j}, place(res))

(* Rules that the search takes exactly: "/" is taken for the sum of all    *)
(* users as well, and the work of a job is counted in each slot it is in.  *)
Exact == \A rules \in Range(Append(quotas.list, quotas.default)) : \A rule \in rules :
           rule.work < 0 /\ "/" \notin {rule.queue, rule.project, rule.user}

(* No job waits for nothing: before its place there is none where it could *)
(* be, for none of its alternatives (scheduling.py, the loop and its cache)*)
NobodyWaitsForNothing ==
  [][Exact =>
       \A j \in Ids \cap (DOMAIN plan' \ DOMAIN plan) : \A rqt \in Range(jobs[j].rqts) :
         \A t \in Now..(Ruled - rqt.walltime) :
           plan'[j].start = -1 \/ t + rqt.walltime < End(plan'[j]) => ~Fits(j, rqt, t)]_vars

=============================================================================
