----------------------------- MODULE Submission -----------------------------
(***************************************************************************)
(* How jobs come into the database and leave it for the scheduler          *)
(* (src/oar/lib/submission.py, src/oar/cli/oarsub.py, resubmit_job in      *)
(* src/oar/lib/job_handling.py). An oarsub inserts a job, or an array of   *)
(* jobs, in several transactions: with one key for each job, job by job;   *)
(* without keys, table by table. Other oarsub, the users' oardel, oarresume*)
(* and oarsub --resubmit, the automatic resubmission, and the rounds of    *)
(* the metascheduler come in between, and an oarsub may be killed.         *)
(*                                                                         *)
(* A round plans a job as soon as what it awaits is over (there is always  *)
(* a place), in the order of the ids. Left out: what the rows say, the     *)
(* admission rules (they may refuse any request), advance reservations     *)
(* (MetaSched) and what happens to a job that runs (JobLifecycle).         *)
(***************************************************************************)
EXTENDS Integers, FiniteSets, Sequences, SequencesExt

CONSTANTS
  Submitters,  \* the oarsub processes
  Requests,    \* what each may ask: [n, keyed, hold, interactive, moldable, after]
  EventTypes,  \* what may make a failed launch resubmit the job
  Meddling,    \* BOOLEAN: users act on jobs whose submission is not over
  MaxJobs      \* bound: rows of the table jobs

Ids == 1..MaxJobs

ASSUME BoundAssumption == MaxJobs \in Nat \ {0}
ASSUME RequestsAssumption ==
  \A p \in Submitters : \A r \in Requests[p] : r.n \in 1..MaxJobs /\ r.after \subseteq Ids
ASSUME MeddlingAssumption == Meddling \in BOOLEAN

VARIABLES
  jobs,    \* the table jobs, from 1; ghosts: wants, the jobs it was asked to await,
           \* root, the job it is a copy of, or itself, forced, let go before complete
  needs,   \* job_dependencies: <<job, job required>>
  events,  \* the events to check: <<job, type>>
  sub,     \* each oarsub: [at, asked, array, ids], ids are those it knows
  round    \* the metascheduler: [at, waiting, fit]

vars == <<jobs, needs, events, sub, round>>

(* An oarsub that has written nothing, or is over *)
At(label) == [at |-> label, asked |-> "none", array |-> 0, ids |-> <<>>]

Init ==
  /\ jobs = <<>>
  /\ needs = {}
  /\ events = {}
  /\ sub = [p \in Submitters |-> At("begin")]
  /\ round = [at |-> "rest", waiting |-> {}, fit |-> {}]

-----------------------------------------------------------------------------
(* Rows *)

Tables == {"challenge", "moldable", "group", "description", "type", "log"}

(* What get_data_jobs joins, and a launch needs *)
Parts == {"challenge", "moldable", "group", "description"}

NewRow(p, id, array, index) ==
  [state |-> "Hold", array |-> array, index |-> index, passive |-> ~sub[p].asked.interactive,
   rows |-> {}, wants |-> sub[p].asked.after, root |-> id, forced |-> FALSE]

Described(j) == Parts \subseteq jobs[j].rows

(* The table with one more row in some tables, for some jobs *)
With(ids, tables) ==
  [j \in DOMAIN jobs |-> IF j \in ids THEN [jobs[j] EXCEPT !.rows = @ \cup tables] ELSE jobs[j]]

(* UPDATE jobs SET state, whatever the state was *)
WithState(ids, state) ==
  [j \in DOMAIN jobs |-> IF j \in ids THEN [jobs[j] EXCEPT !.state = state] ELSE jobs[j]]

OfArray(array) == {j \in DOMAIN jobs : jobs[j].array = array}

Goto(p, label) == sub' = [sub EXCEPT ![p].at = label]

-----------------------------------------------------------------------------
(* oarsub: what is checked before any row is written *)

(* Neither check_parameters nor oarsub take an array that is interactive *)
Incoherent(r) == r.interactive /\ r.n > 1

(* What making or reading a key gives, and what the estimate of the        *)
(* resources gives, which looks at them anew for each job                  *)
KeyResults(r) == IF r.keyed THEN {"ok", "failed"} ELSE {"ok"}
EstimateResults == {"ok", "failed"}

(* oarsub reads a request. The rules, the queue, the estimate or the key   *)
(* may refuse it; an array without keys cannot be moldable.                *)
Ask(p) ==
  /\ sub[p].at = "begin"
  /\ \E r \in Requests[p] :
       /\ r.after \subseteq DOMAIN jobs
       /\ \/ sub' = [sub EXCEPT ![p] = At("refused")]
          \/ /\ ~Incoherent(r) /\ (r.n = 1 \/ r.keyed)
             /\ sub' = [sub EXCEPT ![p].asked = r, ![p].at = "subjob"]
          \/ /\ ~Incoherent(r) /\ r.n > 1 /\ ~r.keyed /\ ~r.moldable
             /\ sub' = [sub EXCEPT ![p].asked = r, ![p].at = "first"]
  /\ UNCHANGED <<jobs, needs, events, round>>

-----------------------------------------------------------------------------
(* add_micheline_subjob: a job alone, or each job of an array with keys *)

Asked(p) == sub[p].asked

AfterSubjob(p) ==
  IF Len(sub[p].ids) = Asked(p).n THEN "print" ELSE "subjob"

(* The first job has its row, and its own id as array_id, in a transaction *)
(* of its own; for the next ones it comes with the rest.                   *)
InsertFirstSubjob(p) ==
  /\ sub[p].at = "subjob" /\ sub[p].ids = <<>>
  /\ Len(jobs) < MaxJobs
  /\ LET id == Len(jobs) + 1
     IN  /\ jobs' = Append(jobs, NewRow(p, id, id, 1))
         /\ sub' = [sub EXCEPT ![p].at = "fill", ![p].array = id, ![p].ids = <<id>>]
  /\ UNCHANGED <<needs, events, round>>

(* Challenge, resources, types, dependencies and log of the job *)
FillFirstSubjob(p) ==
  /\ sub[p].at = "fill"
  /\ jobs' = With({Last(sub[p].ids)}, Tables)
  /\ needs' = needs \cup ({Last(sub[p].ids)} \X Asked(p).after)
  /\ Goto(p, IF Asked(p).hold THEN AfterSubjob(p) ELSE "release")
  /\ UNCHANGED <<events, round>>

InsertNextSubjob(p) ==
  /\ sub[p].at = "subjob" /\ sub[p].ids # <<>>
  /\ Len(jobs) < MaxJobs
  /\ LET id  == Len(jobs) + 1
         ids == Append(sub[p].ids, id)
     IN  /\ jobs' = Append(jobs, [NewRow(p, id, sub[p].array, Len(ids)) EXCEPT !.rows = Tables])
         /\ needs' = needs \cup ({id} \X Asked(p).after)
         /\ sub' = [sub EXCEPT ![p].ids = ids,
                               ![p].at = IF ~Asked(p).hold THEN "release"
                                         ELSE IF Len(ids) = Asked(p).n THEN "print"
                                         ELSE "subjob"]
  /\ UNCHANGED <<events, round>>

(* Mutant of ReleaseSubjob: the job is left on hold *)
ReleaseSubjobNot(p) ==
  /\ sub[p].at = "release"
  /\ Goto(p, AfterSubjob(p))
  /\ UNCHANGED <<jobs, needs, events, round>>

ReleaseSubjob(p) ==
  /\ sub[p].at = "release"
  /\ jobs' = WithState({Last(sub[p].ids)}, "Waiting")
  /\ Goto(p, AfterSubjob(p))
  /\ UNCHANGED <<needs, events, round>>

(* The key or the estimate of a later job fails: the others remain, and    *)
(* oarsub prints an error.                                                 *)
GiveUp(p) ==
  /\ sub[p].at = "subjob" /\ sub[p].ids # <<>>
  /\ \E key \in KeyResults(Asked(p)), estimate \in EstimateResults : "failed" \in {key, estimate}
  /\ sub' = [sub EXCEPT ![p] = At("refused")]
  /\ UNCHANGED <<jobs, needs, events, round>>

-----------------------------------------------------------------------------
(* add_micheline_simple_array_job: an array without keys *)

InsertFirst(p) ==
  /\ sub[p].at = "first"
  /\ Len(jobs) < MaxJobs
  /\ LET id == Len(jobs) + 1
     IN  /\ jobs' = Append(jobs, NewRow(p, id, id, 1))
         /\ sub' = [sub EXCEPT ![p].at = "others", ![p].array = id]
  /\ UNCHANGED <<needs, events, round>>

InsertOthers(p) ==
  /\ sub[p].at = "others"
  /\ Len(jobs) + Asked(p).n - 1 <= MaxJobs
  /\ jobs' = jobs \o [i \in 1..(Asked(p).n - 1) |-> NewRow(p, Len(jobs) + i, sub[p].array, i + 1)]
  /\ Goto(p, "moldables")
  /\ UNCHANGED <<needs, events, round>>

(* The ids are those of the array. A job of the array that has a challenge *)
(* already, a copy, ends the program.                                      *)
InsertMoldables(p) ==
  LET ids == OfArray(sub[p].array)
  IN  /\ sub[p].at = "moldables"
      /\ \/ /\ \A j \in ids : "challenge" \notin jobs[j].rows
            /\ jobs' = With(ids, {"challenge", "moldable"})
            /\ sub' = [sub EXCEPT ![p].at = "groups", ![p].ids = SetToSeq(ids)]
         \/ /\ \E j \in ids : "challenge" \in jobs[j].rows
            /\ sub' = [sub EXCEPT ![p] = At("gone")]
            /\ UNCHANGED jobs
      /\ UNCHANGED <<needs, events, round>>

(* Three tables, one after the other, in as many transactions *)
NextTable == [groups |-> "group", descriptions |-> "description", types |-> "type"]

(* Mutant of AfterTable: the descriptions are forgotten *)
AfterTableShort == [groups |-> "types", descriptions |-> "types", types |-> "needs"]

AfterTable == [groups |-> "descriptions", descriptions |-> "types", types |-> "needs"]

InsertTable(p) ==
  /\ sub[p].at \in DOMAIN NextTable
  /\ jobs' = With(ToSet(sub[p].ids), {NextTable[sub[p].at]})
  /\ Goto(p, AfterTable[sub[p].at])
  /\ UNCHANGED <<needs, events, round>>

InsertNeeds(p) ==
  /\ sub[p].at = "needs"
  /\ needs' = needs \cup (ToSet(sub[p].ids) \X Asked(p).after)
  /\ Goto(p, IF Asked(p).hold THEN "logs" ELSE "state")
  /\ UNCHANGED <<jobs, events, round>>

(* All the jobs of the array, whatever their states *)
ReleaseArray(p) ==
  /\ sub[p].at = "state"
  /\ jobs' = WithState(OfArray(sub[p].array), "Waiting")
  /\ Goto(p, "logs")
  /\ UNCHANGED <<needs, events, round>>

InsertLogs(p) ==
  /\ sub[p].at = "logs"
  /\ jobs' = With(ToSet(sub[p].ids), {"log"})
  /\ Goto(p, "print")
  /\ UNCHANGED <<needs, events, round>>

-----------------------------------------------------------------------------
(* The end of oarsub *)

(* The ids are printed, and Almighty told *)
PrintIds(p) ==
  /\ sub[p].at = "print"
  /\ Goto(p, "told")
  /\ UNCHANGED <<jobs, needs, events, round>>

Over == {"begin", "refused", "told", "gone"}

(* It is killed between two transactions *)
Die(p) ==
  /\ sub[p].at \notin Over
  /\ sub' = [sub EXCEPT ![p] = At("gone")]
  /\ UNCHANGED <<jobs, needs, events, round>>

-----------------------------------------------------------------------------
(* Users *)

Submitting(j) == \E p \in Submitters : sub[p].at \notin Over /\ sub[p].array = jobs[j].array

(* Its submission goes on, or was cut *)
Incomplete(j) == jobs[j].rows # Tables \/ Submitting(j)

(* oardel, and Leon *)
Delete(j) ==
  /\ Meddling \/ ~Submitting(j)
  /\ jobs[j].state \in {"Hold", "Waiting"}
  /\ jobs' = WithState({j}, "Error")
  /\ UNCHANGED <<needs, events, sub, round>>

(* oarresume, and NodeChangeState *)
Resume(j) ==
  /\ Meddling \/ ~Submitting(j)
  /\ jobs[j].state = "Hold"
  /\ jobs' = [WithState({j}, "Waiting") EXCEPT ![j].forced = @ \/ Incomplete(j)]
  /\ UNCHANGED <<needs, events, sub, round>>

(* What awaits the job awaits its copy *)
Redirected(old, new) ==
  {d \in needs : d[2] # old} \cup ({d[1] : d \in {e \in needs : e[2] = old}} \X {new})

(* resubmit_job: a new row with the same fields, what describes the job    *)
(* and its types. What it awaited is not copied.                           *)
Copy(j) ==
  LET new == Len(jobs) + 1
  IN  /\ new <= MaxJobs
      /\ jobs[j].passive
      /\ jobs[j].state \in {"Error", "Terminated"}
      /\ jobs' = Append(jobs, [jobs[j] EXCEPT !.state = "Waiting",
                                 !.rows = @ \cup {"challenge", "type", "log"},
                                 !.forced = @ \/ Incomplete(j)])
      /\ needs' = Redirected(j, new)

(* oarsub --resubmit *)
ResubmitByHand(j) ==
  /\ Meddling \/ ~Submitting(j)
  /\ Copy(j)
  /\ UNCHANGED <<events, sub, round>>

(* NodeChangeState, for each event to check: is_job_already_resubmitted    *)
(* reads a column that nothing writes.                                     *)
ResubmitForEvent(j, type) ==
  /\ <<j, type>> \in events
  /\ jobs[j].state = "Error"
  /\ events' = events \ {<<j, type>>}
  /\ \/ Copy(j)
     \/ /\ ~jobs[j].passive
        /\ UNCHANGED <<jobs, needs>>
  /\ UNCHANGED <<sub, round>>

-----------------------------------------------------------------------------
(* The metascheduler *)

ReadWaiting ==
  /\ round.at = "rest"
  /\ round' = [at |-> "read", waiting |-> {j \in DOMAIN jobs : jobs[j].state = "Waiting"}, fit |-> {}]
  /\ UNCHANGED <<jobs, needs, events, sub>>

NeedsOf(j) == {d[2] : d \in {e \in needs : e[1] = j}}

(* A job that it cannot wait for: over without success, or not waiting yet *)
Hopeless(k, waiting) ==
  jobs[k].state # "Terminated" /\ ~(jobs[k].state = "Waiting" /\ k \in waiting)

Skipped(j, waiting) == \E k \in NeedsOf(j) : Hopeless(k, waiting)

(* What the round has not planned when it comes to j *)
Unplanned(j, waiting) ==
  {k \in NeedsOf(j) : jobs[k].state = "Waiting" /\ k \in waiting
                        /\ (k > j \/ Skipped(k, waiting))}

(* The program ends: a job has no description, or waits for one that has   *)
(* no walltime because it is treated later, or was skipped.                *)
Raises(waiting) ==
  \/ \E j \in waiting : ~Described(j)
  \/ \E j \in waiting : ~Skipped(j, waiting) /\ Unplanned(j, waiting) # {}

(* The dependencies are looked at in any order: one that must be skipped   *)
(* for one of them may come to another first.                              *)
MayRaise(waiting) == \E j \in waiting : Unplanned(j, waiting) # {}

(* Mutant of Fit: the states of the jobs that are awaited do not matter *)
FitAny(waiting) == waiting

(* The jobs that may begin now *)
Fit(waiting) == {j \in waiting : \A k \in NeedsOf(j) : jobs[k].state = "Terminated"}

(* get_data_jobs and schedule_id_jobs_ct *)
PlanRound ==
  /\ round.at = "read"
  /\ \/ /\ Raises(round.waiting) \/ MayRaise(round.waiting)
        /\ round' = [at |-> "rest", waiting |-> {}, fit |-> {}]
     \/ /\ ~Raises(round.waiting)
        /\ round' = [at |-> "planned", waiting |-> {}, fit |-> Fit(round.waiting)]
  /\ UNCHANGED <<jobs, needs, events, sub>>

(* handle_jobs_to_launch takes those that wait still; they are launched    *)
(* together, as no job launched is in the way of another here.             *)
Launch ==
  /\ round.at = "planned"
  /\ jobs' = WithState({j \in round.fit : jobs[j].state = "Waiting"}, "Running")
  /\ round' = [at |-> "rest", waiting |-> {}, fit |-> {}]
  /\ UNCHANGED <<needs, events, sub>>

(* The job has ended, with exit code 0 or not ("Error" stands for both ways*)
(* to fail), or its launch has failed.                                     *)
Finish(j) ==
  /\ jobs[j].state = "Running"
  /\ \/ /\ \E state \in {"Terminated", "Error"} : jobs' = WithState({j}, state)
        /\ UNCHANGED events
     \/ /\ jobs' = WithState({j}, "Error")
        /\ \E types \in SUBSET EventTypes \ {{}} : events' = events \cup ({j} \X types)
  /\ UNCHANGED <<needs, sub, round>>

-----------------------------------------------------------------------------
(* The specification *)

Submit(p) ==
  \/ Ask(p)
  \/ InsertFirstSubjob(p) \/ FillFirstSubjob(p) \/ InsertNextSubjob(p)
  \/ ReleaseSubjob(p) \/ GiveUp(p)
  \/ InsertFirst(p) \/ InsertOthers(p) \/ InsertMoldables(p) \/ InsertTable(p)
  \/ InsertNeeds(p) \/ ReleaseArray(p) \/ InsertLogs(p)
  \/ PrintIds(p)

Users(j) == Delete(j) \/ Resume(j) \/ ResubmitByHand(j)

NodeChangeState == \E j \in DOMAIN jobs, type \in EventTypes : ResubmitForEvent(j, type)

Schedule == ReadWaiting \/ PlanRound \/ Launch

Next ==
  \/ \E p \in Submitters : Submit(p) \/ Die(p)
  \/ \E j \in DOMAIN jobs : Users(j) \/ Finish(j)
  \/ NodeChangeState
  \/ Schedule

Spec == Init /\ [][Next]_vars

(* Almighty runs the metascheduler and NodeChangeState again and again.    *)
(* Nothing makes users act, or an oarsub live.                             *)
FairSpec == Spec /\ WF_vars(Schedule) /\ WF_vars(NodeChangeState)
                 /\ \A j \in Ids : WF_vars(j \in DOMAIN jobs /\ Finish(j))

-----------------------------------------------------------------------------
(* Properties *)

Job == [state : {"Hold", "Waiting", "Running", "Terminated", "Error"},
        array : Ids, index : Ids, passive : BOOLEAN, rows : SUBSET Tables,
        wants : SUBSET Ids, root : Ids, forced : BOOLEAN]

JobDependencie == (DOMAIN jobs) \X (DOMAIN jobs)

TypeOK ==
  /\ jobs \in Seq(Job)
  /\ Len(jobs) <= MaxJobs
  /\ needs \subseteq JobDependencie
  /\ events \subseteq (DOMAIN jobs) \X EventTypes
  /\ \A p \in Submitters : ToSet(sub[p].ids) \subseteq DOMAIN jobs
  /\ round.waiting \cup round.fit \subseteq DOMAIN jobs

(* However the transactions of oarsub are interleaved or cut, the          *)
(* scheduler finds all the rows that describe a job that waits, unless a   *)
(* user has let it go before they were there (submission.py).              *)
WaitingIsDescribed ==
  \A j \in DOMAIN jobs :
    jobs[j].state \in {"Waiting", "Running"} => Described(j) \/ jobs[j].forced

SameJob(j, k) == jobs[j].root = jobs[k].root

(* A job begins only when each job that it was asked to await, or a copy   *)
(* of it, has ended with exit code 0 (docs/user/mechanisms.rst, Job        *)
(* dependencies; resubmit_job, schedule_id_jobs_ct). Not so for copies: the*)
(* dependencies of a job are not copied.                                   *)
StartsAfterWhatItAwaits ==
  [][\A j \in DOMAIN jobs :
       /\ jobs[j].state = "Waiting" /\ jobs'[j].state = "Running"
       /\ jobs[j].root = j /\ ~jobs[j].forced
       => \A k \in jobs[j].wants :
            \E c \in DOMAIN jobs :
              SameJob(c, k) /\ (jobs[c].state = "Terminated" \/ jobs[c].forced)]_vars

(* When oarsub has printed the ids of its jobs, they are as many as asked, *)
(* numbered from 1, in one array, with all their rows, and none is on hold *)
(* but for --hold (add_micheline_jobs, oarsub.py).                         *)
PrintedIsComplete ==
  \A p \in Submitters : sub[p].at = "told" =>
    LET ids == ToSet(sub[p].ids)
    IN  /\ Cardinality(ids) = Asked(p).n
        /\ {jobs[j].index : j \in ids} = 1..Asked(p).n
        /\ \A j \in ids :
             /\ jobs[j].array = sub[p].array
             /\ jobs[j].rows = Tables
             /\ jobs[j].state = "Hold" => Asked(p).hold

(* The rows of the jobs are complete when somebody relies on them: the     *)
(* scheduler on those of a job that waits, the user on the ids printed.    *)
RowsAreComplete == TypeOK /\ WaitingIsDescribed /\ PrintedIsComplete

WaitingJobs == {j \in DOMAIN jobs : jobs[j].state = "Waiting"}

(* What may keep a job waiting for ever: a round that raises, or a job     *)
(* awaited that has failed or is on hold.                                  *)
Blocked(j) ==
  \/ Raises(WaitingJobs) \/ MayRaise(WaitingJobs)
  \/ \E k \in NeedsOf(j) : jobs[k].state \in {"Error", "Hold"}

(* A job that oarsub has printed leaves the state Waiting, whatever other  *)
(* submissions were cut, and whoever else submits, unless it is blocked    *)
(* (oarsub.py, kamelot.py).                                                *)
SubmittedIsTreated ==
  \A j \in Ids :
    (\E p \in Submitters : sub[p].at = "told" /\ ~Asked(p).hold /\ j \in ToSet(sub[p].ids))
      ~> (j \in DOMAIN jobs /\ (jobs[j].state \notin {"Hold", "Waiting"} \/ Blocked(j)))

=============================================================================
