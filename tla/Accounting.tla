----------------------------- MODULE Accounting -----------------------------
(***************************************************************************)
(* oaraccounting: what the jobs asked for and used, summed by user in      *)
(* windows of time in the table accounting that karma.py reads. cron runs  *)
(* it every hour. A run reads the jobs that are over and not accounted,    *)
(* then adds their consumption window by window; it commits when it creates*)
(* a row (Accounting.create) and once at its end, so that a run which dies *)
(* leaves what its last creation committed.                                *)
(***************************************************************************)
EXTENDS Integers, FiniteSets, FiniteSetsExt

CONSTANTS
  Jobs, Users,
  UserOf,         \* the user, project and queue of a job
  NbResources,    \* the resources of type default that a job has
  Walltime,       \* what a job asked for
  WindowSize,     \* ACCOUNTING_WINDOW
  Dates,          \* the dates of the instance
  MaxDeletions,   \* bound on --reinitialize and --delete-before
  MaxKills        \* bound on the runs that die

ASSUME AccountingAssumption ==
  /\ WindowSize \in Nat \ {0}
  /\ UserOf \in [Jobs -> Users]
  /\ NbResources \in [Jobs -> Nat \ {0}]
  /\ Walltime \in [Jobs -> Nat \ {0}]
  /\ Dates \subseteq Nat \ {0, 1} /\ Dates # {} /\ IsFiniteSet(Dates)

Types == {"USED", "ASKED"}
Windows == 0 .. ((Max(Dates) + Max({Walltime[j] : j \in Jobs})) \div WindowSize)
Rows == Windows \X Users \X Types

VARIABLES
  now,
  state, start, stop, accounted,   \* the table jobs
  table,          \* the table accounting: the consumption of a row, 0 without one
  pc,             \* where oaraccounting is
  todo,           \* the jobs it read and has not treated
  pos,            \* the job it treats, the type it counts and the date it is at
  mine,           \* the table accounting as its open transaction sees it
  marked, done,   \* the jobs that transaction marks, and those it counted
  counted,        \* history: the jobs whose rows are all committed
  torn,           \* history: a run died since the table was last emptied
  forgotten,      \* history: the date up to which windows were removed
  deletions, kills

jobs == <<state, start, stop>>
run == <<pc, todo, pos, mine, marked, done>>
bounds == <<deletions, kills>>
vars == <<now, jobs, accounted, table, run, counted, torn, forgotten, bounds>>

Empty == [r \in Rows |-> 0]
NoPos == [job |-> "", type |-> "", at |-> 0]

Init ==
  /\ now = Min(Dates)
  /\ state = [j \in Jobs |-> "none"]
  /\ start = [j \in Jobs |-> 0]
  /\ stop = [j \in Jobs |-> 0]
  /\ accounted = [j \in Jobs |-> FALSE]
  /\ table = Empty
  /\ pc = "none" /\ todo = {} /\ pos = NoPos
  /\ mine = Empty /\ marked = {} /\ done = {}
  /\ counted = {} /\ torn = FALSE /\ forgotten = 0
  /\ deletions = 0 /\ kills = 0

-----------------------------------------------------------------------------
(* The jobs, whose rows oaraccounting locks from their update to its commit *)

Submit(j) ==
  /\ state[j] = "none"
  /\ state' = [state EXCEPT ![j] = "waiting"]
  /\ UNCHANGED <<now, start, stop, accounted, table, run, counted, torn,
                 forgotten, bounds>>

Starts(j) ==
  /\ state[j] = "waiting" /\ j \notin marked
  /\ state' = [state EXCEPT ![j] = "running"]
  /\ start' = [start EXCEPT ![j] = now]
  /\ UNCHANGED <<now, stop, accounted, table, run, counted, torn, forgotten, bounds>>

Ends(j) ==
  /\ state[j] \in {"waiting", "running"} /\ j \notin marked
  /\ state' = [state EXCEPT ![j] = "over"]
  /\ stop' = [stop EXCEPT ![j] = IF state[j] = "running" THEN now ELSE @]
  /\ UNCHANGED <<now, start, accounted, table, run, counted, torn, forgotten, bounds>>

Tick ==
  /\ now + 1 \in Dates
  /\ now' = now + 1
  /\ UNCHANGED <<jobs, accounted, table, run, counted, torn, forgotten, bounds>>

-----------------------------------------------------------------------------
(* check_accounting_update *)

ToAccount ==
  {j \in Jobs : ~accounted[j] /\ state[j] = "over" /\ start[j] > 1 /\ stop[j] >= start[j]}

CheckAccountingUpdate ==
  /\ pc = "none"
  /\ pc' = "jobs"
  /\ todo' = ToAccount
  /\ mine' = table
  /\ UNCHANGED <<now, jobs, accounted, table, pos, marked, done, counted, torn,
                 forgotten, bounds>>

(* A job: its time used first *)
TreatJob(j) ==
  /\ pc = "jobs" /\ j \in todo
  /\ pc' = "rows"
  /\ todo' = todo \ {j}
  /\ pos' = [job |-> j, type |-> "USED", at |-> start[j]]
  /\ UNCHANGED <<now, jobs, accounted, table, mine, marked, done, counted, torn,
                 forgotten, bounds>>

(* When the time that is counted for a job ends *)
EndOf(j, type) == IF type = "USED" THEN stop[j] ELSE start[j] + Walltime[j]

WindowOf(date) == date \div WindowSize
WindowStop(w) == w * WindowSize + WindowSize - 1

(* Mutant: the last second of a window is left out *)
ConsumptionShort(at, end) ==
  LET last == WindowStop(WindowOf(at))
  IN  IF end <= last THEN end - at ELSE last - at

(* The seconds of a window from a date to another one *)
Consumption(at, end) ==
  LET last == WindowStop(WindowOf(at))
  IN  IF end <= last THEN end - at ELSE last - at + 1

(* What others see once the transaction is committed *)
Commit(rows) ==
  /\ table' = rows
  /\ accounted' = [j \in Jobs |-> accounted[j] \/ j \in marked]
  /\ counted' = counted \cup done
  /\ marked' = {} /\ done' = {}

(* update_accounting with add_accounting_row, for a window: a row that is  *)
(* there is updated, another one is created, which commits.                *)
AddRow ==
  /\ pc = "rows"
  /\ LET end == EndOf(pos.job, pos.type)
         row == <<WindowOf(pos.at), UserOf[pos.job], pos.type>>
         rows == [mine EXCEPT ![row] = @ + NbResources[pos.job] * Consumption(pos.at, end)]
     IN  /\ end > pos.at
         /\ mine' = rows
         /\ pos' = [pos EXCEPT !.at = WindowStop(WindowOf(@)) + 1]
         /\ IF mine[row] = 0 THEN Commit(rows)
                             ELSE UNCHANGED <<table, accounted, counted, marked, done>>
  /\ UNCHANGED <<now, jobs, pc, todo, torn, forgotten, bounds>>

(* Its walltime next *)
Asked ==
  /\ pc = "rows" /\ pos.type = "USED" /\ stop[pos.job] <= pos.at
  /\ pos' = [pos EXCEPT !.type = "ASKED", !.at = start[pos.job]]
  /\ UNCHANGED <<now, jobs, accounted, table, pc, todo, mine, marked, done,
                 counted, torn, forgotten, bounds>>

(* Its rows are there: it is marked as accounted, by an update that has no *)
(* filter, so that every job is.                                           *)
Mark ==
  /\ pc = "rows" /\ pos.type = "ASKED" /\ EndOf(pos.job, "ASKED") <= pos.at
  /\ pc' = "jobs"
  /\ marked' = {j \in Jobs : state[j] # "none"}
  /\ done' = done \cup {pos.job}
  /\ pos' = NoPos
  /\ UNCHANGED <<now, jobs, accounted, table, todo, mine, counted, torn,
                 forgotten, bounds>>

Finish ==
  /\ pc = "jobs" /\ todo = {}
  /\ pc' = "none"
  /\ Commit(mine)
  /\ mine' = Empty
  /\ UNCHANGED <<now, jobs, todo, pos, torn, forgotten, bounds>>

(* The run dies: what it did not commit is undone *)
Kill ==
  /\ pc # "none" /\ kills < MaxKills
  /\ kills' = kills + 1
  /\ torn' = TRUE
  /\ pc' = "none" /\ todo' = {} /\ pos' = NoPos
  /\ mine' = Empty /\ marked' = {} /\ done' = {}
  /\ UNCHANGED <<now, jobs, accounted, table, counted, forgotten, deletions>>

-----------------------------------------------------------------------------
(* --reinitialize and --delete-before *)

DeleteAll ==
  /\ pc = "none" /\ deletions < MaxDeletions
  /\ deletions' = deletions + 1
  /\ table' = Empty
  /\ accounted' = [j \in Jobs |-> FALSE]
  /\ counted' = {} /\ torn' = FALSE /\ forgotten' = 0
  /\ UNCHANGED <<now, jobs, run, kills>>

DeleteBefore(date) ==
  /\ pc = "none" /\ deletions < MaxDeletions /\ date < now
  /\ deletions' = deletions + 1
  /\ table' = [r \in Rows |-> IF WindowStop(r[1]) <= date THEN 0 ELSE table[r]]
  /\ forgotten' = Max({forgotten, date})
  /\ UNCHANGED <<now, jobs, accounted, run, counted, torn, kills>>

-----------------------------------------------------------------------------
Oaraccounting ==
  \/ CheckAccountingUpdate
  \/ \E j \in Jobs : TreatJob(j)
  \/ AddRow \/ Asked \/ Mark \/ Finish

Next ==
  \/ \E j \in Jobs : Submit(j) \/ Starts(j) \/ Ends(j)
  \/ Tick
  \/ Oaraccounting
  \/ Kill \/ DeleteAll \/ \E date \in Dates : DeleteBefore(date)

Spec == Init /\ [][Next]_vars

-----------------------------------------------------------------------------
TypeOK ==
  /\ now \in Dates
  /\ state \in [Jobs -> {"none", "waiting", "running", "over"}]
  /\ start \in [Jobs -> Dates \cup {0}]
  /\ stop \in [Jobs -> Dates \cup {0}]
  /\ accounted \in [Jobs -> BOOLEAN]
  /\ table \in [Rows -> Nat]
  /\ mine \in [Rows -> Nat]
  /\ pc \in {"none", "jobs", "rows"}
  /\ pc = "rows" => pos \in [job : Jobs, type : Types, at : Nat]
  /\ todo \subseteq Jobs /\ marked \subseteq Jobs /\ done \subseteq Jobs
  /\ counted \subseteq Jobs /\ torn \in BOOLEAN /\ forgotten \in Dates \cup {0}

(* The seconds that a job and a window have in common *)
Overlap(from, to, w) ==
  Max({0, Min({to, (w + 1) * WindowSize}) - Max({from, w * WindowSize})})

(* What a row should hold for some jobs *)
Due(row, some) ==
  MapThenSumSet(LAMBDA j : NbResources[j] * Overlap(start[j], EndOf(j, row[3]), row[1]),
                {j \in some : UserOf[j] = row[2]})

(* check_accounting_update, add_accounting_row, delete_all_from_accounting: *)
(* between two runs, each window that was not removed holds for each user   *)
(* the time of the jobs that were counted, each once, to the second; it may *)
(* hold more, never less, after a run that died, until --reinitialize.      *)
TableIsExact ==
  /\ TypeOK
  /\ pc = "none" =>
       \A row \in {r \in Rows : WindowStop(r[1]) > forgotten} :
         /\ table[row] >= Due(row, counted)
         /\ torn \/ table[row] = Due(row, counted)

=============================================================================
