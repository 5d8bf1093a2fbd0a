# A TLA+ model of the OAR 3 server

OAR is a batch scheduler: users submit jobs, a metascheduler places them on
the resources of a cluster, the server starts them on their nodes over ssh,
follows them, and ends them. This directory holds TLA+ modules of its server
side, the TLC configurations that check them on small instances, and theorems
about them with proofs that TLAPS checks. Line numbers refer to `src/oar/`
unless they start with another directory.

## 1. The system

### How the server works

All state that matters is in one SQL database (`lib/models.py`). Programs never
talk about a job directly: they change rows and then *notify*. The programs:

| part | code | state it keeps | operations |
|---|---|---|---|
| **Almighty** | `modules/almighty.py` | automaton state, queue of commands without duplicates, three dates, `scheduler_wanted` | reads one notification, routes it, runs one of the programs below and waits for it |
| **metascheduler** | `kao/kao.py`, `kao/meta_sched.py` | tables `gantt_*`, `jobs.state` | accepts reservations, kills besteffort jobs, schedules the queues, launches jobs (`toLaunch`), acknowledges reservations |
| **schedulers** | `kao/kamelot*.py`, `kao/scheduling*.py`, `kao/slot.py` | sets of slots of one run | find the first interval and resources for a job |
| **quotas** | `kao/quotas.py` | rules, calendar, counters of each slot | say whether a job may be at a place |
| **hierarchy** | `lib/hierarchy.py` | none | chooses the blocks of resources of a request |
| **walltime change** | `lib/walltime.py`, `kao/walltime_change.py`, `cli/oarwalltime.py` | table `walltime_change` | a demand of a user, granted by the metascheduler when the plan leaves room |
| **NodeChangeState** | `modules/node_change_state.py` | rows of `event_log` with `to_check`, `resources.next_state` | ends, suspends, resumes and resubmits jobs, changes the state of resources, frags the jobs of lost resources |
| **Leon** | `modules/leon.py` | `frag_jobs` | sends TERM to the jobs to delete, has the stubborn ones exterminated |
| **Sarko** | `modules/sarko.py` | `frag_jobs`, `next_state` | follows the timers of the deletions and the walltimes, switches lost resources to Dead |
| **Finaud** | `modules/finaud.py` | `resources.next_state` | pings the free nodes |
| **appendice proxy** | `modules/appendice_proxy.py` | none | forwards notifications to Almighty and the messages of oarexec to the commander |
| **bipbip commander** | `modules/bipbip_commander.py` | two lists of commands, a table of executors | starts one `oar-bipbip` or `oar-leon` process per job at a time |
| **bipbip** | `modules/bipbip.py` | `jobs.state`, events | prepares the nodes, starts oarexec; given the exit code, ends the job |
| **Hulot** | `modules/hulot.py` | lists of nodes running, reminded and to process; a pool of executors | halts and wakes up nodes |
| **submission** | `lib/submission.py`, `cli/oarsub.py` | rows of `jobs` and of six tables that describe them | inserts a job or an array, resubmits, releases |
| **resources** | `lib/resource_handling.py`, `lib/node.py`, `cli/oarnodesetting.py`, `cli/oarremoveresource.py` | `resources`, `resource_logs` | states, maintenance, creation and removal, with their history |
| **accounting** | `lib/accounting.py`, `cli/oaraccounting.py` | table `accounting`, `jobs.accounted` | cron runs it: what the jobs that are over asked for and used, by user and window of time |
| other commands | `cli/*.py`, `rest_api/` | rows of `frag_jobs`, `event_log`, `jobs` | oardel, oarhold, oarresume... |
| oarexec | `tools/` (Perl, on the nodes) | none on the server | runs the command of the user, reports its exit code |

### How the parts interact

* *Almighty* runs the metascheduler, NodeChangeState, Leon, Sarko and Finaud
  one at a time. Between them there is no concurrency.
* *bipbip* and *leon &lt;job&gt;* processes run beside Almighty, at most one per
  job: this is what the commander is for. Hulot runs beside it too, with
  processes of its own.
* User commands, oarexec and the processes above change the same rows at any
  time. Every library function commits on its own; nothing is locked for longer
  than a function, so every multi-function handler is a sequence of atomic steps
  with others in between. `lib/job_handling.py` `set_job_state` protects
  itself with an update guarded by the current state.
* Notifications carry no data, may be lost (the sender logs and goes on) and
  are merged in the queue of Almighty. Timeouts in Almighty replace the lost ones.

### What is hard

Stale copies of a row used after others changed it (NodeChangeState, bipbip,
Sarko, Finaud, the list of walltime demands); one SQLAlchemy session that flushes
what no one asked it to write (`modules/bipbip.py:158`); messages of one job that
cross (its end before its launch is recorded, a second launch command); ssh
timeouts, after which oarexec may or may not run; processes that die between
the commits of one operation (a submission, a suspicion, a grant, a launch, an accounting); the
protocol of deletion spread over four programs, two timers and a process; exit
codes as the only way by which the programs tell Almighty what to do next; commands
of Hulot that contradict those it is still running; and, inside a round, a linked
list of slots that jobs and calendars cut while caches point into it.

### What makes each part correct

| part | properties |
|---|---|
| commander | never two processes for one job; no command lost; never asleep with work to do; the table stays bounded |
| launch and end of a job (bipbip, NodeChangeState, commander, oarexec) | the command starts at most once; a job that is over stays over; the end oarexec told is recorded; a job to launch is treated |
| deletion (oardel, Leon, Sarko, leon process) | a deleted job ends whatever its nodes do; a deletion is never closed on a live job |
| Almighty | a notification is treated; the metascheduler runs again and again; jobs to kill are killed before the next scheduling |
| resources | a request to change a state is applied and forgotten; the jobs of a resource taken out end; the history tells the state, in order |
| slots and scheduling | the slots partition time; nothing is given twice; a job has the first place there is |
| quotas | no second of a job above a rule of that second; no job later than it has to be |
| metascheduler | two jobs are never on a resource; what oarsub was told is granted has a place; every oarsub that waits is answered |
| walltime change | no second granted twice; the jobs planned next are left where they are |
| Hulot | what is watched is registered; no keepalive group is emptied; no command waits for ever |
| accounting | a window holds the time of the jobs that were counted, to the second, each once |
| submission | the rows of a job are there when somebody relies on them; nothing starts before what it awaits; what was printed is scheduled |

## 2. The modules

Each module is an abstraction of the code at the lines that `PROJECT.json` gives for
each of its definitions. Modules with a name in `MC...` only give instances for TLC,
those in `...Proofs` hold theorems.

| layer | modules |
|---|---|
| promises | `JobCommands`, `JobPromise`, `Timetable` |
| one job, several processes | `BipbipCommander`, `JobLifecycle` |
| the server and its resources | `ResourceStates` (extended by `Almighty`), `ResourceHistory`, `EnergySaving` |
| one round of a scheduler | `SlotSets` (extended by `SchedulingRound` and `QuotasRound`), `JobData`, `Calendars` and `Hierarchies` (used in `QuotasRound`) |
| rounds and what users do between them | `MetaSched`, `WalltimeChange`, `Submission` |
| after the jobs | `Accounting` |

### BipbipCommander, JobCommands

`JobCommands` is the promise: commands sent, running, finished; at most one of
a job runs at a time. `BipbipCommander` is the loop of
`modules/bipbip_commander.py`, cut where a process may end in between:

| action | code |
|---|---|
| `Send` | `AppendiceProxy.run` 56-83 and the metascheduler push a command to the socket |
| `Receive`, `ReceiveTimeout` | `recv_json`, with RCVTIMEO -1 or 500 ms (122-138) |
| `PopRequeue`, `PopStart` | one turn of the inner while (140-169): the job has a live process and the command waits in the second list, or a process is started |
| `EndPass` | dead executors are forgotten, the list of requeued commands comes back, the timeout is chosen (171-190) |
| `ProcessEnds` | the executor ends on its own |

The map from `BipbipCommander` to `JobCommands` is its `INSTANCE` at the end of
the module. `MaxProcs` is `Max_bipbip_processes`.

### JobLifecycle, JobPromise

`JobLifecycle` is the life of jobs through the tables `jobs`, `frag_jobs` and
`event_log`. A constant gives each job its type (passive or interactive, noop,
idempotent); reservations are chosen in `Init`. One action is one commit, or one
step whose effect another program may see.

| actions | code |
|---|---|
| `SchedReserve` ... `SchedResume` | what `kao/meta_sched.py` does to one job: the decisions (which job, when) are nondeterministic, the conditions on its state are those of the code |
| `LeonKill`, `LeonTooLate`, `LeonExterminate` | `Leon.run`, 60-167 |
| `SarkoTimer`, `SarkoWalltime` | `Sarko.run`, 91-150 |
| `FragAges` | time passes: the two walltimes of the deletions |
| `NCSStart`, `NCSRead`, `NCSSwitch`, `NCSHold`, `NCSSuspend`, `NCSIgnore` | `NodeChangeState.run`: events are read at once, then for each one the job is read, and the rest acts upon that copy |
| `Oardel`, `OardelForce`, `OarholdWaiting`, `OarholdRunning`, `Oarresume` | the commands of users |
| `Start` | the commander starts a process for the job (the promise of `JobCommands`) |
| `Bipbip*` | `BipBip.run` and `check_end_of_job`, commit by commit |
| `LeonArm`, `LeonSequence` | `oar-leon <job>` and its `job_finishing_sequence` |
| `ProcessDies` | a process dies anywhere; what it had not committed is lost |
| `OarexecEnds`, `OarexecDies` | the program on the node |

`lock[j]` is the only part of the isolation of transactions that matters:
`bipbip.py:158` assigns `job.state = "Launching"`, the next query flushes
it without the filters of `set_job_state`, and until the commit the others see the
old value and their updates of the row wait.

`JobPromise` is what a user may count on: a job is pending, active or over; its command
is started at most once, and only while it is active.

### ResourceStates, Almighty

`ResourceStates` is the table `resources` and who writes it, `Almighty` the
automaton of `modules/almighty.py` that runs the programs one at a time.

| action | code |
|---|---|
| `Oarnodesetting`, `Oardel`, `JobEnds`, `NodeIsAccused` | what users, bipbip and leon processes write at any time |
| `NCSStart`, `NCSEvent`, `NCSReadChanges`, `NCSChange` | `NodeChangeState.run`: the events, one by one; then the requests of `next_state`, one by one, from a list read once (60-364) |
| `FinaudStart`, `FinaudDecide` | `Finaud.run` 26-90 |
| `SarkoStart`, `SarkoSwitch`, `LeonRun`, `MetaschedRun` | what these programs do to resources and to the jobs on them |
| `Qget`, `TimeUpdate`, `TooEarly` | the reading of a notification, the queue, the timeouts (234-298, 319-378, 424-435) |
| `SchedulerBegins`, `Call*`, `AfterNodes`, `*Returned`, `NodesTreated` | the states of the automaton, the exit codes and where they lead (380-491) |
| `Tick` | time passes while Almighty waits for a message |

Choices of the abstraction: one resource per node and one node per job; the
commands Qsub, BipBip, Qresume and Walltime are routed as Term is and
represented by it; anybody may send any notification (`oarnotify`), so that
notifications are inputs and not state; a date is how long ago it was, up to its
timeout; `next_state` and its tag, two commits of Finaud and Sarko, are one step.
`pulled` is a history variable: the jobs that NodeChangeState has fragged and Leon has
not seen.

### ResourceHistory

What `ResourceStates` takes in one step is here commit by commit, with the rows of
`resource_logs`, on which the dead switch of Sarko counts (`date_start` of the
open row) and which the accounting of a cluster reads.

| actions | code |
|---|---|
| `SuspectState`, `SuspectClose`, `SuspectOpen`, `CheckEvent` | `lib/node.py` `set_node_state` (186-278) and the reset of the event |
| `ReadRequests`, `LookAt`, `Apply`, `FragOne`, `ResetAgain`, `NCSEnds`, `NCSDies` | the second half of `NodeChangeState.run` (320-364), which may die between two commits and is then run again |
| `SwitchStart`, `SwitchOne` | the dead switch, `modules/sarko.py` 210-226 |
| `SetState`, `SetUpto`, `LogUpto`, `AddResource` | `cli/oarnodesetting.py` and `lib/resource_handling.py` |
| `MaintenanceOn`, `OnZero`, `OnSave`, `AskAbsent`, `MaintenanceOff`, `OffBack` | `set_maintenance` (87-124), whose row of maintenance waits for the next commit |
| `RemoveResource` | `remove_resource` 188-237 |
| `CommandDies`, `Tick`, `Accuse`, `JobStarts`, `JobEnds` | the environment |

History variables name what the code is known to break, so that the invariants say the
rest: `late` (a resource added in the middle of a suspicion), `torn` (a suspicion that was
cut), `tangled` (two commands on one resource), `hurried` (a request made while the list
is treated), `unfragged` (NodeChangeState died between a change and its jobs), `erased` (the
events of a suspicion that were deleted by `oarremoveresource` with their job, or closed by
`check_event` with another one of the same type and job). `Accuse`, `JobStarts` and `JobEnds` stand for what many
programs do, and let them do it whenever the rows allow it: more than the code does.

### EnergySaving

`modules/hulot.py` with `nodes_energy_saving` of the metascheduler and the part of
NodeChangeState that applies the states Hulot asks for.

| actions | code |
|---|---|
| `CheckExecutors` | `WindowForker.check_executors` 586-631: ends, timeouts, suspicion |
| `Receive` | the message, the nodes that are late, the state of the keepalive groups |
| `Decide` | one node of `nodes_list_to_process`: refused, put off, halted or woken up |
| `Launch`, `Refresh` | the commands given to the pool; the CHECK of the automaton |
| `MetaSchedule`, `NodeChangeState`, `JobLeaves`, `NodeBoots`, `ExecutorEnds`, `TimePasses` | the environment |

`pool[i].known` is FALSE once WindowForker has forgotten a command: the command may
still end, and acts on the node then. Hulot may die of its own code (`pc = "dead"`, a
KeyError when a node in two groups is refused twice), and deadlock is not checked there. `JobLeaves` lets a job leave its
nodes at any time, which is more than the code does.
Its names are apart from those of `Almighty`, the other daemon: `DaemonProofs` extends both.

### SlotSets, Timetable, SchedulingRound

A round of a scheduler (`kao/kamelot.py` `schedule_cycle`, `kao/scheduling.py`,
`kao/slot.py`) is sequential; what is hard in it is data: a linked list of slots
that is cut while it is read, and a cache of places in it.

| module | what it is | code |
|---|---|---|
| `SlotSets` | the list and its algorithms as operators: cuts, loading of planned jobs, intersection, search | `Slot`, `SlotSet`, `split_slots`, `split_slots_jobs`, `intersec_itvs_slots`, `find_first_suitable_contiguous_slots` |
| `SchedulingRound` | the loop over the waiting jobs: slots loaded (`Begin`), then per job `Skip`, `MissingDependency`, `MissingContainer` or `Assign` | `set_slots_with_prev_scheduled_jobs`, `schedule_id_jobs_ct`, `assign_resources_mld_job_split_slots` |
| `Timetable` | the promise: a function from time to what is free, for each set; a job takes the alternative that ends first at its first date | none |

Slots have the ids of the code, which move (`slot_before_job` gives the old id
to the copy). The hierarchies of resources are the sets a request may take its
resources from, and which of the equivalent sets is taken is left open. The loops
over the list are recursive functions, so that theorems can be stated about them. The
map from `SchedulingRound` to `Timetable` forgets list and cache: `FreeAt` is the
union of the slots that cover a date, and `Free` gives it for each set and each date.
`Loaded` is what the sets are when the round begins. `raised` says which exception has ended
the round: what the code does when a job waits for another that has no
place, when a set of slots is missing, when no slot begins after the
dependencies, and when a container has no place.

### Hierarchies, JobData, Calendars, QuotasRound

A round with quotas, from the rows of the waiting jobs to their places.

| module | what it is | code |
|---|---|---|
| `Hierarchies` | the blocks a request is given, level by level, as functions of what is available | `lib/hierarchy.py`, `find_resource_hierarchies_job` |
| `JobData` | how the rows of a query become requests, read one by one with the flags of the code | `get_data_jobs`, `get_jobs_types`, `set_jobs_cache_keys` |
| `Calendars` | the periods of the week and the oneshots, which rules are in force at a date and for how long | `class Calendar`, `quotas_rules_fromJson` |
| `QuotasRound` | slots with rules and counters, cut by the calendar; counters combined over a path of slots and checked; the search with its cache | `class Quotas`, `temporal_quotas_split_slot`, `check_slots_quotas`, `find_first_suitable_contiguous_slots` |

The actions are `Begin` (the scenario, the rows, the slots and the job that is there
already) and `Assign` (one job: all its alternatives, the cuts of the search
included). A place has in `until` the last second that was given: a job that begins where the rules
change, to which the left slot has moved and `slot_b` has not (`kao/scheduling.py:168-208`), is given
less than its walltime. Counters are the sets of jobs that were counted, from which the three numbers
of a rule follow. The properties know nothing of slots: they speak of seconds, and of
the rules of each.

### MetaSched

Rounds of `meta_schedule`, one queue `default` above one queue `besteffort`, commit by commit:
an action changes the database once, and users, nodes, jobs and crashes come between any two. Two things
are taken together: `Begin` empties the gantt and writes the jobs that run there again, two commits, since nobody else
reads or writes these tables, and the next round does the same again; `Decide` frags all the besteffort jobs of its list,
one commit each, since a part of the list is what a round leaves that finds fewer of them.

| actions | code |
|---|---|
| `Begin`, `Plan`, `SavePlan` | the gantt is emptied but for accepted reservations, jobs are planned (804-953) |
| `WaitingReservation`, `WaitingDone` | `handle_waiting_reservation_jobs` 251-339 |
| `NewReservation`, `SetScheduled`, `SaveNew` | `check_reservation_jobs` 342-455, in which a job is accepted or refused in two commits |
| `Decide` | `check_besteffort_jobs_to_kill`, and what to do next (954-990) |
| `SetMaxTime`, `SetGanttStart`, `SetStart`, `AddPairs`, `Launch` | the commits of `handle_jobs_to_launch` and `prepare_job_to_be_launched` (549-580, 226-248), the first two for a reservation that is late |
| `Gather`, `Notify`, `Answer`, `Unheard`, `Finish` | the acknowledgements (1062-1248): oarsub hears the answer, then the state is written |
| `Raise`, `Crash` | an exception of the code, the end of the process |
| `Environment` | submissions, oardel, jobs that end, nodes that fail and come back, oarsub that leave, time |

`doing` is the job between two commits. `crashes` and `fails` count what happened from outside, for the properties that hold
without it; `cut` names the jobs whose acceptance, launch or answer a crash has cut, which the code treats wrongly
(section 6). A job has one date of the round and the security time behind it. `MayMeet` names when two
launched jobs may hold one resource: a reservation that goes on into its security time when the next one
begins (`Briefly`), a job that is in `cut`, what a failed node moves (`fails`), and, where nodes fail or sleep, a job of each
queue. `GanttIsSound` leaves out the jobs in `cut` too.

### WalltimeChange

| actions | code |
|---|---|
| `Request`, `WriteRequest` | `lib/walltime.py` `request`: what it checks, and what it writes later |
| `ReadChanges` | `get_jobs_with_walltime_change`: all demands at once |
| `Skip`, `Fail`, `Grant`, `Apply`, `Planning` | `process_walltime_change_requests`, with its two commits per demand |
| `MakePlan` | the plan that follows, for any dates that respect those that run |
| `Start`, `Stop`, `Tick`, `Crash` | jobs, time, the end of the metascheduler |

`accepted` and `given` are history variables: the increases that users have been promised and
those that were granted.

### Submission

| actions | code |
|---|---|
| `Ask`, `Insert*`, `Fill*`, `Release*`, `GiveUp`, `PrintIds` | `add_micheline_jobs` in its two ways: subjob after subjob for arrays with keys, table after table for the others, one action per transaction |
| `Die` | an oarsub that is killed |
| `Delete`, `Resume`, `ResubmitByHand` | users, also on jobs that are not complete (`Meddling`) |
| `ResubmitForEvent` | NodeChangeState, `resubmit_job` |
| `ReadWaiting`, `PlanRound`, `Launch` | a round: the jobs are read, then planned by dependencies, or an exception ends the round |
| `Finish` | a job ends, well or not, at any time it may: more than what bipbip and NodeChangeState do |

`rows` are the tables that have a row for the job; `wants`, `root` and `forced` are history
variables (what was asked to be awaited, the first of the copies, let go by a user before
it was complete).

### Accounting

`oaraccounting` and its table, with jobs that start and end meanwhile. Its transaction is left open from one job to the next:
`mine` is the table as it sees it, `marked` the jobs it has marked, `done` those whose rows are written. It is committed
when a row is created, in the middle of a job, and at the end (`Commit`).

| actions | code |
|---|---|
| `CheckAccountingUpdate`, `TreatJob` | the jobs that are over and not accounted are read, then taken one by one |
| `AddRow`, `Asked` | the windows of the time used, then those of the walltime: a row is updated, or created and all is committed |
| `Mark` | the job is marked as accounted, and with it all the jobs of the table (265) |
| `Finish`, `Kill` | the commit at the end, or the end of the process |
| `DeleteAll`, `DeleteBefore` | `--reinitialize`, `--delete-before` |
| `Submit`, `Starts`, `Ends`, `Tick` | the jobs, whose rows wait for the transaction that has marked them, and time |

`counted` (the jobs whose rows are committed), `torn` (a run has died) and `forgotten` (the date up to which windows were
removed) are history variables. One run goes on at a time: nothing in the code ensures it.
## 3. Runs

All runs are exhaustive and pass. Liveness is checked without symmetry.

| run | instance | states | what it shows |
|---|---|---|---|
| `commander` | five commands of three jobs, limit 1 | 2 x 10^4 | mutual exclusion, no command lost, no sleep with work, the promise `JobCommands` |
| `life` | a passive idempotent job, or a noop job with `--force` and `oarhold -r` too; two requests, one death of a process | 2 x 10^6 | the inductive invariant, one start, no deletion closed on a live job, a finished job moves only under its lock, the promise `JobPromise` |
| `life_fair` | one passive job, one oardel | 10^5 | liveness of deletion, of the end and of the launch |
| `almighty` | a node, a job, one request for Absent or one notification from outside | 8 x 10^5 | Leon before the next scheduling; schedulings recur, requests are applied, deletions served, jobs on lost nodes end |
| `scheduling` | three waiting jobs, two resources, eight dates, six loads, five kinds of requests | 2 x 10^4 | partition of time, no double booking, containers, the promise `Timetable` |
| `quotas` | three jobs out of eight kinds, of four seconds at most, four cores of two hosts, ten sets of rules, with or without somebody there | 5 x 10^4 | every second that was given under its rules, blocks as asked, nobody waits for nothing |
| `metasched` | a batch job and a reservation, with another one after it or a besteffort job; two resources of which one may fail, a security time of two, one fault | 2 x 10^6 | one job per resource, a sound gantt, what was granted is planned, everybody is answered |
| `energy` | two nodes in two overlapping groups, two orders, one event | 5 x 10^5 | the register of Hulot, commands go on |
| `walltime` | a job that runs with a batch job and a reservation behind it, or a container with an inner job, or two reservations a second apart on two resources of the job that runs; two demands of -1, 1 or 3 seconds, one crash | 4 x 10^6 | no second granted twice, later jobs kept, inner jobs within their container |
| `submission` | two oarsub with six requests between them, three rows of jobs | 6 x 10^5 | rows complete when relied upon, dependencies, what is printed is scheduled |
| `history` | two nodes with a resource each and one to add, a job on both, two administrators, three acts in two dates, two in three | 2 x 10^6 | the history tells the state, maintenance gives back, requests are served |
| `accounting` | two jobs of one user, windows of two seconds, four dates, two runs killed, two deletions | 10^6 | the windows hold the time of the jobs counted, each once |

**Bounds.** `MaxRequests`, `MaxCrashes`, `MaxActs`, `MaxFaults`, `MaxOrders`,
`MaxEvents`, `MaxJobs`, `MaxDeletions`, `MaxKills` bound what comes from outside and nothing else; `MaxPending` and `MaxInbox`
bound the undelivered messages. One job suffices in `JobLifecycle` (of the two of `life` one waits while the other is looked at,
`OneAtATime`; `oarhold -r` and `--force` are for the noop one, `FewRequests`): jobs share no row but
through NodeChangeState, whose list of events is per job, and all theorems hold
for any set of jobs. Two requests and a crash are what it takes to have a
deletion, a hold and a rollback cross one launch. In `Almighty` all timeouts
are 1: only their order of expiry matters. In `scheduling`, a horizon of
eight seconds holds three cuts of one slot, a job that ends at the last
second, and a request that no longer fits; a third job is the first that may read a
cache entry after another job has cut the slot it points to; jobs are
interchangeable there, and its properties are invariants and a step property, so
symmetry is sound (as it is for the administrators of `history`). In `quotas` a week has
six seconds and an hour five, so that a second of work counts, and jobs have two, three or four seconds. The rules of
a calendar stay for two seconds at least: jobs of two seconds fit between two changes, those of three and four are tried
across them, where the left slot moves on and `slot_b` does not (`kao/scheduling.py:168-208`). In `metasched`
the horizon of five dates lets a reservation be asked, accepted, late, moved and launched, with its launch cut or a node lost, and meet
the next one: without the exceptions for these two cases (`cut` and `Briefly` in `MayMeet`) TLC finds both properties violated. A security time
of two seconds is what makes the second case happen. In `history` two nodes are what it takes for one event to close that of another,
and three acts (two events, a crash) what leaves a suspicion unfinished then; the dead switch needs a third date, which is
looked at where there has been one act (`FewActs`).
In `accounting` jobs begin and end at the borders of windows and within, within one window or over two. In `energy` one order contradicts the other while it runs. In `walltime`
two demands are what it takes for one to replace the other between the reading and the grant.
In `submission` three rows are an array and a job that awaits, or is awaited.

**Preconditions.** The six loads of `scheduling` (`SoundLoads`) are ones that the
code treats well: resources that leave, one job or two that run or are planned, a
container to come with a job inside. They are not all the loads: section 6 tells
which the code treats wrongly. `SoundLoad` says what the sets must be once they are
loaded, and TLC evaluates it on the six. Five of them are in order (`IsInOrder`), which TLC
evaluates too: of all such loads it is proved that they are sound (section 4). In the sixth two jobs overlap. The date of the round of `quotas` is the begin of a week: elsewhere the
code takes the wrong period (section 6). In `quotas` and `metasched` the
exceptions of a property to what the code is known to break are conjuncts of the property
(`Exact`, `fails = 0`, `MayMeet`), in `history` they are history variables.

**Deadlock** is checked where the system never stops: Almighty, ResourceHistory,
MetaSched and Accounting. The commander stops when all the commands of the instance are sent and done, which TLC takes
for a deadlock (`NoWorkWhileBlocked` excludes the real one), a `JobLifecycle` when its job is over, a round of
scheduling when every job is treated, a submission when the rows are used up, time at
the horizon in `walltime`, and Hulot when it dies.

**Fairness.** *Weak* for what is sequential code that runs until it ends: the
loop of the commander, the loop of Almighty, NodeChangeState, each process of
bipbip and leon, the loop of Hulot, the rounds of `submission`. *Strong* for what a program
does each time it is run, when the program is run again and again but others may disable the
action in between: Leon and Sarko on a deletion, the last loop of `meta_schedule` on a job to
launch, and the start of a command, since the commander executes what it was
sent (`SentIsExecuted`) when the job's process has ended. *Time* passes (`Tick`,
`FragAges`). In `almighty` a job that was sent a signal ends: this is
`KilledJobEnds` of `life_fair`. Bipbip and leon processes end, in `commander`. Hulot treats
messages only when it receives some: its liveness is stated under `[]<>(pc = "process")`, which
the CHECK that Almighty sends it at each turn provides.
Nothing is assumed of users, nodes, oarexec, notifications or commands of Hulot.

## 4. Theorems

All hold for every value of the constants that satisfies the assumptions of the modules.

| theorem | states | argument |
|---|---|---|
| `BipbipCommanderProofs!TypeCorrect`, `MutualExclusion`, `TableBounded`, `Registered`, `NeverBlockedWithWork` | the safety of the commander | `IInv`: types, every live process is the one its job's entry names, at most `MaxProcs + 1` entries, and the socket blocks only when both lists are empty |
| `BipbipCommanderProofs!CommandsArePromised` | the commander implements `JobCommands` | `OnePlace`: a command is in the inbox, in one of the two lists or in the table, once (`ListsApart`, `StagesApart`), and a live process plays a command of the table; then each action is a step of the promise or none |
| `JobLifecycleProofs!TypeCorrect` | the columns and processes keep their types | one lemma per action |
| `JobLifecycleProofs!Inductive`, `CommandStartedOnce` | oarexec is started at most once per job | `IInv`: `LaunchSafe` ties the number of starts to the state of the row and to the label of the process, with the open transaction; `SeenStillTrue` says what remains true of the copy of a job that NodeChangeState works on |
| `JobLifecycleProofs!OverIsKept` | a finished job changes its state only through the process that holds its row | from the same invariant, action by action |
| `JobLifecycleProofs!KillInductive`, `FraggedForGood` | a deletion is never closed on a live job | `KInv`, on top of `IInv`: what is known of a job whose deletion is closed or about to be, for each stage of Leon, of the leon process, of NodeChangeState's copy and of a bipbip that is past its last look (`KillSafe`) |
| `JobLifecycleProofs!PromiseIsKept` | the life of a job implements `JobPromise` | a job is taken when its process is past the launch or holds its row, and the phase of a job changes only as the promise allows; the steps of all the actions from `IInv` |
| `DaemonProofs!TypeCorrect`, `QueueWithoutDuplicates` | types, no command twice in the queue | `AddCommand` keeps a queue injective, `Take` removes one or two of it |
| `DaemonProofs!LeonComesFirst` | jobs fragged by NodeChangeState are seen by Leon before the next metascheduling | `LeonInv`: from where NodeChangeState may run, and what the automaton owes until Leon has run: the exit code 2, or the state Leon |
| `DaemonProofs!RegisterSoundness`, `CheckNeverFails` | what WindowForker watches is in the register of Hulot, which `check_executors` never misses | `HulotInv`, below |
| `DaemonProofs!TurnsSpareGroups` | no turn of Hulot takes from a group more than it can spare | `Spared`: a group of which a node is decided to be halted still has its idle nodes, after each decision |
| `SchedulingRoundProofs!PromiseKept` | a timetable gives no resource twice, keeps inner jobs in their containers and dependencies first | `IInv`: what a planned job holds is free at none of its dates, what a container gives is what it holds, while it holds it |
| `SchedulingRoundProofs!RoundImplementsTimetable` | a round with its lists of slots and its cache implements `Timetable` | `RoundInv`, below: each action is a step of the timetable or none |
| `SchedulingRoundProofs!SlotsSound` | the lists partition the time of their sets, the cache names slots | from the same invariant: a cut of a list leaves it a list in order |
| `SchedulingRoundProofs!RoundNeverDoubleBooks`, `InnerJobsStayInside` | nothing is given twice, nor out of its container, the jobs that were there before included | what is free in a set is apart from what is there (`BookedInv`), and `PromiseKept` through the refinement |
| `SchedulingRoundProofs!InOrderLoadsAreSound` | what the theorems of a round ask of a load holds of the loads in order, and the loading ends no program | `Loading`, below: each job is put where the walk of `split_slots_jobs` has come to |
| `MetaSchedProofs!Invariance`, `JobsAreApart`, `GanttSoundness`, `GrantedKeepsItsPlace`, `EveryRoundAnswers` | two jobs are not on a resource, the gantt is sound, what was granted has its place, who waits is answered | `IInv`, below |
| `WalltimeChangeProofs!GrantsStayBounded` | a job is never granted more than its accepted demands together | `IInv`: what was given, plus what is still asked in the table or in the list that was read, plus what oarwalltime is about to write, is within what was accepted (`WithinDemands`); what was read of a job is still true (`ListIsTrue`) |
| `WalltimeChangeProofs!LongerJobsKeepTheNext`, `InnerJobsEndWithin` | a longer walltime leaves the next jobs and the container as they are | `GrantFits`: between the two commits, what is granted leaves the others alone; `FitIsSafe` and `PossibleEndIsBefore` say so of the functions, with the least element of a set of dates |
| `ResourceHistoryProofs!StepsHaveReasons` | a request is forgotten only when it has been applied; the dead switch takes only what is old | `IInv`: each resource is once in the list of NodeChangeState, what was read is still asked for or was asked again (`AskedIsNext`); an open row of the history begins at the last change or after it, while a suspicion is between its commits too (`OpenIsSince`), which is what the switch counts on (`SwitchIsDue`) |
| `ResourceHistoryProofs!HistoryInductive`, `HistoryIsTrue`, `CommandsAreKept` | the history tells the state, in order; a maintenance gives back what it took; the jobs of a resource taken out are fragged | `HInv`, below |
| `SubmissionProofs!SubmissionInductive`, `RowsComplete`, `BeginsWhenAllIsOver` | the rows of a job are there when somebody relies on them; a job begins only after what it was asked to await | `IInv`, below |

**The invariant of `MetaSched`.** A property of the gantt cannot be inductive alone: between two commits the
truth is partly in the tables and partly in what the round remembers. `IInv` follows it: the slots of the round cover
whatever runs or has its place; the places the round has chosen are apart from each other and from those of the
gantt, reservations apart from reservations; a place is in time when its job is launched; what runs is in the gantt; the
besteffort jobs that the round knows as holders of a resource are those that hold it, or are ending; a
job is decided to be launched only when nobody is on its resources; and an answer is due to each job in a state of
acknowledgement, at the phase where the round gives it. A launch has five commits, and `Held` says what each leaves: the job is
at `doing.at`, its walltime or its date is already the new one, and what it is to hold is still what the gantt keeps for it.
What a crash leaves of it is in `cut`, where nothing is claimed of the walltime, which may get the security time once
more, nor of the rows. `Briefly` is the one way in which two
reservations come nearer than the security time, and is why `JobsAreApart` has `MayMeet` in it.

**The invariant of the history.** `HInv` says for each stage of NodeChangeState, and for each stage of a command of
an administrator, what is written and what is not yet: which host has its rows closed and not opened again
(`Halfway`), what `date` and `kill` hold (`Datable`), which job has been fragged and which not (`Told`), why a
suspicion that was cut is done again (`Accused`, `NotYet`), and where `available_upto` is while a maintenance
has taken it out of its column (`Available`, by stage of the command). `TakenOutIsCleared` is then inductive.

**The invariant of a submission.** `RowsAreComplete` speaks of jobs that wait; what makes it inductive is what holds of
those that do not yet. `SubmissionIsSound` says for each stage of an oarsub which rows it has written: one subjob after
the other when there are keys (`SubjobsInOrder`), else table after table for the whole array (`ArrayInserted`,
`ArrayFilled`, `ArrayComplete`). The others come in between: a copy of a job may enter the array and a user may let
a job go early, which are `forced` (`MembersAreKnown`, `NotReleasedYet`), and two oarsub never fill one array
(`ArraysApart`). A round plans from what it has read, which may be old: `RoundIsSound` says what stays true of it. Each
step is then shown to let the tables grow only (`Grows`), to release nothing without its rows and its dependencies
(`Founded`), and to leave the arrays of the others as they are (`Spared`); these three give the invariant once for
all steps. That the jobs of an array are read in any order is part of the model.

**The register of Hulot.** That a watched HALT is registered (`RegisteredIn`) is lost if a turn launches a command for a node
that runs one, or takes a node out too early. `NoneRuns` excludes the first: between the reading of a message and the
launching, the nodes to process are none of those that run a command, since each of the three places they come from leaves
those out and nothing else writes the list meanwhile. For the second, an end or a delay takes out a node whose one watched HALT is just then
forgotten, which is where the uniqueness is needed, and the end of a wake-up takes out nodes with a WAKEUP only. `ComesFrom`
says once what the steps of the pool have in common: each command that is left was there, as another or the same. That
refusals are of nodes to process needs that nothing is left of a turn when it is over, and the types that a CHECK names no node.

**The invariant of a round.** A list of slots is right when time goes on along it, and nothing in the list says so: the
ids are in no order. `Linked` gives the order as a bijection from the places in the list to the ids, which a cut
changes (`CutIsLinked`): the slot before a job takes a new id, and the copy the old one. From it follow what
the loops compute: `Follow` stops at the first slot that will do (`FollowFinds`), `Path` is a piece of the order (`PathInOrder`),
`Available` is what is free from the first date of the piece to its last one (`AvailableIsFree`), and `FindFrom` is the
first place from a slot on (`FindFirst`), though right is never moved back. Time can go on by an
empty slot; `NoObstacle` says that such a slot takes nothing from those who cross it, and a split must keep that too.
A split is then one equation: what was free stays free, but for the resources of the job while it lasts
(`SplitIs`, `SplitKeeps`). The cache is right because what is not possible now will not be possible later: no date at which a
request fits lies before its entry (`StartsEarly`, `EarlyCache`), and entries
survive cuts because the slot with an id still begins when it did. The end of a planned job is where a slot begins, or after
the last one (`IsBoundary`), so that no date is missed when the search begins at the first slot after the dependencies. With
these, the first place in the list is the first date of the table (`FoundIs`, `ChoiceIsFirst`), no place is no date
(`NothingIsNoRoom`), and every step of the round is one of the table.

The assumptions are those named in the modules (`...Assumption`), which TLC evaluates in the runs. All but one leave
the code what it may meet: `AddressesAssumption` that the nodes are finitely many; `UptoAssumption` says that `available_upto` has a greatest value, as its column
is an integer of 32 bits; `JobsAssumption` of `MetaSched` that a job is in one of the two queues; `ConstantsAssumption` that
requests are for something, `WalltimesAssumption` that a walltime contains the security time, which is added to
each. `LoadsAssumption` does restrict: the theorems are about the rounds whose
loaded sets are sound (`SoundLoad`), and section 6 tells of loads that are not.

**Which loads are sound.** `InOrderLoadsAreSound` proves it of the loads in order (`IsInOrder`), however many their jobs:
a job of a set begins when the one before is over, or with it and then ends no earlier, and all of them end after the
beginning of the set; a container has not begun. `split_slots_jobs` never goes back in its list, and does not
learn that the slot it keeps as the left one has changed its id. What stays true between two jobs is `IsPut`: the slot it holds
ends with the last job, and the last job begins in the left slot, just after it, or in the one where the list begins. With jobs in turn this is
enough to find where the next one begins and ends (`NextIsAimed`), and the split takes its resources all along (`AimedIsPut`): a job
that begins within the left slot is put as if this slot had been halved there beforehand (`SameTurns`), which changes no date.
`Loading` carries it from job to job. In the set of a container the resources are added in its time alone (`ContainerIs`), and
its inner jobs are taken out of it in the same way. The loads of jobs that overlap are
left to TLC: some are sound, others are those of section 6.

## 5. What is only model-checked

* Liveness under fairness: `SentIsExecuted`, `KilledJobEnds`, `ToldEndIsRecorded`, `ToLaunchIsTreated`,
  `MetaschedRunsUnlessStuck`, `RequestsAreTreated`, `QdelIsServed`, `PulledOutJobsEnd`, `CommandsGoOn`, `SubmittedIsTreated`.
* Loads that are not in order (`SplitSlotsJobs` on jobs that overlap): TLC looks at one that is sound.
* The accounting (`TableIsExact`), whose sums are folds over sets of jobs.
* A round with quotas: `QuotasRound` (`PlacesAreSound`, `QuotasAreKept`, `NobodyWaitsForNothing`), with `JobData` and `Calendars`, whose
  counters and periods come from recursive operators.

## 6. What the models found in the code

Behaviours met while modelling. The models do what the code does; no run is devoted to them.

Jobs and the server:

* A request for the state a resource already has is never forgotten
  (`modules/node_change_state.py:354`: an `else` that belongs to a `for`).
  NodeChangeState returns 1 for ever, Almighty stays in "Scheduler" (`modules/almighty.py:93`), and no
  message is read any more (`Stuck` in `Almighty`). `oarnodesetting -m on` then `-m off` does it.
* `modules/bipbip.py:158` writes the state of a noop job without the filters of
  `set_job_state` (`lib/job_handling.py:1485`); a job deleted in between runs again, and its deletion is closed.
* A plain `oarhold` of a job that waits suspends it once it runs
  (`modules/node_change_state.py:294`), which `docs/admin/database-scheme.rst:501` reserves to `oarhold -r`.
* `modules/bipbip_commander.py:142`: `<=` allows one process more than the comment at
  53 says; `Max_bipbip_process_duration` (57) is not used.
* `modules/bipbip.py:269`: `events` is not defined, and bipbip dies.
* `cli/oardel.py`, `--force-terminate-finishing-job`: the job goes to Error, not to
  Terminated as `docs/man/man1/oardel.pod:40` says.
* `kao/kao.py:12` drops the 2 that `meta_schedule` returns when it has fragged besteffort jobs
  (`tests/modules/test_almighty.py:109` expects Leon to follow): a delay.

Rounds:

* Jobs sorted by start, as `split_slots_jobs` asks, of which the third ends between the
  first two: its resources stay free in the slots it covers (`kao/slot.py:430-451`). Two jobs suffice when both are
  planned after now and the second starts within the first. `lib/job_handling.py:491` and others
  sort by `jobs.start_time` and not by the start of the gantt.
* A container that runs already keeps its whole walltime (`kao/scheduling.py:57`): inner jobs may be planned
  after its end (`docs/user/mechanisms.rst:248`).
* `kao/scheduling.py:395`: `next` stands for `continue`, so that the job whose slots
  are missing is not skipped: a KeyError ends the round. So does an AttributeError when a dependency or a
  container of the round has no place (365, 436), or when a dependency was resubmitted (355-360,
  `docs/user/mechanisms.rst:161`), and a read of `slots[0]` when no slot begins after the dependencies (142).
  Nothing is saved then, and `meta_sched.py:687` stops the queue.
* `kao/slot.py:162`: an empty intersection of timesharing slots starts again from the next slot.
* Quotas: `periodical_rules_at` picks the next period, without the begin of the period in what remains, so
  that only the begin of the week works; `next_rules` after a oneshot advances the wrong index (`kao/quotas.py:290`);
  "/" also matches the counter of all users; the work of a job is added slot by slot; a late cut drops the counters; a job above
  its quotas may be planned after `QUOTAS_PERIOD`; "ALL" in the rules of a calendar is a TypeError; `nb_resources_default` is 1
  (`=+`) and "ALL" counts Suspected resources (`lib/resource.py:78-84`).
* `slot_b` is not renewed when the left slot moves (`kao/scheduling.py:168-208`): a job that
  is put where the rules change is given slots for less than its walltime, since the time before the change is counted. Its last
  seconds are neither checked nor taken: another job may get the same resources then, and it may go on under other rules,
  which `tests/kao/test_temporal_quotas.py:382` expects to be refused. `kao/quotas.py:678-681`, which is there to refuse it, sees the slots that were
  given only, whose rules are the same but beyond `QUOTAS_PERIOD`.
* Requests: the last group of every job but the last is read twice (`lib/job_handling.py:295`); two groups of a
  request may be given the same resources; inner jobs count in the quotas of their container only.
* Reservations: one launched at its very last date has a walltime of 0; a late one keeps its security time, and meets for less
  than that time the one that follows, since `check_reservation_jobs` looks for room without it (`Briefly`); the date of one
  that waits for nodes moves each round, onto another reservation if it must; with failed nodes a granted one may be without resource
  for a while; the state is written before the place, so that a crash in between leaves it granted without place; oarsub may be left without answer.
* Commits of a round, when it is cut between two. A late reservation between the first and the last of its launch (`kao/meta_sched.py:556-557`,
  241-246) is launched again with the security time added once more, and goes on into what follows. After 244, the rows of
  `assigned_resources` are there: the next launch is an IntegrityError, round after round, or adds other ones to them when the job
  is planned elsewhere. Between `set_job_state` and `set_job_resa_state`, a refused reservation is never told, an accepted one is told GOOD and
  examined again. After GOOD is told and before the state is written, the next round finds no oarsub and deletes the job.
* `lib/job_handling.py:1283-1293` deletes the rows that are not in a list of zeros; a job may be launched when one of
  its resources only is Alive; a besteffort job on a lost node is looked up as the first resource (`kao/meta_sched.py:458-535`).

Walltime changes:

* `kao/meta_sched.py:832` compares with "yes", `lib/walltime.py:154` with "YES": with one value only one side is enabled.
* The limit of the increase can be exceeded: the part that was granted is forgotten when a new demand is written
  (`lib/walltime.py:291-299`, 372), and a reduction raises the limit of the next demand.
* A demand written between the reading and the grant is overwritten; a crash between the two commits loses the walltime that the
  table says is granted (`kao/walltime_change.py:118`).
* A reduction that is treated after the end of the job makes it longer (113-116); the part of a reduction that was cut stays asked;
  `change_walltime` writes whatever the job has become; the round ends with an exception when the container of a job that asks is not Running.

Hulot:

* A HALT that failed, or that ended while it was found late, stays in `nodes_list_running` for ever: later commands are only
  reminded. A reminded command is never removed from its list (66) and is played again.
* A node in two keepalive groups refused twice is a KeyError (499-500), and Hulot dies; `almighty.py:341` cannot
  start it again (`start_hulot(self)` is a TypeError).
* The keepalive of a group is not looked at again until the next message (`docs/admin/modules.rst:206-209`, `modules/hulot.py:289-300`); jobs that
  have started since the decision are not either; commands run after WindowForker has forgotten them.

Submission:

* The column that tells that a job was resubmitted is never written (`lib/job_handling.py:1091`): two events of one failed launch
  resubmit it twice. A copy does not inherit the dependencies of its job.
* An array is inserted in nine transactions, not in one as `lib/submission.py:1014-1017` says, and released whatever its state; with keys each
  job is released alone. A copy that enters an array being submitted makes it fail (IntegrityError). A job left by a killed oarsub and
  resumed by a user has no description, and an AttributeError ends every round.

Resources and their history:

* `lib/node.py:208-216` compares with "Suspect" where the state is "Suspected": the filter is dead, and Dead or Absent nodes
  become Suspected, which Finaud brings back.
* A resource added in the middle of a suspicion has overlapping rows; a NodeChangeState that dies between a
  change and its jobs leaves them running; a request made while the list is treated is lost by the reset (356-364); a resource removed meanwhile
  ends NodeChangeState (`.one()`).
* `oarremoveresource` deletes the jobs that have run on the resource, whatever their state (`lib/resource_handling.py:188`), with
  their events: a suspicion of another node that was cut is then never finished (`erased`), and NodeChangeState, which has
  read such an event already, ends with an AttributeError (`modules/node_change_state.py:66-79`).
* `check_event` closes the other events of the same type and job (`lib/event.py:88`): the suspicion of one node closes
  that of another, which is then never finished if it was cut (`erased`).
* Maintenance: off asks for Absent and not Alive; off without on restores an old value; a crash after the first commit
  of on loses `available_upto`; two commands on one resource mix. `modules/sarko.py:210`: the dead switch does not look at the state
  of a node.

Accounting:

* `lib/accounting.py:265` marks all the jobs and not the one that was counted: what waits, runs, or has ended since the run began is never
  counted, though `docs/admin/database-scheme.rst:457` says that the mark tells whether a job was considered.
* A row is committed when it is created (`Accounting.create`): a run that is killed counts a part of a job, which the next run counts again, or
  has marked jobs that it had not treated. Two runs at once count twice, or lose what the other has added.
* `kao/karma.py` reads windows with bounds that differ: `<=` for one of its sums, `<` for the others.

## 7. Not modelled

* In the life of a job: besteffort jobs with their own resubmission, jobs without host,
  the stop of all queues, mails, the rows of the logs of states, the bad challenge
  of oarexec, a resume of other jobs than those that a hold has put aside,
  checkpoints and signals.
* Crashes of Almighty and of the programs it runs, but for NodeChangeState (`ResourceHistory`), the metascheduler
  (`MetaSched`, `WalltimeChange`) and the processes of bipbip and leon (`JobLifecycle`); Almighty's stop on an unknown exit code, a signal or an
  unknown command; its supervision of Hulot.
* In a round: timesharing and placeholders, the filters for besteffort jobs, containers
  with a name (several may share one set), plug-in functions `assign` and `find`, dependencies and containers together with quotas.
* In a metascheduling: external schedulers, passive jobs, suspended jobs that resume, more than two queues.
* Admission rules, the parsing of requests, configuration files and dates: sequential data.
* The components with the status `not_modelled` in `PROJECT.json`, with the reason
  of each: queues, karma, simulators, REST, database.
* Two runs of `oaraccounting` at once, and the summaries that are read from the table.

## 8. Plan

What is left, the most useful first:

1. `QuotasRound` on the lemmas of `SchedulingRoundProofs`: its lists are cut in the same way, by the calendar too.
2. Timesharing and placeholders in `SlotSets`.
3. The life of several jobs that share nodes: suspensions and resumes, in `JobLifecycle` with `MetaSched`.
