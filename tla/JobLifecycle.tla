---------------------------- MODULE JobLifecycle ----------------------------
(***************************************************************************)
(* The life of a job between its submission and its end, as its rows in    *)
(* the tables jobs, frag_jobs and event_log go through it. Who writes them:*)
(*                                                                         *)
(*   - the Almighty thread, which runs the metascheduler, NodeChangeState, *)
(*     Leon and Sarko one after the other (src/oar/modules/almighty.py);   *)
(*   - at most one oar-bipbip or oar-leon process per job, started by the  *)
(*     bipbip commander (what JobCommands promises, see BipbipCommander);  *)
(*   - user commands (oardel, oarhold, oarresume), which only add rows to  *)
(*     frag_jobs and event_log.                                            *)
(*                                                                         *)
(* Every function commits on its own, so one action here is one commit, or *)
(* one step that another process can see. The database is at READ          *)
(* COMMITTED: a row that a transaction has updated and not committed is    *)
(* seen with its old value by the others, whose updates of it wait.        *)
(***************************************************************************)
EXTENDS Naturals, Sequences, FiniteSets

CONSTANTS
  Jobs,         \* job ids
  Passive,      \* the jobs of type PASSIVE, the others are INTERACTIVE
  Noop,         \* the jobs of type noop: no oarexec is started for them
  Idempotent,   \* the jobs of type idempotent
  ExitClasses,  \* what the oarexec processes may report (keys of EndEvents)
  Requests,     \* the user commands that may be typed
  MaxRequests,  \* bound: user commands in a behaviour
  MaxPending,   \* bound: pending commands of one kind for one job
  MaxCrashes    \* bound: bipbip or leon processes that die before their end

ASSUME PassiveAssumption == Passive \subseteq Jobs
ASSUME NoopAssumption == Noop \subseteq Jobs
ASSUME IdempotentAssumption == Idempotent \subseteq Jobs
ASSUME BoundsAssumption ==
  /\ MaxRequests \in Nat
  /\ MaxPending \in Nat
  /\ MaxCrashes \in Nat

-----------------------------------------------------------------------------
(* The values of the columns *)

Over == {"Terminated", "Error"}

Unlaunched == {"Waiting", "Hold", "toLaunch", "toError", "toAckReservation"}

Started == {"Launching", "Running", "Suspended", "Resuming"}

States == Unlaunched \cup Started \cup {"Finishing"} \cup Over

FragStates == {"none", "LEON", "TIMER_ARMED", "LEON_EXTERMINATE", "FRAGGED"}

CommandKinds == {"run", "end", "leon"}

(* oarexec has received a signal (33, 34, and 40 to 42), and the epilogue  *)
(* may have failed then: the job is terminated all the same                *)
SignalEvents(epilogueFails) ==
  IF epilogueFails THEN <<"SWITCH_INTO_TERMINATE_STATE", "EPILOGUE_ERROR">>
                   ELSE <<"SWITCH_INTO_TERMINATE_STATE">>

(* The events that check_end_of_job records, by what it was told: "ok" for *)
(* 0, 34, 40 and 42, "killed" for 3, "prologue" for 1 and 5 to 8,          *)
(* "epilogue" for 2, "directory" for 10 and 20, "directoryEpilogue" for 12 *)
(* and 22, "signalEpilogue" for 33 and 41, "timeout" for 50 and "other"    *)
(* for the rest. Events that nobody acts upon are left out.                *)
EndEvents ==
  [ok                |-> SignalEvents(FALSE),
   killed            |-> <<"SWITCH_INTO_ERROR_STATE">>,
   prologue          |-> <<"PROLOGUE_ERROR">>,
   epilogue          |-> <<"EPILOGUE_ERROR">>,
   directory         |-> <<"SWITCH_INTO_ERROR_STATE">>,
   directoryEpilogue |-> <<"SWITCH_INTO_ERROR_STATE", "EPILOGUE_ERROR">>,
   signalEpilogue    |-> SignalEvents(TRUE),
   timeout           |-> <<"LAUNCHING_OAREXEC_TIMEOUT">>,
   other             |-> <<"EXIT_VALUE_OAREXEC">>]

ASSUME ExitClassesAssumption == ExitClasses \subseteq DOMAIN EndEvents

(* What NodeChangeState does to the state of the job of an event *)
TerminateEvents == {"SWITCH_INTO_TERMINATE_STATE", "EPILOGUE_ERROR"}

ErrorEvents ==
  {"SWITCH_INTO_ERROR_STATE", "FORCE_TERMINATE_FINISHING_JOB",
   "PROLOGUE_ERROR", "LAUNCHING_OAREXEC_TIMEOUT", "EXIT_VALUE_OAREXEC",
   "EXTERMINATE_JOB", "RESERVATION_NO_NODE", "SERVER_PROLOGUE_EXIT_CODE_ERROR"}

BadNodeEvents == {"PING_CHECKER_NODE_SUSPECTED", "CPUSET_ERROR"}

HoldEvents == {"HOLD_WAITING_JOB", "HOLD_RUNNING_JOB"}

EventTypes ==
  TerminateEvents \cup ErrorEvents \cup BadNodeEvents \cup HoldEvents
    \cup {"RESUME_JOB"}

(* The events after which a PASSIVE job without reservation is resubmitted *)
ResubmitEvents ==
  BadNodeEvents \cup {"SERVER_PROLOGUE_EXIT_CODE_ERROR", "PROLOGUE_ERROR",
                      "LAUNCHING_OAREXEC_TIMEOUT"}

-----------------------------------------------------------------------------
VARIABLES
  (* the database *)
  state,        \* jobs.state, as committed
  resv,         \* jobs.reservation
  frag,         \* frag_jobs.frag_state, "none" when there is no row
  age,          \* age of the frag row: 0, 1 past the soft walltime, 2 past both
  clones,       \* how many jobs were created by the resubmission of this one
  events,       \* rows of event_log with to_check = YES
  lock,         \* lock[j]: the process of j has flushed state = Launching
                \*          and not committed: other updates of the row wait
  (* NodeChangeState *)
  todo,         \* what is left of the result of get_to_check_events
  cur,          \* the event being handled with the state read for its job
  (* the bipbip or leon process of each job, and the commander *)
  pc,           \* where the process of the job is, "idle" when there is none
  err,          \* the error code that check_end_of_job will be given
  code,         \* the exit code in the last message of the oarexec of the job
  pending,      \* commands at the commander: job -> kind -> how many
  (* the head node *)
  oarexec,      \* "none", "running" or "gone"
  started,      \* how many times oarexec was started
  termed,       \* a SEND_KILL_JOB event exists: TERM was sent to oarexec
  (* bounds *)
  requests,     \* user commands so far
  crashes       \* processes dead so far

jobRow   == <<state, resv, clones, lock>>
fragRow  == <<frag, age>>
ncsVars  == <<todo, cur>>
procVars == <<pc, err>>
nodeVars == <<oarexec, started, termed, code>>
history  == <<requests, crashes>>

vars == <<jobRow, fragRow, events, ncsVars, procVars, pending, nodeVars, history>>

NoEvent == [none |-> TRUE]

(* Almighty runs its modules one at a time *)
AlmightyFree == todo = {} /\ cur = NoEvent

Init ==
  /\ state \in [Jobs -> {"Waiting", "Hold"}]
  /\ resv \in [Jobs -> {"None", "toSchedule"}]
  /\ frag = [j \in Jobs |-> "none"]
  /\ age = [j \in Jobs |-> 0]
  /\ clones = [j \in Jobs |-> 0]
  /\ events = {}
  /\ lock = [j \in Jobs |-> FALSE]
  /\ todo = {}
  /\ cur = NoEvent
  /\ pc = [j \in Jobs |-> "idle"]
  /\ err = [j \in Jobs |-> "ok"]
  /\ code = [j \in Jobs |-> "ok"]
  /\ pending = [j \in Jobs |-> [k \in CommandKinds |-> 0]]
  /\ oarexec = [j \in Jobs |-> "none"]
  /\ started = [j \in Jobs |-> 0]
  /\ termed = [j \in Jobs |-> FALSE]
  /\ requests = 0
  /\ crashes = 0

-----------------------------------------------------------------------------
(* Operations that several modules call *)

(* Mutant of After: set_job_state without its filters *)
AfterAny(j, s) == s

(* set_job_state: a guarded update, which a finished job ignores *)
After(j, s) == IF state[j] \in Over THEN state[j] ELSE s

SetState(j, s) ==
  /\ ~lock[j]
  /\ state' = [state EXCEPT ![j] = After(j, s)]

(* frag_job: one row per job, whatever the number of requests *)
FragJob(j) ==
  /\ frag' = [frag EXCEPT ![j] = IF @ = "none" THEN "LEON" ELSE @]
  /\ UNCHANGED age

(* add_new_event: the ids of the table grow *)
LastId ==
  LET Known == events \cup todo \cup (IF cur = NoEvent THEN {} ELSE {cur.event})
      Ids == {0} \cup {e.id : e \in Known}
  IN  CHOOSE i \in Ids : \A k \in Ids : k <= i

Record(j, types) ==
  events' = events \cup
    {[id |-> LastId + i, job |-> j, type |-> types[i]] : i \in DOMAIN types}

(* A command for the job is sent to the commander *)
Notify(j, kind) ==
  /\ pending[j][kind] < MaxPending
  /\ pending' = [pending EXCEPT ![j][kind] = @ + 1]

Goto(j, label) == pc' = [pc EXCEPT ![j] = label]

-----------------------------------------------------------------------------
(* The metascheduler (src/oar/kao/meta_sched.py), as far as one job sees it*)

(* check_reservation_jobs: a new reservation is accepted, or refused; it   *)
(* keeps its "toSchedule" when it is refused because it is too old.        *)
SchedReserve(j) ==
  /\ AlmightyFree
  /\ state[j] = "Waiting"
  /\ resv[j] = "toSchedule"
  /\ \/ SetState(j, "toAckReservation") /\ resv' = [resv EXCEPT ![j] = "Scheduled"]
     \/ SetState(j, "toError") /\ resv' \in {resv, [resv EXCEPT ![j] = "Scheduled"]}
  /\ UNCHANGED <<clones, lock, fragRow, events, ncsVars, procVars, pending,
                 nodeVars, history>>

(* handle_waiting_reservation_jobs: the reservation has expired *)
SchedExpire(j) ==
  /\ AlmightyFree
  /\ state[j] = "Waiting"
  /\ resv[j] = "Scheduled"
  /\ SetState(j, "Error")
  /\ UNCHANGED <<resv, clones, lock, fragRow, events, ncsVars, procVars, pending,
                 nodeVars, history>>

(* Mutant of SchedLaunch: a job whose launch seems stuck is launched again *)
SchedLaunchAgain(j) ==
  /\ AlmightyFree
  /\ state[j] \in {"Waiting", "Launching"}
  /\ resv[j] \in {"None", "Scheduled"}
  /\ SetState(j, "toLaunch")
  /\ Notify(j, "run") \/ UNCHANGED pending
  /\ UNCHANGED <<resv, clones, lock, fragRow, events, ncsVars, procVars,
                 nodeVars, history>>

(* handle_jobs_to_launch: the job is launched, the commander is notified   *)
(* or cannot be                                                            *)
SchedLaunch(j) ==
  /\ AlmightyFree
  /\ state[j] = "Waiting"
  /\ resv[j] \in {"None", "Scheduled"}
  /\ SetState(j, "toLaunch")
  /\ Notify(j, "run") \/ UNCHANGED pending
  /\ UNCHANGED <<resv, clones, lock, fragRow, events, ncsVars, procVars,
                 nodeVars, history>>

(* Mutant of SchedRelaunch: the last loop looks at another state *)
SchedRelaunchLaunching(j) ==
  /\ AlmightyFree
  /\ state[j] = "Launching"
  /\ Notify(j, "run")
  /\ UNCHANGED <<jobRow, fragRow, events, ncsVars, procVars, nodeVars, history>>

(* The end of meta_schedule notifies the commander again for the jobs that *)
(* were toLaunch when it looked; a process may have started in between.    *)
SchedRelaunch(j) ==
  /\ AlmightyFree
  /\ state[j] \in {"toLaunch", "Launching"}
  /\ Notify(j, "run")
  /\ UNCHANGED <<jobRow, fragRow, events, ncsVars, procVars, nodeVars, history>>

SchedError(j) ==
  /\ AlmightyFree
  /\ state[j] = "toError"
  /\ SetState(j, "Error")
  /\ UNCHANGED <<resv, clones, lock, fragRow, events, ncsVars, procVars, pending,
                 nodeVars, history>>

(* The oarsub command that waits for the answer is told; if it cannot be,  *)
(* the job is deleted.                                                     *)
SchedAck(j) ==
  /\ AlmightyFree
  /\ state[j] = "toAckReservation"
  /\ \/ SetState(j, "Waiting") /\ UNCHANGED fragRow
     \/ FragJob(j) /\ UNCHANGED state
  /\ UNCHANGED <<resv, clones, lock, events, ncsVars, procVars, pending,
                 nodeVars, history>>

(* A Resuming job: a noop one runs again; for another one only the script  *)
(* is run, and the job is deleted when the script fails.                   *)
SchedResume(j) ==
  /\ AlmightyFree
  /\ state[j] = "Resuming"
  /\ IF j \in Noop THEN SetState(j, "Running") /\ UNCHANGED fragRow
                   ELSE FragJob(j) /\ UNCHANGED state
  /\ UNCHANGED <<resv, clones, lock, events, ncsVars, procVars, pending,
                 nodeVars, history>>

-----------------------------------------------------------------------------
(* Leon without argument and Sarko *)

(* Leon, a job in state LEON: an unlaunched job is over at once, a noop    *)
(* job too, another one is sent the TERM signal. get_jobs_to_kill does not *)
(* return the jobs that are over or Finishing.                             *)
LeonKill(j) ==
  /\ AlmightyFree
  /\ frag[j] = "LEON"
  /\ state[j] \notin Over \cup {"Finishing"}
  /\ \/ /\ state[j] \in {"Waiting", "Hold"}
        /\ SetState(j, "Error")
        /\ UNCHANGED termed
     \/ /\ state[j] \notin {"Waiting", "Hold"}
        /\ j \in Noop
        /\ SetState(j, "Terminated")
        /\ UNCHANGED termed
     \/ /\ state[j] \notin {"Waiting", "Hold"}
        /\ j \notin Noop
        /\ termed' = [termed EXCEPT ![j] = TRUE]
        /\ UNCHANGED state
  /\ frag' = [frag EXCEPT ![j] = "TIMER_ARMED"]
  /\ UNCHANGED <<resv, clones, lock, age, events, ncsVars, procVars, pending,
                 oarexec, started, code, history>>

(* The job has ended since get_jobs_to_kill: only the timer is armed *)
LeonTooLate(j) ==
  /\ AlmightyFree
  /\ frag[j] = "LEON"
  /\ state[j] \in Over \cup {"Finishing"}
  /\ frag' = [frag EXCEPT ![j] = "TIMER_ARMED"]
  /\ UNCHANGED <<jobRow, age, events, ncsVars, procVars, pending, nodeVars, history>>

(* Leon, a job in state LEON_EXTERMINATE, at each run until the leon       *)
(* process of the job has armed the timer                                  *)
LeonExterminate(j) ==
  /\ AlmightyFree
  /\ frag[j] = "LEON_EXTERMINATE"
  /\ SetState(j, "Finishing")
  /\ Notify(j, "leon")
  /\ UNCHANGED <<resv, clones, lock, fragRow, events, ncsVars, procVars,
                 nodeVars, history>>

(* Mutant of SarkoTimer: a job that is not Running is taken for an ended one *)
SarkoTimerNotRunning(j) ==
  /\ AlmightyFree
  /\ frag[j] = "TIMER_ARMED"
  /\ \/ state[j] # "Running" /\ frag' = [frag EXCEPT ![j] = "FRAGGED"]
     \/ /\ state[j] = "Running"
        /\ age[j] > 0
        /\ frag' = [frag EXCEPT ![j] = IF age[j] = 1 THEN "LEON"
                                                    ELSE "LEON_EXTERMINATE"]
  /\ UNCHANGED <<jobRow, age, events, ncsVars, procVars, pending, nodeVars, history>>

(* Sarko, the timers: give up, kill again, or exterminate *)
SarkoTimer(j) ==
  /\ AlmightyFree
  /\ frag[j] = "TIMER_ARMED"
  /\ \/ state[j] \in Over \cup {"Finishing"} /\ frag' = [frag EXCEPT ![j] = "FRAGGED"]
     \/ /\ state[j] \notin Over \cup {"Finishing"}
        /\ age[j] > 0
        /\ frag' = [frag EXCEPT ![j] = IF age[j] = 1 THEN "LEON"
                                                    ELSE "LEON_EXTERMINATE"]
  /\ UNCHANGED <<jobRow, age, events, ncsVars, procVars, pending, nodeVars, history>>

(* Sarko, the walltimes: a Running job may have exceeded its own *)
SarkoWalltime(j) ==
  /\ AlmightyFree
  /\ state[j] = "Running"
  /\ frag[j] = "none"
  /\ FragJob(j)
  /\ UNCHANGED <<jobRow, events, ncsVars, procVars, pending, nodeVars, history>>

(* Time passes: the soft walltime of Leon, then its walltime, is reached *)
FragAges(j) ==
  /\ frag[j] # "none"
  /\ age[j] < 2
  /\ age' = [age EXCEPT ![j] = @ + 1]
  /\ UNCHANGED <<jobRow, frag, events, ncsVars, procVars, pending, nodeVars, history>>

-----------------------------------------------------------------------------
(* NodeChangeState.run, the loop over the events to check *)

NCSStart ==
  /\ AlmightyFree
  /\ events # {}
  /\ todo' = events
  /\ UNCHANGED <<jobRow, fragRow, events, cur, procVars, pending, nodeVars, history>>

(* The next event by id; get_job reads the job of the event *)
NCSRead ==
  /\ cur = NoEvent
  /\ \E e \in todo :
       /\ \A f \in todo : e.id <= f.id
       /\ todo' = todo \ {e}
       /\ cur' = [event |-> e, seen |-> state[e.job]]
  /\ UNCHANGED <<jobRow, fragRow, events, procVars, pending, nodeVars, history>>

(* check_event: every pending event of the type, for the job, is checked *)
Checked(e) ==
  /\ events' = {f \in events : f.job # e.job \/ f.type # e.type}
  /\ cur' = NoEvent
  /\ UNCHANGED todo

(* is_job_already_resubmitted looks for a resubmit_job_id that resubmit_job *)
(* does not write: its answer is always no.                                *)
AlreadyResubmitted(j) == FALSE

(* resubmit_job, for an event of the failed start of the job *)
MayResubmit(j) ==
  j \in Passive /\ resv[j] = "None" /\ ~AlreadyResubmitted(j)

(* The exit code was 99, the duration long enough, the job not killed *)
Resubmit99(e, seen) ==
  /\ e.type \in {"SWITCH_INTO_TERMINATE_STATE", "SWITCH_INTO_ERROR_STATE"}
  /\ e.job \in Idempotent
  /\ MayResubmit(e.job)
  /\ ~termed[e.job]
  /\ seen \in Over \cup {"Finishing"}

(* Mutant of Target: the normal end is forgotten *)
TargetForgetsEnd(e) ==
  CASE e.type = "EPILOGUE_ERROR" -> "Terminated"
    [] e.type \in ErrorEvents -> "Error"
    [] e.type \in BadNodeEvents /\ resv[e.job] = "None" -> "Error"
    [] OTHER -> ""

(* The state that an event switches its job into, "" for none *)
Target(e) ==
  CASE e.type \in TerminateEvents -> "Terminated"
    [] e.type \in ErrorEvents -> "Error"
    [] e.type \in BadNodeEvents /\ resv[e.job] = "None" -> "Error"
    [] OTHER -> ""

(* An event that ends its job *)
NCSSwitch ==
  /\ cur # NoEvent
  /\ LET e == cur.event
         j == cur.event.job
     IN  /\ Target(e) # ""
         /\ SetState(j, Target(e))
         /\ \/ /\ e.type \in ResubmitEvents /\ MayResubmit(j)
               /\ clones' = [clones EXCEPT ![j] = @ + 1]
            \/ /\ Resubmit99(e, cur.seen)
               /\ clones' = [clones EXCEPT ![j] = @ + 1]
            \/ /\ ~(e.type \in ResubmitEvents /\ MayResubmit(j))
               /\ UNCHANGED clones
         /\ Checked(e)
  /\ UNCHANGED <<resv, lock, fragRow, procVars, pending, nodeVars, history>>

(* oarhold, oarhold -r and oarresume, for the states they wait for *)
HoldTarget(type, seen) ==
  CASE type \in HoldEvents /\ seen = "Waiting" -> "Hold"
    [] type \in HoldEvents /\ seen = "Resuming" -> "Suspended"
    [] type = "RESUME_JOB" /\ seen = "Hold" -> "Waiting"
    [] OTHER -> ""

NCSHold ==
  /\ cur # NoEvent
  /\ HoldTarget(cur.event.type, cur.seen) # ""
  /\ SetState(cur.event.job, HoldTarget(cur.event.type, cur.seen))
  /\ Checked(cur.event)
  /\ UNCHANGED <<resv, clones, lock, fragRow, procVars, pending, nodeVars, history>>

(* suspend_job: the nodes are asked to suspend the processes of the job,   *)
(* which takes time; some node fails and the job is deleted, or all obey   *)
(* and the admin script fails and the job will resume, or all is well. Nothing *)
(* is done without cpuset or suspend file.                                 *)
NCSSuspend ==
  /\ cur # NoEvent
  /\ cur.event.type = "HOLD_WAITING_JOB"
  /\ cur.seen = "Running"
  /\ LET j == cur.event.job IN
       \/ SetState(j, "Suspended") /\ UNCHANGED fragRow
       \/ j \notin Noop /\ SetState(j, "Resuming") /\ UNCHANGED fragRow
       \/ j \notin Noop /\ FragJob(j) /\ UNCHANGED state
       \/ j \notin Noop /\ UNCHANGED <<state, fragRow>>
  /\ Checked(cur.event)
  /\ UNCHANGED <<resv, clones, lock, procVars, pending, nodeVars, history>>

(* An event that does not concern the state its job is in *)
NCSIgnore ==
  /\ cur # NoEvent
  /\ Target(cur.event) = ""
  /\ HoldTarget(cur.event.type, cur.seen) = ""
  /\ ~(cur.event.type = "HOLD_WAITING_JOB" /\ cur.seen = "Running")
  /\ Checked(cur.event)
  /\ UNCHANGED <<jobRow, fragRow, procVars, pending, nodeVars, history>>

-----------------------------------------------------------------------------
(* The user commands *)

MayRequest(r) == r \in Requests /\ requests < MaxRequests

Oardel(j) ==
  /\ MayRequest("oardel")
  /\ frag[j] = "none"
  /\ FragJob(j)
  /\ requests' = requests + 1
  /\ UNCHANGED <<jobRow, events, ncsVars, procVars, pending, nodeVars, crashes>>

(* oardel --force-terminate-finishing-job, Finishing having lasted enough *)
OardelForce(j) ==
  /\ MayRequest("force")
  /\ state[j] = "Finishing"
  /\ Record(j, <<"FORCE_TERMINATE_FINISHING_JOB">>)
  /\ requests' = requests + 1
  /\ UNCHANGED <<jobRow, fragRow, ncsVars, procVars, pending, nodeVars, crashes>>

(* oarhold *)
OarholdWaiting(j) ==
  /\ MayRequest("oarhold")
  /\ state[j] \in {"Waiting", "Resuming"}
  /\ Record(j, <<"HOLD_WAITING_JOB">>)
  /\ requests' = requests + 1
  /\ UNCHANGED <<jobRow, fragRow, ncsVars, procVars, pending, nodeVars, crashes>>

(* oarhold -r *)
OarholdRunning(j) ==
  /\ MayRequest("oarhold -r")
  /\ state[j] \in {"Waiting", "Resuming", "toLaunch", "Launching", "Running"}
  /\ Record(j, <<"HOLD_RUNNING_JOB">>)
  /\ requests' = requests + 1
  /\ UNCHANGED <<jobRow, fragRow, ncsVars, procVars, pending, nodeVars, crashes>>

Oarresume(j) ==
  /\ MayRequest("oarresume")
  /\ state[j] \in {"Hold", "Suspended"}
  /\ Record(j, <<"RESUME_JOB">>)
  /\ requests' = requests + 1
  /\ UNCHANGED <<jobRow, fragRow, ncsVars, procVars, pending, nodeVars, crashes>>

-----------------------------------------------------------------------------
(* The processes that the commander starts: oar-bipbip and oar-leon <job>. *)
(* Those of one job never run together (BipbipCommander!OneProcessPerJob). *)

StartLabel(kind) ==
  CASE kind = "run" -> "readRun" [] kind = "end" -> "readEnd" [] kind = "leon" -> "leon"

Start(j, kind) ==
  /\ pc[j] = "idle"
  /\ pending[j][kind] > 0
  /\ pending' = [pending EXCEPT ![j][kind] = @ - 1]
  /\ Goto(j, StartLabel(kind))
  /\ UNCHANGED <<jobRow, fragRow, events, ncsVars, err, nodeVars, history>>

(* The process ends, whatever the code it exits with *)
Exit(j) == Goto(j, "idle") /\ err' = [err EXCEPT ![j] = "ok"]

(* COMMIT of a process that holds its row publishes what it has flushed *)
Commit(j) ==
  /\ state' = IF lock[j] THEN [state EXCEPT ![j] = "Launching"] ELSE state
  /\ lock' = [lock EXCEPT ![j] = FALSE]

(* Mutant of BipbipRead: a job is launched whatever its state *)
BipbipReadNoCheck(j) ==
  /\ pc[j] \in {"readRun", "readEnd"}
  /\ \/ /\ pc[j] = "readEnd" /\ state[j] \in Started
        /\ Goto(j, "finish")
        /\ err' = [err EXCEPT ![j] = code[j]]
     \/ /\ ~(pc[j] = "readEnd" /\ state[j] \in Started)
        /\ Goto(j, "launch")
        /\ UNCHANGED err
  /\ UNCHANGED <<jobRow, fragRow, events, ncsVars, pending, nodeVars, history>>

(* bipbip reads the job: the end of a started job, a job to launch, or a   *)
(* job already treated or deleted in the meantime                          *)
BipbipRead(j) ==
  /\ pc[j] \in {"readRun", "readEnd"}
  /\ \/ /\ pc[j] = "readEnd" /\ state[j] \in Started
        /\ Goto(j, "finish")
        /\ err' = [err EXCEPT ![j] = code[j]]
     \/ /\ ~(pc[j] = "readEnd" /\ state[j] \in Started)
        /\ state[j] = "toLaunch"
        /\ Goto(j, "launch")
        /\ UNCHANGED err
     \/ /\ ~(pc[j] = "readEnd" /\ state[j] \in Started)
        /\ state[j] # "toLaunch"
        /\ Exit(j)
  /\ UNCHANGED <<jobRow, fragRow, events, ncsVars, pending, nodeVars, history>>

BipbipLaunch(j) ==
  /\ pc[j] = "launch"
  /\ SetState(j, "Launching")
  /\ Goto(j, "flush")
  /\ UNCHANGED <<resv, clones, lock, fragRow, events, ncsVars, err, pending,
                 nodeVars, history>>

(* job.state = "Launching" makes the object dirty: the next query flushes  *)
(* it, without the filters of set_job_state, and nothing commits it yet.   *)
BipbipFlush(j) ==
  /\ pc[j] = "flush"
  /\ lock' = [lock EXCEPT ![j] = TRUE]
  /\ Goto(j, IF j \in Noop THEN "noop" ELSE "prepare")
  /\ UNCHANGED <<state, resv, clones, fragRow, events, ncsVars, err, pending,
                 nodeVars, history>>

(* A noop job: its own pending Launching lets the filters of set_job_state *)
(* pass, then the server prologue is called for nothing but its event      *)
BipbipNoop(j) ==
  /\ pc[j] = "noop"
  /\ state' = [state EXCEPT ![j] = "Running"]
  /\ lock' = [lock EXCEPT ![j] = FALSE]
  /\ Record(j, <<"SERVER_PROLOGUE_EXIT_CODE_ERROR">>) \/ UNCHANGED events
  /\ Exit(j)
  /\ UNCHANGED <<resv, clones, fragRow, ncsVars, pending, nodeVars, history>>

(* The cpusets are made and the nodes are checked. All is well; or the     *)
(* cpuset file is bad and the process dies of a NameError; or some nodes   *)
(* are bad, which the job survives if it is a reservation with good nodes. *)
BipbipPrepare(j) ==
  /\ pc[j] = "prepare"
  /\ \/ Goto(j, "prologue") /\ UNCHANGED <<state, lock, events, err>>
     \/ /\ lock' = [lock EXCEPT ![j] = FALSE]
        /\ Exit(j)
        /\ UNCHANGED <<state, events>>
     \/ /\ Commit(j)
        /\ Goto(j, "report")
        /\ UNCHANGED <<events, err>>
  /\ UNCHANGED <<resv, clones, fragRow, ncsVars, pending, nodeVars, history>>

BipbipReport(j) ==
  /\ pc[j] = "report"
  /\ \E type \in BadNodeEvents :
       \/ Record(j, <<type>>) /\ resv[j] = "None" /\ Exit(j)
       \/ Record(j, <<"RESERVATION_NO_NODE", type>>) /\ resv[j] # "None" /\ Exit(j)
       \/ Record(j, <<type>>) /\ resv[j] # "None" /\ Goto(j, "prologue") /\ UNCHANGED err
  /\ UNCHANGED <<jobRow, fragRow, ncsVars, pending, nodeVars, history>>

(* call_server_prologue: run ignores the value it returns *)
BipbipPrologue(j) ==
  /\ pc[j] = "prologue"
  /\ \/ UNCHANGED <<state, lock, events>>
     \/ Record(j, <<"SERVER_PROLOGUE_EXIT_CODE_ERROR">>) /\ Commit(j)
  /\ Goto(j, "exec")
  /\ UNCHANGED <<resv, clones, fragRow, ncsVars, err, pending, nodeVars, history>>

(* The state that check_end_of_job finds in the object of the session *)
SeenByProcess(j) == IF lock[j] THEN "Launching" ELSE state[j]

(* Mutant of BipbipExec: a launch that failed is tried again *)
BipbipExecRetry(j) ==
  /\ pc[j] = "exec"
  /\ LET Launched == /\ oarexec' = [oarexec EXCEPT ![j] = "running"]
                     /\ started' = [started EXCEPT ![j] = @ + 1]
     IN  \/ Launched /\ Goto(j, "setrun")
         \/ (Launched \/ UNCHANGED <<oarexec, started>>) /\ UNCHANGED pc
  /\ UNCHANGED <<jobRow, fragRow, events, ncsVars, err, pending, termed, code, history>>

(* launch_oarexec: a failure does not mean that oarexec was not started.   *)
(* After a failure check_end_of_job looks at the state read before it.     *)
BipbipExec(j) ==
  /\ pc[j] = "exec"
  /\ LET Launched == /\ oarexec' = [oarexec EXCEPT ![j] = "running"]
                     /\ started' = [started EXCEPT ![j] = @ + 1]
     IN  \/ Launched /\ Goto(j, "setrun") /\ UNCHANGED err
         \/ /\ Launched \/ UNCHANGED <<oarexec, started>>
            /\ IF SeenByProcess(j) \in Started
               THEN Goto(j, "finish") /\ err' = [err EXCEPT ![j] = "timeout"]
               ELSE Goto(j, "quit") /\ UNCHANGED err
  /\ UNCHANGED <<jobRow, fragRow, events, ncsVars, pending, termed, code, history>>

(* "I was previously killed or Terminated but I did not know that!!" *)
BipbipQuit(j) ==
  /\ pc[j] = "quit"
  /\ Exit(j)
  /\ UNCHANGED <<jobRow, fragRow, events, ncsVars, pending, nodeVars, history>>

(* set_job_state, in the transaction that holds Launching if it is not over *)
BipbipSetRunning(j) ==
  /\ pc[j] = "setrun"
  /\ state' = [state EXCEPT ![j] = IF lock[j] THEN "Running" ELSE After(j, "Running")]
  /\ lock' = [lock EXCEPT ![j] = FALSE]
  /\ Exit(j)
  /\ UNCHANGED <<resv, clones, fragRow, events, ncsVars, pending, nodeVars, history>>

(* check_end_of_job: set_finish_date commits, then the state is set *)
BipbipFinish(j) ==
  /\ pc[j] = "finish"
  /\ \/ lock[j] /\ Commit(j) /\ UNCHANGED pc
     \/ SetState(j, "Finishing") /\ Goto(j, "sequence") /\ UNCHANGED lock
  /\ UNCHANGED <<resv, clones, fragRow, events, ncsVars, err, pending, nodeVars, history>>

(* The cleaning of the cpusets kills what is left of the job on its nodes, *)
(* if it succeeds                                                          *)
CleanNodes(j) ==
  \/ UNCHANGED oarexec
  \/ oarexec[j] = "running" /\ oarexec' = [oarexec EXCEPT ![j] = "gone"]

(* job_finishing_sequence: the events are written at its end *)
BipbipSequence(j) ==
  /\ pc[j] = "sequence"
  /\ CleanNodes(j)
  /\ Record(j, EndEvents[err[j]])
  /\ Exit(j)
  /\ UNCHANGED <<jobRow, fragRow, ncsVars, pending, started, termed, code, history>>

(* leon <job>: the timer is armed before the job is exterminated *)
LeonArm(j) ==
  /\ pc[j] = "leon"
  /\ IF frag[j] = "LEON_EXTERMINATE"
     THEN frag' = [frag EXCEPT ![j] = "TIMER_ARMED"] /\ Goto(j, "leonseq")
     ELSE Goto(j, "idle") /\ UNCHANGED frag
  /\ UNCHANGED <<jobRow, age, events, ncsVars, err, pending, nodeVars, history>>

(* Mutant of LeonSequence: the event is not written *)
LeonSequenceMute(j) ==
  /\ pc[j] = "leonseq"
  /\ CleanNodes(j)
  /\ Goto(j, "idle")
  /\ UNCHANGED <<jobRow, fragRow, events, ncsVars, err, pending, started, termed,
                 code, history>>

(* Its job_finishing_sequence, with the one event of an extermination *)
LeonSequence(j) ==
  /\ pc[j] = "leonseq"
  /\ CleanNodes(j)
  /\ Record(j, <<"EXTERMINATE_JOB">>)
  /\ Goto(j, "idle")
  /\ UNCHANGED <<jobRow, fragRow, ncsVars, err, pending, started, termed, code, history>>

(* A process dies (exception, kill, reboot of the server): its transaction *)
(* is rolled back.                                                         *)
ProcessDies(j) ==
  /\ pc[j] # "idle"
  /\ crashes < MaxCrashes
  /\ crashes' = crashes + 1
  /\ lock' = [lock EXCEPT ![j] = FALSE]
  /\ Exit(j)
  /\ UNCHANGED <<state, resv, clones, fragRow, events, ncsVars, pending, nodeVars,
                 requests>>

-----------------------------------------------------------------------------
(* oarexec, on the first node of the job *)

(* It ends, and tells the server how; only a TERM makes it exit with 3 *)
OarexecEnds(j) ==
  /\ oarexec[j] = "running"
  /\ oarexec' = [oarexec EXCEPT ![j] = "gone"]
  /\ \E c \in ExitClasses :
       /\ c = "killed" => termed[j]
       /\ code' = [code EXCEPT ![j] = c]
  /\ Notify(j, "end")
  /\ UNCHANGED <<jobRow, fragRow, events, ncsVars, procVars, started, termed, history>>

(* The node stops: nobody is told *)
OarexecDies(j) ==
  /\ oarexec[j] = "running"
  /\ oarexec' = [oarexec EXCEPT ![j] = "gone"]
  /\ UNCHANGED <<jobRow, fragRow, events, ncsVars, procVars, pending, started,
                 termed, code, history>>

-----------------------------------------------------------------------------
Metasched(j) ==
  \/ SchedReserve(j) \/ SchedExpire(j) \/ SchedLaunch(j) \/ SchedRelaunch(j)
  \/ SchedError(j) \/ SchedAck(j) \/ SchedResume(j)

Killers(j) ==
  LeonKill(j) \/ LeonTooLate(j) \/ LeonExterminate(j) \/ SarkoTimer(j) \/ SarkoWalltime(j)

NodeChangeState ==
  NCSStart \/ NCSRead \/ NCSSwitch \/ NCSHold \/ NCSSuspend \/ NCSIgnore

Users(j) ==
  Oardel(j) \/ OardelForce(j) \/ OarholdWaiting(j) \/ OarholdRunning(j) \/ Oarresume(j)

Bipbip(j) ==
  \/ BipbipRead(j) \/ BipbipLaunch(j) \/ BipbipFlush(j) \/ BipbipNoop(j)
  \/ BipbipPrepare(j) \/ BipbipReport(j) \/ BipbipPrologue(j) \/ BipbipExec(j)
  \/ BipbipQuit(j) \/ BipbipSetRunning(j) \/ BipbipFinish(j) \/ BipbipSequence(j)

LeonProcess(j) == LeonArm(j) \/ LeonSequence(j)

Oarexec(j) == OarexecEnds(j) \/ OarexecDies(j)

Next ==
  \/ NodeChangeState
  \/ \E j \in Jobs :
       \/ Metasched(j) \/ Killers(j) \/ FragAges(j) \/ Users(j)
       \/ \E kind \in CommandKinds : Start(j, kind)
       \/ Bipbip(j) \/ LeonProcess(j) \/ ProcessDies(j) \/ Oarexec(j)

Spec == Init /\ [][Next]_vars

(***************************************************************************)
(* Fairness. Almighty looks for villains and runs Leon again and again, so *)
(* an action of Leon or Sarko that is possible again and again is taken;   *)
(* so is the last loop of the metascheduler. NodeChangeState and the steps *)
(* of a process are sequential code that goes on. The commander executes   *)
(* what it is sent (BipbipCommander!SentIsExecuted), when the process of   *)
(* the job has ended. Time passes. Nothing is assumed of users, of oarexec *)
(* or of the other decisions of the metascheduler.                         *)
(***************************************************************************)
FairSpec ==
  /\ Spec
  /\ WF_vars(NodeChangeState)
  /\ \A j \in Jobs :
       /\ SF_vars(LeonKill(j) \/ LeonExterminate(j) \/ SarkoTimer(j))
       /\ SF_vars(SchedRelaunch(j))
       /\ WF_vars(FragAges(j))
       /\ \A kind \in CommandKinds : SF_vars(Start(j, kind))
       /\ WF_vars(Bipbip(j)) /\ WF_vars(LeonProcess(j))

-----------------------------------------------------------------------------
(* Properties *)

Labels ==
  {"idle", "readRun", "readEnd", "launch", "flush", "noop", "prepare", "report",
   "prologue", "exec", "quit", "setrun", "finish", "sequence", "leon", "leonseq"}

IsEvent(e) == e.job \in Jobs /\ e.type \in EventTypes

TypeOK ==
  /\ state \in [Jobs -> States]
  /\ resv \in [Jobs -> {"None", "toSchedule", "Scheduled"}]
  /\ frag \in [Jobs -> FragStates]
  /\ age \in [Jobs -> 0..2]
  /\ clones \in [Jobs -> Nat]
  /\ \A e \in events : IsEvent(e)
  /\ lock \in [Jobs -> BOOLEAN]
  /\ \A e \in todo : IsEvent(e)
  /\ cur # NoEvent => IsEvent(cur.event) /\ cur.seen \in States
  /\ pc \in [Jobs -> Labels]
  /\ err \in [Jobs -> DOMAIN EndEvents]
  /\ code \in [Jobs -> DOMAIN EndEvents]
  /\ pending \in [Jobs -> [CommandKinds -> Nat]]
  /\ oarexec \in [Jobs -> {"none", "running", "gone"}]
  /\ started \in [Jobs -> Nat]
  /\ termed \in [Jobs -> BOOLEAN]
  /\ requests \in Nat
  /\ crashes \in Nat

(* The command of a job is started at most once: not by a second command   *)
(* of the scheduler, not after the death of a bipbip, not by the message   *)
(* of an oarexec that bipbip took for one to launch (bipbip.py, run).      *)
StartedOnce == \A j \in Jobs : started[j] <= 1

OverKept == \A j \in Jobs : state[j] \in Over /\ state'[j] # state[j] => lock[j]

(* A job that is over stays as it is, but for the write of bipbip.py:158,  *)
(* which does not have the filters of set_job_state: a transaction that    *)
(* holds the row is the only one that can bring the job back.              *)
OverChangesOnlyUnderLock == [][OverKept]_vars

(* Sarko gives up a deletion when the job has ended (FRAGGED, for good: no *)
(* other row can be made for the job); such a job must not be alive, since *)
(* nothing could kill it any more. Asked of the jobs that are not noop: the *)
(* process of a noop job writes Running without looking.                   *)
FraggedJobIsOver ==
  \A j \in Jobs \ Noop : frag[j] = "FRAGGED" => state[j] \in Over \cup {"Finishing"}

(* The strengthening that makes StartedOnce inductive. A process that goes *)
(* to oarexec found a job that never ran, and took it out of the states    *)
(* from which it could be launched again; nobody but Almighty moves a job  *)
(* out of Waiting and Hold, so that a state NodeChangeState read there is  *)
(* still true when it acts; a noop job is given back under its lock.       *)
BeforeExec == {"launch", "flush", "prepare", "report", "prologue", "exec"}

PastLaunch ==
  {"flush", "noop", "prepare", "report", "prologue", "exec", "quit", "setrun", "finish"}

LaunchSafe(j) ==
  /\ pc[j] \in BeforeExec => started[j] = 0
  /\ state[j] \in Unlaunched => started[j] = 0
  /\ pc[j] \in PastLaunch => state[j] \notin Unlaunched
  /\ pc[j] = "launch" => state[j] \notin Unlaunched \ {"toLaunch"}
  /\ pc[j] = "noop" => lock[j]

SeenStillTrue ==
  cur # NoEvent /\ cur.seen \in {"Waiting", "Hold"}
    => state[cur.event.job] \in {"Waiting", "Hold"}

IInv ==
  /\ TypeOK
  /\ StartedOnce
  /\ \A j \in Jobs : LaunchSafe(j)
  /\ SeenStillTrue

(* Where a job is, for its user. A process that launches it, or holds its  *)
(* row, has it, whatever the state that the others see.                    *)
InLaunch == {"launch", "flush", "noop", "prepare", "report", "prologue", "exec", "quit", "setrun"}

Taken(j) == pc[j] \in InLaunch \/ lock[j]

Phase(j) ==
  IF Taken(j) \/ state[j] \notin Over \cup Unlaunched THEN "active"
  ELSE IF state[j] \in Over THEN "over" ELSE "pending"

JP == INSTANCE JobPromise WITH
        phase <- [j \in Jobs |-> Phase(j)],
        runs  <- started

(* The tables, the processes and their commits keep the promise of         *)
(* JobPromise.                                                             *)
ImplementsJobPromise == JP!PSpec

(* A job that someone asked to delete ends, whatever its nodes do: the     *)
(* TERM of Leon, the timers of Sarko and the extermination lead there.     *)
KilledJobEnds == \A j \in Jobs : (frag[j] # "none") ~> (state[j] \in Over)

(* A job whose oarexec told its end is over some day: the message waits at *)
(* the commander, bipbip writes an event, NodeChangeState reads it.        *)
ToldEndIsRecorded == \A j \in Jobs : (pending[j]["end"] > 0) ~> (state[j] \in Over)

(* A job to launch does not stay so, even if the first notification of     *)
(* bipbip was lost (the last loop of meta_schedule).                       *)
ToLaunchIsTreated == \A j \in Jobs : (state[j] = "toLaunch") ~> (state[j] # "toLaunch")

=============================================================================
