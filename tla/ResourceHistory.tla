-------------------------- MODULE ResourceHistory --------------------------
(***************************************************************************)
(* What the table resource_logs remembers of the resources, and the        *)
(* commands of the administrators that write it with several commits each: *)
(* oarnodesetting and oarremoveresource, next to the programs of Almighty  *)
(* that read and write the same rows, NodeChangeState (which may die       *)
(* between two commits, and is then run again) and the dead switch of      *)
(* Sarko, whose clock is the start of the open row of a resource.          *)
(*                                                                         *)
(* One step is one commit. Almighty runs one program at a time, the        *)
(* commands run at any time. ResourceStates has the tags of Finaud and the *)
(* exit codes, which are left out here. Of the properties of a resource    *)
(* only available_upto keeps its rows; last_available_upto is written in   *)
(* the same way.                                                           *)
(***************************************************************************)
EXTENDS Naturals, Sequences, FiniteSets

CONSTANTS
  Resources, HostOf,   \* the resources, and the network address of each
  Installed,           \* those of the start
  Jobs, Uses,          \* the jobs, and the resources that each is given
  Cosystem,            \* the jobs of type cosystem or noop
  Uptos,               \* values of available_upto
  Timeout,             \* DEAD_SWITCH_TIME
  Admins,              \* processes of administrators
  MaxClock, MaxActs    \* bounds: dates; commands, accusations and crashes

States == {"Alive", "Absent", "Suspected", "Dead"}

ASSUME HostAssumption == Installed \subseteq Resources /\ DOMAIN HostOf = Resources
ASSUME JobAssumption == Uses \in [Jobs -> SUBSET Resources] /\ Cosystem \subseteq Jobs
ASSUME UptoAssumption ==
  /\ 0 \in Uptos /\ Uptos \subseteq Nat
  /\ \E u \in Uptos : \A v \in Uptos : v <= u   \* the column is an integer of 32 bits
ASSUME BoundAssumption == Timeout \in Nat \ {0} /\ MaxClock \in Nat \ {0} /\ MaxActs \in Nat

VARIABLES
  known,       \* the resources that are in the table
  state, next, \* state and next_state
  upto, saved, \* available_upto and last_available_upto
  log,         \* rows of attribute "state": [value, start, stop], stop = 0 if open
  upRows,      \* values of the open rows of attribute "available_upto"
  maint,       \* an open row of attribute "maintenance"
  job, frag,   \* the jobs, and those that have a row in frag_jobs
  events,      \* events to check that accuse a node: [job, host]
  clock,
  (* the program that Almighty runs *)
  program, todo, hand, date, kill,
  adm,         \* the administrators: [at, r, val, pend]
  acts,
  (* history *)
  late,        \* resources added in the middle of a suspicion of their node
  torn,        \* resources whose suspicion was cut and not done again
  unfragged,   \* resources taken out by a NodeChangeState that died then
  hurried,     \* requests made while NodeChangeState applies those it has read
  tangled,     \* available_upto has been written by two commands at once, by
               \* one that died, under maintenance, or by an off without on
  erased,      \* events deleted with their job by oarremoveresource, or checked with
               \* another one of their job
  given,       \* the last available_upto an administrator has given
  since        \* the date of the last change of state, 0 before it is added

table   == <<known, state, next, upto, saved>>
rows    == <<log, upRows, maint>>
jobVars == <<job, frag>>
prog    == <<program, todo, hand, date, kill>>
history == <<late, torn, unfragged, hurried, tangled, erased, given, since>>
vars    == <<table, rows, jobVars, events, clock, prog, adm, acts, history>>

Row(value, start) == [value |-> value, start |-> start, stop |-> 0]

(* UPDATE resource_logs SET date_stop = ... WHERE date_stop = 0 *)
Closed(rs) == [i \in DOMAIN rs |-> IF rs[i].stop = 0 THEN [rs[i] EXCEPT !.stop = clock] ELSE rs[i]]

(* The resources of a node: those that are in the table *)
OnHost(h) == {r \in known : HostOf[r] = h}

Idle == [at |-> "idle", r |-> CHOOSE r \in Resources : TRUE, val |-> 0, pend |-> FALSE]

Default == CHOOSE u \in Uptos : \A v \in Uptos : v <= u

Init ==
  /\ known = Installed
  /\ state = [r \in Resources |-> "Alive"]
  /\ next = [r \in Resources |-> "UnChanged"]
  /\ upto = [r \in Resources |-> Default]
  /\ saved = [r \in Resources |-> 0]
  /\ log = [r \in Resources |-> IF r \in Installed THEN <<Row("Alive", 1)>> ELSE <<>>]
  /\ upRows = [r \in Resources |-> <<>>]
  /\ maint = [r \in Resources |-> FALSE]
  /\ job = [j \in Jobs |-> "waiting"]
  /\ frag = {}
  /\ events = {}
  /\ clock = 1
  /\ program = "none" /\ todo = {} /\ hand = {} /\ date = 0 /\ kill = {}
  /\ adm = [a \in Admins |-> Idle]
  /\ acts = 0
  /\ late = {} /\ torn = {} /\ unfragged = {} /\ hurried = {} /\ tangled = {} /\ erased = {}
  /\ given = upto
  /\ since = [r \in Resources |-> IF r \in Installed THEN 1 ELSE 0]

-----------------------------------------------------------------------------
(* Around the programs *)

Act == acts < MaxActs /\ acts' = acts + 1

Tick ==
  /\ clock < MaxClock
  /\ clock' = clock + 1
  /\ UNCHANGED <<table, rows, jobVars, events, prog, adm, acts, history>>

(* The metascheduler, one of the programs of Almighty, launches on resources *)
(* that are Alive.                                                          *)
JobStarts(j) ==
  /\ program = "none"
  /\ job[j] = "waiting"
  /\ Uses[j] \subseteq {r \in known : state[r] = "Alive"}
  /\ job' = [job EXCEPT ![j] = "running"]
  /\ UNCHANGED <<table, rows, frag, events, clock, prog, adm, acts, history>>

(* A job ends and log_job takes its rows out of those that are CURRENT, so *)
(* that the programs that look for jobs to stop do not find it             *)
JobEnds(j) ==
  /\ job[j] = "running"
  /\ job' = [job EXCEPT ![j] = "over"]
  /\ UNCHANGED <<table, rows, frag, events, clock, prog, adm, acts, history>>

(* An event of a job that is or was on a node accuses the node *)
Accuse(j, h) ==
  /\ Act
  /\ job[j] \in {"running", "over"}
  /\ \E r \in Uses[j] : HostOf[r] = h
  /\ events' = events \cup {[job |-> j, host |-> h]}
  /\ UNCHANGED <<table, rows, jobVars, clock, prog, adm, history>>

-----------------------------------------------------------------------------
(* Commands of one commit *)

Applying == program \in {"changes", "applying", "fragging"}

(* set_resource_nextState, set_resources_nextState *)
AskFor(r, s) ==
  /\ next' = [next EXCEPT ![r] = s]
  /\ hurried' = IF Applying THEN hurried \cup {r} ELSE hurried

(* oarnodesetting -r <r> -s <s> *)
SetState(r, s) ==
  /\ Act
  /\ r \in known
  /\ AskFor(r, s)
  /\ UNCHANGED <<known, state, upto, saved, rows, jobVars, events, clock, prog, adm,
                 late, torn, unfragged, tangled, erased, given, since>>

(* oarnodesetting -a: add_resource. An id is given once. *)
FirstRows == <<Row("Alive", clock)>>

AddResource(r) ==
  /\ Act
  /\ since[r] = 0
  /\ known' = known \cup {r}
  /\ log' = [log EXCEPT ![r] = FirstRows]
  /\ since' = [since EXCEPT ![r] = clock]
  /\ late' = IF program \in {"closing", "opening"} /\ hand.host = HostOf[r]
             THEN late \cup {r} ELSE late
  /\ UNCHANGED <<state, next, upto, saved, upRows, maint, jobVars, events, clock, prog,
                 adm, torn, unfragged, hurried, tangled, erased, given>>

(* oarremoveresource: a Dead resource goes away with its history, and with *)
(* every job that has run on it, whatever the state of the job             *)
RemoveResource(r) ==
  LET gone == {j \in Jobs : r \in Uses[j] /\ job[j] \in {"running", "over"}}
  IN  /\ Act
      /\ r \in known
      /\ state[r] = "Dead"
      /\ known' = known \ {r}
      /\ log' = [log EXCEPT ![r] = <<>>]
      /\ upRows' = [upRows EXCEPT ![r] = <<>>]
      /\ maint' = [maint EXCEPT ![r] = FALSE]
      /\ job' = [j \in Jobs |-> IF j \in gone THEN "deleted" ELSE job[j]]
      /\ frag' = frag \ gone
      /\ events' = {e \in events : e.job \notin gone}
      /\ erased' = erased \cup {e \in events : e.job \in gone}
      /\ UNCHANGED <<state, next, upto, saved, clock, prog, adm, late, torn, unfragged,
                     hurried, tangled, given, since>>

-----------------------------------------------------------------------------
(* set_resources_property for available_upto: the rows that differ are     *)
(* written and their open row closed, a commit, the new row, a commit. A   *)
(* row that does not differ is left alone.                                 *)

Differs(r, v) == r \in known /\ upto[r] # v

WriteUpto(r, v) ==
  /\ upto' = [upto EXCEPT ![r] = v]
  /\ upRows' = [upRows EXCEPT ![r] = <<>>]

Goto(a, at) == adm' = [adm EXCEPT ![a].at = at]

InHands(r) == \E a \in Admins : adm[a].at # "idle" /\ adm[a].r = r

(* A command begins; a second one on the same resource is interleaved *)
Command(a, r, at, val, more) ==
  /\ Act
  /\ adm[a].at = "idle"
  /\ r \in known
  /\ adm' = [adm EXCEPT ![a] = [at |-> at, r |-> r, val |-> val, pend |-> (at = "zero")]]
  /\ tangled' = IF InHands(r) \/ more THEN tangled \cup {r} ELSE tangled

(* oarnodesetting -p available_upto=<v> *)
SetUpto(a, r, v) ==
  /\ Differs(r, v)
  /\ Command(a, r, "propLog", v, maint[r])
  /\ WriteUpto(r, v)
  /\ given' = [given EXCEPT ![r] = v]
  /\ UNCHANGED <<known, state, next, saved, log, maint, jobVars, events, clock, prog,
                 late, torn, unfragged, hurried, erased, since>>

(* The second commit of set_resources_property *)
LogUpto(a) ==
  LET Logged(at, v, then) ==
        /\ adm[a].at = at
        /\ upRows' = [upRows EXCEPT ![adm[a].r] = Append(@, v)]
        /\ Goto(a, then)
  IN  /\ \/ Logged("propLog", adm[a].val, "idle")
         \/ Logged("zeroLog", 0, "save")
         \/ Logged("backLog", adm[a].val, "absent")
      /\ UNCHANGED <<table, log, maint, jobVars, events, clock, prog, acts, history>>

(* oarnodesetting -m on: available_upto is read first. The row of the      *)
(* maintenance waits in the transaction for the first commit.              *)
MaintenanceOn(a, r) ==
  /\ Command(a, r, "zero", upto[r], FALSE)
  /\ UNCHANGED <<table, rows, jobVars, events, clock, prog, late, torn, unfragged,
                 hurried, erased, given, since>>

Commits(a) == maint' = IF adm[a].pend THEN [maint EXCEPT ![adm[a].r] = TRUE] ELSE maint

OnZero(a) ==
  LET r == adm[a].r
  IN  /\ adm[a].at = "zero"
      /\ \/ /\ Differs(r, 0)
            /\ WriteUpto(r, 0)
            /\ Commits(a)
            /\ adm' = [adm EXCEPT ![a].at = "zeroLog", ![a].pend = FALSE]
         \/ /\ ~Differs(r, 0)
            /\ Goto(a, "save")
            /\ UNCHANGED <<upto, upRows, maint>>
      /\ UNCHANGED <<known, state, next, saved, log, jobVars, events, clock, prog, acts,
                     history>>

(* A resource that was not available has nothing to save *)
ToSave(v) == v # 0

OnSave(a) ==
  LET r == adm[a].r
      v == adm[a].val
  IN  /\ adm[a].at = "save"
      /\ \/ /\ ToSave(v) /\ r \in known /\ saved[r] # v
            /\ saved' = [saved EXCEPT ![r] = v]
            /\ Commits(a)
            /\ adm' = [adm EXCEPT ![a].at = "absent", ![a].pend = FALSE]
         \/ /\ ~(ToSave(v) /\ r \in known /\ saved[r] # v)
            /\ Goto(a, "absent")
            /\ UNCHANGED <<saved, maint>>
      /\ UNCHANGED <<known, state, next, upto, log, upRows, jobVars, events, clock, prog,
                     acts, history>>

(* oarnodesetting -m off: the row of the maintenance is closed, a commit,  *)
(* and the resource is read again.                                         *)
MaintenanceOff(a, r) ==
  /\ Command(a, r, "back", 0, ~maint[r])
  /\ maint' = [maint EXCEPT ![r] = FALSE]
  /\ UNCHANGED <<table, log, upRows, jobVars, events, clock, prog, late, torn, unfragged,
                 hurried, erased, given, since>>

OffBack(a) ==
  LET r == adm[a].r
  IN  /\ adm[a].at = "back"
      /\ r \in known
      /\ \/ /\ ToSave(saved[r]) /\ Differs(r, saved[r])
            /\ WriteUpto(r, saved[r])
            /\ adm' = [adm EXCEPT ![a].at = "backLog", ![a].val = saved[r]]
         \/ /\ ~(ToSave(saved[r]) /\ Differs(r, saved[r]))
            /\ Goto(a, "absent")
            /\ UNCHANGED <<upto, upRows>>
      /\ UNCHANGED <<known, state, next, saved, log, maint, jobVars, events, clock, prog,
                     acts, history>>

(* Both ask for the state Absent in the end *)
AskAbsent(a) ==
  LET r == adm[a].r
  IN  /\ adm[a].at = "absent"
      /\ IF r \in known THEN AskFor(r, "Absent") ELSE UNCHANGED <<next, hurried>>
      /\ Commits(a)
      /\ adm' = [adm EXCEPT ![a] = Idle]
      /\ UNCHANGED <<known, state, upto, saved, log, upRows, jobVars, events, clock, prog,
                     acts, late, torn, unfragged, tangled, erased, given, since>>

(* The command is killed, or finds that the resource has been removed *)
CommandDies(a) ==
  /\ adm[a].at # "idle"
  /\ \/ Act
     \/ adm[a].at = "back" /\ adm[a].r \notin known /\ UNCHANGED acts
  /\ adm' = [adm EXCEPT ![a] = Idle]
  /\ tangled' = tangled \cup {adm[a].r}
  /\ UNCHANGED <<table, rows, jobVars, events, clock, prog, late, torn, unfragged,
                 hurried, erased, given, since>>

-----------------------------------------------------------------------------
(* NodeChangeState: the events *)

NCSStart ==
  /\ program = "none"
  /\ program' = "events"
  /\ todo' = events
  /\ UNCHANGED <<table, rows, jobVars, events, clock, hand, date, kill, adm, acts, history>>

(* Mutant of ToCheck: an event is checked before it is treated *)
ToCheckBefore(e) == events \ {e}

(* What is still to check when an event begins to be treated *)
ToCheck(e) == events

(* set_node_state, first commit: the state of every resource of the node.  *)
(* The callers write "Suspected" and the function tests "Suspect": no      *)
(* state of a resource protects it.                                        *)
SuspectState ==
  /\ program = "events"
  /\ \E e \in todo :
       LET rs == OnHost(e.host)
       IN  /\ hand' = e
           /\ events' = ToCheck(e)
           /\ state' = [r \in Resources |-> IF r \in rs THEN "Suspected" ELSE state[r]]
           /\ since' = [r \in Resources |-> IF r \in rs THEN clock ELSE since[r]]
  /\ program' = "closing"
  /\ UNCHANGED <<known, next, upto, saved, rows, jobVars, clock, todo, date, kill,
                 adm, acts, late, torn, unfragged, hurried, tangled, erased, given>>

(* Second commit: the date is read, and the open rows of the resources     *)
(* that the node has by now are closed                                     *)
SuspectClose ==
  /\ program = "closing"
  /\ date' = clock
  /\ log' = [r \in Resources |-> IF r \in OnHost(hand.host) THEN Closed(log[r]) ELSE log[r]]
  /\ program' = "opening"
  /\ UNCHANGED <<table, upRows, maint, jobVars, events, clock, todo, hand, kill, adm, acts,
                 history>>

(* Mutant of OpenDate: not the date at which the others were closed *)
OpenDateOfStart == 1

(* The same date closes a row and opens the next one *)
OpenDate == date

(* Third commit: INSERT ... SELECT, for the resources of the node by then *)
SuspectOpen ==
  /\ program = "opening"
  /\ LET rs == OnHost(hand.host)
     IN  /\ log' = [r \in Resources |->
                      IF r \in rs THEN Append(log[r], Row("Suspected", OpenDate)) ELSE log[r]]
         /\ torn' = torn \ rs
  /\ program' = "checking"
  /\ UNCHANGED <<table, upRows, maint, jobVars, events, clock, todo, hand, date, kill, adm,
                 acts, late, unfragged, hurried, tangled, erased, given, since>>

(* check_event, last of all: the other events of its job are checked with  *)
(* it if they have its type                                                *)
CheckEvent ==
  /\ program = "checking"
  /\ \E same \in SUBSET {e \in events : e.job = hand.job} :
       /\ events' = events \ (same \cup {hand})
       /\ erased' = erased \cup (same \ {hand})
  /\ todo' = todo \ {hand}
  /\ hand' = {}
  /\ date' = 0
  /\ program' = "events"
  /\ UNCHANGED <<table, rows, jobVars, clock, kill, adm, acts, late, torn, unfragged, hurried,
                 tangled, given, since>>

-----------------------------------------------------------------------------
(* NodeChangeState: the requests *)

(* get_resources_change_state: all of them at once *)
ReadRequests ==
  /\ program = "events"
  /\ todo = {}
  /\ program' = "changes"
  /\ todo' = {[res |-> r, asked |-> next[r]] : r \in {q \in known : next[q] # "UnChanged"}}
  /\ hurried' = {}
  /\ UNCHANGED <<table, rows, jobVars, events, clock, hand, date, kill, adm, acts, late,
                 torn, unfragged, tangled, erased, given, since>>

(* get_resource raises for a resource that has been removed since, which   *)
(* ends the program; a request for the state that the resource has stays.  *)
LookAt ==
  /\ program = "changes"
  /\ \E c \in todo :
       \/ /\ c.res \notin known
          /\ program' = "none" /\ todo' = {} /\ UNCHANGED hand
       \/ /\ c.res \in known /\ state[c.res] = c.asked
          /\ todo' = todo \ {c} /\ UNCHANGED <<program, hand>>
       \/ /\ c.res \in known /\ state[c.res] # c.asked
          /\ program' = "applying" /\ hand' = c /\ UNCHANGED todo
  /\ UNCHANGED <<table, rows, jobVars, events, clock, date, kill, adm, acts, history>>

(* Mutant of JobsOn: the exceptions instead of the others *)
JobsOnExcepted(r) == {j \in Cosystem : r \in Uses[j] /\ job[j] = "running"}

(* get_resource_job_to_frag *)
JobsOn(r) == {j \in Jobs \ Cosystem : r \in Uses[j] /\ job[j] = "running"}

(* set_resource_state and set_resource_nextState, one commit: the state,   *)
(* its rows (also for a resource removed since it was looked at) and the   *)
(* reset of the request. The jobs of a resource taken out are then read.   *)
Apply ==
  LET r == hand.res
      s == hand.asked
      out == s \in {"Dead", "Absent"}
  IN  /\ program = "applying"
      /\ log' = [log EXCEPT ![r] = Append(Closed(log[r]), Row(s, clock))]
      /\ IF r \in known
           THEN /\ state' = [state EXCEPT ![r] = s]
                /\ next' = [next EXCEPT ![r] = "UnChanged"]
                /\ since' = [since EXCEPT ![r] = clock]
           ELSE UNCHANGED <<state, next, since>>
      /\ torn' = torn \ {r}
      /\ unfragged' = unfragged \ {r}
      /\ kill' = IF out THEN JobsOn(r) ELSE {}
      /\ program' = IF out THEN "fragging" ELSE "changes"
      /\ todo' = IF out THEN todo ELSE todo \ {hand}
      /\ hand' = IF out THEN hand ELSE {}
  /\ UNCHANGED <<known, upto, saved, upRows, maint, jobVars, events, clock, date, adm, acts,
                 late, hurried, tangled, erased, given>>

(* frag_job: one commit each *)
FragOne ==
  /\ program = "fragging"
  /\ \E j \in kill :
       /\ kill' = kill \ {j}
       /\ frag' = IF job[j] = "deleted" THEN frag ELSE frag \cup {j}
  /\ UNCHANGED <<table, rows, job, events, clock, program, todo, hand, date, adm, acts,
                 history>>

(* Mutant of Reset: the requests of the whole node *)
ResetHost(r) == {q \in known : HostOf[q] = HostOf[r]}

Reset(r) == {r} \cap known

(* The else of the for: the request is reset once more, whatever it is now *)
ResetAgain ==
  /\ program = "fragging"
  /\ kill = {}
  /\ next' = [q \in Resources |-> IF q \in Reset(hand.res) THEN "UnChanged" ELSE next[q]]
  /\ program' = "changes"
  /\ todo' = todo \ {hand}
  /\ hand' = {}
  /\ UNCHANGED <<known, state, upto, saved, rows, jobVars, events, clock, date, kill, adm,
                 acts, history>>

NCSEnds ==
  /\ program = "changes"
  /\ todo = {}
  /\ program' = "none"
  /\ UNCHANGED <<table, rows, jobVars, events, clock, todo, hand, date, kill, adm, acts,
                 history>>

(* NodeChangeState dies: what it has not committed is lost. Most events    *)
(* need their job, and end the program if it has been deleted since they   *)
(* were read; some only need their node.                                   *)
NCSDies ==
  /\ \/ Act
     \/ program = "events" /\ (\E e \in todo : job[e.job] = "deleted") /\ UNCHANGED acts
  /\ program \notin {"none", "switch"}
  /\ program' = "none" /\ todo' = {} /\ hand' = {} /\ date' = 0 /\ kill' = {}
  /\ torn' = IF program \in {"closing", "opening"} THEN torn \cup OnHost(hand.host) ELSE torn
  /\ unfragged' = IF program = "fragging" THEN unfragged \cup {hand.res} ELSE unfragged
  /\ UNCHANGED <<table, rows, jobVars, events, clock, adm, late, hurried, tangled, erased,
                 given, since>>

-----------------------------------------------------------------------------
(* Sarko *)

Counts(row) == row.stop = 0

(* get_absent_suspected_resources_for_a_timeout: the open rows that are    *)
(* old, of whichever state                                                 *)
LongAgo == {r \in Resources :
              \E i \in DOMAIN log[r] : Counts(log[r][i]) /\ log[r][i].start + Timeout < clock}

SwitchStart ==
  /\ program = "none"
  /\ LongAgo # {}
  /\ program' = "switch"
  /\ todo' = LongAgo
  /\ UNCHANGED <<table, rows, jobVars, events, clock, hand, date, kill, adm, acts, history>>

SwitchOne ==
  /\ program = "switch"
  /\ \E r \in todo :
       /\ todo' = todo \ {r}
       /\ next' = IF r \in known THEN [next EXCEPT ![r] = "Dead"] ELSE next
       /\ program' = IF todo' = {} THEN "none" ELSE "switch"
  /\ UNCHANGED <<known, state, upto, saved, rows, jobVars, events, clock, hand, date, kill,
                 adm, acts, history>>

-----------------------------------------------------------------------------

Next ==
  \/ Tick
  \/ \E j \in Jobs : JobStarts(j) \/ JobEnds(j)
  \/ \E e \in {[job |-> j, r |-> r] : j \in Jobs, r \in Resources} : Accuse(e.job, HostOf[e.r])
  \/ \E r \in Resources, s \in {"Alive", "Absent", "Dead"} : SetState(r, s)
  \/ \E r \in Resources : AddResource(r) \/ RemoveResource(r)
  \/ \E a \in Admins, r \in Resources :
       \/ \E v \in Uptos : SetUpto(a, r, v)
       \/ MaintenanceOn(a, r)
       \/ MaintenanceOff(a, r)
  \/ \E a \in Admins :
       LogUpto(a) \/ OnZero(a) \/ OnSave(a) \/ OffBack(a) \/ AskAbsent(a) \/ CommandDies(a)
  \/ NCSStart \/ SuspectState \/ SuspectClose \/ SuspectOpen \/ CheckEvent
  \/ ReadRequests \/ LookAt \/ Apply \/ FragOne \/ ResetAgain \/ NCSEnds \/ NCSDies
  \/ SwitchStart \/ SwitchOne

Spec == Init /\ [][Next]_vars

-----------------------------------------------------------------------------

LogRow == [value : States, start : 1..MaxClock, stop : 0..MaxClock]

(* Types. The open state of the program tells what it has in its hands.    *)
TypeOK ==
  /\ known \subseteq Resources
  /\ state \in [Resources -> States]
  /\ next \in [Resources -> States \cup {"UnChanged"}]
  /\ upto \in [Resources -> Uptos] /\ saved \in [Resources -> Uptos]
  /\ \A r \in Resources : \A i \in DOMAIN log[r] :
       log[r][i] \in LogRow
  /\ \A r \in Resources : upRows[r] \in Seq(Uptos)
  /\ maint \in [Resources -> BOOLEAN]
  /\ job \in [Jobs -> {"waiting", "running", "over", "deleted"}]
  /\ frag \subseteq Jobs
  /\ events \subseteq [job : Jobs, host : {HostOf[r] : r \in Resources}]
  /\ program \in {"closing", "opening", "checking"} => hand \in todo
  /\ program \in {"applying", "fragging"} =>
       hand \in todo /\ hand \in [res : Resources, asked : States]
  /\ program \in {"none", "events", "changes", "switch"} => hand = {}
  /\ kill \subseteq Jobs \ Cosystem

(* The resources that a suspicion is treating *)
InSuspicion(r) == program \in {"closing", "opening"} /\ hand.host = HostOf[r]

OpenRows(r) == {i \in DOMAIN log[r] : log[r][i].stop = 0}

(* The history of a resource has one open row and it tells the state of    *)
(* the resource, however the commands, the suspicions and the crashes are  *)
(* interleaved, but for a resource added in the middle of a suspicion      *)
(* (set_node_state closes or opens a row for it as well) and while a       *)
(* suspicion is treated or has been cut. The open row of available_upto    *)
(* tells its value if commands did not mix.                                *)
HistoryTellsState ==
  \A r \in known :
    /\ ~InSuspicion(r) /\ r \notin late \cup torn =>
         \E i \in DOMAIN log[r] : OpenRows(r) = {i} /\ log[r][i].value = state[r]
    /\ ~InHands(r) /\ r \notin tangled => upRows[r] \in {<<>>, <<upto[r]>>}

(* The rows of a resource follow each other without overlap: the accounting *)
(* of the time that a resource has spent in a state relies on it.          *)
HistoryIsOrdered ==
  \A r \in known \ late : \A i \in DOMAIN log[r] :
    /\ log[r][i].stop # 0 => log[r][i].start <= log[r][i].stop
    /\ i > 1 => log[r][i - 1].stop # 0 /\ log[r][i - 1].stop <= log[r][i].start

(* A suspicion that was cut between its commits is done again: its event   *)
(* is still to check (set_node_state comes before check_event), unless     *)
(* oarremoveresource deleted it in the meantime, with a job that had run   *)
(* on another resource as well, or it was checked with another event of    *)
(* this job.                                                               *)
TornIsAccused ==
  \A r \in torn \cap known : \E e \in events \cup erased : e.host = HostOf[r]

(* The tables of the states are a history of the resources: they tell the  *)
(* state, in order, and what was cut is known to be done again.            *)
HistoryIsKept == TypeOK /\ HistoryTellsState /\ HistoryIsOrdered /\ TornIsAccused

(* A maintenance takes available_upto away and gives it back, also when    *)
(* it is asked for twice, if the commands on the resource did not mix and  *)
(* the value was not 0 (the last value saved comes back then).             *)
AvailabilityComesBack ==
  \A r \in known : r \notin tangled /\ ~InHands(r) /\ given[r] # 0 =>
    IF maint[r] THEN upto[r] = 0 /\ saved[r] = given[r] ELSE upto[r] = given[r]

(* The jobs of a resource that NodeChangeState has taken out are to be     *)
(* killed, so that oarremoveresource does not delete a job that nobody has *)
(* asked to stop; unless NodeChangeState died just then.                   *)
TakenOutIsCleared ==
  \A r \in known, j \in Jobs \ Cosystem :
    state[r] \in {"Dead", "Absent"} /\ r \in Uses[j] /\ job[j] = "running" =>
      j \in frag \/ r \in unfragged \/ (program = "fragging" /\ hand.res = r /\ j \in kill)

(* What the commands of the administrators promise holds at each moment    *)
(* (oarnodesetting -m, oarremoveresource).                                 *)
CommandsHold == AvailabilityComesBack /\ TakenOutIsCleared

(* A request is forgotten only when it has been applied, but for one made  *)
(* while NodeChangeState applies those it has read: the reset that follows *)
(* loses it.                                                               *)
RequestsAreServed ==
  [][\A r \in known : next[r] # "UnChanged" /\ next'[r] = "UnChanged" =>
       state'[r] = next[r] \/ r \in hurried]_vars

(* The dead switch takes a resource only after it has been in its state    *)
(* for DEAD_SWITCH_TIME, if its history is whole.                          *)
SwitchedAreOld ==
  [][program = "switch" =>
       \A r \in known \ (late \cup torn) :
         next'[r] = "Dead" /\ next[r] # "Dead" /\ r \in todo /\ r \notin todo' =>
           since[r] + Timeout < clock]_vars

(* Each step on a request has its reason: it is forgotten when it has been *)
(* applied, and made by the dead switch when it is due.                    *)
StepsAreFounded == RequestsAreServed /\ SwitchedAreOld

=============================================================================
