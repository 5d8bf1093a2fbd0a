--------------------------- MODULE ResourceStates ---------------------------
(***************************************************************************)
(* The states of the resources, and who changes them: the table resources  *)
(* has a state and a next_state, that administrators, Finaud and Sarko     *)
(* write and NodeChangeState applies. Next to it, as much of the jobs as   *)
(* these programs look at: who uses which node and who is to be killed     *)
(* (JobLifecycle has the life of a job in detail). One resource per node,  *)
(* one node per job.                                                       *)
(*                                                                         *)
(* The programs of Almighty are here; the automaton that calls them one at *)
(* a time is in Almighty. A program called has the steps of its label and  *)
(* then has Finished, with its exit code. One step is one commit, but that *)
(* next_state and its tag are two of Finaud and Sarko. Notifications are   *)
(* not here: they carry no data, may be lost, and anybody may send any of  *)
(* them (oarnotify), so that Almighty may receive one at any time.         *)
(***************************************************************************)
EXTENDS Naturals, FiniteSets

CONSTANTS
  Nodes,          \* network addresses
  Jobs,           \* job ids
  Besteffort,     \* the jobs of type besteffort
  AdminStates,    \* what oarnodesetting may ask for
  CheckOccupied,  \* CHECK_NODES_WITH_RUNNING_JOB is set to something but NO
  DeadSwitch,     \* DEAD_SWITCH_TIME > 0
  MaxActs         \* bound: commands, notifications and accusations from
                  \* outside, all together

ResourceState == {"Alive", "Absent", "Suspected", "Dead"}

ASSUME BesteffortAssumption == Besteffort \subseteq Jobs
ASSUME AdminAssumption == AdminStates \subseteq ResourceState
ASSUME FlagsAssumption == CheckOccupied \in BOOLEAN /\ DeadSwitch \in BOOLEAN
ASSUME ActsAssumption == MaxActs \in Nat

Programs == {"none", "events", "changes", "finaud", "switch", "run"}

VARIABLES
  (* the table resources, by node *)
  state,       \* state
  finaud,      \* finaud_decision
  next,        \* next_state
  nextFinaud,  \* next_finaud_decision
  (* the jobs *)
  job,         \* "waiting", "active" (it has its node) or "over"
  uses,        \* the node of a job that is or was active
  frag,        \* frag_state: "none", "LEON" or "TIMER_ARMED"
  events,      \* rows of event_log to check: [job, ends, suspects]
  (* the program that Almighty runs *)
  program,     \* its label
  todo,        \* what is left of what it has read
  exit,        \* its exit code
  (* history and bounds *)
  pulled,      \* jobs NodeChangeState has fragged and Leon has not seen
  acts

table   == <<state, finaud, next, nextFinaud>>
jobs    == <<job, uses, frag>>
call    == <<program, todo, exit>>
resourceVars == <<table, jobs, events, call, pulled, acts>>

Active == {j \in Jobs : job[j] = "active"}

On(n) == {j \in Active : uses[j] = n}

ResourceInit ==
  /\ state = [n \in Nodes |-> "Alive"]
  /\ finaud = [n \in Nodes |-> "NO"]
  /\ next = [n \in Nodes |-> "UnChanged"]
  /\ nextFinaud = [n \in Nodes |-> "NO"]
  /\ job = [j \in Jobs |-> "waiting"]
  /\ uses \in [Jobs -> Nodes]
  /\ frag = [j \in Jobs |-> "none"]
  /\ events = {}
  /\ program = "none"
  /\ todo = {}
  /\ exit = 0
  /\ pulled = {}
  /\ acts = 0

(* set_node_nextState and set_resource_nextState: always with the tag NO   *)
AskFor(n, s) ==
  /\ next' = [next EXCEPT ![n] = s]
  /\ nextFinaud' = [nextFinaud EXCEPT ![n] = "NO"]

(* frag_job, for several jobs: one row per job, for ever *)
Frag(js) == frag' = [j \in Jobs |-> IF j \in js /\ frag[j] = "none" THEN "LEON" ELSE frag[j]]

Unseen(js) == {j \in js : frag[j] = "none"}

-----------------------------------------------------------------------------
(* Around the server *)

Act == acts < MaxActs /\ acts' = acts + 1

(* oarnodesetting -s <s>; -m on and -m off both ask for Absent *)
Oarnodesetting(n, s) ==
  /\ Act
  /\ AskFor(n, s)
  /\ UNCHANGED <<state, finaud, jobs, events, call, pulled>>

Oardel(j) ==
  /\ Act
  /\ job[j] # "over"
  /\ frag[j] = "none"
  /\ Frag({j})
  /\ UNCHANGED <<table, job, uses, events, call, pulled>>

(* The bipbip or leon process of an active job writes the event that ends  *)
(* it, which may accuse the node (with the tag YES for pingchecker alone). *)
JobEnds(j) ==
  /\ job[j] = "active"
  /\ ~ \E e \in events : e.job = j /\ e.ends
  /\ \E tag \in {"", "NO", "YES"} :
       events' = events \cup {[job |-> j, ends |-> TRUE, suspects |-> tag]}
  /\ UNCHANGED <<table, jobs, call, pulled, acts>>

(* job_finishing_sequence writes its events one after the other, and a     *)
(* failed suspend or resume writes one without ending the job: this event  *)
(* accuses the node of a job which may be over.                            *)
NodeIsAccused(j) ==
  /\ Act
  /\ job[j] \in {"active", "over"}
  /\ \E tag \in {"NO", "YES"} :
       events' = events \cup {[job |-> j, ends |-> FALSE, suspects |-> tag]}
  /\ UNCHANGED <<table, jobs, call, pulled>>

-----------------------------------------------------------------------------
(* NodeChangeState *)

Start(label, what) ==
  /\ program = "none"
  /\ program' = label
  /\ todo' = what
  /\ exit' = 0

(* The program has nothing left to do *)
Finished == program \in {"changes", "finaud", "switch", "run"} /\ todo = {}

(* get_to_check_events *)
NCSStart ==
  /\ Start("events", events)
  /\ UNCHANGED <<table, jobs, events, pulled, acts>>

(* An event may end its job, and may suspect its node whatever its state is*)
NCSEvent ==
  /\ program = "events"
  /\ \E e \in todo :
       LET n == uses[e.job]
           suspected == e.suspects # ""
       IN  /\ todo' = todo \ {e}
           /\ events' = events \ {e}
           /\ job' = IF e.ends THEN [job EXCEPT ![e.job] = "over"] ELSE job
           /\ state' = IF suspected THEN [state EXCEPT ![n] = "Suspected"] ELSE state
           /\ finaud' = IF suspected THEN [finaud EXCEPT ![n] = e.suspects] ELSE finaud
           /\ exit' = IF suspected THEN 1 ELSE exit
  /\ UNCHANGED <<next, nextFinaud, uses, frag, program, pulled, acts>>

(* get_resources_change_state *)
NCSReadChanges ==
  /\ program = "events"
  /\ todo = {}
  /\ program' = "changes"
  /\ todo' = {[node |-> n, asked |-> next[n]] : n \in {m \in Nodes : next[m] # "UnChanged"}}
  /\ exit' = IF todo' = {} THEN exit ELSE 1
  /\ UNCHANGED <<table, jobs, events, pulled, acts>>

(* Mutant of TakesOut: only a death frees a resource *)
TakesOutDead(s) == s = "Dead"

(* The states that free a resource of its jobs *)
TakesOut(s) == s \in {"Dead", "Absent"}

(* A request is applied and forgotten, and the jobs of a resource that is  *)
(* taken out are fragged. A request for the state the resource already has *)
(* stays: the else of line 354 belongs to the inner for.                   *)
NCSChange ==
  /\ program = "changes"
  /\ \E c \in todo :
       LET killed == IF TakesOut(c.asked) THEN On(c.node) ELSE {}
       IN  /\ todo' = todo \ {c}
           /\ \/ /\ state[c.node] = c.asked
                 /\ UNCHANGED <<table, frag, exit, pulled>>
              \/ /\ state[c.node] # c.asked
                 /\ state' = [state EXCEPT ![c.node] = c.asked]
                 /\ finaud' = [finaud EXCEPT ![c.node] = nextFinaud[c.node]]
                 /\ AskFor(c.node, "UnChanged")
                 /\ Frag(killed)
                 /\ exit' = IF killed # {} THEN 2 ELSE exit
                 /\ pulled' = pulled \cup Unseen(killed)
  /\ UNCHANGED <<job, uses, events, program, acts>>

-----------------------------------------------------------------------------
(* Finaud *)

(* get_finaud_nodes, less the occupied ones *)
Checked(n) ==
  /\ state[n] = "Alive" \/ (state[n] = "Suspected" /\ finaud[n] = "YES")
  /\ next[n] = "UnChanged"
  /\ CheckOccupied \/ On(n) = {}

FinaudStart ==
  /\ Start("finaud", {[node |-> n, seen |-> state[n]] : n \in {m \in Nodes : Checked(m)}})
  /\ UNCHANGED <<table, jobs, events, pulled, acts>>

(* The nodes have been pinged meanwhile. The states seen are those of the  *)
(* start until a first decision is committed, which expires the objects of *)
(* the session.                                                            *)
FinaudDecide ==
  /\ program = "finaud"
  /\ \E c \in todo, bad \in BOOLEAN :
       LET seen == IF exit = 1 THEN state[c.node] ELSE c.seen
           decision == IF bad /\ seen = "Alive" THEN "Suspected"
                       ELSE IF ~bad /\ seen = "Suspected" THEN "Alive" ELSE "UnChanged"
       IN  /\ todo' = todo \ {c}
           /\ \/ /\ decision = "UnChanged"
                 /\ UNCHANGED <<next, nextFinaud, exit>>
              \/ /\ decision # "UnChanged"
                 /\ next' = [next EXCEPT ![c.node] = decision]
                 /\ nextFinaud' = [nextFinaud EXCEPT ![c.node] = "YES"]
                 /\ exit' = 1
  /\ UNCHANGED <<state, finaud, jobs, events, program, pulled, acts>>

-----------------------------------------------------------------------------
(* Sarko, Leon and the metascheduler, as far as resources are concerned *)

(* Some active jobs have reached their walltime; the state of some nodes   *)
(* is as old as DEAD_SWITCH_TIME, whichever it is (no filter on it).       *)
SarkoStart ==
  /\ \E over \in SUBSET Active, old \in SUBSET Nodes :
       /\ program = "none"
       /\ program' = "switch"
       /\ Frag(over)
       /\ exit' = IF over # {} THEN 1 ELSE 0
       /\ todo' = IF DeadSwitch THEN old ELSE {}
  /\ UNCHANGED <<table, job, uses, events, pulled, acts>>

SarkoSwitch ==
  /\ program = "switch"
  /\ \E n \in todo :
       /\ todo' = todo \ {n}
       /\ next' = [next EXCEPT ![n] = "Dead"]
       /\ nextFinaud' = [nextFinaud EXCEPT ![n] = "YES"]
  /\ UNCHANGED <<state, finaud, jobs, events, program, exit, pulled, acts>>

(* Every job to kill: over if it waits, else sent a signal *)
LeonRun ==
  /\ program = "none"
  /\ program' = "run"
  /\ job' = [j \in Jobs |-> IF frag[j] = "LEON" /\ job[j] = "waiting" THEN "over" ELSE job[j]]
  /\ frag' = [j \in Jobs |-> IF frag[j] = "LEON" THEN "TIMER_ARMED" ELSE frag[j]]
  /\ exit' \in {0, 1}
  /\ pulled' = {}
  /\ UNCHANGED <<table, uses, events, todo, acts>>

(* Where a plan may put a job: on an Alive node that no other job of its   *)
(* kind has; a besteffort one is no obstacle for a job that is not.        *)
Fits(j, n) ==
  /\ state[n] = "Alive"
  /\ On(n) \subseteq (IF j \in Besteffort THEN {} ELSE Besteffort)

(* meta_schedule: either some besteffort jobs are to be killed, and no job *)
(* is launched at all, or the jobs of the plan are. kao.main drops the 2   *)
(* that it returns in the first case.                                      *)
MetaschedRun ==
  /\ program = "none"
  /\ program' = "run"
  /\ exit' = 0
  /\ \E plan \in SUBSET {j \in Jobs : job[j] = "waiting"} : \E where \in [plan -> Nodes] :
       LET inTheWay == {b \in Active : \E j \in plan : where[j] = uses[b]}
       IN  /\ \A j \in plan : Fits(j, where[j])
           /\ \A i, j \in plan : where[i] = where[j] => i = j
           /\ \/ /\ inTheWay # {}
                 /\ Frag(inTheWay)
                 /\ UNCHANGED <<job, uses>>
              \/ /\ inTheWay = {}
                 /\ job' = [j \in Jobs |-> IF j \in plan THEN "active" ELSE job[j]]
                 /\ uses' = [j \in Jobs |-> IF j \in plan THEN where[j] ELSE uses[j]]
                 /\ UNCHANGED frag
  /\ UNCHANGED <<table, events, todo, pulled, acts>>

Environment ==
  \/ \E n \in Nodes, s \in AdminStates : Oarnodesetting(n, s)
  \/ \E j \in Jobs : Oardel(j) \/ JobEnds(j) \/ NodeIsAccused(j)

ProgramStep ==
  NCSEvent \/ NCSReadChanges \/ NCSChange \/ FinaudDecide \/ SarkoSwitch

ResourceTypeOK ==
  /\ state \in [Nodes -> ResourceState]
  /\ finaud \in [Nodes -> {"NO", "YES"}]
  /\ next \in [Nodes -> ResourceState \cup {"UnChanged"}]
  /\ nextFinaud \in [Nodes -> {"NO", "YES"}]
  /\ job \in [Jobs -> {"waiting", "active", "over"}]
  /\ uses \in [Jobs -> Nodes]
  /\ frag \in [Jobs -> {"none", "LEON", "TIMER_ARMED"}]
  /\ events \subseteq [job : Jobs, ends : BOOLEAN, suspects : {"", "NO", "YES"}]
  /\ program \in Programs
  /\ program = "events" => todo \subseteq [job : Jobs, ends : BOOLEAN, suspects : {"", "NO", "YES"}]
  /\ program = "changes" => todo \subseteq [node : Nodes, asked : ResourceState]
  /\ program = "finaud" => todo \subseteq [node : Nodes, seen : ResourceState]
  /\ program = "switch" => todo \subseteq Nodes
  /\ exit \in 0..2
  /\ pulled \subseteq Jobs
  /\ acts \in 0..MaxActs

=============================================================================
