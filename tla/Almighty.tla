------------------------------ MODULE Almighty ------------------------------
(***************************************************************************)
(* The automaton of the server (src/oar/modules/almighty.py): it reads one *)
(* notification, queues it if it is not queued already, takes the first    *)
(* command of the queue, and runs the program it asks for; what the program*)
(* returns decides of the next state. The programs and the table they work *)
(* on are those of ResourceStates.                                         *)
(*                                                                         *)
(* Dates are how long ago the thing happened, and stop at the timeout.     *)
(***************************************************************************)
EXTENDS ResourceStates, Sequences, Functions

CONSTANTS
  SchedulerTimeout,  \* schedulertimeout
  MinTime,           \* scheduler_min_time_between_2_calls
  VillainsTimeout,   \* villainstimeout
  NodesTimeout,      \* checknodestimeout, 0 for never
  Notifications      \* what others send in a behaviour; Qsub, Qsub -I, BipBip,
                     \* Qresume and Walltime are routed as Term is

ASSUME TimeoutsAssumption ==
  /\ SchedulerTimeout \in Nat /\ MinTime \in Nat
  /\ VillainsTimeout \in Nat /\ NodesTimeout \in Nat
  /\ MinTime <= SchedulerTimeout

VARIABLES
  at,             \* state of the automaton, or "Metasched" in the middle of
                  \* "Scheduler": the nodes are treated, kao is to be run
  queue,          \* command_queue
  wanted,         \* scheduler_wanted
  sinceSched,     \* time since lastscheduler
  sinceVillains,  \* time since lastvillains
  sinceNodes      \* time since lastchecknodes

clock == <<sinceSched, sinceVillains, sinceNodes>>

automaton == <<at, queue, wanted, clock>>

vars == <<resourceVars, automaton>>

ASSUME NotificationsAssumption == Notifications \subseteq {"Term", "Qdel", "ChState"}

Commands == {"Term", "Qdel", "ChState", "Time", "Scheduling", "Villains", "Finaud"}

States ==
  {"Qget", "Scheduler", "Metasched", "Time update", "Check for villains",
   "Check node states", "Leon", "Change node state"}

(* The three dates are 0, long ago *)
Init ==
  /\ ResourceInit
  /\ at = "Qget"
  /\ queue = <<>>
  /\ wanted = 0
  /\ sinceSched = SchedulerTimeout
  /\ sinceVillains = VillainsTimeout
  /\ sinceNodes = NodesTimeout

(* add_command, if it is due *)
AddCommand(q, due, c) == IF due /\ c \notin Range(q) THEN Append(q, c) ELSE q

(* Mutant of Route: a deletion leads to a scheduling *)
RouteDeletion(c) ==
  CASE c \in {"Term", "Scheduling", "Qdel"} -> "Scheduler"
    [] c = "Villains" -> "Check for villains"
    [] c = "Finaud"   -> "Check node states"
    [] c = "Time"     -> "Time update"
    [] c = "ChState"  -> "Change node state"

Route(c) ==
  CASE c \in {"Term", "Scheduling"} -> "Scheduler"
    [] c = "Qdel"     -> "Leon"
    [] c = "Villains" -> "Check for villains"
    [] c = "Finaud"   -> "Check node states"
    [] c = "Time"     -> "Time update"
    [] c = "ChState"  -> "Change node state"

-----------------------------------------------------------------------------
(* Qget: one message, or Time when none comes; then the first command of   *)
(* the queue, or the second one if the first is Time.                      *)
Take(q) ==
  LET popTwo == Head(q) = "Time" /\ Len(q) > 1
      rest   == IF popTwo THEN Tail(q) ELSE q
  IN  /\ at' = Route(Head(rest))
      /\ queue' = Tail(rest)

Qget ==
  /\ at = "Qget"
  /\ \/ /\ Take(AddCommand(queue, TRUE, "Time"))
        /\ UNCHANGED acts
     \/ /\ Act
        /\ \E m \in Notifications : Take(AddCommand(queue, TRUE, m))
  /\ UNCHANGED <<table, jobs, events, call, pulled, wanted, clock>>

(* Mutant of TimeUpdate: the timeout of the scheduler is forgotten *)
TimeUpdateNoTimeout ==
  /\ at = "Time update"
  /\ LET villains == sinceVillains >= VillainsTimeout
         nodes    == NodesTimeout > 0 /\ sinceNodes >= NodesTimeout
     IN  queue' = AddCommand(AddCommand(queue, villains, "Villains"), nodes, "Finaud")
  /\ at' = "Qget"
  /\ UNCHANGED <<resourceVars, wanted, clock>>

(* time_update *)
TimeUpdate ==
  /\ at = "Time update"
  /\ LET scheduling == \/ sinceSched >= SchedulerTimeout
                       \/ wanted = 1 /\ sinceSched >= MinTime
         villains   == sinceVillains >= VillainsTimeout
         nodes      == NodesTimeout > 0 /\ sinceNodes >= NodesTimeout
     IN  queue' = AddCommand(AddCommand(AddCommand(queue, scheduling, "Scheduling"),
                                        villains, "Villains"),
                             nodes, "Finaud")
  /\ at' = "Qget"
  /\ UNCHANGED <<resourceVars, wanted, clock>>

(* "Scheduler call too early" *)
TooEarly ==
  /\ at = "Scheduler"
  /\ program = "none"
  /\ sinceSched < MinTime
  /\ wanted' = 1
  /\ at' = "Time update"
  /\ UNCHANGED <<resourceVars, queue, clock>>

(* Mutant of SchedulerBegins: the nodes are treated for ChState only *)
SchedulerBeginsAtOnce ==
  /\ at = "Scheduler"
  /\ sinceSched >= MinTime
  /\ program = "none"
  /\ at' = "Metasched"
  /\ wanted' = 0
  /\ UNCHANGED <<resourceVars, queue, clock>>

(* The first thing a scheduling does is to run NodeChangeState *)
SchedulerBegins ==
  /\ at = "Scheduler"
  /\ sinceSched >= MinTime
  /\ NCSStart
  /\ wanted' = 0
  /\ UNCHANGED <<at, queue, clock>>

CallNodeChangeState ==
  /\ at = "Change node state"
  /\ NCSStart
  /\ UNCHANGED automaton

CallMetasched ==
  /\ at = "Metasched"
  /\ MetaschedRun
  /\ UNCHANGED automaton

CallSarko ==
  /\ at = "Check for villains"
  /\ SarkoStart
  /\ UNCHANGED automaton

CallFinaud ==
  /\ at = "Check node states"
  /\ FinaudStart
  /\ UNCHANGED automaton

CallLeon ==
  /\ at = "Leon"
  /\ LeonRun
  /\ UNCHANGED automaton

-----------------------------------------------------------------------------
(* A program has returned *)

Returned ==
  /\ Finished
  /\ program' = "none"
  /\ UNCHANGED todo
  /\ exit' = 0
  /\ UNCHANGED <<table, jobs, events, pulled, acts, wanted>>

(* Mutant of AfterNodes: jobs to kill do not matter *)
AfterNodesNoLeon(code) ==
  CASE code = 1 -> "Scheduler"
    [] OTHER    -> IF at = "Scheduler" THEN "Metasched" ELSE "Time update"

(* 2 when jobs are to be killed, 1 when resources are to be scheduled anew *)
AfterNodes(code) ==
  CASE code = 2 -> "Leon"
    [] code = 1 -> "Scheduler"
    [] code = 0 -> IF at = "Scheduler" THEN "Metasched" ELSE "Time update"

NodesTreated ==
  /\ at \in {"Scheduler", "Change node state"}
  /\ Returned
  /\ at' = AfterNodes(exit)
  /\ queue' = AddCommand(queue, exit = 2, "Term")
  /\ UNCHANGED clock

(* The metascheduler: 0, 1 or 2 *)
MetaschedReturned ==
  /\ at = "Metasched"
  /\ Returned
  /\ at' = CASE exit = 0 -> "Time update" [] exit = 1 -> "Scheduler" [] exit = 2 -> "Leon"
  /\ sinceSched' = 0
  /\ UNCHANGED <<queue, sinceVillains, sinceNodes>>

SarkoReturned ==
  /\ at = "Check for villains"
  /\ Returned
  /\ at' = IF exit = 1 THEN "Leon" ELSE "Time update"
  /\ sinceVillains' = 0
  /\ UNCHANGED <<queue, sinceSched, sinceNodes>>

FinaudReturned ==
  /\ at = "Check node states"
  /\ Returned
  /\ at' = IF exit = 1 THEN "Change node state" ELSE "Time update"
  /\ sinceNodes' = 0
  /\ UNCHANGED <<queue, sinceSched, sinceVillains>>

LeonReturned ==
  /\ at = "Leon"
  /\ Returned
  /\ at' = "Time update"
  /\ queue' = AddCommand(queue, exit = 1, "Term")
  /\ UNCHANGED clock

Older(age, timeout) == IF age < timeout THEN age + 1 ELSE age

(* Time passes while Almighty waits for a message. It passes elsewhere too,*)
(* but nothing looks at a date between there and the next message.         *)
Tick ==
  /\ at = "Qget"
  /\ sinceSched' = Older(sinceSched, SchedulerTimeout)
  /\ sinceVillains' = Older(sinceVillains, VillainsTimeout)
  /\ sinceNodes' = Older(sinceNodes, NodesTimeout)
  /\ UNCHANGED <<resourceVars, at, queue, wanted>>

-----------------------------------------------------------------------------
Loop ==
  \/ Qget \/ TimeUpdate \/ TooEarly
  \/ SchedulerBegins \/ CallNodeChangeState \/ CallMetasched
  \/ CallSarko \/ CallFinaud \/ CallLeon
  \/ NodesTreated \/ MetaschedReturned \/ SarkoReturned \/ FinaudReturned \/ LeonReturned
  \/ ProgramStep /\ UNCHANGED automaton

Next ==
  \/ Loop
  \/ Tick
  \/ Environment /\ UNCHANGED automaton

Spec == Init /\ [][Next]_vars

(***************************************************************************)
(* Fairness. Almighty is one thread of sequential code, and what it calls  *)
(* ends: its loop goes on. Time passes, be it only where the model         *)
(* lets it. A job that was sent a signal ends                              *)
(* (JobLifecycle!KilledJobEnds). Nothing is assumed of users and nodes.    *)
(***************************************************************************)
FairSpec ==
  /\ Spec
  /\ WF_vars(Loop)
  /\ SF_vars(Tick)
  /\ \A j \in Jobs : WF_vars(frag[j] = "TIMER_ARMED" /\ JobEnds(j) /\ UNCHANGED automaton)

-----------------------------------------------------------------------------
(* Properties *)

TypeOK ==
  /\ ResourceTypeOK
  /\ at \in States
  /\ queue \in Seq(Commands)
  /\ wanted \in {0, 1}
  /\ sinceSched \in 0..SchedulerTimeout
  /\ sinceVillains \in 0..VillainsTimeout
  /\ sinceNodes \in 0..NodesTimeout

(* "as commands are just notifications that will handle all the            *)
(* modifications in the base up to now, we should avoid duplication": the  *)
(* queue stays bounded whatever the flood of notifications                 *)
(* (almighty.py, add_command and read_commands).                           *)
CommandsAreDistinct == IsInjective(queue)

(* NodeChangeState frags the jobs of the resources it takes out; the exit  *)
(* code of the program, and the three states from which it is run, must    *)
(* lead to Leon before the next metascheduling (almighty.py, run).         *)
LeonBeforeScheduling == at = "Metasched" => pulled = {}

(* A request for the state that the resource has: NodeChangeState does not *)
(* forget it, and returns 1 each time it is run.                           *)
Stuck == \E n \in Nodes : next[n] = state[n]

(* The metascheduler runs again and again, by notification or by timeout;  *)
(* only a request that stays prevents it.                                  *)
MetaschedRunsUnlessStuck == []<>(at = "Metasched" \/ Stuck)

(* A change of state asked for by anyone is applied or superseded, even if *)
(* the notification is lost, since a scheduling begins with the nodes.     *)
RequestsAreTreated ==
  \A n \in Nodes : (next[n] # "UnChanged") ~> (next[n] = "UnChanged" \/ Stuck)

(* A Qdel in the queue leads to Leon, whatever else arrives. *)
QdelIsServed == ("Qdel" \in Range(queue)) ~> (at = "Leon" \/ Stuck)

(* A job does not go on for ever on a resource that was taken out. *)
PulledOutJobsEnd ==
  \A j \in Jobs :
    (job[j] = "active" /\ state[uses[j]] \in {"Absent", "Dead"})
      ~> (job[j] = "over" \/ state[uses[j]] \notin {"Absent", "Dead"} \/ Stuck)

=============================================================================
