---------------------------- MODULE DaemonProofs ----------------------------
(***************************************************************************)
(* Theorems about the two daemons of the server.                           *)
(*                                                                         *)
(* Almighty, for every set of nodes and jobs and every timeout: the types, *)
(* the queue without duplicates, and Leon before the next scheduling when  *)
(* NodeChangeState has fragged jobs.                                       *)
(*                                                                         *)
(* Hulot (EnergySaving), for every finite set of nodes, all groups and     *)
(* timeouts and every size of the pool: the register of what WindowForker  *)
(* watches, and the nodes that each group keeps. What makes the register   *)
(* inductive is that the nodes to process run no command (NoneRuns).       *)
(***************************************************************************)
EXTENDS Almighty, EnergySaving, FiniteSetTheorems, SequenceTheorems, NaturalsInduction,
        WellFoundedInduction, TLAPS


-----------------------------------------------------------------------------
(* Lemmas about the queue *)

(* What is queued is a command, once *)
LEMMA Added ==
  ASSUME NEW q \in Seq(Commands), NEW due, NEW c \in Commands
  PROVE  /\ AddCommand(q, due, c) \in Seq(Commands)
         /\ IsInjective(q) => IsInjective(AddCommand(q, due, c))
         /\ due => AddCommand(q, due, c) # <<>>
<1>1. CASE due /\ c \notin Range(q)
  <2> DEFINE r == Append(q, c)
  <2>1. AddCommand(q, due, c) = r /\ r \in Seq(Commands)
    BY <1>1 DEF AddCommand
  <2>2. /\ Len(r) = Len(q) + 1
        /\ r[Len(q) + 1] = c
        /\ \A i \in 1..Len(q) : r[i] = q[i] /\ q[i] # c
    BY <1>1 DEF Range
  <2>3. r # <<>>
    BY <2>2
  <2>4. ASSUME IsInjective(q), NEW i \in DOMAIN r, NEW k \in DOMAIN r, r[i] = r[k]
        PROVE  i = k
    <3>1. DOMAIN r = 1..(Len(q) + 1) /\ DOMAIN q = 1..Len(q)
      BY <2>1, <2>2
    <3>2. CASE i \in 1..Len(q) /\ k \in 1..Len(q)
      BY <2>2, <2>4, <3>1, <3>2 DEF IsInjective
    <3>3. CASE i = Len(q) + 1 \/ k = Len(q) + 1
      BY <2>2, <2>4, <3>1, <3>3
    <3> QED
      BY <3>1, <3>2, <3>3
  <2>5. IsInjective(q) => IsInjective(r)
    BY <2>4 DEF IsInjective
  <2> QED
    BY <2>1, <2>3, <2>5
<1>2. CASE ~due
  BY <1>2 DEF AddCommand
<1>3. CASE c \in Range(q)
  <2>1. q # <<>>
    BY <1>3 DEF Range
  <2> QED
    BY <1>3, <2>1 DEF AddCommand
<1> QED
  BY <1>1, <1>2, <1>3

(* What is left of a queue has no duplicates either *)
LEMMA TailOf ==
  ASSUME NEW q \in Seq(Commands), q # <<>>
  PROVE  /\ Head(q) \in Commands
         /\ Tail(q) \in Seq(Commands)
         /\ IsInjective(q) => IsInjective(Tail(q))
<1>1. Head(q) \in Commands /\ Tail(q) \in Seq(Commands)
  OBVIOUS
<1>2. ASSUME IsInjective(q), NEW i \in DOMAIN Tail(q), NEW k \in DOMAIN Tail(q),
             Tail(q)[i] = Tail(q)[k]
      PROVE  i = k
  <2>1. Len(q) \in Nat /\ Len(q) > 0 /\ Len(Tail(q)) = Len(q) - 1
    OBVIOUS
  <2>2. i \in 1..(Len(q) - 1) /\ k \in 1..(Len(q) - 1)
    BY <1>2, <1>1, <2>1
  <2>3. Tail(q)[i] = q[i + 1] /\ Tail(q)[k] = q[k + 1]
    BY <2>1, <2>2
  <2>4. i + 1 \in DOMAIN q /\ k + 1 \in DOMAIN q
    BY <2>1, <2>2
  <2>5. i + 1 = k + 1
    BY <1>2, <2>3, <2>4 DEF IsInjective
  <2> QED
    BY <2>2, <2>5
<1>3. IsInjective(q) => IsInjective(Tail(q))
  BY <1>2 DEF IsInjective
<1> QED
  BY <1>1, <1>3

LEMMA RouteType ==
  ASSUME NEW c \in Commands
  PROVE  Route(c) \in States \ {"Metasched"}
BY DEF Route, Commands, States

LEMMA TailNotEmpty ==
  ASSUME NEW q \in Seq(Commands), Len(q) > 1
  PROVE  Tail(q) # <<>>
<1>1. Len(q) \in Nat /\ q # <<>>
  OBVIOUS
<1>2. Len(Tail(q)) = Len(q) - 1
  BY <1>1
<1>3. Len(Tail(q)) # Len(<<>>)
  BY <1>1, <1>2
<1> QED
  BY <1>3

(* A command is taken from the queue *)
LEMMA Taken ==
  ASSUME NEW q \in Seq(Commands), q # <<>>, Take(q)
  PROVE  /\ at' \in States \ {"Metasched"}
         /\ queue' \in Seq(Commands)
         /\ IsInjective(q) => IsInjective(queue')
<1> DEFINE popTwo == Head(q) = "Time" /\ Len(q) > 1
           rest   == IF popTwo THEN Tail(q) ELSE q
<1>1. at' = Route(Head(rest)) /\ queue' = Tail(rest)
  BY DEF Take
<1>2. rest \in Seq(Commands) /\ rest # <<>> /\ (IsInjective(q) => IsInjective(rest))
  <2>1. CASE popTwo
    <3>1. Tail(q) \in Seq(Commands) /\ (IsInjective(q) => IsInjective(Tail(q)))
      BY TailOf
    <3>2. Len(q) > 1
      BY <2>1
    <3>3. Tail(q) # <<>>
      BY <3>2, TailNotEmpty
    <3>4. rest = Tail(q)
      BY <2>1
    <3> QED
      BY <3>1, <3>3, <3>4
  <2>2. CASE ~popTwo
    BY <2>2
  <2> QED
    BY <2>1, <2>2
<1> HIDE DEF rest
<1> QED
  BY <1>1, <1>2, TailOf, RouteType

-----------------------------------------------------------------------------
(* Types *)

NCSPlaces == {"Scheduler", "Change node state"}

(* frag_job leaves typed rows *)
LEMMA FragType ==
  ASSUME ResourceTypeOK, NEW js, Frag(js)
  PROVE  frag' \in [Jobs -> {"none", "LEON", "TIMER_ARMED"}]
BY DEF ResourceTypeOK, Frag

LEMMA AskType ==
  ASSUME ResourceTypeOK, NEW n \in Nodes, NEW s \in ResourceState \cup {"UnChanged"}, AskFor(n, s)
  PROVE  /\ next' \in [Nodes -> ResourceState \cup {"UnChanged"}]
         /\ nextFinaud' \in [Nodes -> {"NO", "YES"}]
<1>1. next' = [next EXCEPT ![n] = s] /\ next \in [Nodes -> ResourceState \cup {"UnChanged"}]
  BY DEF ResourceTypeOK, AskFor
<1>2. nextFinaud' = [nextFinaud EXCEPT ![n] = "NO"] /\ nextFinaud \in [Nodes -> {"NO", "YES"}]
  BY DEF ResourceTypeOK, AskFor
<1> QED
  BY <1>1, <1>2

LEMMA ActType ==
  ASSUME ResourceTypeOK, Act
  PROVE  acts' \in 0..MaxActs
<1>1. acts \in 0..MaxActs
  BY DEF ResourceTypeOK
<1>2. acts < MaxActs /\ acts' = acts + 1
  BY DEF Act
<1> QED
  BY <1>1, <1>2, ActsAssumption

LEMMA ExitType ==
  ASSUME ResourceTypeOK
  PROVE  exit \in 0..2 /\ 0 \in 0..2 /\ 1 \in 0..2 /\ 2 \in 0..2
<1>1. exit \in 0..2
  BY DEF ResourceTypeOK
<1> QED
  BY <1>1

Events == [job : Jobs, ends : BOOLEAN, suspects : {"", "NO", "YES"}]

(* Somebody writes an event *)
LEMMA EventType ==
  ASSUME ResourceTypeOK, NEW e \in Events, events' = events \cup {e}
  PROVE  events' \subseteq Events
BY DEF ResourceTypeOK, Events

LEMMA EnvironmentType ==
  ASSUME ResourceTypeOK, Environment
  PROVE  ResourceTypeOK'
<1>1. ASSUME NEW n \in Nodes, NEW s \in AdminStates, Oarnodesetting(n, s)
      PROVE  ResourceTypeOK'
  <2>1. s \in ResourceState \cup {"UnChanged"}
    BY AdminAssumption
  <2>2. AskFor(n, s) /\ Act /\ UNCHANGED <<state, finaud, jobs, events, call, pulled>>
    BY <1>1 DEF Oarnodesetting
  <2> QED
    BY <2>1, <2>2, AskType, ActType DEF ResourceTypeOK, jobs, call
<1>2. ASSUME NEW j \in Jobs, Oardel(j)
      PROVE  ResourceTypeOK'
  <2>1. Frag({j}) /\ Act /\ UNCHANGED <<table, job, uses, events, call, pulled>>
    BY <1>2 DEF Oardel
  <2> QED
    BY <2>1, FragType, ActType DEF ResourceTypeOK, table, call
<1>3. ASSUME NEW j \in Jobs, JobEnds(j)
      PROVE  ResourceTypeOK'
  <2>1. UNCHANGED <<table, jobs, call, pulled, acts>>
    BY <1>3 DEF JobEnds
  <2>2. PICK tag \in {"", "NO", "YES"} :
          events' = events \cup {[job |-> j, ends |-> TRUE, suspects |-> tag]}
    BY <1>3 DEF JobEnds
  <2>3. [job |-> j, ends |-> TRUE, suspects |-> tag] \in Events
    BY DEF Events
  <2>4. events' \subseteq Events
    BY <2>2, <2>3, EventType
  <2> QED
    BY <2>1, <2>4 DEF ResourceTypeOK, table, jobs, call, Events
<1>4. ASSUME NEW j \in Jobs, NodeIsAccused(j)
      PROVE  ResourceTypeOK'
  <2>1. Act /\ UNCHANGED <<table, jobs, call, pulled>>
    BY <1>4 DEF NodeIsAccused
  <2>2. PICK tag \in {"NO", "YES"} :
          events' = events \cup {[job |-> j, ends |-> FALSE, suspects |-> tag]}
    BY <1>4 DEF NodeIsAccused
  <2>3. [job |-> j, ends |-> FALSE, suspects |-> tag] \in Events
    BY DEF Events
  <2>4. events' \subseteq Events
    BY <2>2, <2>3, EventType
  <2> QED
    BY <2>1, <2>4, ActType DEF ResourceTypeOK, table, jobs, call, Events
<1> QED
  BY <1>1, <1>2, <1>3, <1>4 DEF Environment

(* What the program has read is known by its label *)
TodoOK ==
  /\ program = "events" => todo \subseteq Events
  /\ program = "changes" => todo \subseteq [node : Nodes, asked : ResourceState]
  /\ program = "finaud" => todo \subseteq [node : Nodes, seen : ResourceState]
  /\ program = "switch" => todo \subseteq Nodes

(* Something of what it has read is treated *)
LEMMA TodoShrinks ==
  ASSUME ResourceTypeOK, program' = program, NEW c, todo' = todo \ {c}
  PROVE  TodoOK' /\ program' \in Programs
BY DEF ResourceTypeOK, TodoOK, Events

LEMMA NCSEventType ==
  ASSUME ResourceTypeOK, NCSEvent
  PROVE  ResourceTypeOK'
<1>1. UNCHANGED <<next, nextFinaud, uses, frag, program, pulled, acts>> /\ program = "events"
  BY DEF NCSEvent
<1>2. PICK e \in todo :
        /\ todo' = todo \ {e}
        /\ events' = events \ {e}
        /\ job' = IF e.ends THEN [job EXCEPT ![e.job] = "over"] ELSE job
        /\ state' = IF e.suspects # "" THEN [state EXCEPT ![uses[e.job]] = "Suspected"] ELSE state
        /\ finaud' = IF e.suspects # "" THEN [finaud EXCEPT ![uses[e.job]] = e.suspects] ELSE finaud
        /\ exit' = IF e.suspects # "" THEN 1 ELSE exit
  BY DEF NCSEvent
<1>3. e \in Events
  BY <1>1, <1>2 DEF ResourceTypeOK, Events
<1>4. e.job \in Jobs /\ e.suspects \in {"", "NO", "YES"}
  BY <1>3 DEF Events
<1>5. state' \in [Nodes -> ResourceState]
  BY <1>2 DEF ResourceTypeOK, ResourceState
<1>6. finaud' \in [Nodes -> {"NO", "YES"}]
  BY <1>2, <1>4 DEF ResourceTypeOK
<1>7. job' \in [Jobs -> {"waiting", "active", "over"}]
  BY <1>2 DEF ResourceTypeOK
<1>10. exit' \in 0..2
  BY <1>2, ExitType
<1>8. events' \subseteq Events
  BY <1>2 DEF ResourceTypeOK, Events
<1>9. TodoOK' /\ program' \in Programs
  BY <1>1, <1>2, TodoShrinks
<1> QED
  BY <1>1, <1>5, <1>6, <1>7, <1>8, <1>9, <1>10 DEF ResourceTypeOK, TodoOK, Events

LEMMA NCSReadChangesType ==
  ASSUME ResourceTypeOK, NCSReadChanges
  PROVE  ResourceTypeOK'
<1>1. UNCHANGED <<table, jobs, events, pulled, acts>> /\ program' = "changes"
  BY DEF NCSReadChanges
<1>2. todo' \subseteq [node : Nodes, asked : ResourceState]
  <2>1. \A m \in Nodes : next[m] # "UnChanged" => next[m] \in ResourceState
    BY DEF ResourceTypeOK
  <2> QED
    BY <2>1 DEF NCSReadChanges
<1>3. exit' \in 0..2
  BY ExitType DEF NCSReadChanges
<1> QED
  BY <1>1, <1>2, <1>3 DEF ResourceTypeOK, table, jobs, Programs

LEMMA NCSChangeType ==
  ASSUME ResourceTypeOK, NCSChange
  PROVE  ResourceTypeOK'
<1>1. UNCHANGED <<job, uses, events, program, acts>> /\ program = "changes"
  BY DEF NCSChange
<1>2. PICK c \in todo :
        /\ todo' = todo \ {c}
        /\ \/ /\ state[c.node] = c.asked
              /\ UNCHANGED <<table, frag, exit, pulled>>
           \/ /\ state[c.node] # c.asked
              /\ state' = [state EXCEPT ![c.node] = c.asked]
              /\ finaud' = [finaud EXCEPT ![c.node] = nextFinaud[c.node]]
              /\ AskFor(c.node, "UnChanged")
              /\ \E killed \in SUBSET Jobs :
                   /\ Frag(killed)
                   /\ exit' = IF killed # {} THEN 2 ELSE exit
                   /\ pulled' = pulled \cup Unseen(killed)
  BY DEF NCSChange, On, Active
<1>3. c.node \in Nodes /\ c.asked \in ResourceState
  BY <1>1, <1>2 DEF ResourceTypeOK
<1>4. TodoOK' /\ program' \in Programs
  BY <1>1, <1>2, TodoShrinks
<1>5. CASE UNCHANGED <<table, frag, exit, pulled>>
  BY <1>1, <1>4, <1>5 DEF ResourceTypeOK, TodoOK, Events, table
<1>6. CASE state[c.node] # c.asked
  <2>1. PICK killed \in SUBSET Jobs :
          /\ Frag(killed)
          /\ exit' = IF killed # {} THEN 2 ELSE exit
          /\ pulled' = pulled \cup Unseen(killed)
    BY <1>2, <1>6
  <2>2. state' \in [Nodes -> ResourceState] /\ finaud' \in [Nodes -> {"NO", "YES"}]
    BY <1>2, <1>3, <1>6 DEF ResourceTypeOK
  <2>3. AskFor(c.node, "UnChanged")
    BY <1>2, <1>6
  <2>4. pulled' \subseteq Jobs
    BY <2>1 DEF ResourceTypeOK, Unseen
  <2>7. exit' \in 0..2
    BY <2>1, ExitType
  <2>5. frag' \in [Jobs -> {"none", "LEON", "TIMER_ARMED"}]
    BY <2>1, FragType
  <2>6. /\ next' \in [Nodes -> ResourceState \cup {"UnChanged"}]
        /\ nextFinaud' \in [Nodes -> {"NO", "YES"}]
    BY <1>3, <2>3, AskType
  <2> QED
    BY <1>1, <1>4, <2>2, <2>4, <2>5, <2>6, <2>7 DEF ResourceTypeOK, TodoOK, Events
<1> QED
  BY <1>2, <1>5, <1>6

LEMMA FinaudDecideType ==
  ASSUME ResourceTypeOK, FinaudDecide
  PROVE  ResourceTypeOK'
<1>1. UNCHANGED <<state, finaud, jobs, events, program, pulled, acts>>
  BY DEF FinaudDecide
<1>2. PICK c \in todo, decision \in {"Suspected", "Alive", "UnChanged"} :
        /\ todo' = todo \ {c}
        /\ \/ UNCHANGED <<next, nextFinaud, exit>>
           \/ /\ next' = [next EXCEPT ![c.node] = decision]
              /\ nextFinaud' = [nextFinaud EXCEPT ![c.node] = "YES"]
              /\ exit' = 1
  BY DEF FinaudDecide
<1>3. TodoOK' /\ program' \in Programs
  BY <1>1, <1>2, TodoShrinks
<1>4. next' \in [Nodes -> ResourceState \cup {"UnChanged"}]
  BY <1>2 DEF ResourceTypeOK, ResourceState
<1>5. nextFinaud' \in [Nodes -> {"NO", "YES"}]
  BY <1>2 DEF ResourceTypeOK
<1>6. exit' \in 0..2
  BY <1>2, ExitType
<1> QED
  BY <1>1, <1>3, <1>4, <1>5, <1>6 DEF ResourceTypeOK, TodoOK, Events, jobs

LEMMA SarkoSwitchType ==
  ASSUME ResourceTypeOK, SarkoSwitch
  PROVE  ResourceTypeOK'
<1>1. UNCHANGED <<state, finaud, jobs, events, program, exit, pulled, acts>>
  BY DEF SarkoSwitch
<1>2. PICK n \in todo :
        /\ todo' = todo \ {n}
        /\ next' = [next EXCEPT ![n] = "Dead"]
        /\ nextFinaud' = [nextFinaud EXCEPT ![n] = "YES"]
  BY DEF SarkoSwitch
<1>3. TodoOK' /\ program' \in Programs
  BY <1>1, <1>2, TodoShrinks
<1>4. next' \in [Nodes -> ResourceState \cup {"UnChanged"}]
  BY <1>2 DEF ResourceTypeOK, ResourceState
<1>5. nextFinaud' \in [Nodes -> {"NO", "YES"}]
  BY <1>2 DEF ResourceTypeOK
<1> QED
  BY <1>1, <1>3, <1>4, <1>5 DEF ResourceTypeOK, TodoOK, Events, jobs

LEMMA ProgramStepType ==
  ASSUME ResourceTypeOK, ProgramStep
  PROVE  ResourceTypeOK'
BY NCSEventType, NCSReadChangesType, NCSChangeType, FinaudDecideType, SarkoSwitchType
   DEF ProgramStep

(* The programs when they are called *)

LEMMA NCSStartType ==
  ASSUME ResourceTypeOK, NCSStart
  PROVE  ResourceTypeOK'
<1>1. /\ program' = "events" /\ todo' = events /\ exit' = 0
      /\ UNCHANGED <<table, jobs, events, pulled, acts>>
  BY DEF NCSStart, Start
<1>2. exit' \in 0..2
  BY <1>1, ExitType
<1> QED
  BY <1>1, <1>2 DEF ResourceTypeOK, Programs, table, jobs

LEMMA FinaudStartType ==
  ASSUME ResourceTypeOK, FinaudStart
  PROVE  ResourceTypeOK'
<1>1. /\ program' = "finaud" /\ exit' = 0
      /\ todo' = {[node |-> n, seen |-> state[n]] : n \in {m \in Nodes : Checked(m)}}
      /\ UNCHANGED <<table, jobs, events, pulled, acts>>
  BY DEF FinaudStart, Start
<1>2. todo' \subseteq [node : Nodes, seen : ResourceState]
  <2>1. \A n \in Nodes : state[n] \in ResourceState
    BY DEF ResourceTypeOK
  <2> QED
    BY <1>1, <2>1
<1>3. exit' \in 0..2
  BY <1>1, ExitType
<1> QED
  BY <1>1, <1>2, <1>3 DEF ResourceTypeOK, Programs, table, jobs

LEMMA SarkoStartType ==
  ASSUME ResourceTypeOK, SarkoStart
  PROVE  ResourceTypeOK'
<1>1. UNCHANGED <<table, job, uses, events, pulled, acts>>
  BY DEF SarkoStart
<1>2. PICK over \in SUBSET Active, old \in SUBSET Nodes :
        /\ program' = "switch"
        /\ Frag(over)
        /\ exit' = IF over # {} THEN 1 ELSE 0
        /\ todo' = IF DeadSwitch THEN old ELSE {}
  BY DEF SarkoStart
<1>3. exit' \in 0..2
  BY <1>2, ExitType
<1>4. frag' \in [Jobs -> {"none", "LEON", "TIMER_ARMED"}]
  BY <1>2, FragType
<1> QED
  BY <1>1, <1>2, <1>3, <1>4 DEF ResourceTypeOK, Programs, table

LEMMA LeonRunType ==
  ASSUME ResourceTypeOK, LeonRun
  PROVE  ResourceTypeOK'
<1>1. /\ program' = "run" /\ exit' \in {0, 1} /\ pulled' = {}
      /\ UNCHANGED <<table, uses, events, todo, acts>>
  BY DEF LeonRun
<1>2. exit' \in 0..2
  BY <1>1, ExitType
<1>3. job' \in [Jobs -> {"waiting", "active", "over"}]
  BY DEF LeonRun, ResourceTypeOK
<1>4. frag' \in [Jobs -> {"none", "LEON", "TIMER_ARMED"}]
  BY DEF LeonRun, ResourceTypeOK
<1> QED
  BY <1>1, <1>2, <1>3, <1>4 DEF ResourceTypeOK, Programs, table

LEMMA MetaschedRunType ==
  ASSUME ResourceTypeOK, MetaschedRun
  PROVE  ResourceTypeOK'
<1>1. /\ program' = "run" /\ exit' = 0
      /\ UNCHANGED <<table, events, todo, pulled, acts>>
  BY DEF MetaschedRun
<1>2. exit' \in 0..2
  BY <1>1, ExitType
<1>3. PICK plan \in SUBSET {j \in Jobs : job[j] = "waiting"} : \E where \in [plan -> Nodes] :
        LET inTheWay == {b \in Active : \E j \in plan : where[j] = uses[b]}
        IN  /\ \A j \in plan : Fits(j, where[j])
            /\ \A i, j \in plan : where[i] = where[j] => i = j
            /\ \/ /\ inTheWay # {}
                  /\ Frag(inTheWay)
                  /\ UNCHANGED <<job, uses>>
               \/ /\ inTheWay = {}
                  /\ job' = [j \in Jobs |-> IF j \in plan THEN "active" ELSE job[j]]
                  /\ uses' = [j \in Jobs |-> IF j \in plan THEN where[j] ELSE uses[j]]
                  /\ UNCHANGED frag
  BY Zenon DEF MetaschedRun
<1>6. PICK where \in [plan -> Nodes] :
        LET inTheWay == {b \in Active : \E j \in plan : where[j] = uses[b]}
        IN  /\ \A j \in plan : Fits(j, where[j])
            /\ \A i, j \in plan : where[i] = where[j] => i = j
            /\ \/ /\ inTheWay # {}
                  /\ Frag(inTheWay)
                  /\ UNCHANGED <<job, uses>>
               \/ /\ inTheWay = {}
                  /\ job' = [j \in Jobs |-> IF j \in plan THEN "active" ELSE job[j]]
                  /\ uses' = [j \in Jobs |-> IF j \in plan THEN where[j] ELSE uses[j]]
                  /\ UNCHANGED frag
  BY <1>3, Zenon
<1> DEFINE inTheWay == {b \in Active : \E j \in plan : where[j] = uses[b]}
<1>7. inTheWay \subseteq Jobs
  BY DEF Active
<1>8. \/ /\ Frag(inTheWay)
         /\ UNCHANGED <<job, uses>>
      \/ /\ job' = [j \in Jobs |-> IF j \in plan THEN "active" ELSE job[j]]
         /\ uses' = [j \in Jobs |-> IF j \in plan THEN where[j] ELSE uses[j]]
         /\ UNCHANGED frag
  BY <1>6
<1> HIDE DEF inTheWay
<1>4. CASE Frag(inTheWay) /\ UNCHANGED <<job, uses>>
  <2>2. frag' \in [Jobs -> {"none", "LEON", "TIMER_ARMED"}]
    BY <1>4, FragType
  <2> QED
    BY <1>1, <1>2, <1>4, <2>2 DEF ResourceTypeOK, Programs, table
<1>5. CASE /\ job' = [j \in Jobs |-> IF j \in plan THEN "active" ELSE job[j]]
           /\ uses' = [j \in Jobs |-> IF j \in plan THEN where[j] ELSE uses[j]]
           /\ UNCHANGED frag
  <2>1. job' \in [Jobs -> {"waiting", "active", "over"}]
    BY <1>5 DEF ResourceTypeOK
  <2>2. uses' \in [Jobs -> Nodes]
    BY <1>5, <1>6 DEF ResourceTypeOK
  <2> QED
    BY <1>1, <1>2, <1>5, <2>1, <2>2 DEF ResourceTypeOK, Programs, table
<1> QED
  BY <1>4, <1>5, <1>8

LEMMA ReturnedType ==
  ASSUME ResourceTypeOK, Returned
  PROVE  ResourceTypeOK'
<1>1. /\ program' = "none" /\ exit' = 0
      /\ UNCHANGED <<table, jobs, events, pulled, acts, todo>>
  BY DEF Returned
<1>2. exit' \in 0..2
  BY <1>1, ExitType
<1> QED
  BY <1>1, <1>2 DEF ResourceTypeOK, Programs, table, jobs

LEMMA StaysTyped ==
  ASSUME ResourceTypeOK, UNCHANGED <<table, jobs, events, call, pulled>>,
         acts' \in 0..MaxActs
  PROVE  ResourceTypeOK'
BY DEF ResourceTypeOK, table, jobs, call

LEMMA NextResourceType ==
  ASSUME ResourceTypeOK, [Next]_vars
  PROVE  ResourceTypeOK'
<1>1. acts \in 0..MaxActs
  BY DEF ResourceTypeOK
<1>2. CASE Qget
  <2>1. acts' \in 0..MaxActs
    BY <1>1, <1>2, ActType DEF Qget
  <2> QED
    BY <1>2, <2>1, StaysTyped DEF Qget
<1>3. CASE TimeUpdate \/ TooEarly \/ Tick \/ UNCHANGED vars
  <2>1. UNCHANGED resourceVars
    BY <1>3 DEF TimeUpdate, TooEarly, Tick, vars
  <2> QED
    BY <1>1, <2>1, StaysTyped DEF resourceVars
<1>4. CASE SchedulerBegins \/ CallNodeChangeState
  BY <1>4, NCSStartType DEF SchedulerBegins, CallNodeChangeState
<1>5. CASE CallMetasched
  BY <1>5, MetaschedRunType DEF CallMetasched
<1>6. CASE CallSarko \/ CallFinaud \/ CallLeon
  BY <1>6, SarkoStartType, FinaudStartType, LeonRunType DEF CallSarko, CallFinaud, CallLeon
<1>7. CASE NodesTreated \/ MetaschedReturned \/ SarkoReturned \/ FinaudReturned \/ LeonReturned
  BY <1>7, ReturnedType
     DEF NodesTreated, MetaschedReturned, SarkoReturned, FinaudReturned, LeonReturned
<1>8. CASE ProgramStep \/ Environment
  BY <1>8, ProgramStepType, EnvironmentType
<1> QED
  BY <1>2, <1>3, <1>4, <1>5, <1>6, <1>7, <1>8 DEF Next, Loop

-----------------------------------------------------------------------------
(* The automaton *)

AutomatonTypeOK ==
  /\ at \in States
  /\ queue \in Seq(Commands)
  /\ wanted \in {0, 1}
  /\ sinceSched \in 0..SchedulerTimeout
  /\ sinceVillains \in 0..VillainsTimeout
  /\ sinceNodes \in 0..NodesTimeout

(* What a step does to the queue *)
QueueKept ==
  /\ queue' \in Seq(Commands)
  /\ IsInjective(queue) => IsInjective(queue')

LEMMA QgetStep ==
  ASSUME AutomatonTypeOK, Qget
  PROVE  QueueKept /\ at' \in States \ {"Metasched"}
<1>1. \E m \in {"Time"} \cup Notifications : Take(AddCommand(queue, TRUE, m))
  BY DEF Qget
<1>2. PICK m \in Commands : Take(AddCommand(queue, TRUE, m))
  BY <1>1, NotificationsAssumption DEF Commands
<1> DEFINE q == AddCommand(queue, TRUE, m)
<1>3. q \in Seq(Commands) /\ q # <<>> /\ (IsInjective(queue) => IsInjective(q))
  BY Added DEF AutomatonTypeOK
<1>4. Take(q)
  BY <1>2
<1> HIDE DEF q
<1> QED
  BY <1>3, <1>4, Taken DEF QueueKept

(* Commands are queued one after the other *)
LEMMA TimeUpdateStep ==
  ASSUME AutomatonTypeOK, TimeUpdate
  PROVE  QueueKept /\ at' = "Qget"
<1>1. PICK d1, d2, d3 :
        queue' = AddCommand(AddCommand(AddCommand(queue, d1, "Scheduling"), d2, "Villains"),
                            d3, "Finaud")
  BY DEF TimeUpdate
<1> DEFINE q1 == AddCommand(queue, d1, "Scheduling")
           q2 == AddCommand(q1, d2, "Villains")
<1>2. "Scheduling" \in Commands /\ "Villains" \in Commands /\ "Finaud" \in Commands
  BY DEF Commands
<1>3. q1 \in Seq(Commands) /\ (IsInjective(queue) => IsInjective(q1))
  BY <1>2, Added DEF AutomatonTypeOK
<1> HIDE DEF q1
<1>4. q2 \in Seq(Commands) /\ (IsInjective(q1) => IsInjective(q2))
  BY <1>2, <1>3, Added
<1>5. queue' = AddCommand(q2, d3, "Finaud")
  BY <1>1 DEF q1
<1> HIDE DEF q2
<1> QED
  BY <1>2, <1>3, <1>4, <1>5, Added DEF QueueKept, TimeUpdate

(* Term may be queued *)
LEMMA TermStep ==
  ASSUME AutomatonTypeOK, NEW due, queue' = AddCommand(queue, due, "Term")
  PROVE  QueueKept
<1>1. "Term" \in Commands
  BY DEF Commands
<1> QED
  BY <1>1, Added DEF QueueKept, AutomatonTypeOK

LEMMA NextQueue ==
  ASSUME AutomatonTypeOK, [Next]_vars
  PROVE  QueueKept
<1>1. CASE UNCHANGED queue
  BY <1>1 DEF QueueKept, AutomatonTypeOK
<1>2. CASE Qget \/ TimeUpdate
  BY <1>2, QgetStep, TimeUpdateStep
<1>3. CASE NodesTreated \/ LeonReturned
  BY <1>3, TermStep DEF NodesTreated, LeonReturned
<1> QED
  BY <1>1, <1>2, <1>3
     DEF Next, Loop, TooEarly, SchedulerBegins, CallNodeChangeState, CallMetasched, CallSarko,
         CallFinaud, CallLeon, MetaschedReturned, SarkoReturned, FinaudReturned, Tick, vars,
         automaton

(* A date is aged or set to now *)
LEMMA OlderType ==
  ASSUME NEW timeout \in Nat, NEW age \in 0..timeout
  PROVE  Older(age, timeout) \in 0..timeout /\ 0 \in 0..timeout
BY DEF Older

LEMMA NextClock ==
  ASSUME AutomatonTypeOK, [Next]_vars
  PROVE  /\ sinceSched' \in 0..SchedulerTimeout
         /\ sinceVillains' \in 0..VillainsTimeout
         /\ sinceNodes' \in 0..NodesTimeout
<1>1. CASE UNCHANGED clock
  BY <1>1 DEF AutomatonTypeOK, clock
<1>2. CASE MetaschedReturned \/ SarkoReturned \/ FinaudReturned
  BY <1>2, OlderType, TimeoutsAssumption
     DEF AutomatonTypeOK, MetaschedReturned, SarkoReturned, FinaudReturned
<1>3. CASE Tick
  BY <1>3, OlderType, TimeoutsAssumption DEF AutomatonTypeOK, Tick
<1> QED
  BY <1>1, <1>2, <1>3
     DEF Next, Loop, Qget, TimeUpdate, TooEarly, SchedulerBegins, CallNodeChangeState,
         CallMetasched, CallSarko, CallFinaud, CallLeon, NodesTreated, LeonReturned,
         vars, automaton

LEMMA NextState ==
  ASSUME AutomatonTypeOK, [Next]_vars, exit \in 0..2
  PROVE  at' \in States /\ wanted' \in {0, 1}
<1>1. CASE UNCHANGED <<at, wanted>>
  BY <1>1 DEF AutomatonTypeOK
<1>2. CASE Qget \/ TimeUpdate
  BY <1>2, QgetStep, TimeUpdateStep DEF Qget, TimeUpdate, AutomatonTypeOK, States
<1>3. CASE TooEarly \/ SchedulerBegins
  BY <1>3 DEF TooEarly, SchedulerBegins, States, AutomatonTypeOK
<1>4. exit \in {0, 1, 2}
  OBVIOUS
<1>5. CASE NodesTreated \/ MetaschedReturned
  BY <1>4, <1>5 DEF NodesTreated, MetaschedReturned, AfterNodes, Returned, States, AutomatonTypeOK
<1>6. CASE SarkoReturned \/ FinaudReturned \/ LeonReturned
  BY <1>6 DEF SarkoReturned, FinaudReturned, LeonReturned, Returned, States, AutomatonTypeOK
<1> QED
  BY <1>1, <1>2, <1>3, <1>5, <1>6
     DEF Next, Loop, CallNodeChangeState, CallMetasched, CallSarko, CallFinaud, CallLeon, Tick,
         vars, automaton

LEMMA InitTyped == Init => TypeOK
<1> SUFFICES ASSUME Init
             PROVE  TypeOK
  OBVIOUS
<1>1. ResourceTypeOK
  BY ActsAssumption DEF Init, ResourceInit, ResourceTypeOK, ResourceState, Programs
<1>2. AutomatonTypeOK
  BY TimeoutsAssumption DEF Init, AutomatonTypeOK, States
<1> QED
  BY <1>1, <1>2 DEF TypeOK, AutomatonTypeOK

LEMMA NextTyped == TypeOK /\ [Next]_vars => TypeOK'
<1> SUFFICES ASSUME TypeOK, [Next]_vars
             PROVE  TypeOK'
  OBVIOUS
<1>1. ResourceTypeOK /\ AutomatonTypeOK
  BY DEF TypeOK, AutomatonTypeOK
<1>2. exit \in 0..2
  BY <1>1, ExitType
<1>3. ResourceTypeOK'
  BY <1>1, NextResourceType
<1>4. queue' \in Seq(Commands)
  BY <1>1, NextQueue DEF QueueKept
<1>5. at' \in States /\ wanted' \in {0, 1}
  BY <1>1, <1>2, NextState
<1> QED
  BY <1>1, <1>3, <1>4, <1>5, NextClock DEF TypeOK

(* Whatever the sizes and the timeouts, the automaton never leaves its     *)
(* states, the programs return 0, 1 or 2, and the tables keep their types. *)
THEOREM TypeCorrect == Spec => []TypeOK
<1> QED
  BY InitTyped, NextTyped, PTL DEF Spec

(* The queue never holds a command twice (almighty.py, add_command), so    *)
(* that it has at most as many elements as there are commands.             *)
THEOREM QueueWithoutDuplicates == Spec => []CommandsAreDistinct
<1>1. Init => CommandsAreDistinct
  BY DEF Init, CommandsAreDistinct, IsInjective
<1>2. TypeOK /\ CommandsAreDistinct /\ [Next]_vars => CommandsAreDistinct'
  BY NextQueue DEF TypeOK, AutomatonTypeOK, QueueKept, CommandsAreDistinct
<1> QED
  BY <1>1, <1>2, TypeCorrect, PTL DEF Spec

-----------------------------------------------------------------------------
(* Leon first *)

(* NodeChangeState runs in two states of the automaton only *)
NCSRuns == program \in {"events", "changes"} => at \in NCSPlaces

(* Jobs fragged by NodeChangeState and not seen by Leon: the program has   *)
(* still to return its 2, or the automaton is at Leon, not run yet.        *)
LeonIsOwed ==
  pulled # {} => \/ program = "changes" /\ exit = 2 /\ at \in NCSPlaces
                 \/ program = "none" /\ at = "Leon"

LeonInv == NCSRuns /\ LeonIsOwed

(* The step that frags jobs returns 2, since it frags at least one *)
LEMMA ChangeOwesLeon ==
  ASSUME LeonInv, NCSChange, UNCHANGED automaton
  PROVE  LeonInv'
<1>1. program = "changes" /\ program' = "changes" /\ at' = at /\ at \in NCSPlaces
  BY DEF NCSChange, automaton, LeonInv, NCSRuns
<1>2. PICK c \in todo :
        \/ UNCHANGED <<table, frag, exit, pulled>>
        \/ \E killed :
             /\ exit' = IF killed # {} THEN 2 ELSE exit
             /\ pulled' = pulled \cup Unseen(killed)
  BY DEF NCSChange
<1>3. CASE UNCHANGED <<table, frag, exit, pulled>>
  BY <1>1, <1>3 DEF LeonInv, NCSRuns, LeonIsOwed
<1>4. CASE \E killed : /\ exit' = IF killed # {} THEN 2 ELSE exit
                       /\ pulled' = pulled \cup Unseen(killed)
  BY <1>1, <1>4 DEF LeonInv, NCSRuns, LeonIsOwed, Unseen
<1> QED
  BY <1>2, <1>3, <1>4

LEMMA AfterTwo == AfterNodes(2) = "Leon"
BY DEF AfterNodes

LEMMA NextOwesLeon == LeonInv /\ exit \in 0..2 /\ [Next]_vars => LeonInv'
<1> SUFFICES ASSUME LeonInv, exit \in 0..2, [Next]_vars
             PROVE  LeonInv'
  OBVIOUS
<1> USE DEF LeonInv, NCSRuns, LeonIsOwed, NCSPlaces
<1>1. CASE Qget \/ TimeUpdate \/ TooEarly
  BY <1>1 DEF Qget, TimeUpdate, TooEarly, call, resourceVars
<1>2. CASE SchedulerBegins \/ CallNodeChangeState
  BY <1>2 DEF SchedulerBegins, CallNodeChangeState, NCSStart, Start, automaton
<1>3. CASE CallMetasched
  BY <1>3 DEF CallMetasched, MetaschedRun
<1>4. CASE CallSarko \/ CallFinaud
  BY <1>4 DEF CallSarko, CallFinaud, SarkoStart, FinaudStart, Start
<1>5. CASE CallLeon
  BY <1>5 DEF CallLeon, LeonRun
<1>6. CASE NodesTreated
  <2>1. program # "none" /\ program' = "none" /\ UNCHANGED pulled
    BY <1>6 DEF NodesTreated, Returned, Finished
  <2>2. at' = AfterNodes(exit)
    BY <1>6 DEF NodesTreated
  <2>3. exit = 2 => at' = "Leon"
    BY <2>2, AfterTwo
  <2> QED
    BY <2>1, <2>3
<1>7. CASE MetaschedReturned \/ SarkoReturned \/ FinaudReturned \/ LeonReturned
  BY <1>7 DEF MetaschedReturned, SarkoReturned, FinaudReturned, LeonReturned, Returned,
              Finished
<1>8. CASE (NCSEvent \/ NCSReadChanges \/ FinaudDecide \/ SarkoSwitch) /\ UNCHANGED automaton
  BY <1>8 DEF NCSEvent, NCSReadChanges, FinaudDecide, SarkoSwitch, automaton
<1>9. CASE NCSChange /\ UNCHANGED automaton
  BY <1>9, ChangeOwesLeon
<1>10. CASE Tick \/ UNCHANGED vars
  BY <1>10 DEF Tick, vars, resourceVars, call, automaton
<1>11. CASE Environment /\ UNCHANGED automaton
  BY <1>11
     DEF Environment, Oarnodesetting, Oardel, JobEnds, NodeIsAccused, call, automaton
<1> QED
  BY <1>1, <1>2, <1>3, <1>4, <1>5, <1>6, <1>7, <1>8, <1>9, <1>10, <1>11
     DEF Next, Loop, ProgramStep

(* No metascheduling takes place while jobs of a resource that was taken   *)
(* out wait for Leon (almighty.py, run: the exit code 2).                  *)
THEOREM LeonComesFirst == Spec => []LeonBeforeScheduling
<1>1. Init => LeonInv
  BY DEF Init, ResourceInit, LeonInv, NCSRuns, LeonIsOwed
<1>2. TypeOK => exit \in 0..2
  BY ExitType DEF TypeOK
<1>3. LeonInv => LeonBeforeScheduling
  BY DEF LeonInv, LeonIsOwed, NCSPlaces, LeonBeforeScheduling
<1> QED
  BY <1>1, <1>2, <1>3, NextOwesLeon, TypeCorrect, PTL DEF Spec

-----------------------------------------------------------------------------
(* Hulot *)

LEMMA FiniteNodes ==
  ASSUME NEW S \in SUBSET Addresses
  PROVE  IsFiniteSet(S) /\ Cardinality(S) \in Nat
BY AddressesAssumption, FS_Subset, FS_CardinalityType

(* The greatest of some numbers that are bounded *)
LEMMA GreatestIsThere ==
  ASSUME NEW S \in SUBSET Nat, S # {}, NEW most \in Nat, \A k \in S : k <= most
  PROVE  Max(S) \in S
<1> DEFINE P == {most - k : k \in S}
<1>1. P \in SUBSET Nat /\ P # {}
  <2>1. \A k \in S : most - k \in Nat
    OBVIOUS
  <2> QED
    BY <2>1, Zenon
<1>2. PICK n \in P : \A m \in P : ~ (<<m, n>> \in OpToRel(<, Nat))
  BY <1>1, NatLessThanWellFounded, WFMin, Zenon
<1>3. PICK x \in S : n = most - x
  BY <1>2
<1>4. ASSUME NEW y \in S
      PROVE  x >= y
  <2>1. most - y \in P /\ most - y \in Nat /\ n \in Nat
    BY <1>1
  <2>2. ~ (most - y < n)
    BY <1>2, <2>1 DEF OpToRel
  <2> QED
    BY <1>3, <2>2
<1> QED
  BY <1>4 DEF Max

(* get_timeout finds a timeout *)
LEMMA WakeTimeoutType ==
  ASSUME NEW nb \in Nat
  PROVE  WakeTimeout(nb) \in Nat
<1> DEFINE keys == {k \in DOMAIN WakeTimeouts : k <= nb}
<1>1. keys \in SUBSET Nat /\ \A k \in keys : k <= nb /\ WakeTimeouts[k] \in Nat
  BY WindowAssumption
<1>2. WakeTimeout(nb) = WakeTimeouts[IF keys = {} THEN 1 ELSE Max(keys)]
  BY DEF WakeTimeout
<1> HIDE DEF keys
<1>3. CASE keys = {}
  BY <1>2, <1>3, WindowAssumption
<1>4. CASE keys # {}
  BY <1>1, <1>2, <1>4, GreatestIsThere
<1> QED
  BY <1>3, <1>4

(* What is left of a sequence *)
LEMMA OthersOf ==
  ASSUME NEW T, NEW es \in Seq(T), NEW i \in DOMAIN es
  PROVE  /\ RemoveAt(es, i) \in Seq(T)
         /\ Len(RemoveAt(es, i)) = Len(es) - 1
         /\ \A k \in 1..(Len(es) - 1) : RemoveAt(es, i)[k] = IF k < i THEN es[k] ELSE es[k + 1]
<1> DEFINE first == SubSeq(es, 1, i - 1)
           rest  == SubSeq(es, i + 1, Len(es))
<1>1. Len(es) \in Nat /\ i \in 1..Len(es) /\ RemoveAt(es, i) = first \o rest
  BY DEF RemoveAt
<1>2. first \in Seq(T) /\ Len(first) = i - 1 /\ \A k \in 1..(i - 1) : first[k] = es[k]
  BY <1>1
<1>3. rest \in Seq(T) /\ Len(rest) = Len(es) - i /\ \A k \in 1..(Len(es) - i) : rest[k] = es[i + k]
  <2>1. /\ i + 1 \in Int /\ Len(es) \in Int /\ \A k \in (i + 1)..Len(es) : es[k] \in T
        /\ (IF i + 1 <= Len(es) THEN Len(es) - (i + 1) + 1 ELSE 0) = Len(es) - i
        /\ Len(es) - (i + 1) + 1 = Len(es) - i
        /\ \A k \in 1..(Len(es) - i) : (i + 1) + k - 1 = i + k
    BY <1>1
  <2>2. /\ rest \in Seq(T)
        /\ Len(rest) = IF i + 1 <= Len(es) THEN Len(es) - (i + 1) + 1 ELSE 0
        /\ \A k \in 1..(Len(es) - (i + 1) + 1) : rest[k] = es[(i + 1) + k - 1]
    BY <2>1, SubSeqProperties
  <2> HIDE DEF rest
  <2> QED
    BY <2>1, <2>2
<1> HIDE DEF first, rest
<1>4. /\ first \o rest \in Seq(T) /\ Len(first \o rest) = Len(es) - 1
      /\ \A k \in 1..(Len(es) - 1) :
           (first \o rest)[k] = IF k <= i - 1 THEN first[k] ELSE rest[k - (i - 1)]
  BY <1>1, <1>2, <1>3
<1>5. ASSUME NEW k \in 1..(Len(es) - 1)
      PROVE  (first \o rest)[k] = IF k < i THEN es[k] ELSE es[k + 1]
  <2>1. CASE k < i
    BY <1>1, <1>2, <1>4, <2>1
  <2>2. CASE ~ (k < i)
    <3>1. k - (i - 1) \in 1..(Len(es) - i) /\ i + (k - (i - 1)) = k + 1 /\ ~ (k <= i - 1)
      BY <1>1, <2>2
    <3> QED
      BY <1>3, <1>4, <2>2, <3>1
  <2> QED
    BY <2>1, <2>2
<1> QED
  BY <1>1, <1>4, <1>5

(* The numbers of a set in order are a sequence of them *)
LEMMA InOrderIs ==
  ASSUME NEW N \in Nat, NEW S \in SUBSET (1..N), NEW f \in InOrder(S)
  PROVE  /\ \E len \in Nat : DOMAIN f = 1..len
         /\ \A k \in DOMAIN f : f[k] \in S
         /\ \A k, l \in DOMAIN f : f[k] = f[l] => k = l
<1>1. /\ f \in [1..Cardinality(S) -> S]
      /\ \A k, l \in 1..Cardinality(S) : k # l => f[k] # f[l]
  BY DEF InOrder, SetToSeqs
<1>2. IsFiniteSet(1..N)
  BY FS_Interval
<1>3. Cardinality(S) \in Nat
  BY <1>2, FS_Subset, FS_CardinalityType
<1> QED
  BY <1>1, <1>3

-----------------------------------------------------------------------------
(* The commands that are watched, in a pool and a register *)
Halts(es) == {i \in DOMAIN es : es[i].known /\ es[i].cmd = "HALT"}

RegisteredIn(es, register) ==
  /\ \A i \in Halts(es) : es[i].node \in DOMAIN register /\ register[es[i].node].cmd = "HALT"
  /\ \A i, k \in Halts(es) : es[i].node = es[k].node => i = k

(* Each command of a pool comes from one of the other *)
ComesFrom(new, old, from) ==
  /\ \A k \in DOMAIN new :
       /\ from[k] \in DOMAIN old
       /\ new[k].node = old[from[k]].node /\ new[k].cmd = old[from[k]].cmd
       /\ new[k].known => old[from[k]].known
  /\ \A k, l \in DOMAIN new : from[k] = from[l] => k = l

LEMMA StillRegistered ==
  ASSUME NEW new, NEW old, NEW from, ComesFrom(new, old, from),
         NEW register, RegisteredIn(old, register)
  PROVE  RegisteredIn(new, register)
<1>1. \A k \in Halts(new) : from[k] \in Halts(old) /\ new[k].node = old[from[k]].node
  BY DEF Halts, ComesFrom
<1>2. \A k, l \in Halts(new) : from[k] = from[l] => k = l
  BY DEF Halts, ComesFrom
<1> QED
  BY <1>1, <1>2 DEF RegisteredIn

(* The nodes to process, of which none runs a command *)
NoneRuns ==
  /\ pc = "process" => DOMAIN toProcess \cap DOMAIN running = {}
  /\ pc # "process" => DOMAIN toProcess = {}

Spared == \A g \in Groups : HaltedInTurn(g) # {} => idle[g] >= MinIdle[g]

HulotInv ==
  /\ HulotTypeOK
  /\ RegisteredIn(pool, running)
  /\ NoneRuns
  /\ Spared

LEMMA HulotBegins == HulotInit => HulotInv
<1> SUFFICES ASSUME HulotInit
             PROVE  HulotInv
  OBVIOUS
<1>1. /\ DOMAIN Empty = {} /\ pool = <<>> /\ inbox = <<>> /\ running = Empty
      /\ reminded = Empty /\ toProcess = Empty /\ refused = Empty /\ undecided = {}
  BY DEF HulotInit, Empty
<1>2. HulotTypeOK
  <2>1. /\ stateOf \in [Addresses -> NodeState]
        /\ nextOf \in [Addresses -> NodeState \cup {"UnChanged"}]
        /\ power \in [Addresses -> {"on", "off", "booting"}]
        /\ idle \in [Groups -> Int]
    BY InitStatesAssumption DEF HulotInit
  <2>2. orders \in 0..MaxOrders /\ incidents \in 0..MaxEvents
    BY BoundsAssumption DEF HulotInit
  <2>3. busy = {} /\ server = "ncs" /\ pc = "check"
    BY DEF HulotInit
  <2>4. inbox \in Seq(Sent) /\ pool \in Seq(Entry)
    BY <1>1
  <2> QED
    BY <1>1, <2>1, <2>2, <2>3, <2>4 DEF HulotTypeOK
<1>3. RegisteredIn(pool, running)
  BY <1>1 DEF RegisteredIn, Halts
<1>4. NoneRuns /\ Spared
  BY <1>1 DEF HulotInit, NoneRuns, Spared, HaltedInTurn
<1> QED
  BY <1>2, <1>3, <1>4 DEF HulotInv

(* A step that leaves the lists alone *)
ListsKept == UNCHANGED <<running, toProcess, undecided, refused, idle, pc>>

LEMMA TurnStays ==
  ASSUME NoneRuns, Spared, ListsKept
  PROVE  NoneRuns' /\ Spared'
BY DEF NoneRuns, Spared, ListsKept, HaltedInTurn

LEMMA AskAllType ==
  ASSUME HulotTypeOK, NEW ns, NEW s \in NodeState, AskAll(ns, s)
  PROVE  nextOf' \in [Addresses -> NodeState \cup {"UnChanged"}]
BY DEF AskAll, HulotTypeOK

LEMMA TurnKept ==
  ASSUME HulotInv, UNCHANGED hulot
  PROVE  NoneRuns' /\ Spared'
<1>1. ListsKept
  BY DEF hulot, turn, ListsKept
<1> QED
  BY <1>1, TurnStays DEF HulotInv

LEMMA RegisterKept ==
  ASSUME HulotInv, UNCHANGED <<pool, running>>
  PROVE  RegisteredIn(pool', running')
BY DEF HulotInv

LEMMA NodeChangeStateKeeps == ASSUME HulotInv, NodeChangeState PROVE HulotInv'
<1>1. UNCHANGED <<busy, inbox, hulot, forker, bounds>>
  BY DEF NodeChangeState
<1>2. /\ stateOf' \in [Addresses -> NodeState]
      /\ nextOf' \in [Addresses -> NodeState \cup {"UnChanged"}]
      /\ server' \in {"ncs", "meta"}
  BY DEF NodeChangeState, HulotInv, HulotTypeOK, Asking, NodeState
<1>3. HulotTypeOK'
  BY <1>1, <1>2 DEF HulotInv, HulotTypeOK, hulot, turn, forker, bounds
<1>4. RegisteredIn(pool', running')
  BY <1>1, RegisterKept DEF hulot, forker
<1> QED
  BY <1>1, <1>3, <1>4, TurnKept DEF HulotInv

LEMMA SentTypes ==
  ASSUME NEW cmd \in PowerCommands, NEW ns \in SUBSET Addresses
  PROVE  Message(cmd, ns) \in Seq(Sent)
<1>1. [cmd |-> cmd, nodes |-> ns] \in Sent
  BY DEF Sent
<1> QED
  BY <1>1 DEF Message

LEMMA MetaScheduleKeeps == ASSUME HulotInv, MetaSchedule PROVE HulotInv'
<1>1. UNCHANGED <<stateOf, nextOf, hulot, forker>> /\ server' = "ncs"
  BY DEF MetaSchedule
<1>2. PICK launched \in SUBSET {n \in Addresses \ busy : stateOf[n] = "Alive"}, soon \in SUBSET Addresses :
        /\ busy' = busy \cup launched
        /\ incidents' = incidents + Cardinality(launched)
        /\ incidents' <= MaxEvents
        /\ \E sent \in NodesEnergySaving(busy', soon) :
             /\ orders + Len(sent) <= MaxOrders
             /\ orders' = orders + Len(sent)
             /\ inbox' = inbox \o Orders(sent)
  BY DEF MetaSchedule
<1>3. PICK sent \in NodesEnergySaving(busy', soon) :
        /\ orders + Len(sent) <= MaxOrders
        /\ orders' = orders + Len(sent)
        /\ inbox' = inbox \o Orders(sent)
  BY <1>2
<1>4. sent \in Seq(Sent)
  <2>1. PICK halted \in SUBSET ToHalt(busy', soon) :
          sent = Message("HALT", halted) \o Message("WAKEUP", ToWakeUp(soon))
    BY DEF NodesEnergySaving
  <2>2. halted \in SUBSET Addresses /\ ToWakeUp(soon) \in SUBSET Addresses
    BY DEF ToHalt, IdleNodes, ToWakeUp
  <2>3. Message("HALT", halted) \in Seq(Sent) /\ Message("WAKEUP", ToWakeUp(soon)) \in Seq(Sent)
    BY <2>2, SentTypes DEF PowerCommands
  <2> QED
    BY <2>1, <2>3
<1>5. Orders(sent) \in Seq(Sent)
  <2>1. [cmd |-> "CHECK", nodes |-> {}] \in Sent
    BY DEF Sent
  <2> QED
    BY <1>4, <2>1 DEF Orders
<1>6. inbox' \in Seq(Sent)
  BY <1>3, <1>5 DEF HulotInv, HulotTypeOK
<1>7. orders' \in 0..MaxOrders
  <2>1. Len(sent) \in Nat /\ orders \in 0..MaxOrders /\ MaxOrders \in Nat
    BY <1>4, BoundsAssumption DEF HulotInv, HulotTypeOK
  <2> QED
    BY <1>3, <2>1
<1>8. incidents' \in 0..MaxEvents /\ busy' \in SUBSET Addresses
  <2>1. launched \in SUBSET Addresses
    OBVIOUS
  <2>2. Cardinality(launched) \in Nat
    BY <2>1, FiniteNodes
  <2>3. incidents \in 0..MaxEvents /\ MaxEvents \in Nat /\ busy \in SUBSET Addresses
    BY BoundsAssumption DEF HulotInv, HulotTypeOK
  <2> QED
    BY <1>2, <2>1, <2>2, <2>3
<1>9. HulotTypeOK'
  BY <1>1, <1>6, <1>7, <1>8 DEF HulotInv, HulotTypeOK, hulot, turn, forker
<1>10. RegisteredIn(pool', running')
  BY <1>1, RegisterKept DEF hulot, forker
<1> QED
  BY <1>1, <1>9, <1>10, TurnKept DEF HulotInv

LEMMA JobLeavesKeeps == ASSUME HulotInv, NEW n, JobLeaves(n) PROVE HulotInv'
<1>1. UNCHANGED <<stateOf, nextOf, server, inbox, hulot, forker, bounds>> /\ busy' \in SUBSET Addresses
  BY DEF JobLeaves, HulotInv, HulotTypeOK
<1>2. HulotTypeOK'
  BY <1>1 DEF HulotInv, HulotTypeOK, hulot, turn, forker, bounds
<1>3. RegisteredIn(pool', running')
  BY <1>1, RegisterKept DEF hulot, forker
<1> QED
  BY <1>1, <1>2, <1>3, TurnKept DEF HulotInv

LEMMA NodeBootsKeeps == ASSUME HulotInv, NEW n \in Addresses, NodeBoots(n) PROVE HulotInv'
<1>1. UNCHANGED <<stateOf, busy, server, inbox, hulot, pool, bounds>>
  BY DEF NodeBoots
<1>2. nextOf' \in [Addresses -> NodeState \cup {"UnChanged"}]
  BY AskAllType DEF NodeBoots, HulotInv, NodeState
<1>3. power' \in [Addresses -> {"on", "off", "booting"}]
  BY DEF NodeBoots, HulotInv, HulotTypeOK
<1>4. HulotTypeOK'
  BY <1>1, <1>2, <1>3 DEF HulotInv, HulotTypeOK, hulot, turn, bounds
<1>5. RegisteredIn(pool', running')
  BY <1>1, RegisterKept DEF hulot
<1> QED
  BY <1>1, <1>4, <1>5, TurnKept DEF HulotInv

LEMMA RefreshKeeps == ASSUME HulotInv, Refresh PROVE HulotInv'
<1>1. UNCHANGED <<tables, inbox, hulot, power, orders>> /\ pool' = <<>>
  BY DEF Refresh
<1>2. incidents' \in 0..MaxEvents
  BY BoundsAssumption DEF Refresh, HulotInv, HulotTypeOK
<1>3. pool' \in Seq(Entry)
  BY <1>1
<1>4. HulotTypeOK'
  BY <1>1, <1>2, <1>3 DEF HulotInv, HulotTypeOK, hulot, turn, tables
<1>5. RegisteredIn(pool', running')
  BY <1>1 DEF RegisteredIn, Halts
<1> QED
  BY <1>1, <1>4, <1>5, TurnKept DEF HulotInv

-----------------------------------------------------------------------------
(* The pool *)

LEMMA PoolTypes ==
  ASSUME HulotInv
  PROVE  /\ Len(pool) \in Nat /\ DOMAIN pool = 1..Len(pool)
         /\ \A i \in DOMAIN pool : pool[i] \in Entry
BY DEF HulotInv, HulotTypeOK

LEMMA ExecutorEndsKeeps == ASSUME HulotInv, NEW i, ExecutorEnds(i) PROVE HulotInv'
<1>1. UNCHANGED <<tables, inbox, hulot, bounds>> /\ i \in DOMAIN pool
  BY DEF ExecutorEnds
<1>2. PICK result \in {"ok", "failed"} :
        /\ pool' = IF pool[i].known THEN [pool EXCEPT ![i].at = result] ELSE RemoveAt(pool, i)
        /\ power' = IF result = "ok" THEN [power EXCEPT ![pool[i].node] = Powered(pool[i].cmd, @)] ELSE power
  BY DEF ExecutorEnds
<1>3. /\ Len(pool) \in Nat /\ DOMAIN pool = 1..Len(pool) /\ pool \in Seq(Entry)
      /\ \A k \in DOMAIN pool : pool[k] \in Entry
  BY PoolTypes DEF HulotInv, HulotTypeOK
<1>4. pool' \in Seq(Entry) /\ RegisteredIn(pool', running)
  <2>1. CASE pool[i].known
    <3>1. pool' = [pool EXCEPT ![i].at = result]
      BY <1>2, <2>1
    <3>2. [pool[i] EXCEPT !.at = result] \in Entry
      BY <1>1, <1>3 DEF Entry
    <3>3. pool' \in Seq(Entry) /\ DOMAIN pool' = DOMAIN pool
      BY <1>1, <1>3, <3>1, <3>2
    <3>4. \A k \in DOMAIN pool' : /\ pool'[k].node = pool[k].node /\ pool'[k].cmd = pool[k].cmd
                                  /\ pool'[k].known = pool[k].known
      BY <1>1, <1>3, <3>1 DEF Entry
    <3>5. ComesFrom(pool', pool, [k \in DOMAIN pool |-> k])
      BY <3>3, <3>4 DEF ComesFrom
    <3> QED
      BY <3>3, <3>5, StillRegistered DEF HulotInv
  <2>2. CASE ~ pool[i].known
    <3> DEFINE from == [k \in 1..(Len(pool) - 1) |-> IF k < i THEN k ELSE k + 1]
    <3>1. pool' = RemoveAt(pool, i)
      BY <1>2, <2>2
    <3>2. /\ pool' \in Seq(Entry) /\ Len(pool') = Len(pool) - 1
          /\ \A k \in 1..(Len(pool) - 1) : pool'[k] = IF k < i THEN pool[k] ELSE pool[k + 1]
      BY <1>1, <1>3, <3>1, OthersOf
    <3>3. DOMAIN pool' = 1..(Len(pool) - 1)
      BY <3>2
    <3>4. \A k \in DOMAIN pool' : from[k] \in DOMAIN pool /\ pool'[k] = pool[from[k]]
      BY <1>1, <1>3, <3>2, <3>3
    <3>5. \A k, l \in DOMAIN pool' : from[k] = from[l] => k = l
      BY <1>1, <1>3, <3>3
    <3> HIDE DEF from
    <3>6. ComesFrom(pool', pool, from)
      BY <3>4, <3>5 DEF ComesFrom
    <3> QED
      BY <3>2, <3>6, StillRegistered DEF HulotInv
  <2> QED
    BY <2>1, <2>2
<1>5. power' \in [Addresses -> {"on", "off", "booting"}]
  <2>1. power \in [Addresses -> {"on", "off", "booting"}] /\ pool[i].node \in Addresses
    BY <1>1, <1>3 DEF HulotInv, HulotTypeOK, Entry
  <2>2. Powered(pool[i].cmd, power[pool[i].node]) \in {"on", "off", "booting"}
    BY <2>1 DEF Powered
  <2> QED
    BY <1>2, <2>1, <2>2
<1>6. HulotTypeOK'
  BY <1>1, <1>4, <1>5 DEF HulotInv, HulotTypeOK, hulot, turn, tables, bounds
<1> QED
  BY <1>1, <1>4, <1>6, TurnKept DEF HulotInv, hulot

LEMMA TimePassesKeeps == ASSUME HulotInv, TimePasses PROVE HulotInv'
<1>1. UNCHANGED <<tables, inbox, reminded, turn, pc, power, bounds>>
  BY DEF TimePasses
<1>2. /\ running' = [n \in DOMAIN running |-> [running[n] EXCEPT !.left = IF @ = 0 THEN 0 ELSE @ - 1]]
      /\ pool' = [i \in DOMAIN pool |-> [pool[i] EXCEPT !.age = IF @ > WindowTimeout THEN @ ELSE @ + 1]]
  BY DEF TimePasses
<1>3. /\ DOMAIN running' = DOMAIN running
      /\ \A n \in DOMAIN running : /\ running'[n] \in [cmd : PowerCommands, left : Nat]
                                   /\ running'[n].cmd = running[n].cmd
  BY <1>2 DEF HulotInv, HulotTypeOK
<1>4. \A i \in DOMAIN pool : /\ pool'[i] \in Entry
                             /\ pool'[i].node = pool[i].node /\ pool'[i].cmd = pool[i].cmd
                             /\ pool'[i].known = pool[i].known
  <2> SUFFICES ASSUME NEW i \in DOMAIN pool
               PROVE  /\ pool'[i] \in Entry
                      /\ pool'[i].node = pool[i].node /\ pool'[i].cmd = pool[i].cmd
                      /\ pool'[i].known = pool[i].known
    OBVIOUS
  <2> DEFINE age == IF pool[i].age > WindowTimeout THEN pool[i].age ELSE pool[i].age + 1
  <2>1. pool'[i] = [pool[i] EXCEPT !.age = age] /\ pool[i] \in Entry
    BY <1>2, PoolTypes
  <2>2. age \in 0..(WindowTimeout + 1)
    BY <2>1, WindowAssumption DEF Entry
  <2> HIDE DEF age
  <2> QED
    BY <2>1, <2>2 DEF Entry
<1>5. pool' \in Seq(Entry) /\ DOMAIN pool' = DOMAIN pool
  <2>1. DOMAIN pool' = 1..Len(pool) /\ Len(pool) \in Nat
    BY <1>2, PoolTypes
  <2>2. pool' = [i \in 1..Len(pool) |-> pool'[i]]
    BY <1>2, PoolTypes
  <2>3. \A i \in 1..Len(pool) : pool'[i] \in Entry
    BY <1>4, PoolTypes
  <2> QED
    BY <2>1, <2>2, <2>3, PoolTypes
<1>6. ComesFrom(pool', pool, [k \in DOMAIN pool |-> k])
  BY <1>4, <1>5 DEF ComesFrom
<1>7. RegisteredIn(pool', running)
  BY <1>6, StillRegistered DEF HulotInv
<1>8. RegisteredIn(pool', running')
  BY <1>3, <1>7 DEF RegisteredIn
<1>9. HulotTypeOK'
  BY <1>1, <1>3, <1>5 DEF HulotInv, HulotTypeOK, turn, tables, bounds
<1>10. NoneRuns' /\ Spared'
  BY <1>1, <1>3 DEF HulotInv, NoneRuns, Spared, HaltedInTurn, turn
<1> QED
  BY <1>8, <1>9, <1>10 DEF HulotInv

(* The lists of Hulot *)
LEMMA ListTypes ==
  ASSUME HulotInv
  PROVE  /\ DOMAIN running \subseteq Addresses
         /\ \A n \in DOMAIN running : running[n] \in [cmd : PowerCommands, left : Nat]
         /\ DOMAIN reminded \subseteq Addresses
         /\ \A n \in DOMAIN reminded : reminded[n] \in PowerCommands
         /\ DOMAIN toProcess \subseteq Addresses
         /\ \A n \in DOMAIN toProcess : toProcess[n] \in PowerCommands
BY DEF HulotInv, HulotTypeOK

(* check_executors finds every HALT that is over in the register, and      *)
(* leaves there those that it goes on watching.                            *)
LEMMA CheckExecutorsKeeps == ASSUME HulotInv, CheckExecutors PROVE HulotInv' /\ pc' = "recv"
<1>1. UNCHANGED <<stateOf, busy, server, inbox, reminded, turn, power, bounds>> /\ pc = "check"
  BY DEF CheckExecutors
<1>2. PICK raced \in SUBSET {i \in DOMAIN pool : Late(pool[i]) /\ Runs(i)} :
        LET seen == {pool[i] : i \in {k \in DOMAIN pool \ raced : pool[k].known /\ (Ready(pool[k]) \/ Late(pool[k]))}}
            bad == {e.node : e \in {x \in seen : x.at = "failed" \/ (x.cmd = "HALT" /\ Late(x))}}
        IN  /\ AskAll(bad, "Suspected")
            /\ running' = Without(running, HaltsOver(seen))
            /\ pc' = IF HaltsOver(seen) \subseteq DOMAIN running THEN "recv" ELSE "dead"
            /\ \E left \in InOrder({i \in DOMAIN pool : ~Ready(pool[i])}) :
                 pool' = [k \in DOMAIN left |->
                            [pool[left[k]] EXCEPT !.known = @ /\ ~Late(pool[left[k]])]]
  BY DEF CheckExecutors
<1> DEFINE seen == {pool[i] : i \in {k \in DOMAIN pool \ raced : pool[k].known /\ (Ready(pool[k]) \/ Late(pool[k]))}}
           bad == {e.node : e \in {x \in seen : x.at = "failed" \/ (x.cmd = "HALT" /\ Late(x))}}
           rest == {i \in DOMAIN pool : ~Ready(pool[i])}
<1>3. /\ AskAll(bad, "Suspected")
      /\ running' = Without(running, HaltsOver(seen))
      /\ pc' = IF HaltsOver(seen) \subseteq DOMAIN running THEN "recv" ELSE "dead"
  BY <1>2
<1>4. PICK left \in InOrder(rest) :
        pool' = [k \in DOMAIN left |-> [pool[left[k]] EXCEPT !.known = @ /\ ~Late(pool[left[k]])]]
  BY <1>2
<1>5. \A node \in HaltsOver(seen) : \E i \in Halts(pool) :
        node = pool[i].node /\ (pool[i].at = "ok" \/ Late(pool[i]))
  BY DEF HaltsOver, Halts
<1>6. RegisteredIn(pool, running)
  BY DEF HulotInv
<1>7. HaltsOver(seen) \subseteq DOMAIN running
  BY <1>5, <1>6 DEF RegisteredIn
<1>8. /\ \E len \in Nat : DOMAIN left = 1..len
      /\ \A k \in DOMAIN left : left[k] \in rest
      /\ \A k, l \in DOMAIN left : left[k] = left[l] => k = l
  <2>1. rest \in SUBSET (1..Len(pool)) /\ Len(pool) \in Nat
    BY PoolTypes
  <2> HIDE DEF rest
  <2> QED
    BY <1>4, <2>1, InOrderIs
<1> HIDE DEF seen, bad
<1>9. \A k \in DOMAIN left :
        /\ left[k] \in DOMAIN pool /\ ~Ready(pool[left[k]])
        /\ pool'[k] \in Entry
        /\ pool'[k].node = pool[left[k]].node /\ pool'[k].cmd = pool[left[k]].cmd
        /\ pool'[k].known = (pool[left[k]].known /\ ~Late(pool[left[k]]))
  <2> SUFFICES ASSUME NEW k \in DOMAIN left
               PROVE  /\ left[k] \in DOMAIN pool /\ ~Ready(pool[left[k]])
                      /\ pool'[k] \in Entry
                      /\ pool'[k].node = pool[left[k]].node /\ pool'[k].cmd = pool[left[k]].cmd
                      /\ pool'[k].known = (pool[left[k]].known /\ ~Late(pool[left[k]]))
    OBVIOUS
  <2>1. left[k] \in DOMAIN pool /\ ~Ready(pool[left[k]])
    BY <1>8
  <2>2. PICK known \in BOOLEAN : known = (pool[left[k]].known /\ ~Late(pool[left[k]]))
    OBVIOUS
  <2>3. pool'[k] = [pool[left[k]] EXCEPT !.known = known]
    BY <1>4, <2>2
  <2>4. pool[left[k]] \in Entry
    BY <2>1, PoolTypes
  <2>5. pool'[k] \in Entry /\ pool'[k].known = known
        /\ pool'[k].node = pool[left[k]].node /\ pool'[k].cmd = pool[left[k]].cmd
    BY <2>3, <2>4 DEF Entry
  <2> QED
    BY <2>1, <2>2, <2>5
<1>10. pool' \in Seq(Entry) /\ DOMAIN pool' = DOMAIN left
  <2>1. PICK len \in Nat : DOMAIN left = 1..len
    BY <1>8
  <2>2. DOMAIN pool' = 1..len /\ pool' = [k \in 1..len |-> pool'[k]]
    BY <1>4, <2>1
  <2>3. \A k \in 1..len : pool'[k] \in Entry
    BY <1>9, <2>1
  <2> QED
    BY <2>1, <2>2, <2>3
<1>11. ComesFrom(pool', pool, left)
  BY <1>8, <1>9, <1>10 DEF ComesFrom
<1>12. RegisteredIn(pool', running)
  BY <1>6, <1>11, StillRegistered
<1>13. ASSUME NEW k \in Halts(pool')
       PROVE  pool'[k].node \notin HaltsOver(seen)
  <2>1. /\ k \in DOMAIN left /\ left[k] \in Halts(pool) /\ ~Ready(pool[left[k]]) /\ ~Late(pool[left[k]])
        /\ pool'[k].node = pool[left[k]].node
    BY <1>9, <1>10 DEF Halts
  <2>2. ASSUME pool'[k].node \in HaltsOver(seen)
        PROVE  FALSE
    <3>1. PICK i \in Halts(pool) : pool'[k].node = pool[i].node /\ (pool[i].at = "ok" \/ Late(pool[i]))
      BY <1>5, <2>2
    <3>2. i = left[k]
      BY <1>6, <2>1, <3>1 DEF RegisteredIn
    <3> QED
      BY <2>1, <3>1, <3>2 DEF Ready
  <2> QED
    BY <2>2
<1>14. RegisteredIn(pool', running')
  BY <1>3, <1>12, <1>13 DEF RegisteredIn, Without
<1>15. nextOf' \in [Addresses -> NodeState \cup {"UnChanged"}]
  BY <1>3, AskAllType DEF HulotInv, NodeState
<1>16. /\ DOMAIN running' \subseteq DOMAIN running
       /\ \A n \in DOMAIN running' : running'[n] = running[n]
  BY <1>3 DEF Without
<1>17. pc' = "recv"
  BY <1>3, <1>7
<1>18. HulotTypeOK'
  <2>1. /\ DOMAIN running' \subseteq Addresses
        /\ \A n \in DOMAIN running' : running'[n] \in [cmd : PowerCommands, left : Nat]
    BY <1>16, ListTypes
  <2> QED
    BY <1>1, <1>10, <1>15, <1>17, <2>1 DEF HulotInv, HulotTypeOK, turn, bounds
<1>19. NoneRuns' /\ Spared'
  BY <1>1, <1>17 DEF HulotInv, NoneRuns, Spared, HaltedInTurn, turn
<1> QED
  BY <1>14, <1>17, <1>18, <1>19 DEF HulotInv

(* The nodes of a keepalive group that run no command *)
Kept(woken) == (UNION {woken[g] : g \in Groups}) \ DOMAIN running

LEMMA KeptIs ==
  ASSUME NEW woken \in [Groups -> SUBSET Addresses]
  PROVE  Kept(woken) \in SUBSET Addresses /\ Kept(woken) \cap DOMAIN running = {}
<1>1. ASSUME NEW n \in Kept(woken)
      PROVE  n \in Addresses /\ n \notin DOMAIN running
  <2>1. PICK s \in {woken[g] : g \in Groups} : n \in s
    BY DEF Kept
  <2>2. PICK g \in Groups : s = woken[g]
    BY <2>1
  <2>3. n \in Addresses
    BY <2>1, <2>2
  <2>4. n \notin DOMAIN running
    BY <1>1 DEF Kept
  <2> QED
    BY <2>3, <2>4
<1> QED
  BY <1>1

(* The nodes that a message concerns, and those that Hulot adds to them,   *)
(* run no command.                                                         *)
LEMMA ReceiveKeeps == ASSUME HulotInv, Receive PROVE HulotInv'
<1>1. /\ UNCHANGED <<stateOf, busy, server, refused, forker, bounds>>
      /\ inbox # <<>> /\ inbox' = Tail(inbox) /\ pc' = "process"
  BY DEF Receive
<1> DEFINE message == Head(inbox)
           going == Without(running, Booted \cup Overdue)
           concerned == message.nodes \ Overdue
           other == {n \in concerned \cap DOMAIN going : going[n].cmd # message.cmd}
<1>2. PICK woken \in [Groups -> SUBSET Addresses] :
        /\ running' = going
        /\ AskAll(Overdue, "Suspected")
        /\ reminded' = Remembered(other, message.cmd)
        /\ toProcess' = Over(Constantly(concerned \ DOMAIN going, message.cmd),
                             Over(Due(going), Constantly(Kept(woken), "WAKEUP")))
        /\ undecided' = DOMAIN toProcess'
        /\ idle' = [g \in Groups |-> Cardinality(Idle(g))]
  BY DEF Receive, Kept
<1>4. message \in Sent /\ inbox' \in Seq(Sent)
  BY <1>1 DEF HulotInv, HulotTypeOK
<1>5. message.nodes \in SUBSET Addresses /\ (message.nodes = {} \/ message.cmd \in PowerCommands)
  BY <1>4 DEF Sent
<1>6. Kept(woken) \in SUBSET Addresses /\ Kept(woken) \cap DOMAIN running = {}
  BY KeptIs
<1>7. /\ DOMAIN going \subseteq DOMAIN running
      /\ \A n \in DOMAIN going : going[n] = running[n]
      /\ \A n \in DOMAIN running : running[n].cmd = "HALT" => n \in DOMAIN going
  BY DEF Without, Booted, Overdue, Booting
<1> HIDE DEF message, going
<1>8. RegisteredIn(pool', running')
  BY <1>1, <1>2, <1>7 DEF HulotInv, RegisteredIn, Halts, forker
<1>9. DOMAIN toProcess' = (concerned \ DOMAIN going) \cup (DOMAIN reminded \ DOMAIN going) \cup Kept(woken)
  BY <1>2 DEF Over, Constantly, Due, Without
<1>10. \A n \in DOMAIN toProcess' :
         toProcess'[n] = IF n \in concerned \ DOMAIN going THEN message.cmd
                         ELSE IF n \in DOMAIN reminded \ DOMAIN going THEN reminded[n]
                         ELSE "WAKEUP"
  BY <1>2 DEF Over, Constantly, Due, Without
<1>11. NoneRuns'
  BY <1>1, <1>2, <1>6, <1>7, <1>9 DEF NoneRuns
<1>12. Spared'
  BY <1>2 DEF Spared, HaltedInTurn
<1>13. /\ DOMAIN running' \subseteq Addresses
       /\ \A n \in DOMAIN running' : running'[n] \in [cmd : PowerCommands, left : Nat]
  BY <1>2, <1>7, ListTypes
<1>14. /\ DOMAIN toProcess' \subseteq Addresses
       /\ \A n \in DOMAIN toProcess' : toProcess'[n] \in PowerCommands
  <2>1. concerned \subseteq Addresses /\ (concerned = {} \/ message.cmd \in PowerCommands)
    BY <1>5
  <2>2. DOMAIN toProcess' \subseteq Addresses
    BY <1>6, <1>9, <2>1, ListTypes
  <2>3. ASSUME NEW n \in DOMAIN toProcess'
        PROVE  toProcess'[n] \in PowerCommands
    <3>1. "WAKEUP" \in PowerCommands
      BY DEF PowerCommands
    <3>2. n \in DOMAIN reminded => reminded[n] \in PowerCommands
      BY ListTypes
    <3> HIDE DEF concerned
    <3> QED
      BY <1>10, <2>1, <2>3, <3>1, <3>2
  <2> QED
    BY <2>2, <2>3
<1>15. /\ DOMAIN reminded' \subseteq Addresses
       /\ \A n \in DOMAIN reminded' : reminded'[n] \in PowerCommands
  <2>1. other \subseteq Addresses /\ (other = {} \/ message.cmd \in PowerCommands)
    BY <1>5
  <2>2. /\ DOMAIN reminded' = other \cup DOMAIN reminded
        /\ \A n \in DOMAIN reminded' : reminded'[n] = IF n \in other THEN message.cmd ELSE reminded[n]
    BY <1>2 DEF Remembered, Over, Constantly
  <2> HIDE DEF other
  <2> QED
    BY <2>1, <2>2, ListTypes
<1>16. idle' \in [Groups -> Int]
  <2>1. \A g \in Groups : Cardinality(Idle(g)) \in Int
    <3> SUFFICES ASSUME NEW g \in Groups
                 PROVE  Cardinality(Idle(g)) \in Int
      OBVIOUS
    <3>1. Idle(g) \in SUBSET Addresses
      BY GroupsAssumption DEF Idle
    <3> QED
      BY <3>1, FiniteNodes
  <2> QED
    BY <1>2, <2>1
<1>17. nextOf' \in [Addresses -> NodeState \cup {"UnChanged"}]
  BY <1>2, AskAllType DEF HulotInv, NodeState
<1>19. pc = "recv"
  BY DEF Receive
<1>18. HulotTypeOK'
  <2>1. undecided' \subseteq DOMAIN toProcess' /\ DOMAIN refused' = {}
    BY <1>1, <1>2, <1>19 DEF HulotInv, HulotTypeOK, NoneRuns
  <2> QED
    BY <1>1, <1>4, <1>13, <1>14, <1>15, <1>16, <1>17, <2>1 DEF HulotInv, HulotTypeOK, forker, bounds
<1> QED
  BY <1>8, <1>11, <1>12, <1>18 DEF HulotInv

LEMMA DecideKeeps == ASSUME HulotInv, NEW n \in Addresses, Decide(n) PROVE HulotInv'
<1>1. /\ UNCHANGED <<stateOf, busy, server, inbox, running, reminded, toProcess, pc, forker, bounds>>
      /\ n \in undecided /\ undecided' = undecided \ {n} /\ pc = "process"
  BY DEF Decide
<1>2. /\ n \in DOMAIN toProcess /\ nextOf \in [Addresses -> NodeState \cup {"UnChanged"}]
      /\ DOMAIN refused \subseteq DOMAIN toProcess /\ idle \in [Groups -> Int]
      /\ undecided \subseteq DOMAIN toProcess
  BY <1>1 DEF HulotInv, HulotTypeOK
<1>3. RegisteredIn(pool', running')
  BY <1>1, RegisterKept DEF forker
<1>4. NoneRuns'
  BY <1>1 DEF HulotInv, NoneRuns
<1>5. \A g \in Groups : HaltedInTurn(g) # {} => idle[g] >= MinIdle[g]
  BY DEF HulotInv, Spared
<1>6. /\ nextOf' \in [Addresses -> NodeState \cup {"UnChanged"}]
      /\ DOMAIN refused' \subseteq DOMAIN toProcess
      /\ idle' \in [Groups -> Int]
      /\ Spared'
  <2>1. CASE toProcess[n] = "WAKEUP" /\ UNCHANGED <<nextOf, refused, idle>>
    <3>1. \A g \in Groups : HaltedInTurn(g)' = HaltedInTurn(g)
      BY <1>1, <2>1 DEF HaltedInTurn
    <3>2. Spared'
      BY <1>5, <2>1, <3>1 DEF Spared
    <3> QED
      BY <1>2, <2>1, <3>2
  <2>2. CASE /\ toProcess[n] = "HALT"
             /\ refused' = Over(Constantly({n}, Cardinality(Needing(n))), refused)
             /\ UNCHANGED <<nextOf, idle>>
    <3>1. DOMAIN refused' = {n} \cup DOMAIN refused
      BY <2>2 DEF Over, Constantly
    <3>2. \A g \in Groups : HaltedInTurn(g)' \subseteq HaltedInTurn(g)
      BY <1>1, <3>1 DEF HaltedInTurn
    <3>3. Spared'
      BY <1>5, <2>2, <3>2 DEF Spared
    <3> QED
      BY <1>2, <2>2, <3>1, <3>3
  <2>3. CASE /\ toProcess[n] = "HALT"
             /\ Needing(n) = {}
             /\ AskAll({n}, "Absent")
             /\ idle' = [g \in Groups |-> IF n \in Members[g] THEN idle[g] - 1 ELSE idle[g]]
             /\ UNCHANGED refused
    <3>1. nextOf' \in [Addresses -> NodeState \cup {"UnChanged"}]
      BY <2>3, AskAllType DEF HulotInv, NodeState
    <3>2. idle' \in [Groups -> Int]
      BY <1>2, <2>3
    <3>3. ASSUME NEW g \in Groups, HaltedInTurn(g)' # {}
          PROVE  idle'[g] >= MinIdle[g]
      <4>1. CASE n \in Members[g]
        <5>1. ~ (idle[g] <= MinIdle[g])
          BY <2>3, <4>1 DEF Needing
        <5>2. idle'[g] = idle[g] - 1
          BY <2>3, <4>1
        <5> QED
          BY <1>2, <5>1, <5>2, GroupsAssumption
      <4>2. CASE n \notin Members[g]
        <5>1. HaltedInTurn(g)' = HaltedInTurn(g)
          BY <1>1, <2>3, <4>2 DEF HaltedInTurn
        <5>2. idle'[g] = idle[g]
          BY <2>3, <4>2
        <5> QED
          BY <1>5, <3>3, <5>1, <5>2
      <4> QED
        BY <4>1, <4>2
    <3>4. Spared'
      BY <3>3 DEF Spared
    <3> QED
      BY <1>2, <2>3, <3>1, <3>2, <3>4
  <2> QED
    BY <2>1, <2>2, <2>3 DEF Decide
<1>7. HulotTypeOK'
  BY <1>1, <1>2, <1>6 DEF HulotInv, HulotTypeOK, forker, bounds
<1> QED
  BY <1>3, <1>4, <1>6, <1>7 DEF HulotInv

LEMMA NewCommand ==
  ASSUME NEW n \in Addresses, NEW cmd \in PowerCommands
  PROVE  Command(n, cmd) \in Entry /\ Command(n, cmd).node = n /\ Command(n, cmd).cmd = cmd
<1>1. 0 \in 0..(WindowTimeout + 1)
  BY WindowAssumption
<1> QED
  BY <1>1 DEF Command, Entry

AddedCommands(order, launched) == [i \in DOMAIN order |-> Command(order[i], launched[order[i]])]

(* New commands, for nodes that run none *)
LEMMA LaunchedAreRegistered ==
  ASSUME NEW old \in Seq(Entry), NEW register, RegisteredIn(old, register),
         NEW launched, DOMAIN launched \cap DOMAIN register = {},
         DOMAIN launched \in SUBSET Addresses,
         \A n \in DOMAIN launched : launched[n] \in PowerCommands,
         NEW order \in SetToSeqs(DOMAIN launched),
         NEW new, new = old \o AddedCommands(order, launched),
         NEW later, DOMAIN later = DOMAIN launched \cup DOMAIN register,
         \A n \in DOMAIN launched : later[n].cmd = launched[n],
         \A n \in DOMAIN register \ DOMAIN launched : later[n] = register[n]
  PROVE  new \in Seq(Entry) /\ RegisteredIn(new, later)
<1> DEFINE added == AddedCommands(order, launched)
<1>1. PICK len \in Nat : len = Cardinality(DOMAIN launched)
  BY FiniteNodes
<1>2. /\ DOMAIN order = 1..len
      /\ \A i \in 1..len : order[i] \in DOMAIN launched
      /\ \A i, k \in 1..len : order[i] = order[k] => i = k
  BY <1>1 DEF SetToSeqs
<1>3. \A i \in 1..len : /\ added[i] \in Entry /\ added[i].node = order[i]
                        /\ added[i].cmd = launched[order[i]]
  <2> SUFFICES ASSUME NEW i \in 1..len
               PROVE  /\ added[i] \in Entry /\ added[i].node = order[i]
                      /\ added[i].cmd = launched[order[i]]
    OBVIOUS
  <2>1. order[i] \in Addresses /\ launched[order[i]] \in PowerCommands
    BY <1>2
  <2>2. 0 \in 0..(WindowTimeout + 1)
    BY WindowAssumption
  <2>3. added[i] = Command(order[i], launched[order[i]])
    BY <1>2 DEF AddedCommands
  <2> HIDE DEF added
  <2> QED
    BY <2>1, <2>3, NewCommand
<1>4. added \in Seq(Entry) /\ Len(added) = len
  <2>1. added \in [1..len -> Entry]
    BY <1>2, <1>3 DEF AddedCommands
  <2> QED
    BY <2>1
<1> HIDE DEF added
<1>5. new = old \o added
  BY DEF added
<1>6. /\ new \in Seq(Entry) /\ DOMAIN new = 1..(Len(old) + len) /\ Len(old) \in Nat
      /\ DOMAIN old = 1..Len(old)
      /\ \A i \in 1..Len(old) : new[i] = old[i]
      /\ \A i \in (Len(old) + 1)..(Len(old) + len) : new[i] = added[i - Len(old)]
  <2>1. Len(old) \in Nat /\ DOMAIN old = 1..Len(old) /\ DOMAIN added = 1..len
    BY <1>4
  <2>2. new \in Seq(Entry) /\ Len(new) = Len(old) + len
    <3>1. old \in Seq(Entry) /\ added \in Seq(Entry) /\ Len(added) = len
      BY <1>4
    <3>2. old \o added \in Seq(Entry) /\ Len(old \o added) = Len(old) + Len(added)
      BY <3>1, ConcatProperties
    <3> QED
      BY <1>5, <3>1, <3>2
  <2>3. \A i \in 1..(Len(old) + len) : new[i] = IF i <= Len(old) THEN old[i] ELSE added[i - Len(old)]
    BY <1>4, <1>5, ConcatProperties
  <2>4. DOMAIN new = 1..(Len(old) + len)
    BY <2>2
  <2>5. \A i \in 1..Len(old) : new[i] = old[i]
    BY <2>1, <2>3
  <2>6. \A i \in (Len(old) + 1)..(Len(old) + len) : new[i] = added[i - Len(old)]
    <3> SUFFICES ASSUME NEW i \in (Len(old) + 1)..(Len(old) + len)
                 PROVE  new[i] = added[i - Len(old)]
      OBVIOUS
    <3>1. i \in 1..(Len(old) + len) /\ ~ (i <= Len(old))
      BY <2>1
    <3> QED
      BY <2>3, <3>1
  <2> QED
    BY <2>1, <2>2, <2>4, <2>5, <2>6
<1>7. \A i \in (Len(old) + 1)..(Len(old) + len) :
        /\ i - Len(old) \in 1..len
        /\ new[i].node = order[i - Len(old)] /\ new[i].cmd = launched[order[i - Len(old)]]
  BY <1>3, <1>6
<1>8. \A i \in Halts(new) : i \in 1..Len(old) => i \in Halts(old) /\ new[i] = old[i]
  BY <1>6 DEF Halts
<1>9. \A i \in Halts(new) : i \in 1..Len(old) \/ i \in (Len(old) + 1)..(Len(old) + len)
  BY <1>6 DEF Halts
<1>10. ASSUME NEW i \in Halts(new)
       PROVE  /\ new[i].node \in DOMAIN later /\ later[new[i].node].cmd = "HALT"
              /\ i \in 1..Len(old) => new[i].node \in DOMAIN register
              /\ i \notin 1..Len(old) => new[i].node \in DOMAIN launched
  <2>1. CASE i \in 1..Len(old)
    BY <1>8, <2>1 DEF RegisteredIn
  <2>2. CASE i \notin 1..Len(old)
    <3>1. i \in (Len(old) + 1)..(Len(old) + len) /\ new[i].cmd = "HALT"
      BY <1>9, <2>2 DEF Halts
    <3>2. PICK k \in 1..len : k = i - Len(old)
      BY <1>7, <3>1
    <3>3. new[i].node = order[k] /\ launched[order[k]] = "HALT" /\ order[k] \in DOMAIN launched
      BY <1>2, <1>7, <3>1, <3>2
    <3> QED
      BY <2>2, <3>3
  <2> QED
    BY <2>1, <2>2
<1>11. ASSUME NEW i \in Halts(new), NEW k \in Halts(new), new[i].node = new[k].node
       PROVE  i = k
  <2>1. CASE i \in 1..Len(old) /\ k \in 1..Len(old)
    BY <1>8, <1>11, <2>1 DEF RegisteredIn
  <2>2. CASE i \notin 1..Len(old) /\ k \notin 1..Len(old)
    <3>a. /\ i - Len(old) \in 1..len /\ new[i].node = order[i - Len(old)]
          /\ k - Len(old) \in 1..len /\ new[k].node = order[k - Len(old)]
      BY <1>7, <1>9, <2>2
    <3>1. i - Len(old) = k - Len(old)
      BY <1>2, <1>11, <3>a
    <3>2. i \in Int /\ k \in Int
      BY <1>9
    <3> QED
      BY <1>6, <3>1, <3>2
  <2>3. i \in 1..Len(old) <=> k \in 1..Len(old)
    BY <1>10, <1>11
  <2> QED
    BY <2>1, <2>2, <2>3
<1> QED
  BY <1>6, <1>10, <1>11 DEF RegisteredIn

LEMMA LaunchKeeps == ASSUME HulotInv, Launch PROVE HulotInv'
<1> DEFINE timeout == WakeTimeout(Cardinality(DOMAIN running) + Cardinality(DOMAIN toProcess))
           launched == Without(toProcess, DOMAIN refused)
<1>1. /\ UNCHANGED <<tables, inbox, reminded, undecided, power, bounds>> /\ pc = "process"
      /\ toProcess' = Empty /\ refused' = Empty /\ undecided = {}
      /\ idle' = [g \in Groups |-> 0]
  BY DEF Launch
<1>2. /\ DOMAIN launched \subseteq DOMAIN toProcess
      /\ \A n \in DOMAIN launched : launched[n] = toProcess[n]
  BY DEF Without
<1>3. /\ DOMAIN launched \in SUBSET Addresses
      /\ \A n \in DOMAIN launched : launched[n] \in PowerCommands
      /\ DOMAIN launched \cap DOMAIN running = {}
  BY <1>1, <1>2, ListTypes DEF HulotInv, NoneRuns
<1>4. timeout \in Nat
  <2>1. Cardinality(DOMAIN running) \in Nat /\ Cardinality(DOMAIN toProcess) \in Nat
    BY FiniteNodes, ListTypes
  <2> QED
    BY <2>1, WakeTimeoutType
<1> HIDE DEF timeout
<1>5. /\ pc' \in {"check", "dead"}
      /\ \/ UNCHANGED <<running, pool>>
         \/ /\ \E order \in SetToSeqs(DOMAIN launched) :
                 pool' = pool \o [i \in DOMAIN order |-> Command(order[i], launched[order[i]])]
            /\ running' = Over([n \in DOMAIN launched |->
                                  [cmd |-> launched[n], left |-> IF launched[n] = "WAKEUP" THEN timeout ELSE 0]],
                               running)
  BY DEF Launch, timeout
<1>6. /\ pool' \in Seq(Entry)
      /\ RegisteredIn(pool', running')
      /\ DOMAIN running' \subseteq Addresses
      /\ \A n \in DOMAIN running' : running'[n] \in [cmd : PowerCommands, left : Nat]
  <2>1. CASE UNCHANGED <<running, pool>>
    BY <2>1, ListTypes, RegisterKept DEF HulotInv, HulotTypeOK
  <2>2. CASE /\ \E order \in SetToSeqs(DOMAIN launched) :
                  pool' = pool \o [i \in DOMAIN order |-> Command(order[i], launched[order[i]])]
             /\ running' = Over([n \in DOMAIN launched |->
                                   [cmd |-> launched[n], left |-> IF launched[n] = "WAKEUP" THEN timeout ELSE 0]],
                                running)
    <3>1. PICK order \in SetToSeqs(DOMAIN launched) :
            pool' = pool \o [i \in DOMAIN order |-> Command(order[i], launched[order[i]])]
      BY <2>2
    <3> HIDE DEF launched
    <3>2. /\ DOMAIN running' = DOMAIN launched \cup DOMAIN running
          /\ \A n \in DOMAIN launched :
               running'[n] = [cmd |-> launched[n], left |-> IF launched[n] = "WAKEUP" THEN timeout ELSE 0]
          /\ \A n \in DOMAIN running \ DOMAIN launched : running'[n] = running[n]
      BY <2>2 DEF Over
    <3>3. \A n \in DOMAIN launched : /\ running'[n].cmd = launched[n]
                                     /\ running'[n] \in [cmd : PowerCommands, left : Nat]
      BY <1>3, <1>4, <3>2
    <3>4. pool \in Seq(Entry) /\ RegisteredIn(pool, running)
      BY DEF HulotInv, HulotTypeOK
    <3>5. pool' \in Seq(Entry) /\ RegisteredIn(pool', running')
      <4>1. \A n \in DOMAIN launched : running'[n].cmd = launched[n]
        BY <3>3
      <4>2. /\ DOMAIN running' = DOMAIN launched \cup DOMAIN running
            /\ \A n \in DOMAIN running \ DOMAIN launched : running'[n] = running[n]
        BY <3>2
      <4>3. pool' = pool \o AddedCommands(order, launched)
        BY <3>1 DEF AddedCommands
      <4> QED
        BY <1>3, <3>4, <4>1, <4>2, <4>3, LaunchedAreRegistered
    <3>6. \A n \in DOMAIN running' : running'[n] \in [cmd : PowerCommands, left : Nat]
      BY <3>2, <3>3, ListTypes
    <3> QED
      BY <1>3, <3>2, <3>5, <3>6, ListTypes
  <2> QED
    BY <1>5, <2>1, <2>2
<1>7. DOMAIN toProcess' = {} /\ DOMAIN refused' = {} /\ undecided' = {}
  BY <1>1 DEF Empty
<1>8. idle' \in [Groups -> Int]
  BY <1>1
<1>9. HulotTypeOK'
  BY <1>1, <1>5, <1>6, <1>7, <1>8 DEF HulotInv, HulotTypeOK, tables, bounds
<1>10. NoneRuns'
  BY <1>5, <1>7 DEF NoneRuns
<1>11. Spared'
  BY <1>7 DEF Spared, HaltedInTurn
<1> QED
  BY <1>6, <1>9, <1>10, <1>11 DEF HulotInv

LEMMA HulotGoesOn == HulotInv /\ [HulotNext]_hulotVars => HulotInv'
<1> SUFFICES ASSUME HulotInv, [HulotNext]_hulotVars
             PROVE  HulotInv'
  OBVIOUS
<1>1. CASE NodeChangeState
  BY <1>1, NodeChangeStateKeeps
<1>2. CASE MetaSchedule
  BY <1>2, MetaScheduleKeeps
<1>3. CASE TimePasses
  BY <1>3, TimePassesKeeps
<1>4. CASE CheckExecutors
  BY <1>4, CheckExecutorsKeeps
<1>5. CASE Receive
  BY <1>5, ReceiveKeeps
<1>6. CASE Launch
  BY <1>6, LaunchKeeps
<1>7. CASE Refresh
  BY <1>7, RefreshKeeps
<1>8. CASE \E n \in Addresses : JobLeaves(n) \/ NodeBoots(n) \/ Decide(n)
  BY <1>8, JobLeavesKeeps, NodeBootsKeeps, DecideKeeps
<1>9. CASE \E i \in DOMAIN pool : ExecutorEnds(i)
  BY <1>9, ExecutorEndsKeeps
<1>10. CASE UNCHANGED hulotVars
  <2>1. UNCHANGED <<tables, inbox, hulot, forker, bounds>>
    BY <1>10 DEF hulotVars
  <2>2. HulotTypeOK'
    BY <2>1 DEF HulotInv, HulotTypeOK, tables, hulot, turn, forker, bounds
  <2>3. RegisteredIn(pool', running')
    BY <2>1, RegisterKept DEF hulot, forker
  <2> QED
    BY <2>1, <2>2, <2>3, TurnKept DEF HulotInv
<1> QED
  BY <1>1, <1>2, <1>3, <1>4, <1>5, <1>6, <1>7, <1>8, <1>9, <1>10 DEF HulotNext

LEMMA InvIsSound == HulotInv => RegisterIsSound
BY DEF HulotInv, RegisterIsSound, HaltIsRegistered, RegisteredIn, Halts, Watched

(* Hulot watches no HALT that its register does not have, and no two of    *)
(* one node: neither a late end, a refusal nor a wake-up that ends at the  *)
(* same time takes from nodes_list_running what is still awaited (hulot.py,*)
(* run and WindowForker).                                                  *)
THEOREM RegisterSoundness == HulotSpec => []RegisterIsSound
<1>1. HulotInit => HulotInv
  BY HulotBegins
<1>2. HulotInv /\ [HulotNext]_hulotVars => HulotInv'
  BY HulotGoesOn
<1>3. HulotInv => RegisterIsSound
  BY InvIsSound
<1> QED
  BY <1>1, <1>2, <1>3, PTL DEF HulotSpec

(* check_executors deletes from nodes_list_running only nodes that are     *)
(* there: its del never is a KeyError.                                     *)
THEOREM CheckNeverFails == HulotSpec => [][pc = "check" => pc' # "dead"]_hulotVars
<1>1. ASSUME HulotInv, HulotNext, pc = "check"
      PROVE  pc' # "dead"
  <2>1. CASE CheckExecutors
    BY <1>1, <2>1, CheckExecutorsKeeps
  <2>2. CASE Receive \/ Launch \/ \E n \in Addresses : Decide(n)
    BY <1>1, <2>2 DEF Receive, Launch, Decide
  <2>3. CASE ~ (CheckExecutors \/ Receive \/ Launch \/ \E n \in Addresses : Decide(n))
    <3>1. UNCHANGED pc
      BY <1>1, <2>3 DEF HulotNext, NodeChangeState, MetaSchedule, TimePasses, Refresh, JobLeaves,
                        NodeBoots, ExecutorEnds, hulot
    <3> QED
      BY <1>1, <3>1
  <2> QED
    BY <2>1, <2>2, <2>3
<1>2. HulotInv /\ [HulotNext]_hulotVars => [pc = "check" => pc' # "dead"]_hulotVars
  BY <1>1
<1>3. HulotInit => HulotInv
  BY HulotBegins
<1>4. HulotInv /\ [HulotNext]_hulotVars => HulotInv'
  BY HulotGoesOn
<1> QED
  BY <1>2, <1>3, <1>4, PTL DEF HulotSpec

(* In a turn Hulot halts no more nodes of a group than it could spare,     *)
(* however the groups overlap and in whatever order the nodes come         *)
(* (hulot.py, the loop over nodes_list_to_process).                        *)
THEOREM TurnsSpareGroups == HulotSpec => TurnKeepsAlive
<1>1. HulotInv => (pc = "process" /\ pc' = "check" =>
                     \A g \in Groups : HaltedInTurn(g) # {} => idle[g] >= MinIdle[g])
  BY DEF HulotInv, Spared
<1>2. HulotInv /\ [HulotNext]_hulotVars =>
        [pc = "process" /\ pc' = "check" =>
           \A g \in Groups : HaltedInTurn(g) # {} => idle[g] >= MinIdle[g]]_hulotVars
  BY <1>1
<1>3. HulotInit => HulotInv
  BY HulotBegins
<1>4. HulotInv /\ [HulotNext]_hulotVars => HulotInv'
  BY HulotGoesOn
<1> QED
  BY <1>2, <1>3, <1>4, PTL DEF HulotSpec, TurnKeepsAlive

=============================================================================
