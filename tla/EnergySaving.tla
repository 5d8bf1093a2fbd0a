---------------------------- MODULE EnergySaving ----------------------------
(***************************************************************************)
(* Energy saving: the metascheduler decides which nodes to halt or to wake *)
(* up (nodes_energy_saving), Hulot (src/oar/modules/hulot.py) receives the *)
(* decisions on a ZeroMQ PULL socket and has the commands run by a pool of *)
(* processes, WindowForker. In between, NodeChangeState applies to the     *)
(* table resources what Hulot and the nodes that boot have asked for.      *)
(*                                                                         *)
(* A turn of Hulot is cut where others may act: the check of the executors,*)
(* the reading of a message and of the table, the decision for each node,  *)
(* and the launching. One resource per node; ages are counted up to the    *)
(* timeout, so that time has no date.                                      *)
(***************************************************************************)
EXTENDS Integers, Sequences, FiniteSets, FiniteSetsExt, SequencesExt

CONSTANTS
  Addresses,      \* the network addresses of the nodes
  Groups,         \* the sql properties of ENERGY_SAVING_NODES_KEEPALIVE
  Members,        \* Members[g]: the nodes that have the properties g
  MinIdle,        \* MinIdle[g]: how many of them to keep alive and idle
  WakeTimeouts,   \* ENERGY_SAVING_NODE_MANAGER_WAKEUP_TIMEOUT, by number of nodes
  WindowTimeout,  \* ENERGY_SAVING_WINDOW_TIMEOUT
  WindowSize,     \* ENERGY_SAVING_WINDOW_FORKER_SIZE
  InitStates,     \* the states a node may have at first
  MaxInbox,       \* bound: messages that Hulot has not received
  MaxOrders,      \* bound: messages that are not CHECK
  MaxPool,        \* bound: commands of the pool for one more turn of Hulot
  MaxEvents       \* bound: starts of jobs and ends of Hulot, together

PowerCommands == {"HALT", "WAKEUP"}
NodeState == {"Alive", "Absent", "Suspected"}

ASSUME AddressesAssumption == IsFiniteSet(Addresses)
ASSUME InitStatesAssumption == InitStates \subseteq NodeState
ASSUME GroupsAssumption ==
  Members \in [Groups -> SUBSET Addresses] /\ MinIdle \in [Groups -> Nat]
ASSUME WindowAssumption ==
  /\ 1 \in DOMAIN WakeTimeouts
  /\ \A k \in DOMAIN WakeTimeouts : k \in Nat /\ WakeTimeouts[k] \in Nat
  /\ WindowTimeout \in Nat
ASSUME PoolAssumption == WindowSize \in Nat \ {0}
ASSUME BoundsAssumption == {MaxInbox, MaxOrders, MaxPool, MaxEvents} \subseteq Nat

VARIABLES
  (* the tables and the server *)
  stateOf,    \* resources.state
  nextOf,     \* resources.next_state
  busy,       \* nodes that jobs occupy
  server,     \* the program of Almighty that comes next: "ncs" or "meta"
  (* Hulot *)
  inbox,      \* its socket: [cmd, nodes]
  running,    \* nodes_list_running: node -> [cmd, left], left until the timeout
  reminded,   \* nodes_list_to_remind: node -> command
  toProcess,  \* nodes_list_to_process: node -> command
  undecided,  \* its nodes that the loop has not come to
  refused,    \* nodes_toRemove_from_list_to_process: node -> occurrences
  idle,       \* current_idle of each group
  pc,         \* "check", "recv", "process" or "dead"
  (* WindowForker and the nodes *)
  pool,       \* commands in order: [node, cmd, age, at, known]
  power,      \* a node is "on", "off" or "booting"
  (* bounds *)
  orders,
  incidents

tables    == <<stateOf, nextOf, busy, server>>
turn      == <<toProcess, undecided, refused, idle>>
hulot     == <<running, reminded, turn, pc>>
forker    == <<pool, power>>
bounds    == <<orders, incidents>>
hulotVars == <<tables, inbox, hulot, forker, bounds>>

Empty == [n \in {} |-> "none"]

Without(f, ns) == [n \in DOMAIN f \ ns |-> f[n]]

Over(f, g) == [n \in DOMAIN f \cup DOMAIN g |-> IF n \in DOMAIN f THEN f[n] ELSE g[n]]

HulotInit ==
  /\ stateOf \in [Addresses -> InitStates]
  /\ nextOf = [n \in Addresses |-> "UnChanged"]
  /\ busy = {}
  /\ server = "ncs"
  /\ inbox = <<>>
  /\ running = Empty
  /\ reminded = Empty
  /\ toProcess = Empty
  /\ undecided = {}
  /\ refused = Empty
  /\ idle = [g \in Groups |-> 0]
  /\ pc = "check"
  /\ pool = <<>>
  /\ power = [n \in Addresses |-> IF stateOf[n] = "Alive" THEN "on" ELSE "off"]
  /\ orders = 0
  /\ incidents = 0

-----------------------------------------------------------------------------
(* The server *)

Asking == {n \in Addresses : nextOf[n] # "UnChanged"}

(* NodeChangeState: a request for the state the node already has stays. It *)
(* is called again as long as there are requests (ResourceStates).         *)
NodeChangeState ==
  /\ server = "ncs"
  /\ server' = IF Asking = {} THEN "meta" ELSE "ncs"
  /\ stateOf' = [n \in Addresses |-> IF n \in Asking THEN nextOf[n] ELSE stateOf[n]]
  /\ nextOf' = [n \in Addresses |-> IF nextOf[n] = stateOf[n] THEN nextOf[n] ELSE "UnChanged"]
  /\ UNCHANGED <<busy, inbox, hulot, forker, bounds>>

(* search_idle_nodes and its filters: a node to halt is idle for long, is planned for no *)
(* job soon and was not woken up recently; a node to wake up is Absent and *)
(* is planned for a job soon. The dates are left open: any plan, any idle  *)
(* nodes.                                                                  *)
IdleNodes(occupied) == {n \in Addresses \ occupied : stateOf[n] = "Alive"}
ToHalt(occupied, soon) == IdleNodes(occupied) \ soon
ToWakeUp(soon) == {n \in soon : stateOf[n] = "Absent"}

Message(cmd, ns) == IF ns = {} THEN <<>> ELSE <<[cmd |-> cmd, nodes |-> ns]>>

(* The nodes to halt and to wake up, when the jobs are launched *)
NodesEnergySaving(occupied, soon) ==
  {Message("HALT", halted) \o Message("WAKEUP", ToWakeUp(soon)) :
     halted \in SUBSET ToHalt(occupied, soon)}

(* Hulot is told to check when there is nothing to do *)
Orders(sent) == IF sent = <<>> THEN <<[cmd |-> "CHECK", nodes |-> {}]>> ELSE sent

(* meta_schedule: it launches jobs, then tells Hulot what to do *)
MetaSchedule ==
  /\ server = "meta"
  /\ Len(inbox) < MaxInbox
  /\ server' = "ncs"
  /\ \E launched \in SUBSET {n \in Addresses \ busy : stateOf[n] = "Alive"}, soon \in SUBSET Addresses :
       /\ busy' = busy \cup launched
       /\ incidents' = incidents + Cardinality(launched)
       /\ incidents' <= MaxEvents
       /\ \E sent \in NodesEnergySaving(busy', soon) :
            /\ orders + Len(sent) <= MaxOrders
            /\ orders' = orders + Len(sent)
            /\ inbox' = inbox \o Orders(sent)
  /\ UNCHANGED <<stateOf, nextOf, hulot, forker>>

JobLeaves(n) ==
  /\ n \in busy
  /\ busy' = busy \ {n}
  /\ UNCHANGED <<stateOf, nextOf, server, inbox, hulot, forker, bounds>>

-----------------------------------------------------------------------------
(* WindowForker *)

AskAll(ns, s) == nextOf' = [n \in Addresses |-> IF n \in ns THEN s ELSE nextOf[n]]

Ready(e) == e.at \in {"ok", "failed"}

Late(e) == ~Ready(e) /\ e.age > WindowTimeout

(* The nodes whose HALT is over: del nodes_list_running[node] *)
HaltsOver(es) == {e.node : e \in {x \in es : x.cmd = "HALT" /\ (x.at = "ok" \/ Late(x))}}

(* The pool has WindowSize processes, which take the commands in order *)
Runs(i) ==
  /\ pool[i].at = "todo"
  /\ Cardinality({k \in 1..(i - 1) : pool[k].at = "todo"}) < WindowSize

(* The sequence of these numbers *)
InOrder(S) == {f \in SetToSeqs(S) : \A i, k \in DOMAIN f : i < k => f[i] < f[k]}

(* check_executors: a node is suspected if its command has failed, or if   *)
(* its HALT is late; a late command runs on but is forgotten. A command    *)
(* may end between ready() and get(), and is then forgotten as well: its   *)
(* node stays in nodes_list_running, as does one whose HALT has failed.    *)
CheckExecutors ==
  /\ pc = "check"
  /\ \E raced \in SUBSET {i \in DOMAIN pool : Late(pool[i]) /\ Runs(i)} :
       LET seen == {pool[i] : i \in {k \in DOMAIN pool \ raced : pool[k].known /\ (Ready(pool[k]) \/ Late(pool[k]))}}
           bad == {e.node : e \in {x \in seen : x.at = "failed" \/ (x.cmd = "HALT" /\ Late(x))}}
       IN  /\ AskAll(bad, "Suspected")
           /\ running' = Without(running, HaltsOver(seen))
           /\ pc' = IF HaltsOver(seen) \subseteq DOMAIN running THEN "recv" ELSE "dead"
           /\ \E left \in InOrder({i \in DOMAIN pool : ~Ready(pool[i])}) :
                pool' = [k \in DOMAIN left |->
                           [pool[left[k]] EXCEPT !.known = @ /\ ~Late(pool[left[k]])]]
  /\ UNCHANGED <<stateOf, busy, server, inbox, reminded, turn, power, bounds>>

Powered(cmd, before) ==
  IF cmd = "HALT" THEN "off" ELSE IF before = "off" THEN "booting" ELSE before

ExecutorEnds(i) ==
  /\ i \in DOMAIN pool
  /\ Runs(i)
  /\ \E result \in {"ok", "failed"} :
       /\ pool' = IF pool[i].known THEN [pool EXCEPT ![i].at = result] ELSE RemoveAt(pool, i)
       /\ power' = IF result = "ok" THEN [power EXCEPT ![pool[i].node] = Powered(pool[i].cmd, @)] ELSE power
  /\ UNCHANGED <<tables, inbox, hulot, bounds>>

(* A node that boots sets itself Alive *)
NodeBoots(n) ==
  /\ power[n] = "booting"
  /\ power' = [power EXCEPT ![n] = "on"]
  /\ AskAll({n}, "Alive")
  /\ UNCHANGED <<stateOf, busy, server, inbox, hulot, pool, bounds>>

(* Time: everything that has a timeout ages, up to it *)
TimePasses ==
  /\ \/ \E n \in DOMAIN running : running[n].left > 0
     \/ \E i \in DOMAIN pool : pool[i].age <= WindowTimeout
  /\ running' = [n \in DOMAIN running |-> [running[n] EXCEPT !.left = IF @ = 0 THEN 0 ELSE @ - 1]]
  /\ pool' = [i \in DOMAIN pool |-> [pool[i] EXCEPT !.age = IF @ > WindowTimeout THEN @ ELSE @ + 1]]
  /\ UNCHANGED <<tables, inbox, reminded, turn, pc, power, bounds>>

-----------------------------------------------------------------------------
(* Hulot.run *)

Occupied(g) == {n \in Members[g] \cap busy : "Alive" \in {stateOf[n], nextOf[n]}}
Idle(g) == {n \in Members[g] \ busy : "Alive" \in {stateOf[n], nextOf[n]}}
Wakeable(g) == {n \in Members[g] \ (Occupied(g) \cup Idle(g)) : stateOf[n] = "Absent"}

(* The nodes to wake up for each group: as many as it lacks, if it can *)
KeepAlive(woken) ==
  \A g \in Groups :
    /\ woken[g] \subseteq Wakeable(g)
    /\ Cardinality(woken[g]) =
         Min({Cardinality(Wakeable(g)), Max({0, MinIdle[g] - Cardinality(Idle(g))})})

Booting == {n \in DOMAIN running : running[n].cmd = "WAKEUP"}
Booted == {n \in Booting : stateOf[n] = "Alive"}

(* Mutant of Overdue: whatever the command *)
OverdueAny == {n \in DOMAIN running \ Booted : running[n].left = 0}

(* Mutant of Overdue: a node that is already suspected is skipped *)
OverdueAbsent == {n \in Booting : stateOf[n] = "Absent" /\ running[n].left = 0}

Overdue == {n \in Booting \ Booted : running[n].left = 0}

(* check_reminded_list: the node is not taken out of the list *)
Due(going) == Without(reminded, DOMAIN going)

Constantly(ns, cmd) == [n \in ns |-> cmd]

Remembered(other, cmd) == Over(Constantly(other, cmd), reminded)

(* A message is received and the tables are read: keepalive, the end of    *)
(* the wake-ups, then the commands to process, those of the message first  *)
(* in precedence, then those reminded, then those for keepalive.           *)
Receive ==
  /\ pc = "recv"
  /\ inbox # <<>>
  /\ Len(pool) <= MaxPool
  /\ inbox' = Tail(inbox)
  /\ pc' = "process"
  /\ \E woken \in [Groups -> SUBSET Addresses] :
       LET message == Head(inbox)
           going == Without(running, Booted \cup Overdue)
           wanted == message.nodes \ Overdue
           other == {n \in wanted \cap DOMAIN going : going[n].cmd # message.cmd}
           kept == (UNION {woken[g] : g \in Groups}) \ DOMAIN running
       IN  /\ KeepAlive(woken)
           /\ running' = going
           /\ AskAll(Overdue, "Suspected")
           /\ reminded' = Remembered(other, message.cmd)
           /\ toProcess' = Over(Constantly(wanted \ DOMAIN going, message.cmd),
                                Over(Due(going), Constantly(kept, "WAKEUP")))
           /\ undecided' = DOMAIN toProcess'
           /\ idle' = [g \in Groups |-> Cardinality(Idle(g))]
  /\ UNCHANGED <<stateOf, busy, server, refused, forker, bounds>>

(* The groups that cannot spare node n *)
Needing(n) == {g \in Groups : n \in Members[g] /\ idle[g] <= MinIdle[g]}

(* One node to process, in an order that depends on who has asked. A HALT  *)
(* is refused, or the node is Absent from now on.                          *)
Decide(n) ==
  /\ pc = "process"
  /\ n \in undecided
  /\ undecided' = undecided \ {n}
  /\ \/ /\ toProcess[n] = "WAKEUP"
        /\ UNCHANGED <<nextOf, refused, idle>>
     \/ /\ toProcess[n] = "HALT"
        /\ Needing(n) # {}
        /\ refused' = Over(Constantly({n}, Cardinality(Needing(n))), refused)
        /\ UNCHANGED <<nextOf, idle>>
     \/ /\ toProcess[n] = "HALT"
        /\ Needing(n) = {}
        /\ AskAll({n}, "Absent")
        /\ idle' = [g \in Groups |-> IF n \in Members[g] THEN idle[g] - 1 ELSE idle[g]]
        /\ UNCHANGED refused
  /\ UNCHANGED <<stateOf, busy, server, inbox, running, reminded, toProcess, pc, forker, bounds>>

(* get_timeout *)
WakeTimeout(nb) ==
  LET keys == {k \in DOMAIN WakeTimeouts : k <= nb}
  IN  WakeTimeouts[IF keys = {} THEN 1 ELSE Max(keys)]

Command(n, cmd) == [node |-> n, cmd |-> cmd, age |-> 0, at |-> "todo", known |-> TRUE]

(* The commands are launched and remembered. A node refused for two groups *)
(* is deleted twice from the list: a KeyError.                             *)
Launch ==
  /\ pc = "process"
  /\ undecided = {}
  /\ toProcess' = Empty
  /\ refused' = Empty
  /\ idle' = [g \in Groups |-> 0]
  /\ LET timeout == WakeTimeout(Cardinality(DOMAIN running) + Cardinality(DOMAIN toProcess))
         launched == Without(toProcess, DOMAIN refused)
     IN  \/ /\ \E n \in DOMAIN refused : refused[n] > 1
            /\ pc' = "dead"
            /\ UNCHANGED <<running, pool>>
         \/ /\ \A n \in DOMAIN refused : refused[n] = 1
            /\ pc' = "check"
            /\ \E order \in SetToSeqs(DOMAIN launched) :
                 pool' = pool \o [i \in DOMAIN order |-> Command(order[i], launched[order[i]])]
            /\ running' = Over([n \in DOMAIN launched |->
                                  [cmd |-> launched[n], left |-> IF launched[n] = "WAKEUP" THEN timeout ELSE 0]],
                               running)
  /\ UNCHANGED <<tables, inbox, reminded, undecided, power, bounds>>

(* After so many cycles Hulot dumps its lists and ends; what it had queued *)
(* is lost. It is started again, with the lists.                           *)
Refresh ==
  /\ pc = "check"
  /\ incidents < MaxEvents
  /\ incidents' = incidents + 1
  /\ pool' = <<>>
  /\ UNCHANGED <<tables, inbox, hulot, power, orders>>

HulotNext ==
  \/ NodeChangeState \/ MetaSchedule \/ TimePasses
  \/ CheckExecutors \/ Receive \/ Launch \/ Refresh
  \/ \E n \in Addresses : JobLeaves(n) \/ NodeBoots(n) \/ Decide(n)
  \/ \E i \in DOMAIN pool : ExecutorEnds(i)

HulotSpec == HulotInit /\ [][HulotNext]_hulotVars

(* Hulot and time go on; nothing is assumed of the nodes and the commands *)
HulotFairSpec ==
  /\ HulotSpec
  /\ WF_hulotVars(CheckExecutors) /\ WF_hulotVars(Receive) /\ WF_hulotVars(Launch) /\ WF_hulotVars(TimePasses)
  /\ \A n \in Addresses : WF_hulotVars(Decide(n))

-----------------------------------------------------------------------------
(* Types of the variables *)
Sent == [cmd : PowerCommands, nodes : SUBSET Addresses] \cup [cmd : {"CHECK"}, nodes : {{}}]

Entry == [node : Addresses, cmd : PowerCommands, age : 0..(WindowTimeout + 1),
          at : {"todo", "ok", "failed"}, known : BOOLEAN]

HulotTypeOK ==
  /\ stateOf \in [Addresses -> NodeState]
  /\ nextOf \in [Addresses -> NodeState \cup {"UnChanged"}]
  /\ busy \subseteq Addresses
  /\ server \in {"ncs", "meta"}
  /\ inbox \in Seq(Sent)
  /\ DOMAIN running \subseteq Addresses
  /\ \A n \in DOMAIN running : running[n] \in [cmd : PowerCommands, left : Nat]
  /\ DOMAIN reminded \subseteq Addresses
  /\ \A n \in DOMAIN reminded : reminded[n] \in PowerCommands
  /\ DOMAIN toProcess \subseteq Addresses
  /\ \A n \in DOMAIN toProcess : toProcess[n] \in PowerCommands
  /\ undecided \subseteq DOMAIN toProcess
  /\ DOMAIN refused \subseteq DOMAIN toProcess
  /\ idle \in [Groups -> Int]
  /\ pc \in {"check", "recv", "process", "dead"}
  /\ pool \in Seq(Entry)
  /\ power \in [Addresses -> {"on", "off", "booting"}]
  /\ orders \in 0..MaxOrders
  /\ incidents \in 0..MaxEvents

(* A node whose HALT is watched is listed as running it, so that the end of *)
(* the command finds it to delete: neither the late end of an earlier      *)
(* command, a refusal nor a wake-up that has ended or is late has taken it *)
(* out meanwhile. No two HALTs of a node are watched.                      *)
Watched == {i \in DOMAIN pool : pool[i].known /\ pool[i].cmd = "HALT"}

HaltIsRegistered ==
  /\ \A i \in Watched : pool[i].node \in DOMAIN running /\ running[pool[i].node].cmd = "HALT"
  /\ \A i, k \in Watched : pool[i].node = pool[k].node => i = k

(* The register of Hulot is sound: every list names nodes and commands,   *)
(* and what WindowForker watches is in it.                                 *)
RegisterIsSound == HulotTypeOK /\ HaltIsRegistered

(* In one turn, whatever the order of the nodes and however the groups     *)
(* overlap, Hulot halts no more nodes of a group than it could spare when  *)
(* it read the tables.                                                     *)
HaltedInTurn(g) ==
  {n \in (DOMAIN toProcess \cap Members[g]) \ (undecided \cup DOMAIN refused) : toProcess[n] = "HALT"}

TurnKeepsAlive ==
  [][pc = "process" /\ pc' = "check" =>
       \A g \in Groups : HaltedInTurn(g) # {} => idle[g] >= MinIdle[g]]_hulotVars

(* If Hulot goes on receiving messages, a wake-up that it has launched is  *)
(* over at some point: the node is up or suspected. A late node never      *)
(* stays in the list, where it would be refused every later command.       *)
WakeupIsSettled ==
  []<>(pc = "process") => \A n \in Addresses : n \in Booting ~> n \notin Booting

(* If Hulot goes on receiving messages, a command that came while the      *)
(* contrary one was running on the node is not lost, unless that one is a  *)
(* HALT that nobody watches any more: it has failed, it has ended while it *)
(* was found late, or Hulot has been started again.                        *)
LostHalt(n) == n \in DOMAIN running \ Booting /\ \A i \in Watched : pool[i].node # n

RemindedIsTried ==
  []<>(pc = "process") =>
    \A n \in Addresses : n \in DOMAIN reminded ~> (n \in DOMAIN toProcess \/ LostHalt(n))

(* Neither a wake-up nor a command to be reminded stays where it is: a     *)
(* late node blocks nothing, and what was put off is tried (hulot.py).     *)
CommandsGoOn == WakeupIsSettled /\ RemindedIsTried

=============================================================================
