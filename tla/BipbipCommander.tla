-------------------------- MODULE BipbipCommander --------------------------
(***************************************************************************)
(* The bipbip commander (src/oar/modules/bipbip_commander.py): one thread  *)
(* that receives commands from a ZeroMQ PULL socket and starts, for each,  *)
(* a process that runs oar-bipbip or oar-leon for the job of the command.  *)
(* The loop never waits for a process: it keeps a table of executors, one  *)
(* entry per job, and looks with is_alive() whether an entry has ended.    *)
(*                                                                         *)
(* One pass of the loop is cut into the steps between which a process may  *)
(* end: the reception, each turn of the inner while, and the end of pass.  *)
(***************************************************************************)
EXTENDS Naturals, Sequences, FiniteSets, Functions

CONSTANTS
  Jobs,       \* job ids
  Commands,   \* the messages other processes send in a behaviour
  JobOf,      \* JobOf[c] is the "job_id" field of message c
  MaxProcs    \* Max_bipbip_processes

None == "none"

ASSUME JobOfAssumption == JobOf \in [Commands -> Jobs]
ASSUME MaxProcsAssumption == MaxProcs \in Nat
ASSUME JobsAssumption == IsFiniteSet(Jobs)
ASSUME NoneAssumption == None \notin Commands

VARIABLES
  unsent,     \* messages the appendice proxy or the scheduler have not sent yet
  net,        \* content of the PULL socket
  toRun,      \* bipbip_leon_commands_to_run
  toRequeue,  \* bipbip_leon_commands_to_requeue
  executors,  \* bipbip_leon_executors: job -> the command its process executes
  alive,      \* commands whose process is alive
  ended,      \* commands whose process has ended
  blocking,   \* TRUE iff RCVTIMEO is -1
  pc          \* "recv": in recv_json;  "drain": in the inner while

vars == <<unsent, net, toRun, toRequeue, executors, alive, ended, blocking, pc>>

loopVars == <<toRun, toRequeue, executors, blocking, pc>>

(* len(self.bipbip_leon_executors): entries, be their process alive or not *)
Entries == {j \in Jobs : executors[j] # None}

Init ==
  /\ unsent = Commands
  /\ net = <<>>
  /\ toRun = <<>>
  /\ toRequeue = <<>>
  /\ executors = [j \in Jobs |-> None]
  /\ alive = {}
  /\ ended = {}
  /\ blocking = TRUE
  /\ pc = "recv"

-----------------------------------------------------------------------------
(* The environment: another process sends a message, an executor ends.     *)

Send(c) ==
  /\ c \in unsent
  /\ unsent' = unsent \ {c}
  /\ net' = Append(net, c)
  /\ UNCHANGED <<loopVars, alive, ended>>

ProcessEnds(c) ==
  /\ c \in alive
  /\ alive' = alive \ {c}
  /\ ended' = ended \cup {c}
  /\ UNCHANGED <<unsent, net, loopVars>>

-----------------------------------------------------------------------------
(* The loop of BipbipCommander.run                                         *)

(* recv_json returns a command *)
Receive ==
  /\ pc = "recv"
  /\ net # <<>>
  /\ toRun' = Append(toRun, Head(net))
  /\ net' = Tail(net)
  /\ pc' = "drain"
  /\ UNCHANGED <<unsent, toRequeue, executors, blocking, alive, ended>>

(* zmq.error.Again: the 500 ms passed without a message *)
ReceiveTimeout ==
  /\ pc = "recv"
  /\ ~blocking
  /\ net = <<>>
  /\ pc' = "drain"
  /\ UNCHANGED <<unsent, net, toRun, toRequeue, executors, blocking, alive, ended>>

(* The guard of the inner while *)
CanPop ==
  /\ pc = "drain"
  /\ toRun # <<>>
  /\ Cardinality(Entries) <= MaxProcs

(* Mutant of Busy: flag_exec is never reset *)
NeverBusy(c) == FALSE

(* The job of the popped command has an entry whose process is alive *)
Busy(c) == executors[JobOf[c]] \in alive

(* Mutant of PopRequeue: the command is popped and not queued again *)
PopForget ==
  /\ CanPop
  /\ Busy(Head(toRun))
  /\ toRun' = Tail(toRun)
  /\ UNCHANGED <<unsent, net, toRequeue, executors, alive, ended, blocking, pc>>

PopRequeue ==
  /\ CanPop
  /\ LET c == Head(toRun) IN
       /\ Busy(c)
       /\ toRun' = Tail(toRun)
       /\ toRequeue' = Append(toRequeue, c)
  /\ UNCHANGED <<unsent, net, executors, alive, ended, blocking, pc>>

(* The job has no entry, or a dead one, which is deleted and replaced *)
PopStart ==
  /\ CanPop
  /\ LET c == Head(toRun) IN
       /\ ~Busy(c)
       /\ toRun' = Tail(toRun)
       /\ executors' = [executors EXCEPT ![JobOf[c]] = c]
       /\ alive' = alive \cup {c}
  /\ UNCHANGED <<unsent, net, toRequeue, ended, blocking, pc>>

(* The entries left once those of dead processes are removed *)
Reaped == [j \in Jobs |-> IF executors[j] \in alive THEN executors[j] ELSE None]

(* Mutant of EndPass: the timeout is chosen before the requeue list is back *)
EndPassTimeoutFirst ==
  /\ pc = "drain"
  /\ toRun = <<>> \/ Cardinality(Entries) > MaxProcs
  /\ toRun' = toRun \o toRequeue
  /\ toRequeue' = <<>>
  /\ executors' = Reaped
  /\ blocking' = (toRun = <<>>)
  /\ pc' = "recv"
  /\ UNCHANGED <<unsent, net, alive, ended>>

(* Requeue, removal of the finished executors, choice of the timeout *)
EndPass ==
  /\ pc = "drain"
  /\ toRun = <<>> \/ Cardinality(Entries) > MaxProcs
  /\ toRun' = toRun \o toRequeue
  /\ toRequeue' = <<>>
  /\ executors' = Reaped
  /\ blocking' = (toRun' = <<>>)
  /\ pc' = "recv"
  /\ UNCHANGED <<unsent, net, alive, ended>>

Loop == Receive \/ ReceiveTimeout \/ PopRequeue \/ PopStart \/ EndPass

Next ==
  \/ Loop
  \/ \E c \in Commands : Send(c) \/ ProcessEnds(c)

Spec == Init /\ [][Next]_vars

(***************************************************************************)
(* The commander is a process that never stops looping, so its loop is     *)
(* weakly fair. FairSpec also assumes that the bipbip and leon processes   *)
(* end: nothing in the commander kills one that does not.                  *)
(***************************************************************************)
FairSpec ==
  /\ Spec
  /\ WF_vars(Loop)
  /\ \A c \in Commands : WF_vars(ProcessEnds(c))

-----------------------------------------------------------------------------
(* Properties *)

TypeOK ==
  /\ unsent \subseteq Commands
  /\ net \in Seq(Commands)
  /\ toRun \in Seq(Commands)
  /\ toRequeue \in Seq(Commands)
  /\ executors \in [Jobs -> Commands \cup {None}]
  /\ alive \subseteq Commands
  /\ ended \subseteq Commands
  /\ blocking \in BOOLEAN
  /\ pc \in {"recv", "drain"}

(* Two processes are never at work for the same job, whatever the moment   *)
(* at which is_alive() was asked (the requeue branch of run).              *)
OneProcessPerJob ==
  \A c, d \in alive : JobOf[c] = JobOf[d] => c = d

(* The commander knows every live process through the entry of its job:    *)
(* no process is forgotten by an overwritten or deleted entry.             *)
LiveProcessesAreRegistered ==
  \A c \in alive : executors[JobOf[c]] = c

(* The table never exceeds the limit by more than the one entry the "<="   *)
(* of the inner while allows.                                              *)
EntriesBounded == Cardinality(Entries) <= MaxProcs + 1

(* When recv_json may block for ever there is no command left to run: a    *)
(* requeued command is seen before the timeout of the socket is chosen.    *)
NoWorkWhileBlocked ==
  pc = "recv" /\ blocking => toRun = <<>> /\ toRequeue = <<>>

(* The strengthening that makes the invariants above inductive: the two    *)
(* lists are related to pc and to the timeout as run relates them.         *)
IInv ==
  /\ TypeOK
  /\ LiveProcessesAreRegistered
  /\ EntriesBounded
  /\ pc = "recv" => toRequeue = <<>>
  /\ pc = "recv" /\ blocking => toRun = <<>>

(* A command that was sent is executed: neither the requeue list, nor a    *)
(* full table, nor a blocked reception lose it.                            *)
SentIsExecuted == \A c \in Commands : (c \notin unsent) ~> (c \in ended)

(* The abstraction: a command waits from its emission to its start. *)
JC == INSTANCE JobCommands WITH
        waiting <- Range(net) \cup Range(toRun) \cup Range(toRequeue),
        running <- alive,
        done    <- ended,
        Slots   <- MaxProcs + 1

(* The loop, its lists and its table implement the promise of JobCommands; *)
(* in particular each command is executed at most once.                    *)
ImplementsJobCommands == JC!CSpec
=============================================================================
