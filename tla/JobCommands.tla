---------------------------- MODULE JobCommands ----------------------------
(***************************************************************************)
(* What the bipbip commander promises to the rest of OAR, without queues:  *)
(* a command accepted for a job is executed once, by a process of its own, *)
(* and two processes never work for the same job at the same time.         *)
(***************************************************************************)
EXTENDS FiniteSets, Naturals

CONSTANTS
  Commands,   \* the OAREXEC / OARRUNJOB / LEONEXTERMINATE messages
  JobOf,      \* the job_id of each message
  Slots       \* how many processes may be at work together

VARIABLES
  waiting,    \* accepted, its process not started yet
  running,    \* commands whose process is at work
  done        \* commands whose process has ended

cvars == <<waiting, running, done>>

CInit == waiting = {} /\ running = {} /\ done = {}

Accept(c) ==
  /\ c \notin waiting \cup running \cup done
  /\ waiting' = waiting \cup {c}
  /\ UNCHANGED <<running, done>>

Start(c) ==
  /\ c \in waiting
  /\ \A d \in running : JobOf[d] # JobOf[c]
  /\ Cardinality(running) < Slots
  /\ waiting' = waiting \ {c}
  /\ running' = running \cup {c}
  /\ UNCHANGED done

Finish(c) ==
  /\ c \in running
  /\ running' = running \ {c}
  /\ done' = done \cup {c}
  /\ UNCHANGED waiting

CNext == \E c \in Commands : Accept(c) \/ Start(c) \/ Finish(c)

CSpec == CInit /\ [][CNext]_cvars
=============================================================================
