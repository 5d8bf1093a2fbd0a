------------------------- MODULE JobLifecycleProofs -------------------------
(***************************************************************************)
(* Proofs about JobLifecycle, for any set of jobs, of user commands and of *)
(* exit codes, and any bounds.                                             *)
(***************************************************************************)
EXTENDS JobLifecycle, TLAPS

(* The events that check_end_of_job writes are events of the table *)
LEMMA EndEventsTyped ==
  ASSUME NEW c \in DOMAIN EndEvents, NEW i \in DOMAIN EndEvents[c]
  PROVE  EndEvents[c][i] \in EventTypes
BY DEF EndEvents, SignalEvents, EventTypes, TerminateEvents, ErrorEvents, BadNodeEvents, HoldEvents

(* New rows of the event table are typed when the events recorded are *)
LEMMA RecordTyped ==
  ASSUME TypeOK, NEW j \in Jobs, NEW types, Record(j, types),
         \A i \in DOMAIN types : types[i] \in EventTypes
  PROVE  \A e \in events' : IsEvent(e)
<1>1. \A e \in events : IsEvent(e)
  BY DEF TypeOK
<1>2. ASSUME NEW i \in DOMAIN types
      PROVE  IsEvent([id |-> LastId + i, job |-> j, type |-> types[i]])
  BY DEF IsEvent
<1> QED
  BY <1>1, <1>2 DEF Record

LEMMA RecordOneTyped ==
  ASSUME TypeOK, NEW j \in Jobs, NEW type \in EventTypes, Record(j, <<type>>)
  PROVE  \A e \in events' : IsEvent(e)
<1>1. \A i \in DOMAIN <<type>> : <<type>>[i] \in EventTypes
  OBVIOUS
<1> QED
  BY <1>1, RecordTyped

LEMMA PairTyped ==
  ASSUME NEW a \in EventTypes, NEW b \in EventTypes
  PROVE  \A i \in DOMAIN <<a, b>> : <<a, b>>[i] \in EventTypes
OBVIOUS

(* The update of a counter and of a flag of a job *)
LEMMA CounterUpdate ==
  ASSUME NEW f \in [Jobs -> Nat], NEW j \in Jobs
  PROVE  [f EXCEPT ![j] = f[j] + 1] \in [Jobs -> Nat]
OBVIOUS

(* set_job_state keeps the column typed *)
LEMMA SetStateType ==
  ASSUME TypeOK, NEW j \in Jobs, NEW s \in States, SetState(j, s)
  PROVE  state' \in [Jobs -> States]
BY DEF TypeOK, SetState, After

(* So does the commit of a process *)
LEMMA CommitType ==
  ASSUME TypeOK, NEW j \in Jobs, Commit(j)
  PROVE  state' \in [Jobs -> States] /\ lock' \in [Jobs -> BOOLEAN]
BY DEF TypeOK, Commit, States, Started

(* A command more at the commander *)
LEMMA NotifyType ==
  ASSUME TypeOK, NEW j \in Jobs, NEW kind \in CommandKinds, Notify(j, kind)
  PROVE  pending' \in [Jobs -> [CommandKinds -> Nat]]
<1>1. pending \in [Jobs -> [CommandKinds -> Nat]]
  BY DEF TypeOK
<1>2. pending[j][kind] + 1 \in Nat
  BY <1>1
<1>3. [pending[j] EXCEPT ![kind] = pending[j][kind] + 1] \in [CommandKinds -> Nat]
  BY <1>1, <1>2
<1>4. pending' = [pending EXCEPT ![j] = [pending[j] EXCEPT ![kind] = pending[j][kind] + 1]]
  BY DEF Notify
<1> QED
  BY <1>1, <1>3, <1>4

(* frag_job keeps its table typed *)
LEMMA FragJobType ==
  ASSUME TypeOK, NEW j \in Jobs, FragJob(j)
  PROVE  frag' \in [Jobs -> FragStates] /\ age' = age
BY DEF TypeOK, FragJob, FragStates

(* The states that the code names are states *)
LEMMA StateNames ==
  /\ "Waiting" \in States /\ "Hold" \in States /\ "toLaunch" \in States
  /\ "toError" \in States /\ "toAckReservation" \in States
  /\ "Launching" \in States /\ "Running" \in States /\ "Suspended" \in States
  /\ "Resuming" \in States /\ "Finishing" \in States
  /\ "Terminated" \in States /\ "Error" \in States
BY DEF States, Unlaunched, Started, Over

LEMMA KindNames ==
  "run" \in CommandKinds /\ "end" \in CommandKinds /\ "leon" \in CommandKinds
BY DEF CommandKinds

(* The metascheduler keeps the types *)
LEMMA MetaschedType ==
  ASSUME TypeOK, NEW j \in Jobs, Metasched(j)
  PROVE  TypeOK'
<1> USE StateNames, KindNames
<1> USE DEF TypeOK, jobRow, fragRow, ncsVars, procVars, nodeVars, history
<1>1. CASE SchedReserve(j) BY <1>1, SetStateType DEF SchedReserve
<1>2. CASE SchedExpire(j)  BY <1>2, SetStateType DEF SchedExpire
<1>3. CASE SchedLaunch(j)  BY <1>3, SetStateType, NotifyType DEF SchedLaunch
<1>4. CASE SchedRelaunch(j) BY <1>4, NotifyType DEF SchedRelaunch
<1>5. CASE SchedError(j)   BY <1>5, SetStateType DEF SchedError
<1>6. CASE SchedAck(j)     BY <1>6, SetStateType, FragJobType DEF SchedAck
<1>7. CASE SchedResume(j)  BY <1>7, SetStateType, FragJobType DEF SchedResume
<1> QED
  BY <1>1, <1>2, <1>3, <1>4, <1>5, <1>6, <1>7 DEF Metasched

(* So do Leon, Sarko and the passing of time *)
LEMMA KillersType ==
  ASSUME TypeOK, NEW j \in Jobs, Killers(j) \/ FragAges(j)
  PROVE  TypeOK'
<1> USE StateNames, KindNames
<1> USE DEF TypeOK, jobRow, fragRow, ncsVars, procVars, nodeVars, history
<1>1. CASE LeonKill(j)        BY <1>1, SetStateType DEF LeonKill, FragStates
<1>2. CASE LeonTooLate(j)     BY <1>2 DEF LeonTooLate, FragStates
<1>3. CASE LeonExterminate(j) BY <1>3, SetStateType, NotifyType DEF LeonExterminate
<1>4. CASE SarkoTimer(j)      BY <1>4 DEF SarkoTimer, FragStates
<1>5. CASE SarkoWalltime(j)   BY <1>5, FragJobType DEF SarkoWalltime
<1>6. CASE FragAges(j)
  <2>1. age[j] \in 0..2 /\ age[j] < 2
    BY <1>6 DEF FragAges
  <2>2. age[j] + 1 \in 0..2
    BY <2>1
  <2>3. age' \in [Jobs -> 0..2]
    BY <1>6, <2>2 DEF FragAges
  <2> QED
    BY <1>6, <2>3 DEF FragAges
<1> QED
  BY <1>1, <1>2, <1>3, <1>4, <1>5, <1>6 DEF Killers

(* The targets of NodeChangeState are states, or no state *)
LEMMA TargetType ==
  ASSUME NEW e, Target(e) # ""
  PROVE  Target(e) \in States
BY StateNames DEF Target

LEMMA HoldTargetType ==
  ASSUME NEW type, NEW seen, HoldTarget(type, seen) # ""
  PROVE  HoldTarget(type, seen) \in States
BY StateNames DEF HoldTarget

(* check_event leaves typed rows and no event at hand *)
LEMMA CheckedType ==
  ASSUME TypeOK, NEW e, Checked(e)
  PROVE  /\ \A f \in events' : IsEvent(f)
         /\ \A f \in todo' : IsEvent(f)
         /\ cur' = NoEvent
BY DEF TypeOK, Checked

(* So does NodeChangeState *)
LEMMA NodeChangeStateType ==
  ASSUME TypeOK, NodeChangeState
  PROVE  TypeOK'
<1> USE StateNames
<1> USE DEF TypeOK, jobRow, fragRow, ncsVars, procVars, nodeVars, history
<1>1. CASE NCSStart  BY <1>1 DEF NCSStart
<1>2. CASE NCSRead
  <2>1. PICK e \in todo : todo' = todo \ {e} /\ cur' = [event |-> e, seen |-> state[e.job]]
    BY <1>2 DEF NCSRead
  <2>2. IsEvent(cur'.event) /\ cur'.seen \in States
    BY <2>1 DEF IsEvent
  <2> QED
    BY <1>2, <2>1, <2>2 DEF NCSRead
<1>3. CASE NCSSwitch
  <2>1. cur.event.job \in Jobs
    BY <1>3 DEF NCSSwitch, IsEvent
  <2>2. state' \in [Jobs -> States]
    <3>1. Target(cur.event) \in States
      BY <1>3, TargetType DEF NCSSwitch
    <3>2. SetState(cur.event.job, Target(cur.event))
      BY <1>3 DEF NCSSwitch
    <3> QED
      BY <2>1, <3>1, <3>2, SetStateType
  <2>3. clones' \in [Jobs -> Nat]
    <3>1. \/ clones' = clones
          \/ clones' = [clones EXCEPT ![cur.event.job] = clones[cur.event.job] + 1]
      BY <1>3 DEF NCSSwitch
    <3>2. clones \in [Jobs -> Nat]
      OBVIOUS
    <3> HIDE DEF TypeOK
    <3> QED
      BY <2>1, <3>1, <3>2, CounterUpdate
  <2>4. Checked(cur.event)
    BY <1>3 DEF NCSSwitch
  <2> QED
    BY <1>3, <2>2, <2>3, <2>4, CheckedType DEF NCSSwitch
<1>4. CASE NCSHold
  <2>1. cur.event.job \in Jobs
    BY <1>4 DEF NCSHold, IsEvent
  <2>2. state' \in [Jobs -> States]
    BY <1>4, <2>1, HoldTargetType, SetStateType DEF NCSHold
  <2> QED
    BY <1>4, <2>2, CheckedType DEF NCSHold
<1>5. CASE NCSSuspend
  <2>1. cur.event.job \in Jobs
    BY <1>5 DEF NCSSuspend, IsEvent
  <2>2. state' \in [Jobs -> States]
    BY <1>5, <2>1, SetStateType DEF NCSSuspend
  <2>3. frag' \in [Jobs -> FragStates] /\ age' = age
    BY <1>5, <2>1, FragJobType DEF NCSSuspend
  <2> QED
    BY <1>5, <2>2, <2>3, CheckedType DEF NCSSuspend
<1>6. CASE NCSIgnore BY <1>6, CheckedType DEF NCSIgnore
<1> QED
  BY <1>1, <1>2, <1>3, <1>4, <1>5, <1>6 DEF NodeChangeState

(* So do the user commands *)
LEMMA UsersType ==
  ASSUME TypeOK, NEW j \in Jobs, Users(j)
  PROVE  TypeOK'
<1> USE DEF TypeOK, jobRow, fragRow, ncsVars, procVars, nodeVars, history
<1>0. /\ "FORCE_TERMINATE_FINISHING_JOB" \in EventTypes
      /\ "HOLD_WAITING_JOB" \in EventTypes
      /\ "HOLD_RUNNING_JOB" \in EventTypes
      /\ "RESUME_JOB" \in EventTypes
  BY DEF EventTypes, ErrorEvents, HoldEvents
<1>1. CASE Oardel(j)         BY <1>1, FragJobType DEF Oardel
<1>2. CASE OardelForce(j)    BY <1>2, <1>0, RecordOneTyped DEF OardelForce
<1>3. CASE OarholdWaiting(j) BY <1>3, <1>0, RecordOneTyped DEF OarholdWaiting
<1>4. CASE OarholdRunning(j)
  <2>1. \A e \in events' : IsEvent(e)
    BY <1>4, <1>0, RecordOneTyped DEF OarholdRunning
  <2>2. requests' \in Nat
    <3>1. requests' = requests + 1 /\ requests \in Nat
      BY <1>4 DEF OarholdRunning
    <3> HIDE DEF TypeOK
    <3> QED
      BY <3>1
  <2> QED
    BY <1>4, <2>1, <2>2 DEF OarholdRunning
<1>5. CASE Oarresume(j)      BY <1>5, <1>0, RecordOneTyped DEF Oarresume
<1> QED
  BY <1>1, <1>2, <1>3, <1>4, <1>5 DEF Users

(* So does the commander when it starts a process *)
LEMMA StartType ==
  ASSUME TypeOK, NEW j \in Jobs, NEW kind \in CommandKinds, Start(j, kind)
  PROVE  TypeOK'
<1> USE DEF TypeOK, jobRow, fragRow, ncsVars, procVars, nodeVars, history
<1>1. pending[j] \in [CommandKinds -> Nat] /\ pending[j][kind] > 0
  BY DEF Start
<1>2. pending[j][kind] - 1 \in Nat
  BY <1>1
<1>3. pending' = [pending EXCEPT ![j] = [pending[j] EXCEPT ![kind] = pending[j][kind] - 1]]
  BY DEF Start
<1>4. pending' \in [Jobs -> [CommandKinds -> Nat]]
  BY <1>1, <1>2, <1>3
<1>5. pc' \in [Jobs -> Labels]
  BY DEF Start, Goto, StartLabel, CommandKinds, Labels
<1> QED
  BY <1>4, <1>5 DEF Start

(* The labels and the error codes of the processes *)
LEMMA GotoType ==
  ASSUME TypeOK, NEW j \in Jobs, NEW label \in Labels, Goto(j, label)
  PROVE  pc' \in [Jobs -> Labels]
BY DEF TypeOK, Goto

LEMMA ExitType ==
  ASSUME TypeOK, NEW j \in Jobs, Exit(j)
  PROVE  pc' \in [Jobs -> Labels] /\ err' \in [Jobs -> DOMAIN EndEvents]
BY DEF TypeOK, Exit, Goto, Labels, EndEvents

LEMMA LabelNames ==
  /\ "idle" \in Labels /\ "finish" \in Labels /\ "launch" \in Labels
  /\ "flush" \in Labels /\ "noop" \in Labels /\ "prepare" \in Labels
  /\ "report" \in Labels /\ "prologue" \in Labels /\ "exec" \in Labels
  /\ "quit" \in Labels /\ "setrun" \in Labels /\ "sequence" \in Labels
  /\ "leonseq" \in Labels
BY DEF Labels

(* The events that a process writes while a job starts, or exterminates it *)
LEMMA StartEventNames ==
  /\ "SERVER_PROLOGUE_EXIT_CODE_ERROR" \in EventTypes
  /\ "EXTERMINATE_JOB" \in EventTypes
  /\ "RESERVATION_NO_NODE" \in EventTypes
  /\ BadNodeEvents \subseteq EventTypes
BY DEF EventTypes, ErrorEvents

LEMMA CleanNodesType ==
  ASSUME TypeOK, NEW j \in Jobs, CleanNodes(j)
  PROVE  oarexec' \in [Jobs -> {"none", "running", "gone"}]
BY DEF TypeOK, CleanNodes

(* bipbip, up to the preparation of the nodes, keeps the types *)
LEMMA BipbipLaunchType ==
  ASSUME TypeOK, NEW j \in Jobs,
         BipbipRead(j) \/ BipbipLaunch(j) \/ BipbipFlush(j) \/ BipbipNoop(j)
           \/ BipbipPrepare(j)
  PROVE  TypeOK'
<1> USE StateNames, LabelNames, StartEventNames
<1> USE DEF TypeOK, jobRow, fragRow, ncsVars, procVars, nodeVars, history
<1>1. CASE BipbipRead(j)
  <2>1. code[j] \in DOMAIN EndEvents
    OBVIOUS
  <2>2. pc' \in [Jobs -> Labels] /\ err' \in [Jobs -> DOMAIN EndEvents]
    BY <1>1, <2>1, GotoType, ExitType DEF BipbipRead
  <2> QED
    BY <1>1, <2>2 DEF BipbipRead
<1>2. CASE BipbipLaunch(j) BY <1>2, SetStateType, GotoType DEF BipbipLaunch
<1>3. CASE BipbipFlush(j)
  <2>1. lock' \in [Jobs -> BOOLEAN]
    BY <1>3 DEF BipbipFlush
  <2>2. pc' \in [Jobs -> Labels]
    BY <1>3, GotoType DEF BipbipFlush
  <2> QED
    BY <1>3, <2>1, <2>2 DEF BipbipFlush
<1>4. CASE BipbipNoop(j)
  <2>1. lock' \in [Jobs -> BOOLEAN]
    BY <1>4 DEF BipbipNoop
  <2>2. pc' \in [Jobs -> Labels] /\ err' \in [Jobs -> DOMAIN EndEvents]
    BY <1>4, ExitType DEF BipbipNoop
  <2>3. \A e \in events' : IsEvent(e)
    BY <1>4, RecordOneTyped DEF BipbipNoop
  <2>4. state' \in [Jobs -> States]
    BY <1>4 DEF BipbipNoop
  <2> QED
    BY <1>4, <2>1, <2>2, <2>3, <2>4 DEF BipbipNoop
<1>5. CASE BipbipPrepare(j)
  <2>1. lock' \in [Jobs -> BOOLEAN] /\ state' \in [Jobs -> States]
    BY <1>5, CommitType DEF BipbipPrepare
  <2>2. pc' \in [Jobs -> Labels] /\ err' \in [Jobs -> DOMAIN EndEvents]
    BY <1>5, GotoType, ExitType DEF BipbipPrepare
  <2>3. events' = events
    BY <1>5 DEF BipbipPrepare
  <2> QED
    BY <1>5, <2>1, <2>2, <2>3 DEF BipbipPrepare
<1> QED
  BY <1>1, <1>2, <1>3, <1>4, <1>5

(* So does bipbip from then on *)
LEMMA BipbipExecType ==
  ASSUME TypeOK, NEW j \in Jobs,
         BipbipReport(j) \/ BipbipPrologue(j) \/ BipbipExec(j) \/ BipbipQuit(j)
           \/ BipbipSetRunning(j)
  PROVE  TypeOK'
<1> USE StateNames, LabelNames, StartEventNames
<1> USE DEF TypeOK, jobRow, fragRow, ncsVars, procVars, nodeVars, history
<1>1. CASE BipbipReport(j)
  <2>1. PICK type \in BadNodeEvents :
          \/ Record(j, <<type>>) /\ Exit(j)
          \/ Record(j, <<"RESERVATION_NO_NODE", type>>) /\ Exit(j)
          \/ Record(j, <<type>>) /\ Goto(j, "prologue") /\ UNCHANGED err
    BY <1>1 DEF BipbipReport
  <2>2. \A e \in events' : IsEvent(e)
    <3>1. \A i \in DOMAIN <<"RESERVATION_NO_NODE", type>> :
            <<"RESERVATION_NO_NODE", type>>[i] \in EventTypes
      BY PairTyped
    <3>2. type \in EventTypes
      OBVIOUS
    <3> HIDE DEF TypeOK
    <3> QED
      BY <2>1, <3>1, <3>2, RecordTyped, RecordOneTyped
  <2>3. pc' \in [Jobs -> Labels] /\ err' \in [Jobs -> DOMAIN EndEvents]
    BY <2>1, GotoType, ExitType
  <2> QED
    BY <1>1, <2>2, <2>3 DEF BipbipReport
<1>2. CASE BipbipPrologue(j)
  <2>1. lock' \in [Jobs -> BOOLEAN] /\ state' \in [Jobs -> States]
    BY <1>2, CommitType DEF BipbipPrologue
  <2>2. \A e \in events' : IsEvent(e)
    BY <1>2, RecordOneTyped DEF BipbipPrologue
  <2>3. pc' \in [Jobs -> Labels]
    BY <1>2, GotoType DEF BipbipPrologue
  <2> QED
    BY <1>2, <2>1, <2>2, <2>3 DEF BipbipPrologue
<1>3. CASE BipbipExec(j)
  <2>1. pc' \in [Jobs -> Labels]
    BY <1>3, GotoType DEF BipbipExec
  <2>2. err' \in [Jobs -> DOMAIN EndEvents]
    BY <1>3 DEF BipbipExec, EndEvents
  <2>3. oarexec' \in [Jobs -> {"none", "running", "gone"}]
    BY <1>3 DEF BipbipExec
  <2>4. started' \in [Jobs -> Nat]
    <3>1. started' = started \/ started' = [started EXCEPT ![j] = started[j] + 1]
      BY <1>3 DEF BipbipExec
    <3>2. started \in [Jobs -> Nat]
      OBVIOUS
    <3> HIDE DEF TypeOK
    <3> QED
      BY <3>1, <3>2, CounterUpdate
  <2> QED
    BY <1>3, <2>1, <2>2, <2>3, <2>4 DEF BipbipExec
<1>4. CASE BipbipQuit(j) BY <1>4, ExitType DEF BipbipQuit
<1>5. CASE BipbipSetRunning(j)
  <2>1. state' \in [Jobs -> States]
    BY <1>5 DEF BipbipSetRunning, After
  <2>2. lock' \in [Jobs -> BOOLEAN]
    BY <1>5 DEF BipbipSetRunning
  <2>3. pc' \in [Jobs -> Labels] /\ err' \in [Jobs -> DOMAIN EndEvents]
    BY <1>5, ExitType DEF BipbipSetRunning
  <2> QED
    BY <1>5, <2>1, <2>2, <2>3 DEF BipbipSetRunning
<1> QED
  BY <1>1, <1>2, <1>3, <1>4, <1>5

(* So do the ends: of a job, of a process, of oarexec *)
LEMMA EndType ==
  ASSUME TypeOK, NEW j \in Jobs,
         BipbipFinish(j) \/ BipbipSequence(j) \/ LeonProcess(j) \/ ProcessDies(j)
           \/ Oarexec(j)
  PROVE  TypeOK'
<1> USE StateNames, LabelNames, StartEventNames, KindNames
<1> USE DEF TypeOK, jobRow, fragRow, ncsVars, procVars, nodeVars, history
<1>1. CASE BipbipFinish(j)
  <2>1. lock' \in [Jobs -> BOOLEAN] /\ state' \in [Jobs -> States]
    BY <1>1, CommitType, SetStateType DEF BipbipFinish
  <2>2. pc' \in [Jobs -> Labels]
    BY <1>1, GotoType DEF BipbipFinish
  <2> QED
    BY <1>1, <2>1, <2>2 DEF BipbipFinish
<1>2. CASE BipbipSequence(j)
  <2>1. err[j] \in DOMAIN EndEvents
    OBVIOUS
  <2>2. \A e \in events' : IsEvent(e)
    BY <1>2, <2>1, EndEventsTyped, RecordTyped DEF BipbipSequence
  <2>3. pc' \in [Jobs -> Labels] /\ err' \in [Jobs -> DOMAIN EndEvents]
    BY <1>2, ExitType DEF BipbipSequence
  <2>4. oarexec' \in [Jobs -> {"none", "running", "gone"}]
    BY <1>2, CleanNodesType DEF BipbipSequence
  <2> QED
    BY <1>2, <2>2, <2>3, <2>4 DEF BipbipSequence
<1>3. CASE LeonArm(j)
  <2>1. frag' \in [Jobs -> FragStates]
    BY <1>3 DEF LeonArm, FragStates
  <2>2. pc' \in [Jobs -> Labels]
    BY <1>3, GotoType DEF LeonArm
  <2> QED
    BY <1>3, <2>1, <2>2 DEF LeonArm
<1>4. CASE LeonSequence(j)
  <2>1. \A e \in events' : IsEvent(e)
    BY <1>4, RecordOneTyped DEF LeonSequence
  <2>2. pc' \in [Jobs -> Labels]
    BY <1>4, GotoType DEF LeonSequence
  <2>3. oarexec' \in [Jobs -> {"none", "running", "gone"}]
    BY <1>4, CleanNodesType DEF LeonSequence
  <2> QED
    BY <1>4, <2>1, <2>2, <2>3 DEF LeonSequence
<1>5. CASE ProcessDies(j)
  <2>1. lock' \in [Jobs -> BOOLEAN]
    BY <1>5 DEF ProcessDies
  <2>2. pc' \in [Jobs -> Labels] /\ err' \in [Jobs -> DOMAIN EndEvents]
    BY <1>5, ExitType DEF ProcessDies
  <2>3. crashes' \in Nat
    BY <1>5 DEF ProcessDies
  <2> QED
    BY <1>5, <2>1, <2>2, <2>3 DEF ProcessDies
<1>6. CASE OarexecEnds(j)
  <2>1. oarexec' \in [Jobs -> {"none", "running", "gone"}]
    BY <1>6 DEF OarexecEnds
  <2>2. code' \in [Jobs -> DOMAIN EndEvents]
    BY <1>6, ExitClassesAssumption DEF OarexecEnds
  <2>3. pending' \in [Jobs -> [CommandKinds -> Nat]]
    BY <1>6, NotifyType DEF OarexecEnds
  <2> QED
    BY <1>6, <2>1, <2>2, <2>3 DEF OarexecEnds
<1>7. CASE OarexecDies(j) BY <1>7 DEF OarexecDies
<1> QED
  BY <1>1, <1>2, <1>3, <1>4, <1>5, <1>6, <1>7 DEF LeonProcess, Oarexec

(* The initial state is typed *)
LEMMA InitTyped == ASSUME Init PROVE TypeOK
<1>1. "ok" \in DOMAIN EndEvents
  BY DEF EndEvents
<1>2. /\ lock \in [Jobs -> BOOLEAN]
      /\ termed \in [Jobs -> BOOLEAN]
  BY DEF Init
<1>3. /\ age \in [Jobs -> 0..2]
      /\ clones \in [Jobs -> Nat]
      /\ started \in [Jobs -> Nat]
      /\ pending \in [Jobs -> [CommandKinds -> Nat]]
  BY DEF Init
<1>4. /\ state \in [Jobs -> States]
      /\ frag \in [Jobs -> FragStates]
      /\ pc \in [Jobs -> Labels]
      /\ err \in [Jobs -> DOMAIN EndEvents]
      /\ code \in [Jobs -> DOMAIN EndEvents]
      /\ oarexec \in [Jobs -> {"none", "running", "gone"}]
      /\ resv \in [Jobs -> {"None", "toSchedule", "Scheduled"}]
  BY <1>1, StateNames, LabelNames DEF Init, FragStates
<1> QED
  BY <1>2, <1>3, <1>4 DEF Init, TypeOK

(* Every column keeps its domain, whatever runs: the states of the table   *)
(* jobs, those of frag_jobs, the events, the processes (JobLifecycle.Spec).*)
THEOREM TypeCorrect == Spec => []TypeOK
<1>1. Init => TypeOK
  BY InitTyped
<1>2. TypeOK /\ [Next]_vars => TypeOK'
  <2> SUFFICES ASSUME TypeOK, [Next]_vars PROVE TypeOK'
    OBVIOUS
  <2>1. CASE UNCHANGED vars
    BY <2>1 DEF vars, TypeOK, jobRow, fragRow, ncsVars, procVars, nodeVars, history
  <2>2. CASE NodeChangeState
    BY <2>2, NodeChangeStateType
  <2>3. ASSUME NEW j \in Jobs,
               Metasched(j) \/ Killers(j) \/ FragAges(j) \/ Users(j)
        PROVE  TypeOK'
    BY <2>3, MetaschedType, KillersType, UsersType
  <2>4. ASSUME NEW j \in Jobs, NEW kind \in CommandKinds, Start(j, kind)
        PROVE  TypeOK'
    BY <2>4, StartType
  <2>5. ASSUME NEW j \in Jobs,
               Bipbip(j) \/ LeonProcess(j) \/ ProcessDies(j) \/ Oarexec(j)
        PROVE  TypeOK'
    BY <2>5, BipbipLaunchType, BipbipExecType, EndType DEF Bipbip
  <2> QED
    BY <2>1, <2>2, <2>3, <2>4, <2>5 DEF Next
<1> QED
  BY <1>1, <1>2, PTL DEF Spec

-----------------------------------------------------------------------------
(* StartedOnce. Three shapes of steps: of Almighty, which may move a job   *)
(* out of Unlaunched, or between states of Unlaunched that no process is   *)
(* working on; of a process, which touches its own job only; and the steps *)
(* that touch nothing the invariant speaks of.                             *)

LEMMA QuietStep ==
  ASSUME IInv, TypeOK', UNCHANGED <<state, pc, started, lock, cur>>
  PROVE  IInv'
BY DEF IInv, StartedOnce, LaunchSafe, SeenStillTrue

LEMMA AlmightyStep ==
  ASSUME IInv, TypeOK', cur' = NoEvent, UNCHANGED <<pc, started, lock>>,
         \A k \in Jobs :
           \/ state'[k] = state[k]
           \/ state'[k] \notin Unlaunched
           \/ state[k] \in {"Waiting", "Hold", "toAckReservation"}
  PROVE  IInv'
<1>1. ASSUME NEW k \in Jobs
      PROVE  LaunchSafe(k)'
  <2>1. LaunchSafe(k)
    BY DEF IInv
  <2>2. CASE state'[k] = state[k]
    BY <2>1, <2>2 DEF LaunchSafe
  <2>3. CASE state'[k] \notin Unlaunched
    BY <2>1, <2>3 DEF LaunchSafe
  <2>4. CASE state[k] \in {"Waiting", "Hold", "toAckReservation"}
    <3>1. pc[k] \notin PastLaunch \cup {"launch"} /\ started[k] = 0
      BY <2>1, <2>4 DEF LaunchSafe, Unlaunched
    <3> QED
      BY <3>1 DEF LaunchSafe, PastLaunch
  <2> QED
    BY <2>2, <2>3, <2>4
<1>2. StartedOnce'
  BY DEF IInv, StartedOnce
<1> QED
  BY <1>1, <1>2 DEF IInv, SeenStillTrue

LEMMA ProcessStep ==
  ASSUME IInv, TypeOK', NEW j \in Jobs, UNCHANGED cur,
         \A k \in Jobs \ {j} :
           /\ state'[k] = state[k] /\ pc'[k] = pc[k]
           /\ started'[k] = started[k] /\ lock'[k] = lock[k],
         LaunchSafe(j)', started'[j] <= 1,
         state[j] \in {"Waiting", "Hold"} => state'[j] = state[j]
  PROVE  IInv'
<1>1. ASSUME NEW k \in Jobs
      PROVE  LaunchSafe(k)'
  BY DEF IInv, LaunchSafe
<1>2. StartedOnce'
  BY DEF IInv, StartedOnce
<1>3. SeenStillTrue'
  <2>1. CASE cur = NoEvent
    BY <2>1 DEF SeenStillTrue
  <2>2. CASE cur # NoEvent
    <3>1. cur.event.job \in Jobs
      BY <2>2 DEF IInv, TypeOK, IsEvent
    <3> QED
      BY <2>2, <3>1 DEF IInv, SeenStillTrue
  <2> QED
    BY <2>1, <2>2
<1> QED
  BY <1>1, <1>2, <1>3 DEF IInv

(* What set_job_state does to the jobs, as AlmightyStep asks for it *)
LEMMA SetStateMoves ==
  ASSUME TypeOK, NEW j \in Jobs, NEW s, SetState(j, s),
         \/ s \notin Unlaunched
         \/ state[j] \in {"Waiting", "Hold", "toAckReservation"}
  PROVE  \A k \in Jobs :
           \/ state'[k] = state[k]
           \/ state'[k] \notin Unlaunched
           \/ state[k] \in {"Waiting", "Hold", "toAckReservation"}
<1>1. state \in [Jobs -> States]
  BY DEF TypeOK
<1>2. \A k \in Jobs \ {j} : state'[k] = state[k]
  BY <1>1 DEF SetState
<1>3. state'[j] \in {state[j], s}
  BY <1>1 DEF SetState, After
<1> QED
  BY <1>2, <1>3

(* The states that are not Unlaunched *)
LEMMA LaunchedNames ==
  /\ "Launching" \notin Unlaunched /\ "Running" \notin Unlaunched
  /\ "Suspended" \notin Unlaunched /\ "Resuming" \notin Unlaunched
  /\ "Finishing" \notin Unlaunched /\ "Terminated" \notin Unlaunched
  /\ "Error" \notin Unlaunched
BY DEF Unlaunched

(* The metascheduler keeps the invariant *)
LEMMA MetaschedInv ==
  ASSUME IInv, TypeOK', NEW j \in Jobs, Metasched(j)
  PROVE  IInv'
<1> USE LaunchedNames
<1> USE DEF jobRow, fragRow, ncsVars, procVars, nodeVars, history, AlmightyFree
<1>0. TypeOK
  BY DEF IInv
<1>1. CASE SchedReserve(j) BY <1>0, <1>1, SetStateMoves, AlmightyStep DEF SchedReserve
<1>2. CASE SchedExpire(j)  BY <1>0, <1>2, SetStateMoves, AlmightyStep DEF SchedExpire
<1>3. CASE SchedLaunch(j)  BY <1>0, <1>3, SetStateMoves, AlmightyStep DEF SchedLaunch
<1>4. CASE SchedRelaunch(j) BY <1>4, QuietStep DEF SchedRelaunch
<1>5. CASE SchedError(j)   BY <1>0, <1>5, SetStateMoves, AlmightyStep DEF SchedError
<1>6. CASE SchedAck(j)     BY <1>0, <1>6, SetStateMoves, AlmightyStep DEF SchedAck
<1>7. CASE SchedResume(j)  BY <1>0, <1>7, SetStateMoves, AlmightyStep DEF SchedResume
<1> QED
  BY <1>1, <1>2, <1>3, <1>4, <1>5, <1>6, <1>7 DEF Metasched

(* So do Leon, Sarko, the passing of time and the users *)
LEMMA KillersInv ==
  ASSUME IInv, TypeOK', NEW j \in Jobs, Killers(j) \/ FragAges(j) \/ Users(j)
  PROVE  IInv'
<1> USE LaunchedNames
<1> USE DEF jobRow, fragRow, ncsVars, procVars, nodeVars, history, AlmightyFree
<1>0. TypeOK
  BY DEF IInv
<1>1. CASE LeonKill(j)        BY <1>0, <1>1, SetStateMoves, AlmightyStep DEF LeonKill
<1>2. CASE LeonTooLate(j)     BY <1>2, QuietStep DEF LeonTooLate
<1>3. CASE LeonExterminate(j) BY <1>0, <1>3, SetStateMoves, AlmightyStep DEF LeonExterminate
<1>4. CASE SarkoTimer(j)      BY <1>4, QuietStep DEF SarkoTimer
<1>5. CASE SarkoWalltime(j)   BY <1>5, QuietStep DEF SarkoWalltime
<1>6. CASE FragAges(j)        BY <1>6, QuietStep DEF FragAges
<1>7. CASE Users(j)
  BY <1>7, QuietStep DEF Users, Oardel, OardelForce, OarholdWaiting, OarholdRunning, Oarresume
<1> QED
  BY <1>1, <1>2, <1>3, <1>4, <1>5, <1>6, <1>7 DEF Killers

(* So does NodeChangeState: it puts a job back in Waiting or in Hold when  *)
(* it read it in one of them, and SeenStillTrue says that this is current  *)
LEMMA NodeChangeStateInv ==
  ASSUME IInv, TypeOK', NodeChangeState
  PROVE  IInv'
<1> USE LaunchedNames
<1> USE DEF jobRow, fragRow, ncsVars, procVars, nodeVars, history
<1>0. TypeOK
  BY DEF IInv
<1>1. CASE NCSStart  BY <1>1, QuietStep DEF NCSStart
<1>2. CASE NCSRead
  <2>1. SeenStillTrue'
    <3>1. PICK e \in todo : cur' = [event |-> e, seen |-> state[e.job]]
      BY <1>2 DEF NCSRead
    <3> QED
      BY <1>2, <3>1 DEF NCSRead, SeenStillTrue
  <2>2. UNCHANGED <<state, pc, started, lock>>
    BY <1>2 DEF NCSRead
  <2> QED
    BY <2>1, <2>2 DEF IInv, StartedOnce, LaunchSafe
<1>3. CASE NCSSwitch
  <2>1. cur.event.job \in Jobs
    BY <1>0, <1>3 DEF NCSSwitch, TypeOK, IsEvent
  <2>2. Target(cur.event) \notin Unlaunched
    BY <1>3 DEF NCSSwitch, Target
  <2>3. SetState(cur.event.job, Target(cur.event)) /\ cur' = NoEvent
    BY <1>3 DEF NCSSwitch, Checked
  <2> QED
    BY <1>0, <1>3, <2>1, <2>2, <2>3, SetStateMoves, AlmightyStep DEF NCSSwitch
<1>4. CASE NCSHold
  <2> DEFINE target == HoldTarget(cur.event.type, cur.seen)
  <2>1. cur.event.job \in Jobs
    BY <1>0, <1>4 DEF NCSHold, TypeOK, IsEvent
  <2>2. SetState(cur.event.job, target) /\ cur' = NoEvent /\ target # "" /\ cur # NoEvent
    BY <1>4 DEF NCSHold, Checked
  <2>3. target \notin Unlaunched \/ cur.seen \in {"Waiting", "Hold"}
    BY <2>2 DEF HoldTarget
  <2>4. target \notin Unlaunched \/ state[cur.event.job] \in {"Waiting", "Hold"}
    BY <2>2, <2>3 DEF IInv, SeenStillTrue
  <2> HIDE DEF target
  <2> QED
    BY <1>0, <1>4, <2>1, <2>2, <2>4, SetStateMoves, AlmightyStep DEF NCSHold
<1>5. CASE NCSSuspend
  <2>1. cur.event.job \in Jobs
    BY <1>0, <1>5 DEF NCSSuspend, TypeOK, IsEvent
  <2>2. \/ SetState(cur.event.job, "Suspended")
        \/ SetState(cur.event.job, "Resuming")
        \/ state' = state
    BY <1>5 DEF NCSSuspend
  <2> QED
    BY <1>0, <1>5, <2>1, <2>2, SetStateMoves, AlmightyStep DEF NCSSuspend, Checked
<1>6. CASE NCSIgnore BY <1>6, AlmightyStep DEF NCSIgnore, Checked
<1> QED
  BY <1>1, <1>2, <1>3, <1>4, <1>5, <1>6 DEF NodeChangeState

(* bipbip keeps the invariant while it prepares the job *)
LEMMA BipbipLaunchInv ==
  ASSUME IInv, TypeOK', NEW j \in Jobs,
         BipbipRead(j) \/ BipbipLaunch(j) \/ BipbipFlush(j)
           \/ BipbipNoop(j) \/ BipbipPrepare(j)
  PROVE  IInv'
<1> USE DEF jobRow, fragRow, ncsVars, procVars, nodeVars, history
<1> DEFINE Others ==
      \A k \in Jobs \ {j} :
        /\ state'[k] = state[k] /\ pc'[k] = pc[k]
        /\ started'[k] = started[k] /\ lock'[k] = lock[k]
<1>0. /\ state \in [Jobs -> States] /\ pc \in [Jobs -> Labels]
      /\ started \in [Jobs -> Nat] /\ lock \in [Jobs -> BOOLEAN]
      /\ LaunchSafe(j) /\ started[j] <= 1
  BY DEF IInv, TypeOK, StartedOnce
<1>1. CASE BipbipRead(j)
  <2>1. Others
    BY <1>0, <1>1 DEF BipbipRead, Goto, Exit, Started
  <2>2. LaunchSafe(j)'
    BY <1>0, <1>1
       DEF BipbipRead, Goto, Exit, Started, LaunchSafe, BeforeExec,
           PastLaunch, Unlaunched
  <2>3. started'[j] <= 1
    BY <1>0, <1>1 DEF BipbipRead, Goto, Exit, Started, LaunchSafe, BeforeExec
  <2>4. state[j] \in {"Waiting", "Hold"} => state'[j] = state[j]
    BY <1>0, <1>1
       DEF BipbipRead, Goto, Exit, Started, LaunchSafe, PastLaunch,
           Unlaunched
  <2> QED
    BY <1>1, <2>1, <2>2, <2>3, <2>4, ProcessStep DEF BipbipRead
<1>2. CASE BipbipLaunch(j)
  <2>1. Others
    BY <1>0, <1>2 DEF BipbipLaunch, Goto, SetState, After
  <2>2. LaunchSafe(j)'
    BY <1>0, <1>2
       DEF BipbipLaunch, Goto, SetState, After, LaunchSafe, BeforeExec,
           PastLaunch, Unlaunched, Over
  <2>3. started'[j] <= 1
    BY <1>0, <1>2
       DEF BipbipLaunch, Goto, SetState, After, LaunchSafe, BeforeExec, Over
  <2>4. state[j] \in {"Waiting", "Hold"} => state'[j] = state[j]
    BY <1>0, <1>2
       DEF BipbipLaunch, Goto, SetState, After, LaunchSafe, PastLaunch,
           Unlaunched, Over
  <2> QED
    BY <1>2, <2>1, <2>2, <2>3, <2>4, ProcessStep DEF BipbipLaunch
<1>3. CASE BipbipFlush(j)
  <2>1. Others
    BY <1>0, <1>3 DEF BipbipFlush, Goto
  <2>2. LaunchSafe(j)'
    BY <1>0, <1>3
       DEF BipbipFlush, Goto, LaunchSafe, BeforeExec, PastLaunch, Unlaunched
  <2>3. started'[j] <= 1
    BY <1>0, <1>3 DEF BipbipFlush, Goto, LaunchSafe, BeforeExec
  <2>4. state[j] \in {"Waiting", "Hold"} => state'[j] = state[j]
    BY <1>0, <1>3 DEF BipbipFlush, Goto, LaunchSafe, PastLaunch, Unlaunched
  <2> QED
    BY <1>3, <2>1, <2>2, <2>3, <2>4, ProcessStep DEF BipbipFlush
<1>4. CASE BipbipNoop(j)
  <2>1. Others
    BY <1>0, <1>4 DEF BipbipNoop, Goto, Exit
  <2>2. LaunchSafe(j)'
    BY <1>0, <1>4
       DEF BipbipNoop, Goto, Exit, LaunchSafe, BeforeExec, PastLaunch,
           Unlaunched
  <2>3. started'[j] <= 1
    BY <1>0, <1>4 DEF BipbipNoop, Goto, Exit, LaunchSafe, BeforeExec
  <2>4. state[j] \in {"Waiting", "Hold"} => state'[j] = state[j]
    BY <1>0, <1>4
       DEF BipbipNoop, Goto, Exit, LaunchSafe, PastLaunch, Unlaunched
  <2> QED
    BY <1>4, <2>1, <2>2, <2>3, <2>4, ProcessStep DEF BipbipNoop
<1>5. CASE BipbipPrepare(j)
  <2>1. Others
    BY <1>0, <1>5 DEF BipbipPrepare, Goto, Exit, Commit
  <2>2. LaunchSafe(j)'
    BY <1>0, <1>5
       DEF BipbipPrepare, Goto, Exit, Commit, LaunchSafe, BeforeExec,
           PastLaunch, Unlaunched
  <2>3. started'[j] <= 1
    BY <1>0, <1>5 DEF BipbipPrepare, Goto, Exit, Commit, LaunchSafe, BeforeExec
  <2>4. state[j] \in {"Waiting", "Hold"} => state'[j] = state[j]
    BY <1>0, <1>5
       DEF BipbipPrepare, Goto, Exit, Commit, LaunchSafe, PastLaunch,
           Unlaunched
  <2> QED
    BY <1>5, <2>1, <2>2, <2>3, <2>4, ProcessStep DEF BipbipPrepare
<1> QED
  BY <1>1, <1>2, <1>3, <1>4, <1>5

(* It does while it starts oarexec *)
LEMMA BipbipExecInv ==
  ASSUME IInv, TypeOK', NEW j \in Jobs,
         BipbipReport(j) \/ BipbipPrologue(j) \/ BipbipExec(j)
           \/ BipbipQuit(j) \/ BipbipSetRunning(j)
  PROVE  IInv'
<1> USE DEF jobRow, fragRow, ncsVars, procVars, nodeVars, history
<1> DEFINE Others ==
      \A k \in Jobs \ {j} :
        /\ state'[k] = state[k] /\ pc'[k] = pc[k]
        /\ started'[k] = started[k] /\ lock'[k] = lock[k]
<1>0. /\ state \in [Jobs -> States] /\ pc \in [Jobs -> Labels]
      /\ started \in [Jobs -> Nat] /\ lock \in [Jobs -> BOOLEAN]
      /\ LaunchSafe(j) /\ started[j] <= 1
  BY DEF IInv, TypeOK, StartedOnce
<1>1. CASE BipbipReport(j)
  <2>1. Others
    BY <1>0, <1>1 DEF BipbipReport, Goto, Exit
  <2>2. LaunchSafe(j)'
    BY <1>0, <1>1
       DEF BipbipReport, Goto, Exit, LaunchSafe, BeforeExec, PastLaunch,
           Unlaunched
  <2>3. started'[j] <= 1
    BY <1>0, <1>1 DEF BipbipReport, Goto, Exit, LaunchSafe, BeforeExec
  <2>4. state[j] \in {"Waiting", "Hold"} => state'[j] = state[j]
    BY <1>0, <1>1
       DEF BipbipReport, Goto, Exit, LaunchSafe, PastLaunch, Unlaunched
  <2> QED
    BY <1>1, <2>1, <2>2, <2>3, <2>4, ProcessStep DEF BipbipReport
<1>2. CASE BipbipPrologue(j)
  <2>1. Others
    BY <1>0, <1>2 DEF BipbipPrologue, Goto, Commit
  <2>2. LaunchSafe(j)'
    BY <1>0, <1>2
       DEF BipbipPrologue, Goto, Commit, LaunchSafe, BeforeExec, PastLaunch,
           Unlaunched
  <2>3. started'[j] <= 1
    BY <1>0, <1>2 DEF BipbipPrologue, Goto, Commit, LaunchSafe, BeforeExec
  <2>4. state[j] \in {"Waiting", "Hold"} => state'[j] = state[j]
    BY <1>0, <1>2
       DEF BipbipPrologue, Goto, Commit, LaunchSafe, PastLaunch, Unlaunched
  <2> QED
    BY <1>2, <2>1, <2>2, <2>3, <2>4, ProcessStep DEF BipbipPrologue
<1>3. CASE BipbipExec(j)
  <2>1. Others
    BY <1>0, <1>3 DEF BipbipExec, Goto, SeenByProcess, Started
  <2>2. LaunchSafe(j)'
    BY <1>0, <1>3
       DEF BipbipExec, Goto, SeenByProcess, Started, LaunchSafe, BeforeExec,
           PastLaunch, Unlaunched
  <2>3. started'[j] <= 1
    BY <1>0, <1>3
       DEF BipbipExec, Goto, SeenByProcess, Started, LaunchSafe, BeforeExec
  <2>4. state[j] \in {"Waiting", "Hold"} => state'[j] = state[j]
    BY <1>0, <1>3
       DEF BipbipExec, Goto, SeenByProcess, Started, LaunchSafe, PastLaunch,
           Unlaunched
  <2> QED
    BY <1>3, <2>1, <2>2, <2>3, <2>4, ProcessStep DEF BipbipExec
<1>4. CASE BipbipQuit(j)
  <2>1. Others
    BY <1>0, <1>4 DEF BipbipQuit, Goto, Exit
  <2>2. LaunchSafe(j)'
    BY <1>0, <1>4
       DEF BipbipQuit, Goto, Exit, LaunchSafe, BeforeExec, PastLaunch,
           Unlaunched
  <2>3. started'[j] <= 1
    BY <1>0, <1>4 DEF BipbipQuit, Goto, Exit, LaunchSafe, BeforeExec
  <2>4. state[j] \in {"Waiting", "Hold"} => state'[j] = state[j]
    BY <1>0, <1>4
       DEF BipbipQuit, Goto, Exit, LaunchSafe, PastLaunch, Unlaunched
  <2> QED
    BY <1>4, <2>1, <2>2, <2>3, <2>4, ProcessStep DEF BipbipQuit
<1>5. CASE BipbipSetRunning(j)
  <2>1. Others
    BY <1>0, <1>5 DEF BipbipSetRunning, Goto, Exit, After, Over
  <2>2. LaunchSafe(j)'
    BY <1>0, <1>5
       DEF BipbipSetRunning, Goto, Exit, After, Over, LaunchSafe, BeforeExec,
           PastLaunch, Unlaunched
  <2>3. started'[j] <= 1
    BY <1>0, <1>5
       DEF BipbipSetRunning, Goto, Exit, After, Over, LaunchSafe, BeforeExec
  <2>4. state[j] \in {"Waiting", "Hold"} => state'[j] = state[j]
    BY <1>0, <1>5
       DEF BipbipSetRunning, Goto, Exit, After, Over, LaunchSafe, PastLaunch,
           Unlaunched
  <2> QED
    BY <1>5, <2>1, <2>2, <2>3, <2>4, ProcessStep DEF BipbipSetRunning
<1> QED
  BY <1>1, <1>2, <1>3, <1>4, <1>5

(* So do the end of a job and of a process *)
LEMMA EndInv ==
  ASSUME IInv, TypeOK', NEW j \in Jobs,
         BipbipFinish(j) \/ BipbipSequence(j) \/ LeonArm(j)
           \/ LeonSequence(j) \/ ProcessDies(j)
  PROVE  IInv'
<1> USE DEF jobRow, fragRow, ncsVars, procVars, nodeVars, history
<1> DEFINE Others ==
      \A k \in Jobs \ {j} :
        /\ state'[k] = state[k] /\ pc'[k] = pc[k]
        /\ started'[k] = started[k] /\ lock'[k] = lock[k]
<1>0. /\ state \in [Jobs -> States] /\ pc \in [Jobs -> Labels]
      /\ started \in [Jobs -> Nat] /\ lock \in [Jobs -> BOOLEAN]
      /\ LaunchSafe(j) /\ started[j] <= 1
  BY DEF IInv, TypeOK, StartedOnce
<1>1. CASE BipbipFinish(j)
  <2>1. Others
    BY <1>0, <1>1 DEF BipbipFinish, Goto, Commit, SetState, After
  <2>2. LaunchSafe(j)'
    BY <1>0, <1>1
       DEF BipbipFinish, Goto, Commit, SetState, After, LaunchSafe,
           BeforeExec, PastLaunch, Unlaunched
  <2>3. started'[j] <= 1
    BY <1>0, <1>1
       DEF BipbipFinish, Goto, Commit, SetState, After, LaunchSafe,
           BeforeExec
  <2>4. state[j] \in {"Waiting", "Hold"} => state'[j] = state[j]
    BY <1>0, <1>1
       DEF BipbipFinish, Goto, Commit, SetState, After, LaunchSafe,
           PastLaunch, Unlaunched
  <2> QED
    BY <1>1, <2>1, <2>2, <2>3, <2>4, ProcessStep DEF BipbipFinish
<1>2. CASE BipbipSequence(j)
  <2>1. Others
    BY <1>0, <1>2 DEF BipbipSequence, Goto, Exit
  <2>2. LaunchSafe(j)'
    BY <1>0, <1>2
       DEF BipbipSequence, Goto, Exit, LaunchSafe, BeforeExec, PastLaunch,
           Unlaunched
  <2>3. started'[j] <= 1
    BY <1>0, <1>2 DEF BipbipSequence, Goto, Exit, LaunchSafe, BeforeExec
  <2>4. state[j] \in {"Waiting", "Hold"} => state'[j] = state[j]
    BY <1>0, <1>2
       DEF BipbipSequence, Goto, Exit, LaunchSafe, PastLaunch, Unlaunched
  <2> QED
    BY <1>2, <2>1, <2>2, <2>3, <2>4, ProcessStep DEF BipbipSequence
<1>3. CASE LeonArm(j)
  <2>1. Others
    BY <1>0, <1>3 DEF LeonArm, Goto
  <2>2. LaunchSafe(j)'
    BY <1>0, <1>3
       DEF LeonArm, Goto, LaunchSafe, BeforeExec, PastLaunch, Unlaunched
  <2>3. started'[j] <= 1
    BY <1>0, <1>3 DEF LeonArm, Goto, LaunchSafe, BeforeExec
  <2>4. state[j] \in {"Waiting", "Hold"} => state'[j] = state[j]
    BY <1>0, <1>3 DEF LeonArm, Goto, LaunchSafe, PastLaunch, Unlaunched
  <2> QED
    BY <1>3, <2>1, <2>2, <2>3, <2>4, ProcessStep DEF LeonArm
<1>4. CASE LeonSequence(j)
  <2>1. Others
    BY <1>0, <1>4 DEF LeonSequence, Goto
  <2>2. LaunchSafe(j)'
    BY <1>0, <1>4
       DEF LeonSequence, Goto, LaunchSafe, BeforeExec, PastLaunch,
           Unlaunched
  <2>3. started'[j] <= 1
    BY <1>0, <1>4 DEF LeonSequence, Goto, LaunchSafe, BeforeExec
  <2>4. state[j] \in {"Waiting", "Hold"} => state'[j] = state[j]
    BY <1>0, <1>4 DEF LeonSequence, Goto, LaunchSafe, PastLaunch, Unlaunched
  <2> QED
    BY <1>4, <2>1, <2>2, <2>3, <2>4, ProcessStep DEF LeonSequence
<1>5. CASE ProcessDies(j)
  <2>1. Others
    BY <1>0, <1>5 DEF ProcessDies, Goto, Exit
  <2>2. LaunchSafe(j)'
    BY <1>0, <1>5
       DEF ProcessDies, Goto, Exit, LaunchSafe, BeforeExec, PastLaunch,
           Unlaunched
  <2>3. started'[j] <= 1
    BY <1>0, <1>5 DEF ProcessDies, Goto, Exit, LaunchSafe, BeforeExec
  <2>4. state[j] \in {"Waiting", "Hold"} => state'[j] = state[j]
    BY <1>0, <1>5
       DEF ProcessDies, Goto, Exit, LaunchSafe, PastLaunch, Unlaunched
  <2> QED
    BY <1>5, <2>1, <2>2, <2>3, <2>4, ProcessStep DEF ProcessDies
<1> QED
  BY <1>1, <1>2, <1>3, <1>4, <1>5

(* So does the start of a process *)
LEMMA StartInv ==
  ASSUME IInv, TypeOK', NEW j \in Jobs, NEW kind \in CommandKinds, Start(j, kind)
  PROVE  IInv'
<1> USE DEF jobRow, fragRow, ncsVars, procVars, nodeVars, history
<1>1. pc \in [Jobs -> Labels] /\ LaunchSafe(j) /\ started[j] <= 1
  BY DEF IInv, TypeOK, StartedOnce
<1>2. pc'[j] \in {"readRun", "readEnd", "leon"} /\ \A k \in Jobs \ {j} : pc'[k] = pc[k]
  BY <1>1 DEF Start, Goto, StartLabel, CommandKinds
<1>3. LaunchSafe(j)'
  BY <1>1, <1>2 DEF Start, LaunchSafe, BeforeExec, PastLaunch
<1> QED
  BY <1>1, <1>2, <1>3, ProcessStep DEF Start

(* The strengthening holds of every reachable state: what the row, the     *)
(* process, the open transaction (bipbip.py:158) and the copy read by      *)
(* NodeChangeState may be together.                                        *)
THEOREM Inductive == Spec => []IInv
<1>1. Init => IInv
  <2> SUFFICES ASSUME Init PROVE IInv
    OBVIOUS
  <2>1. TypeOK
    BY InitTyped
  <2> QED
    BY <2>1
       DEF Init, IInv, StartedOnce, LaunchSafe, SeenStillTrue, BeforeExec,
           PastLaunch
<1>2. IInv /\ TypeOK' /\ [Next]_vars => IInv'
  <2> SUFFICES ASSUME IInv, TypeOK', [Next]_vars PROVE IInv'
    OBVIOUS
  <2>1. CASE UNCHANGED vars
    BY <2>1, QuietStep DEF vars, jobRow, ncsVars, procVars, nodeVars
  <2>2. CASE NodeChangeState
    BY <2>2, NodeChangeStateInv
  <2>3. ASSUME NEW j \in Jobs,
               Metasched(j) \/ Killers(j) \/ FragAges(j) \/ Users(j)
        PROVE  IInv'
    BY <2>3, MetaschedInv, KillersInv
  <2>4. ASSUME NEW j \in Jobs, NEW kind \in CommandKinds, Start(j, kind)
        PROVE  IInv'
    BY <2>4, StartInv
  <2>5. ASSUME NEW j \in Jobs, Bipbip(j) \/ LeonProcess(j) \/ ProcessDies(j)
        PROVE  IInv'
    BY <2>5, BipbipLaunchInv, BipbipExecInv, EndInv DEF Bipbip, LeonProcess
  <2>6. ASSUME NEW j \in Jobs, Oarexec(j)
        PROVE  IInv'
    <3>1. UNCHANGED <<state, pc, started, lock, cur>>
      BY <2>6 DEF Oarexec, OarexecEnds, OarexecDies, jobRow, ncsVars, procVars
    <3> QED
      BY <3>1, QuietStep
  <2> QED
    BY <2>1, <2>2, <2>3, <2>4, <2>5, <2>6 DEF Next
<1> QED
  BY <1>1, <1>2, TypeCorrect, PTL DEF Spec

(* The command of a job is started at most once, whatever the commands at  *)
(* the commander, the deaths of bipbip and the messages of oarexec: the    *)
(* state toLaunch is left for good before launch_oarexec (bipbip.py, run). *)
THEOREM CommandStartedOnce == Spec => []StartedOnce
<1>1. IInv => StartedOnce
  BY DEF IInv
<1> QED
  BY <1>1, Inductive, PTL

-----------------------------------------------------------------------------
(* OverChangesOnlyUnderLock. set_job_state never moves a job that is over; *)
(* the writes without its filters are commits of a process that holds the  *)
(* row, a noop process among them by the invariant.                        *)

LEMMA SetStateKeepsOver ==
  ASSUME TypeOK, NEW j, NEW s, SetState(j, s)
  PROVE  OverKept
BY DEF TypeOK, SetState, After, OverKept

LEMMA CommitKeepsOver ==
  ASSUME TypeOK, NEW j, Commit(j)
  PROVE  OverKept
BY DEF TypeOK, Commit, OverKept

LEMMA AlmightyKeepsOver ==
  ASSUME TypeOK, NodeChangeState \/ \E j \in Jobs : Metasched(j) \/ Killers(j)
  PROVE  OverKept
<1>1. state' = state \/ \E j, s : SetState(j, s)
  <2>1. CASE NodeChangeState
    BY <2>1 DEF NodeChangeState, NCSStart, NCSRead, NCSSwitch, NCSHold,
                NCSSuspend, NCSIgnore, jobRow
  <2>2. ASSUME NEW j \in Jobs, Metasched(j)
        PROVE  state' = state \/ \E s : SetState(j, s)
    BY <2>2 DEF Metasched, SchedReserve, SchedExpire, SchedLaunch, SchedRelaunch,
                SchedError, SchedAck, SchedResume, jobRow
  <2>3. ASSUME NEW j \in Jobs, Killers(j)
        PROVE  state' = state \/ \E s : SetState(j, s)
    BY <2>3 DEF Killers, LeonKill, LeonTooLate, LeonExterminate, SarkoTimer,
                SarkoWalltime, jobRow
  <2> QED
    BY <2>1, <2>2, <2>3
<1>2. CASE state' = state
  BY <1>2 DEF OverKept
<1> QED
  BY <1>1, <1>2, SetStateKeepsOver

LEMMA BipbipKeepsOver ==
  ASSUME IInv, NEW j \in Jobs, Bipbip(j)
  PROVE  OverKept
<1> USE DEF jobRow
<1>0. TypeOK /\ LaunchSafe(j)
  BY DEF IInv
<1>1. CASE BipbipRead(j)     BY <1>1 DEF BipbipRead, OverKept
<1>2. CASE BipbipLaunch(j)   BY <1>0, <1>2, SetStateKeepsOver DEF BipbipLaunch
<1>3. CASE BipbipFlush(j)    BY <1>3 DEF BipbipFlush, OverKept
<1>4. CASE BipbipNoop(j)
  <2>1. lock[j] /\ state' = [state EXCEPT ![j] = "Running"]
    BY <1>0, <1>4 DEF BipbipNoop, LaunchSafe
  <2> QED
    BY <1>0, <2>1 DEF OverKept, TypeOK
<1>5. CASE BipbipPrepare(j)  BY <1>0, <1>5, CommitKeepsOver DEF BipbipPrepare, OverKept
<1>6. CASE BipbipReport(j)   BY <1>6 DEF BipbipReport, OverKept
<1>7. CASE BipbipPrologue(j) BY <1>0, <1>7, CommitKeepsOver DEF BipbipPrologue, OverKept
<1>8. CASE BipbipExec(j)     BY <1>8 DEF BipbipExec, OverKept
<1>9. CASE BipbipQuit(j)     BY <1>9 DEF BipbipQuit, OverKept
<1>10. CASE BipbipSetRunning(j)
  BY <1>0, <1>10 DEF BipbipSetRunning, After, OverKept, TypeOK
<1>11. CASE BipbipFinish(j)
  BY <1>0, <1>11, CommitKeepsOver, SetStateKeepsOver DEF BipbipFinish
<1>12. CASE BipbipSequence(j) BY <1>12 DEF BipbipSequence, OverKept
<1> QED
  BY <1>1, <1>2, <1>3, <1>4, <1>5, <1>6, <1>7, <1>8, <1>9, <1>10, <1>11, <1>12
     DEF Bipbip

(* A job that is over is brought back only by a process that had flushed   *)
(* its Launching before (bipbip.py:158), whatever the modules, the users   *)
(* and the other processes do (set_job_state).                             *)
THEOREM OverIsKept == Spec => OverChangesOnlyUnderLock
<1>1. IInv /\ [Next]_vars => [OverKept]_vars
  <2> SUFFICES ASSUME IInv, [Next]_vars PROVE OverKept \/ UNCHANGED vars
    BY DEF OverKept
  <2>0. TypeOK
    BY DEF IInv
  <2>1. CASE NodeChangeState \/ \E j \in Jobs : Metasched(j) \/ Killers(j)
    BY <2>0, <2>1, AlmightyKeepsOver
  <2>2. ASSUME NEW j \in Jobs, Bipbip(j)
        PROVE  OverKept
    BY <2>2, BipbipKeepsOver
  <2>3. ASSUME NEW j \in Jobs,
               \/ FragAges(j) \/ Users(j) \/ LeonProcess(j) \/ ProcessDies(j)
               \/ Oarexec(j) \/ \E kind \in CommandKinds : Start(j, kind)
        PROVE  state' = state
    BY <2>3 DEF FragAges, Users, Oardel, OardelForce, OarholdWaiting,
                OarholdRunning, Oarresume, LeonProcess, LeonArm, LeonSequence,
                ProcessDies, Oarexec, OarexecEnds, OarexecDies, Start, jobRow
  <2>4. CASE state' = state
    BY <2>4 DEF OverKept
  <2> QED
    BY <2>1, <2>2, <2>3, <2>4 DEF Next
<1> QED
  BY <1>1, Inductive, PTL DEF Spec, OverChangesOnlyUnderLock

-----------------------------------------------------------------------------
(* FraggedJobIsOver. A job that has ended is alive again when a process    *)
(* writes Launching or Running without looking: before Sarko gives up, no  *)
(* process may be left that would. While one is there, the job is Finishing*)
(* only because Leon exterminates it, and its row in frag_jobs waits for   *)
(* the leon process, which comes after; and no event can end it, since     *)
(* nothing has happened to a job that was not launched.                    *)

Ending == TerminateEvents \cup ErrorEvents \cup BadNodeEvents

Known == events \cup todo \cup (IF cur = NoEvent THEN {} ELSE {cur.event})

NoEnding(j) == \A e \in Known : e.job = j => e.type \notin Ending

Ended(s) == s \in Over \cup {"Finishing"}

Exterminated(j) == frag[j] = "LEON_EXTERMINATE"

KillSafe(j) ==
  /\ pc[j] \in {"launch", "flush"} \/ lock[j] => Exterminated(j) \/ (NoEnding(j) /\ ~Ended(state[j]))
  /\ state[j] \in Unlaunched => NoEnding(j)
  /\ pc[j] \in {"sequence", "leon", "leonseq"} \/ pending[j]["leon"] > 0 => state[j] \notin Unlaunched
  /\ pc[j] \in {"report", "prologue", "exec", "setrun"} /\ state[j] = "Finishing" => Exterminated(j)
  /\ pc[j] = "prepare" => lock[j]
  /\ lock[j] => pc[j] \in {"prepare", "prologue", "exec", "setrun", "finish"}
  /\ frag[j] = "FRAGGED" => /\ Ended(state[j])
                            /\ cur # NoEvent /\ cur.event.job = j => Ended(cur.seen)

KInv == \A j \in Jobs \ Noop : KillSafe(j)

(* A job that a step leaves alone, and a step of one job *)
SameRow(k) ==
  /\ state'[k] = state[k] /\ pc'[k] = pc[k] /\ lock'[k] = lock[k]
  /\ frag'[k] = frag[k] /\ pending'[k]["leon"] = pending[k]["leon"]

SeenIsRead(k) ==
  cur' # NoEvent /\ cur'.event.job = k =>
    cur'.seen = state[k] \/ (cur # NoEvent /\ cur.event.job = k /\ cur'.seen = cur.seen)

Calm(k) == SameRow(k) /\ SeenIsRead(k) /\ (NoEnding(k) => NoEnding(k)')

LEMMA CalmJob ==
  ASSUME NEW k \in Jobs, KillSafe(k), Calm(k)
  PROVE  KillSafe(k)'
<1>1. SameRow(k) /\ SeenIsRead(k) /\ (NoEnding(k) => NoEnding(k)')
  BY DEF Calm
<1> QED
  BY <1>1 DEF KillSafe, SameRow, SeenIsRead, Exterminated, Ended

LEMMA OneJobMoves ==
  ASSUME KInv, NEW j \in Jobs, \A k \in Jobs \ {j} : Calm(k),
         j \notin Noop => KillSafe(j)'
  PROVE  KInv'
BY CalmJob DEF KInv

(* Rows of the event table for a job are nothing to the others *)
LEMMA EventsOfOne ==
  ASSUME NEW j \in Jobs, NEW k \in Jobs \ {j}, UNCHANGED <<todo, cur>>,
         events' = events \/ \E types : Record(j, types)
  PROVE  (NoEnding(k) => NoEnding(k)') /\ SeenIsRead(k)
BY DEF NoEnding, Known, Record, SeenIsRead

(* Rows that do not end the job are nothing to it *)
LEMMA QuietEvents ==
  ASSUME NEW j \in Jobs, UNCHANGED <<todo, cur>>,
         \/ events' = events
         \/ \E types : Record(j, types) /\ \A i \in DOMAIN types : types[i] \notin Ending
  PROVE  (NoEnding(j) => NoEnding(j)') /\ SeenIsRead(j)
BY DEF NoEnding, Known, Record, SeenIsRead

LEMMA OneRow ==
  ASSUME KInv, NEW j \in Jobs, \A k \in Jobs \ {j} : SameRow(k), UNCHANGED <<todo, cur>>,
         events' = events \/ \E types : Record(j, types),
         j \notin Noop => KillSafe(j)'
  PROVE  KInv'
BY OneJobMoves, EventsOfOne DEF Calm

(* The columns are functions of the jobs *)
LEMMA Columns ==
  ASSUME TypeOK
  PROVE  /\ state \in [Jobs -> States] /\ pc \in [Jobs -> Labels] /\ lock \in [Jobs -> BOOLEAN]
         /\ frag \in [Jobs -> FragStates] /\ pending \in [Jobs -> [CommandKinds -> Nat]]
BY DEF TypeOK

(* A command more or less at the commander *)
LEMMA NotifyRow ==
  ASSUME TypeOK, NEW j \in Jobs, NEW kind \in CommandKinds, Notify(j, kind)
  PROVE  /\ \A k \in Jobs \ {j} : pending'[k]["leon"] = pending[k]["leon"]
         /\ kind # "leon" => pending'[j]["leon"] = pending[j]["leon"]
BY DEF TypeOK, Notify, CommandKinds

LEMMA StartRow ==
  ASSUME TypeOK, NEW j \in Jobs, NEW kind \in CommandKinds, Start(j, kind)
  PROVE  /\ \A k \in Jobs \ {j} : pending'[k]["leon"] = pending[k]["leon"]
         /\ pending'[j]["leon"] \in Nat /\ pending'[j]["leon"] <= pending[j]["leon"]
         /\ pending[j][kind] > 0
<1>1. pending[j] \in [CommandKinds -> Nat] /\ pending[j][kind] > 0 /\ "leon" \in CommandKinds
  BY DEF TypeOK, Start, CommandKinds
<1>2. pending' = [pending EXCEPT ![j] = [pending[j] EXCEPT ![kind] = pending[j][kind] - 1]]
  BY DEF Start
<1> DEFINE left == [pending[j] EXCEPT ![kind] = pending[j][kind] - 1]
<1>3. left["leon"] = IF kind = "leon" THEN pending[j]["leon"] - 1 ELSE pending[j]["leon"]
  BY <1>1
<1>4. left["leon"] \in Nat /\ left["leon"] <= pending[j]["leon"]
  BY <1>1, <1>3
<1> HIDE DEF left
<1>5. pending' = [pending EXCEPT ![j] = left]
  BY <1>2 DEF left
<1> QED
  BY <1>1, <1>4, <1>5 DEF TypeOK

-----------------------------------------------------------------------------
(* A step of one job that tells nothing of its end to the event table *)
LEMMA QuietRow ==
  ASSUME KInv, NEW j \in Jobs, \A k \in Jobs \ {j} : SameRow(k), UNCHANGED <<events, todo, cur>>,
         j \notin Noop /\ (NoEnding(j) => NoEnding(j)') => KillSafe(j)'
  PROVE  KInv'
<1>1. NoEnding(j) => NoEnding(j)'
  BY DEF NoEnding, Known
<1> QED
  BY <1>1, OneRow

(* The metascheduler keeps KInv *)
LEMMA MetaschedKill ==
  ASSUME IInv, KInv, NEW j \in Jobs, Metasched(j)
  PROVE  KInv'
<1> USE DEF jobRow, fragRow, ncsVars, procVars, nodeVars, history
<1>0. /\ state \in [Jobs -> States] /\ pc \in [Jobs -> Labels] /\ lock \in [Jobs -> BOOLEAN]
      /\ frag \in [Jobs -> FragStates] /\ LaunchSafe(j) /\ (j \notin Noop => KillSafe(j)) /\ TypeOK
  BY Columns DEF IInv, KInv
<1> DEFINE Others == \A k \in Jobs \ {j} : SameRow(k)
<1> DEFINE Mine == j \notin Noop /\ (NoEnding(j) => NoEnding(j)') => KillSafe(j)'
<1> DEFINE Quiet == UNCHANGED <<events, todo, cur>>
<1>1. SchedReserve(j) => Others /\ Mine /\ Quiet
  BY <1>0 DEF SchedReserve, SetState, After, AlmightyFree, SameRow, LaunchSafe, PastLaunch,
              KillSafe, Unlaunched, Over, Ended, Exterminated
<1>2. SchedExpire(j) => Others /\ Mine /\ Quiet
  BY <1>0 DEF SchedExpire, SetState, After, AlmightyFree, SameRow, LaunchSafe, PastLaunch,
              KillSafe, Unlaunched, Over, Ended, Exterminated
<1>3. SchedLaunch(j) => Others /\ Mine /\ Quiet
  <2>1. ASSUME SchedLaunch(j)
        PROVE  \A k \in Jobs : pending'[k]["leon"] = pending[k]["leon"]
    BY <1>0, <2>1, NotifyRow DEF SchedLaunch, CommandKinds
  <2> QED
  BY <1>0, <2>1 DEF SchedLaunch, SetState, After, AlmightyFree, SameRow, LaunchSafe, PastLaunch,
              KillSafe, Unlaunched, Over, Ended, Exterminated
<1>4. SchedRelaunch(j) => Others /\ Mine /\ Quiet
  <2>1. ASSUME SchedRelaunch(j)
        PROVE  \A k \in Jobs : pending'[k]["leon"] = pending[k]["leon"]
    BY <1>0, <2>1, NotifyRow DEF SchedRelaunch, CommandKinds
  <2> QED
  BY <1>0, <2>1 DEF SchedRelaunch, SameRow, KillSafe, Exterminated
<1>5. SchedError(j) => Others /\ Mine /\ Quiet
  BY <1>0 DEF SchedError, SetState, After, AlmightyFree, SameRow, LaunchSafe, PastLaunch,
              KillSafe, Unlaunched, Over, Ended, Exterminated
<1>6. SchedAck(j) => Others /\ Mine /\ Quiet
  BY <1>0 DEF SchedAck, FragJob, SetState, After, AlmightyFree, SameRow, LaunchSafe, PastLaunch,
              KillSafe, Unlaunched, Over, Ended, Exterminated
<1>7. SchedResume(j) => Others /\ Mine /\ Quiet
  BY <1>0 DEF SchedResume, FragJob, SetState, After, AlmightyFree, SameRow, LaunchSafe, PastLaunch,
              KillSafe, Unlaunched, Over, Ended, Exterminated
<1>8. Others /\ Mine /\ Quiet
  BY <1>1, <1>2, <1>3, <1>4, <1>5, <1>6, <1>7 DEF Metasched
<1> QED
  BY <1>8, QuietRow

(* So do Leon, Sarko and the passing of time *)
LEMMA KillersKill ==
  ASSUME IInv, KInv, NEW j \in Jobs, Killers(j) \/ FragAges(j)
  PROVE  KInv'
<1> USE DEF jobRow, fragRow, ncsVars, procVars, nodeVars, history
<1>0. /\ state \in [Jobs -> States] /\ pc \in [Jobs -> Labels] /\ lock \in [Jobs -> BOOLEAN]
      /\ frag \in [Jobs -> FragStates] /\ LaunchSafe(j) /\ (j \notin Noop => KillSafe(j)) /\ TypeOK
  BY Columns DEF IInv, KInv
<1> DEFINE Others == \A k \in Jobs \ {j} : SameRow(k)
<1> DEFINE Mine == j \notin Noop /\ (NoEnding(j) => NoEnding(j)') => KillSafe(j)'
<1> DEFINE Quiet == UNCHANGED <<events, todo, cur>>
<1>1. LeonKill(j) => Others /\ Mine /\ Quiet
  BY <1>0 DEF LeonKill, SetState, After, AlmightyFree, SameRow, LaunchSafe, PastLaunch,
              KillSafe, Unlaunched, Over, Ended, Exterminated
<1>2. LeonTooLate(j) => Others /\ Mine /\ Quiet
  BY <1>0 DEF LeonTooLate, AlmightyFree, SameRow, KillSafe, Exterminated
<1>3. LeonExterminate(j) => Others /\ Mine /\ Quiet
  <2>1. ASSUME LeonExterminate(j)
        PROVE  \A k \in Jobs \ {j} : pending'[k]["leon"] = pending[k]["leon"]
    BY <1>0, <2>1, NotifyRow DEF LeonExterminate, CommandKinds
  <2> QED
  BY <1>0, <2>1 DEF LeonExterminate, SetState, After, AlmightyFree, SameRow,
              KillSafe, Unlaunched, Over, Ended, Exterminated
<1>4. SarkoTimer(j) => Others /\ Mine /\ Quiet
  BY <1>0 DEF SarkoTimer, AlmightyFree, SameRow, KillSafe, Exterminated, Ended
<1>5. SarkoWalltime(j) => Others /\ Mine /\ Quiet
  BY <1>0 DEF SarkoWalltime, FragJob, AlmightyFree, SameRow, KillSafe, Exterminated
<1>6. FragAges(j) => Others /\ Mine /\ Quiet
  BY <1>0 DEF FragAges, SameRow, KillSafe, Exterminated
<1>7. Others /\ Mine /\ Quiet
  BY <1>1, <1>2, <1>3, <1>4, <1>5, <1>6 DEF Killers
<1> QED
  BY <1>7, QuietRow

(* What check_event does to the events known *)
LEMMA CheckedKnown ==
  ASSUME cur # NoEvent, NEW e, Checked(e), NEW k \in Jobs
  PROVE  (NoEnding(k) => NoEnding(k)') /\ SeenIsRead(k)
BY DEF NoEnding, Known, Checked, SeenIsRead

(* An event that switches its job is one that ends it *)
LEMMA SwitchEnds ==
  ASSUME NEW e, Target(e) # ""
  PROVE  e.type \in Ending /\ Target(e) \in Over
BY DEF Target, Ending, Over

(* NodeChangeState keeps it: an event ends a job only if the job was       *)
(* launched; and a job that Sarko gave up was read when it had ended       *)
LEMMA NodeChangeStateKill ==
  ASSUME IInv, KInv, NodeChangeState
  PROVE  KInv'
<1> USE DEF jobRow, fragRow, ncsVars, procVars, nodeVars, history
<1>0. /\ state \in [Jobs -> States] /\ pc \in [Jobs -> Labels] /\ lock \in [Jobs -> BOOLEAN]
      /\ frag \in [Jobs -> FragStates] /\ TypeOK
  BY Columns DEF IInv
<1>1. CASE NCSStart
  <2>1. ASSUME NEW k \in Jobs
        PROVE  Calm(k)
    BY <1>1 DEF NCSStart, Calm, SameRow, SeenIsRead, NoEnding, Known, AlmightyFree
  <2> QED
    BY <2>1, CalmJob DEF KInv
<1>2. CASE NCSRead
  <2>1. PICK e \in todo : todo' = todo \ {e} /\ cur' = [event |-> e, seen |-> state[e.job]]
    BY <1>2 DEF NCSRead
  <2>2. ASSUME NEW k \in Jobs
        PROVE  Calm(k)
    <3>1. SameRow(k)
      BY <1>2 DEF NCSRead, SameRow
    <3>2. cur'.event = e /\ cur'.seen = state[e.job]
      BY <2>1
    <3>3. SeenIsRead(k)
      BY <3>2 DEF SeenIsRead
    <3>4. \A f \in Known' : f \in Known
      BY <1>2, <2>1, <3>2 DEF NCSRead, Known
    <3>5. NoEnding(k) => NoEnding(k)'
      BY <3>4 DEF NoEnding
    <3> QED
      BY <3>1, <3>3, <3>5 DEF Calm
  <2> QED
    BY <2>2, CalmJob DEF KInv
<1>3. CASE NCSSwitch
  <2>0. PICK j \in Jobs : j = cur.event.job
    BY <1>0, <1>3 DEF NCSSwitch, TypeOK, IsEvent
  <2>1. cur # NoEvent /\ Checked(cur.event) /\ cur' = NoEvent
    BY <2>0, <1>0, <1>3 DEF NCSSwitch, TypeOK, IsEvent, Checked
  <2>2. \A k \in Jobs : (NoEnding(k) => NoEnding(k)') /\ SeenIsRead(k)
    BY <2>0, <2>1, CheckedKnown
  <2>3. ~NoEnding(j) /\ Target(cur.event) \in Over
    BY <2>0, <1>3, <2>1, SwitchEnds DEF NCSSwitch, NoEnding, Known
  <2>4. SetState(j, Target(cur.event)) /\ UNCHANGED <<pc, lock, frag, pending>>
    BY <2>0, <1>3 DEF NCSSwitch
  <2>5. j \notin Noop => KillSafe(j)
    BY <2>0, <2>1 DEF KInv
  <2>6. \A k \in Jobs \ {j} : Calm(k)
    BY <2>0, <1>0, <2>1, <2>2, <2>4 DEF Calm, SameRow, SetState
  <2>7. state'[j] \in Over /\ ~lock[j]
    BY <2>0, <1>0, <2>1, <2>3, <2>4 DEF SetState, After
  <2>8. j \notin Noop => KillSafe(j)'
    BY <2>0, <2>1, <2>2, <2>3, <2>4, <2>5, <2>7
       DEF KillSafe, Over, Unlaunched, Ended, Exterminated
  <2> QED
    BY <2>0, <2>1, <2>6, <2>8, OneJobMoves
<1>4. CASE NCSHold
  <2>0. PICK j \in Jobs : j = cur.event.job
    BY <1>0, <1>4 DEF NCSHold, TypeOK, IsEvent
  <2>00. PICK target : target = HoldTarget(cur.event.type, cur.seen)
    OBVIOUS
  <2>1. cur # NoEvent /\ Checked(cur.event) /\ cur' = NoEvent
    BY <2>0, <2>00, <1>0, <1>4 DEF NCSHold, TypeOK, IsEvent, Checked
  <2>2. \A k \in Jobs : (NoEnding(k) => NoEnding(k)') /\ SeenIsRead(k)
    BY <2>0, <2>00, <2>1, CheckedKnown
  <2>3. \/ target = "Suspended" /\ cur.seen = "Resuming"
        \/ target \in {"Waiting", "Hold"} /\ cur.seen \in {"Waiting", "Hold"}
    BY <2>0, <2>00, <1>4 DEF NCSHold, HoldTarget
  <2>4. SetState(j, target) /\ UNCHANGED <<pc, lock, frag, pending>>
    BY <2>0, <2>00, <1>4 DEF NCSHold
  <2>5. (j \notin Noop => KillSafe(j)) /\ LaunchSafe(j)
    BY <2>0, <2>00, <2>1 DEF KInv, IInv
  <2>6. cur.seen \in {"Waiting", "Hold"} => state[j] \in {"Waiting", "Hold"}
    BY <2>0, <2>00, <2>1 DEF IInv, SeenStillTrue
  <2>7. j \notin Noop => frag[j] # "FRAGGED"
    BY <2>0, <2>00, <2>1, <2>3, <2>5 DEF KillSafe, Ended, Over
  <2>8. \A k \in Jobs \ {j} : Calm(k)
    BY <2>0, <2>00, <1>0, <2>1, <2>2, <2>4 DEF Calm, SameRow, SetState
  <2>9. state'[j] = (IF state[j] \in Over THEN state[j] ELSE target) /\ ~lock[j]
    BY <2>0, <2>00, <1>0, <2>1, <2>4 DEF SetState, After
  <2>10. ASSUME j \notin Noop, target = "Suspended"
         PROVE  KillSafe(j)'
    BY <2>0, <2>00, <2>1, <2>2, <2>4, <2>5, <2>7, <2>9, <2>10
       DEF KillSafe, Over, Unlaunched, Ended, Exterminated
  <2>11. ASSUME j \notin Noop, target \in {"Waiting", "Hold"}
         PROVE  KillSafe(j)'
    <3>1. state[j] \in {"Waiting", "Hold"} /\ state'[j] = target
      BY <2>0, <2>00, <2>3, <2>6, <2>9, <2>11 DEF Over
    <3>2. pc[j] \notin {"launch", "flush", "report", "prologue", "exec", "setrun"}
      BY <2>0, <2>00, <2>5, <3>1 DEF LaunchSafe, PastLaunch, Unlaunched
    <3> QED
      BY <2>0, <2>00, <2>1, <2>2, <2>4, <2>5, <2>7, <2>9, <2>11, <3>1, <3>2
         DEF KillSafe, Unlaunched, Ended, Exterminated
  <2> QED
    BY <2>0, <2>00, <2>1, <2>3, <2>8, <2>10, <2>11, OneJobMoves
<1>5. CASE NCSSuspend
  <2>0. PICK j \in Jobs : j = cur.event.job
    BY <1>0, <1>5 DEF NCSSuspend, TypeOK, IsEvent
  <2>1. cur # NoEvent /\ Checked(cur.event) /\ cur' = NoEvent /\ cur.seen = "Running"
    BY <2>0, <1>0, <1>5 DEF NCSSuspend, TypeOK, IsEvent, Checked
  <2>2. \A k \in Jobs : (NoEnding(k) => NoEnding(k)') /\ SeenIsRead(k)
    BY <2>0, <2>1, CheckedKnown
  <2>3. /\ \/ SetState(j, "Suspended") /\ UNCHANGED frag
           \/ SetState(j, "Resuming") /\ UNCHANGED frag
           \/ FragJob(j) /\ UNCHANGED state
           \/ UNCHANGED <<state, frag>>
        /\ UNCHANGED <<pc, lock, pending>>
    BY <2>0, <1>5 DEF NCSSuspend
  <2>4. j \notin Noop => KillSafe(j)
    BY <2>0, <2>1 DEF KInv
  <2>5. j \notin Noop => frag[j] # "FRAGGED"
    BY <2>0, <2>1, <2>4 DEF KillSafe, Ended, Over
  <2>6. \A k \in Jobs \ {j} : Calm(k)
    BY <2>0, <1>0, <2>1, <2>2, <2>3 DEF Calm, SameRow, SetState, FragJob
  <2>7. j \notin Noop => KillSafe(j)'
    <3>1. \/ state'[j] = state[j]
          \/ state'[j] \in {"Suspended", "Resuming"} /\ ~lock[j] /\ state[j] \notin Over
      BY <2>0, <1>0, <2>1, <2>3 DEF SetState, After
    <3>2. frag'[j] = frag[j] \/ (frag[j] = "none" /\ frag'[j] = "LEON" /\ state'[j] = state[j])
      BY <2>0, <1>0, <2>1, <2>3 DEF FragJob
    <3> QED
      BY <2>0, <2>1, <2>2, <2>3, <2>4, <2>5, <3>1, <3>2 DEF KillSafe, Unlaunched, Ended, Over, Exterminated
  <2> QED
    BY <2>0, <2>1, <2>6, <2>7, OneJobMoves
<1>6. CASE NCSIgnore
  <2>1. ASSUME NEW k \in Jobs
        PROVE  Calm(k)
    BY <1>6, CheckedKnown DEF NCSIgnore, Calm, SameRow
  <2> QED
    BY <2>1, CalmJob DEF KInv
<1> QED
  BY <1>1, <1>2, <1>3, <1>4, <1>5, <1>6 DEF NodeChangeState

(* So do the user commands *)
LEMMA UsersKill ==
  ASSUME IInv, KInv, NEW j \in Jobs, Users(j)
  PROVE  KInv'
<1> USE DEF jobRow, fragRow, ncsVars, procVars, nodeVars, history
<1>0. /\ frag \in [Jobs -> FragStates] /\ (j \notin Noop => KillSafe(j)) /\ LaunchSafe(j)
  BY Columns DEF IInv, KInv
<1>1. CASE Oardel(j)
  <2>1. \A k \in Jobs \ {j} : SameRow(k)
    BY <1>0, <1>1 DEF Oardel, FragJob, SameRow
  <2>2. j \notin Noop /\ (NoEnding(j) => NoEnding(j)') => KillSafe(j)'
    BY <1>0, <1>1 DEF Oardel, FragJob, KillSafe, Exterminated
  <2> QED
    BY <1>1, <2>1, <2>2, QuietRow DEF Oardel
<1>2. CASE OardelForce(j)
  <2>1. j \notin Noop => KillSafe(j)'
    BY <1>0, <1>2 DEF OardelForce, KillSafe, Exterminated, Ended, Unlaunched
  <2> QED
    BY <1>2, <2>1, OneRow DEF OardelForce, SameRow
<1>3. CASE OarholdWaiting(j) \/ OarholdRunning(j) \/ Oarresume(j)
  <2>1. \E type \in HoldEvents \cup {"RESUME_JOB"} : Record(j, <<type>>)
    BY <1>3 DEF OarholdWaiting, OarholdRunning, Oarresume, HoldEvents
  <2>2. \E types : Record(j, types) /\ \A i \in DOMAIN types : types[i] \notin Ending
    BY <2>1 DEF HoldEvents, Ending, TerminateEvents, ErrorEvents, BadNodeEvents
  <2>3. UNCHANGED <<state, pc, lock, frag, pending, todo, cur>>
    BY <1>3 DEF OarholdWaiting, OarholdRunning, Oarresume
  <2>4. NoEnding(j) => NoEnding(j)'
    BY <2>2, <2>3, QuietEvents
  <2>5. j \notin Noop => KillSafe(j)'
    BY <1>0, <2>3, <2>4 DEF KillSafe, Exterminated
  <2> QED
    BY <2>2, <2>3, <2>5, OneRow DEF SameRow
<1> QED
  BY <1>1, <1>2, <1>3 DEF Users

(* So do the commander and oarexec *)
LEMMA StartKill ==
  ASSUME IInv, KInv, NEW j \in Jobs, NEW kind \in CommandKinds, Start(j, kind)
  PROVE  KInv'
<1> USE DEF jobRow, fragRow, ncsVars, procVars, nodeVars, history
<1>0. /\ pc \in [Jobs -> Labels] /\ (j \notin Noop => KillSafe(j)) /\ TypeOK
      /\ pending[j]["leon"] \in Nat
  BY Columns, KindNames DEF IInv, KInv
<1>1. /\ \A k \in Jobs \ {j} : pending'[k]["leon"] = pending[k]["leon"]
      /\ pending'[j]["leon"] \in Nat /\ pending'[j]["leon"] <= pending[j]["leon"]
      /\ pending[j][kind] > 0
  BY <1>0, StartRow
<1>2. /\ \A k \in Jobs \ {j} : pc'[k] = pc[k]
      /\ pc'[j] \in {"readRun", "readEnd"} \/ (pc'[j] = "leon" /\ kind = "leon")
      /\ pc[j] = "idle"
  BY <1>0 DEF Start, Goto, StartLabel, CommandKinds
<1>3. UNCHANGED <<state, lock, frag, events, todo, cur>>
  BY DEF Start
<1>4. \A k \in Jobs \ {j} : SameRow(k)
  BY <1>1, <1>2, <1>3 DEF SameRow
<1>5. pc'[j] = "leon" \/ pending'[j]["leon"] > 0 => pending[j]["leon"] > 0
  BY <1>0, <1>1, <1>2
<1>6. ASSUME j \notin Noop, NoEnding(j) => NoEnding(j)'
      PROVE  KillSafe(j)'
  BY <1>0, <1>2, <1>3, <1>5, <1>6 DEF KillSafe, Exterminated
<1> QED
  BY <1>3, <1>4, <1>6, QuietRow

LEMMA OarexecKill ==
  ASSUME IInv, KInv, NEW j \in Jobs, Oarexec(j)
  PROVE  KInv'
<1> USE DEF jobRow, fragRow, ncsVars, procVars, nodeVars, history
<1>0. (j \notin Noop => KillSafe(j)) /\ TypeOK
  BY DEF IInv, KInv
<1>1. \A k \in Jobs : pending'[k]["leon"] = pending[k]["leon"]
  BY <1>0, NotifyRow, KindNames DEF Oarexec, OarexecEnds, OarexecDies
<1>2. UNCHANGED <<state, pc, lock, frag, events, todo, cur>>
  BY DEF Oarexec, OarexecEnds, OarexecDies
<1>3. j \notin Noop /\ (NoEnding(j) => NoEnding(j)') => KillSafe(j)'
  BY <1>0, <1>1, <1>2 DEF KillSafe, Exterminated
<1> QED
  BY <1>1, <1>2, <1>3, QuietRow DEF SameRow

(* bipbip keeps it while it prepares the job: it takes the job in toLaunch, *)
(* that nothing has ended, and only Leon can end it from then on           *)
LEMMA BipbipLaunchKill ==
  ASSUME IInv, KInv, NEW j \in Jobs,
         BipbipRead(j) \/ BipbipLaunch(j) \/ BipbipFlush(j)
           \/ BipbipNoop(j) \/ BipbipPrepare(j)
  PROVE  KInv'
<1> USE DEF jobRow, fragRow, ncsVars, procVars, nodeVars, history
<1> DEFINE Others == \A k \in Jobs \ {j} : SameRow(k)
<1> DEFINE Mine == j \notin Noop /\ (NoEnding(j) => NoEnding(j)') => KillSafe(j)'
<1> DEFINE Quiet == UNCHANGED <<events, todo, cur>>
<1>0. /\ state \in [Jobs -> States] /\ pc \in [Jobs -> Labels] /\ lock \in [Jobs -> BOOLEAN]
      /\ LaunchSafe(j) /\ (j \notin Noop => KillSafe(j))
  BY Columns DEF IInv, KInv
<1>1. BipbipRead(j) => Others /\ Mine /\ Quiet
  BY <1>0 DEF BipbipRead, Goto, Exit, SameRow, KillSafe, Unlaunched, Started, Over, Ended,
              Exterminated
<1>2. BipbipLaunch(j) => Others /\ Mine /\ Quiet
  BY <1>0 DEF BipbipLaunch, Goto, SetState, After, SameRow, KillSafe, Unlaunched, Over, Ended,
              Exterminated
<1>3. BipbipFlush(j) => Others /\ Mine /\ Quiet
  BY <1>0 DEF BipbipFlush, Goto, SameRow, KillSafe, Unlaunched, Over, Ended, Exterminated
<1>4. CASE BipbipNoop(j)
  <2>1. j \in Noop
    BY <1>0, <1>4 DEF BipbipNoop, LaunchSafe, KillSafe
  <2>2. Others
    BY <1>0, <1>4 DEF BipbipNoop, Goto, Exit, SameRow
  <2> QED
    BY <1>4, <2>1, <2>2, OneRow DEF BipbipNoop
<1>5. BipbipPrepare(j) => Others /\ Mine /\ Quiet
  BY <1>0 DEF BipbipPrepare, Goto, Exit, Commit, SameRow, KillSafe, Unlaunched, Over, Ended,
              Exterminated
<1> QED
  BY <1>1, <1>2, <1>3, <1>4, <1>5, QuietRow

(* It keeps it while it starts oarexec: what it records ends a job that    *)
(* was launched, and what it commits is not the state of an ended job      *)
LEMMA BipbipExecKill ==
  ASSUME IInv, KInv, NEW j \in Jobs,
         BipbipReport(j) \/ BipbipPrologue(j) \/ BipbipExec(j)
           \/ BipbipQuit(j) \/ BipbipSetRunning(j)
  PROVE  KInv'
<1> USE DEF jobRow, fragRow, ncsVars, procVars, nodeVars, history
<1> DEFINE Others == \A k \in Jobs \ {j} : SameRow(k)
<1> DEFINE Mine == j \notin Noop /\ (NoEnding(j) => NoEnding(j)') => KillSafe(j)'
<1> DEFINE Quiet == UNCHANGED <<events, todo, cur>>
<1>0. /\ state \in [Jobs -> States] /\ pc \in [Jobs -> Labels] /\ lock \in [Jobs -> BOOLEAN]
      /\ LaunchSafe(j) /\ (j \notin Noop => KillSafe(j))
  BY Columns DEF IInv, KInv
<1>1. CASE BipbipReport(j)
  <2>1. Others /\ UNCHANGED <<todo, cur>> /\ \E types : Record(j, types)
    BY <1>0, <1>1 DEF BipbipReport, Goto, Exit, SameRow
  <2>2. j \notin Noop => KillSafe(j)'
    BY <1>0, <1>1 DEF BipbipReport, Goto, Exit, LaunchSafe, PastLaunch, KillSafe, Exterminated
  <2> QED
    BY <2>1, <2>2, OneRow
<1>2. CASE BipbipPrologue(j)
  <2>1. Others /\ UNCHANGED <<todo, cur>> /\ (events' = events \/ \E types : Record(j, types))
    BY <1>0, <1>2 DEF BipbipPrologue, Goto, Commit, SameRow
  <2>2. CASE UNCHANGED <<state, lock, events>>
    <3>1. Mine
      BY <1>0, <1>2, <2>2 DEF BipbipPrologue, Goto, KillSafe, Exterminated
    <3> QED
      BY <2>1, <2>2, <3>1, QuietRow
  <2>3. CASE Commit(j)
    <3>1. j \notin Noop => KillSafe(j)'
      BY <1>0, <1>2, <2>3
         DEF BipbipPrologue, Goto, Commit, LaunchSafe, PastLaunch, KillSafe, Unlaunched, Over,
             Ended, Exterminated
    <3> QED
      BY <2>1, <3>1, OneRow
  <2> QED
    BY <1>2, <2>2, <2>3 DEF BipbipPrologue
<1>3. BipbipExec(j) => Others /\ Mine /\ Quiet
  BY <1>0 DEF BipbipExec, Goto, SeenByProcess, Started, SameRow, KillSafe, Exterminated
<1>4. BipbipQuit(j) => Others /\ Mine /\ Quiet
  BY <1>0 DEF BipbipQuit, Goto, Exit, SameRow, KillSafe, Exterminated
<1>5. BipbipSetRunning(j) => Others /\ Mine /\ Quiet
  BY <1>0 DEF BipbipSetRunning, Goto, Exit, After, SameRow, KillSafe, Unlaunched, Over, Ended,
              Exterminated
<1> QED
  BY <1>1, <1>2, <1>3, <1>4, <1>5, QuietRow

(* So do the end of a job and of a process *)
LEMMA EndKill ==
  ASSUME IInv, KInv, NEW j \in Jobs,
         BipbipFinish(j) \/ BipbipSequence(j) \/ LeonProcess(j) \/ ProcessDies(j)
  PROVE  KInv'
<1> USE DEF jobRow, fragRow, ncsVars, procVars, nodeVars, history
<1> DEFINE Others == \A k \in Jobs \ {j} : SameRow(k)
<1> DEFINE Mine == j \notin Noop /\ (NoEnding(j) => NoEnding(j)') => KillSafe(j)'
<1> DEFINE Quiet == UNCHANGED <<events, todo, cur>>
<1>0. /\ state \in [Jobs -> States] /\ pc \in [Jobs -> Labels] /\ lock \in [Jobs -> BOOLEAN]
      /\ frag \in [Jobs -> FragStates] /\ (j \notin Noop => KillSafe(j))
  BY Columns DEF IInv, KInv
<1>1. BipbipFinish(j) => Others /\ Mine /\ Quiet
  BY <1>0 DEF BipbipFinish, Goto, Commit, SetState, After, SameRow, KillSafe, Unlaunched, Over,
              Ended, Exterminated
<1>2. CASE BipbipSequence(j) \/ LeonSequence(j)
  <2>1. Others /\ UNCHANGED <<todo, cur>> /\ \E types : Record(j, types)
    BY <1>0, <1>2 DEF BipbipSequence, LeonSequence, Goto, Exit, SameRow
  <2>2. j \notin Noop => KillSafe(j)'
    BY <1>0, <1>2 DEF BipbipSequence, LeonSequence, Goto, Exit, KillSafe, Exterminated
  <2> QED
    BY <2>1, <2>2, OneRow
<1>3. LeonArm(j) => Others /\ Mine /\ Quiet
  BY <1>0 DEF LeonArm, Goto, SameRow, KillSafe, Exterminated
<1>4. ProcessDies(j) => Others /\ Mine /\ Quiet
  BY <1>0 DEF ProcessDies, Goto, Exit, SameRow, KillSafe, Exterminated
<1> QED
  BY <1>1, <1>2, <1>3, <1>4, QuietRow DEF LeonProcess

(* KInv is inductive, beside IInv *)
THEOREM KillInductive == Spec => []KInv
<1>1. Init => KInv
  BY DEF Init, KInv, KillSafe, NoEnding, Known, Exterminated, CommandKinds
<1>2. IInv /\ KInv /\ [Next]_vars => KInv'
  <2> SUFFICES ASSUME IInv, KInv, [Next]_vars PROVE KInv'
    OBVIOUS
  <2>1. CASE UNCHANGED vars
    <3>1. ASSUME NEW k \in Jobs
          PROVE  Calm(k)
      BY <2>1 DEF vars, jobRow, fragRow, ncsVars, procVars, Calm, SameRow, SeenIsRead, NoEnding, Known
    <3> QED
      BY <3>1, CalmJob DEF KInv
  <2>2. CASE NodeChangeState
    BY <2>2, NodeChangeStateKill
  <2>3. ASSUME NEW j \in Jobs,
               Metasched(j) \/ Killers(j) \/ FragAges(j) \/ Users(j)
        PROVE  KInv'
    BY <2>3, MetaschedKill, KillersKill, UsersKill
  <2>4. ASSUME NEW j \in Jobs, NEW kind \in CommandKinds, Start(j, kind)
        PROVE  KInv'
    BY <2>4, StartKill
  <2>5. ASSUME NEW j \in Jobs,
               Bipbip(j) \/ LeonProcess(j) \/ ProcessDies(j) \/ Oarexec(j)
        PROVE  KInv'
    BY <2>5, BipbipLaunchKill, BipbipExecKill, EndKill, OarexecKill DEF Bipbip
  <2> QED
    BY <2>1, <2>2, <2>3, <2>4, <2>5 DEF Next
<1> QED
  BY <1>1, <1>2, Inductive, PTL DEF Spec

(* A deletion that Sarko gives up for good (FRAGGED) is one of a job that  *)
(* has ended and stays so, noop jobs excepted: no process is left that     *)
(* would write Launching or Running over the end (bipbip.py:158), and      *)
(* NodeChangeState does not bring the job back (sarko.py, set_job_state).  *)
THEOREM FraggedForGood == Spec => []FraggedJobIsOver
<1>1. KInv => FraggedJobIsOver
  BY DEF KInv, KillSafe, Ended, FraggedJobIsOver
<1> QED
  BY <1>1, KillInductive, PTL

-----------------------------------------------------------------------------
(* The promise. A step moves one job; it goes back to pending only if its  *)
(* command was not started (LaunchSafe), and it stays over once it is, for *)
(* only a process that has it would write its row (OverKept).              *)

Still(k) == state'[k] = state[k] /\ pc'[k] = pc[k] /\ lock'[k] = lock[k]

Taking(k) == Taken(k)' => Taken(k) \/ state[k] = "toLaunch"

LEMMA PhaseValues ==
  ASSUME NEW j \in Jobs
  PROVE  /\ Phase(j) \in {"pending", "active", "over"}
         /\ Phase(j) = "over" <=> ~Taken(j) /\ state[j] \in Over
         /\ Phase(j) = "pending" <=> ~Taken(j) /\ state[j] \in Unlaunched
BY DEF Phase, Over, Unlaunched

LEMMA PhaseStays ==
  ASSUME NEW k \in Jobs, Still(k)
  PROVE  Phase(k)' = Phase(k)
BY DEF Still, Phase, Taken

(* A move that the promise allows *)
LEMMA MoveIsPromised ==
  ASSUME TypeOK, TypeOK', NEW j \in Jobs,
         \A k \in Jobs \ {j} : Phase(k)' = Phase(k) /\ started'[k] = started[k],
         \/ /\ started'[j] = started[j]
            /\ \/ Phase(j)' = Phase(j)
               \/ Phase(j) = "pending" /\ Phase(j)' = "active"
               \/ Phase(j) = "active" /\ Phase(j)' = "pending" /\ started[j] = 0
               \/ Phase(j) # "over" /\ Phase(j)' = "over"
         \/ /\ Phase(j) = "active" /\ Phase(j)' = "active"
            /\ started[j] = 0 /\ started'[j] = 1
  PROVE  [JP!PNext]_(JP!pvars)
<1> DEFINE before == [k \in Jobs |-> Phase(k)]
           after == [k \in Jobs |-> Phase(k)']
<1>1. after = [before EXCEPT ![j] = Phase(j)']
  OBVIOUS
<1>2. before[j] = Phase(j)
  OBVIOUS
<1>3. started \in [Jobs -> Nat] /\ started' \in [Jobs -> Nat]
  BY DEF TypeOK
<1>4. started' = [started EXCEPT ![j] = started'[j]]
  BY <1>3
<1>5. CASE started'[j] = started[j]
  <2>1. started' = started
    BY <1>3, <1>5
  <2>2. CASE Phase(j)' = Phase(j)
    <3>1. after = before
      BY <2>2
    <3> QED
      BY <2>1, <2>2, <3>1 DEF JP!pvars
  <2>3. CASE Phase(j) = "pending" /\ Phase(j)' = "active"
    <3>1. JP!Take(j)
      BY <1>1, <1>2, <2>1, <2>3 DEF JP!Take
    <3> QED
      BY <3>1 DEF JP!PNext
  <2>4. CASE Phase(j) = "active" /\ Phase(j)' = "pending" /\ started[j] = 0
    <3>1. JP!GiveUp(j)
      BY <1>1, <1>2, <2>1, <2>4 DEF JP!GiveUp
    <3> QED
      BY <3>1 DEF JP!PNext
  <2>5. CASE Phase(j) # "over" /\ Phase(j)' = "over"
    <3>1. JP!Close(j)
      BY <1>1, <1>2, <2>1, <2>5 DEF JP!Close
    <3> QED
      BY <3>1 DEF JP!PNext
  <2> QED
    BY <1>5, <2>2, <2>3, <2>4, <2>5
<1>6. CASE /\ Phase(j) = "active" /\ Phase(j)' = "active"
           /\ started[j] = 0 /\ started'[j] = 1
  <2>1. after = before
    BY <1>6
  <2>2. started' = [started EXCEPT ![j] = 1]
    BY <1>4, <1>6
  <2>3. JP!Run(j)
    BY <1>2, <1>6, <2>1, <2>2 DEF JP!Run
  <2> QED
    BY <2>3 DEF JP!PNext
<1> QED
  BY <1>5, <1>6

(* A step that starts no command *)
LEMMA RowIsPromised ==
  ASSUME TypeOK, IInv', NEW j \in Jobs, \A k \in Jobs \ {j} : Still(k),
         started' = started, OverKept, Taking(j)
  PROVE  [JP!PNext]_(JP!pvars)
<1>1. \A k \in Jobs \ {j} : Phase(k)' = Phase(k) /\ started'[k] = started[k]
  BY PhaseStays
<1>2. LaunchSafe(j)' /\ TypeOK'
  BY DEF IInv
<1>3. /\ Phase(j) \in {"pending", "active", "over"}
      /\ Phase(j) = "over" <=> ~Taken(j) /\ state[j] \in Over
      /\ Phase(j) = "pending" <=> ~Taken(j) /\ state[j] \in Unlaunched
  BY PhaseValues
<1>4. /\ Phase(j)' \in {"pending", "active", "over"}
      /\ Phase(j)' = "over" <=> ~Taken(j)' /\ state'[j] \in Over
      /\ Phase(j)' = "pending" <=> ~Taken(j)' /\ state'[j] \in Unlaunched
  BY DEF Phase, Over, Unlaunched
<1>5. Phase(j) = "over" => Phase(j)' = "over"
  <2>1. ASSUME Phase(j) = "over"
        PROVE  ~Taken(j)' /\ state'[j] \in Over
    <3>1. ~Taken(j) /\ state[j] \in Over /\ ~lock[j]
      BY <1>3, <2>1 DEF Taken
    <3>2. state'[j] = state[j]
      BY <3>1 DEF OverKept
    <3>3. state[j] # "toLaunch"
      BY <3>1 DEF Over
    <3> QED
      BY <3>1, <3>2, <3>3 DEF Taking
  <2> QED
    BY <1>4, <2>1
<1>6. Phase(j)' = "pending" => started[j] = 0
  BY <1>2, <1>4 DEF LaunchSafe
<1> QED
  BY <1>1, <1>2, <1>3, <1>4, <1>5, <1>6, MoveIsPromised

(* A step that changes no row *)
LEMMA StillIsPromised ==
  ASSUME UNCHANGED <<state, pc, lock, started>>
  PROVE  [JP!PNext]_(JP!pvars)
<1>1. \A k \in Jobs : Phase(k)' = Phase(k)
  BY DEF Phase, Taken
<1>2. [k \in Jobs |-> Phase(k)'] = [k \in Jobs |-> Phase(k)]
  BY <1>1
<1> QED
  BY <1>2 DEF JP!pvars

(* A step of Almighty, which starts no process *)
LEMMA AlmightyIsPromised ==
  ASSUME IInv, IInv', NodeChangeState \/ \E j \in Jobs : Metasched(j) \/ Killers(j)
  PROVE  [JP!PNext]_(JP!pvars)
<1>0. TypeOK /\ state \in [Jobs -> States]
  BY DEF IInv, TypeOK
<1>1. UNCHANGED <<pc, lock, started>>
  BY DEF NodeChangeState, NCSStart, NCSRead, NCSSwitch, NCSHold, NCSSuspend, NCSIgnore, Metasched,
         SchedReserve, SchedExpire, SchedLaunch, SchedRelaunch, SchedError, SchedAck, SchedResume,
         Killers, LeonKill, LeonTooLate, LeonExterminate, SarkoTimer, SarkoWalltime,
         jobRow, nodeVars, procVars
<1>2. state' = state \/ \E j \in Jobs : \E s : SetState(j, s)
  <2>1. CASE NodeChangeState
    <3>1. cur # NoEvent => cur.event.job \in Jobs
      BY <1>0 DEF TypeOK, IsEvent
    <3> QED
      BY <2>1, <3>1 DEF NodeChangeState, NCSStart, NCSRead, NCSSwitch, NCSHold,
                NCSSuspend, NCSIgnore, jobRow
  <2>2. ASSUME NEW j \in Jobs, Metasched(j)
        PROVE  state' = state \/ \E s : SetState(j, s)
    BY <2>2 DEF Metasched, SchedReserve, SchedExpire, SchedLaunch, SchedRelaunch,
                SchedError, SchedAck, SchedResume, jobRow
  <2>3. ASSUME NEW j \in Jobs, Killers(j)
        PROVE  state' = state \/ \E s : SetState(j, s)
    BY <2>3 DEF Killers, LeonKill, LeonTooLate, LeonExterminate, SarkoTimer,
                SarkoWalltime, jobRow
  <2> QED
    BY <2>1, <2>2, <2>3
<1>3. CASE state' = state
  BY <1>1, <1>3, StillIsPromised
<1>4. ASSUME NEW j \in Jobs, NEW s, SetState(j, s)
      PROVE  [JP!PNext]_(JP!pvars)
  <2>1. OverKept
    BY <1>0, AlmightyKeepsOver
  <2>2. (\A k \in Jobs \ {j} : Still(k)) /\ Taking(j)
    BY <1>0, <1>1, <1>4 DEF SetState, Still, Taking, Taken
  <2> QED
    BY <1>0, <1>1, <2>1, <2>2, RowIsPromised
<1> QED
  BY <1>2, <1>3, <1>4

(* A step of bipbip, which starts the command in one place *)
LEMMA BipbipIsPromised ==
  ASSUME IInv, IInv', NEW j \in Jobs, Bipbip(j)
  PROVE  [JP!PNext]_(JP!pvars)
<1> USE DEF jobRow, nodeVars, procVars
<1>0. /\ state \in [Jobs -> States] /\ pc \in [Jobs -> Labels] /\ lock \in [Jobs -> BOOLEAN]
      /\ started \in [Jobs -> Nat] /\ LaunchSafe(j) /\ TypeOK
  BY DEF IInv, TypeOK
<1> DEFINE Others == \A k \in Jobs \ {j} : Still(k)
<1>1. CASE BipbipRead(j) \/ BipbipLaunch(j) \/ BipbipFlush(j) \/ BipbipNoop(j)
  <2>1. Others /\ Taking(j) /\ started' = started
    BY <1>0, <1>1 DEF BipbipRead, BipbipLaunch, BipbipFlush, BipbipNoop, Goto, Exit, SetState,
                      Still, Taking, Taken, InLaunch
  <2> QED
    BY <1>0, <2>1, BipbipKeepsOver, RowIsPromised
<1>2. CASE BipbipPrepare(j) \/ BipbipReport(j) \/ BipbipPrologue(j) \/ BipbipQuit(j)
  <2>1. Others /\ Taking(j) /\ started' = started
    BY <1>0, <1>2 DEF BipbipPrepare, BipbipReport, BipbipPrologue, BipbipQuit, Goto, Exit, Commit,
                      Still, Taking, Taken, InLaunch
  <2> QED
    BY <1>0, <2>1, BipbipKeepsOver, RowIsPromised
<1>3. CASE BipbipSetRunning(j) \/ BipbipFinish(j) \/ BipbipSequence(j)
  <2>1. Others /\ Taking(j) /\ started' = started
    BY <1>0, <1>3 DEF BipbipSetRunning, BipbipFinish, BipbipSequence, Goto, Exit, Commit, SetState,
                      Still, Taking, Taken, InLaunch
  <2> QED
    BY <1>0, <2>1, BipbipKeepsOver, RowIsPromised
<1>4. CASE BipbipExec(j)
  <2>1. Others
    BY <1>0, <1>4 DEF BipbipExec, Goto, Still
  <2>2. /\ \A k \in Jobs \ {j} : started'[k] = started[k]
        /\ started'[j] \in {0, 1} /\ started[j] = 0
    BY <1>0, <1>4 DEF BipbipExec, LaunchSafe, BeforeExec
  <2>3. Phase(j) = "active"
    BY <1>4 DEF BipbipExec, Phase, Taken, InLaunch
  <2>4. Taken(j)' \/ state'[j] \in Started
    BY <1>0, <1>4 DEF BipbipExec, Goto, SeenByProcess, Taken, InLaunch
  <2>5. state'[j] \in Started => state'[j] \notin Over \cup Unlaunched
    BY DEF Started, Over, Unlaunched
  <2>6. Phase(j)' = "active"
    BY <2>4, <2>5 DEF Phase
  <2>7. TypeOK'
    BY DEF IInv
  <2>8. \A k \in Jobs \ {j} : Phase(k)' = Phase(k)
    BY <2>1, PhaseStays
  <2> QED
    BY <1>0, <2>2, <2>3, <2>6, <2>7, <2>8, MoveIsPromised
<1> QED
  BY <1>1, <1>2, <1>3, <1>4 DEF Bipbip

(* The other processes, and the users *)
LEMMA OthersArePromised ==
  ASSUME IInv, IInv', NEW j \in Jobs,
         \/ FragAges(j) \/ Users(j) \/ LeonProcess(j) \/ ProcessDies(j) \/ Oarexec(j)
         \/ \E kind \in CommandKinds : Start(j, kind)
  PROVE  [JP!PNext]_(JP!pvars)
<1> USE DEF jobRow, nodeVars, procVars
<1>0. /\ pc \in [Jobs -> Labels] /\ lock \in [Jobs -> BOOLEAN] /\ TypeOK
  BY DEF IInv, TypeOK
<1>1. state' = state /\ started' = started
  BY DEF FragAges, Users, Oardel, OardelForce, OarholdWaiting, OarholdRunning, Oarresume,
         LeonProcess, LeonArm, LeonSequence, ProcessDies, Oarexec, OarexecEnds, OarexecDies, Start
<1>2. OverKept
  BY <1>1 DEF OverKept
<1>3. (\A k \in Jobs \ {j} : Still(k)) /\ Taking(j)
  <2>1. CASE FragAges(j) \/ Users(j) \/ Oarexec(j)
    BY <1>1, <2>1 DEF FragAges, Users, Oardel, OardelForce, OarholdWaiting, OarholdRunning,
                      Oarresume, Oarexec, OarexecEnds, OarexecDies, Still, Taking, Taken
  <2>2. CASE LeonProcess(j) \/ ProcessDies(j)
    BY <1>0, <1>1, <2>2 DEF LeonProcess, LeonArm, LeonSequence, ProcessDies, Goto, Exit, Still,
                      Taking, Taken, InLaunch
  <2>3. ASSUME NEW kind \in CommandKinds, Start(j, kind)
        PROVE  (\A k \in Jobs \ {j} : Still(k)) /\ Taking(j)
    BY <1>0, <1>1, <2>3 DEF Start, Goto, StartLabel, CommandKinds, Still, Taking, Taken, InLaunch
  <2> QED
    BY <2>1, <2>2, <2>3
<1> QED
  BY <1>0, <1>1, <1>2, <1>3, RowIsPromised

(* What OAR promises of a job (JobPromise) is kept by its tables, its      *)
(* processes and their commits: a job is taken, its command is started at  *)
(* most once, and nothing happens to it once it is over (bipbip.py, run;   *)
(* job_handling.py, set_job_state).                                        *)
THEOREM PromiseIsKept == Spec => ImplementsJobPromise
<1>1. Init => JP!PInit
  <2> SUFFICES ASSUME Init PROVE JP!PInit
    OBVIOUS
  <2>1. ASSUME NEW j \in Jobs
        PROVE  Phase(j) = "pending"
    BY DEF Init, Phase, Taken, InLaunch, Over, Unlaunched
  <2>2. [j \in Jobs |-> Phase(j)] = [j \in Jobs |-> "pending"]
    BY <2>1
  <2> QED
    BY <2>2 DEF Init, JP!PInit
<1>2. IInv /\ IInv' /\ [Next]_vars => [JP!PNext]_(JP!pvars)
  <2> SUFFICES ASSUME IInv, IInv', [Next]_vars PROVE [JP!PNext]_(JP!pvars)
    OBVIOUS
  <2>1. CASE UNCHANGED vars
    BY <2>1, StillIsPromised DEF vars, jobRow, procVars, nodeVars
  <2>2. CASE NodeChangeState \/ \E j \in Jobs : Metasched(j) \/ Killers(j)
    BY <2>2, AlmightyIsPromised
  <2>3. ASSUME NEW j \in Jobs, Bipbip(j)
        PROVE  [JP!PNext]_(JP!pvars)
    BY <2>3, BipbipIsPromised
  <2>4. ASSUME NEW j \in Jobs,
               \/ FragAges(j) \/ Users(j) \/ LeonProcess(j) \/ ProcessDies(j) \/ Oarexec(j)
               \/ \E kind \in CommandKinds : Start(j, kind)
        PROVE  [JP!PNext]_(JP!pvars)
    BY <2>4, OthersArePromised
  <2> QED
    BY <2>1, <2>2, <2>3, <2>4 DEF Next
<1> QED
  BY <1>1, <1>2, Inductive, PTL DEF Spec, ImplementsJobPromise, JP!PSpec

=============================================================================
